---------------------- MODULE TiledFactorizationsProofs ----------------------
(***************************************************************************)
(* The depend clauses suffice: for every routine, matrix, tile size and    *)
(* block size, tasks that OpenMP may run at the same time are disjoint.    *)
(***************************************************************************)
EXTENDS TiledFactorizations, FiniteSumProofs

Task == [kind : {"diagonal", "solve", "solveRow", "update"},
         i : Nat, row : Nat, column : Nat]

\* Where the tasks of a step work.
Placed(t) ==
    /\ t.kind = "diagonal" => t.row = t.i /\ t.column = t.i
    /\ t.kind = "solve" => t.row > t.i /\ t.column = t.i
    /\ t.kind = "solveRow" => t.row = t.i /\ t.column > t.i
    /\ t.kind = "update" => t.row > t.i /\ t.column > t.i

TasksInv ==
    /\ call \in Calls
    /\ current \in Nat
    /\ tasks \subseteq Task
    /\ \A t \in tasks : Placed(t)

\* The diagonal task belongs to the present step and is the last one.
StepInv ==
    \A t \in tasks : IF t.kind = "diagonal" THEN t.i = current
                     ELSE t.i < current

\* What a solve reads of the diagonal has been factored, and nothing is left
\* that would write there: neither an update nor the diagonal task itself.
DiagonalInv ==
    \A s, t \in tasks :
        s.kind \in {"solve", "solveRow"} /\ t.row = t.column => t.row # s.i

\* When the diagonal task of the step has run, so have the updates of its tile,
\* for which it waits.
UpdatedInv ==
    DiagonalFactored =>
        \A t \in tasks : ~(t.row = current /\ t.column = current)

IndInv == TasksInv /\ StepInv /\ DiagonalInv /\ UpdatedInv

-----------------------------------------------------------------------------
\* Two different tasks were created one before the other.
LEMMA OrderTotal ==
    ASSUME NEW s \in Task, NEW t \in Task, s # t
    PROVE  Earlier(s, t) \/ Earlier(t, s)
<1>1. s.i # t.i \/ s.kind # t.kind \/ s.column # t.column \/ s.row # t.row
  BY DEF Task
<1>2. /\ s.i \in Nat /\ s.column \in Nat /\ s.row \in Nat
      /\ t.i \in Nat /\ t.column \in Nat /\ t.row \in Nat
  BY DEF Task
<1>3. /\ LoopOf(s) \in 0..3 /\ LoopOf(t) \in 0..3
      /\ LoopOf(s) = LoopOf(t) => s.kind = t.kind
  BY DEF Task, LoopOf
<1> QED
  BY <1>1, <1>2, <1>3 DEF Earlier

\* Of two tasks that conflict, at most one is ready.
LEMMA ReadyWithoutConflict ==
    ASSUME TasksInv, NEW s \in tasks, NEW t \in tasks, s # t,
           Ready(s), Ready(t)
    PROVE  ~Conflicts(s, t)
<1>1. Earlier(s, t) \/ Earlier(t, s)
  BY OrderTotal DEF TasksInv
<1>2. CASE Earlier(s, t)
  BY <1>2 DEF Ready, Conflicts
<1>3. CASE Earlier(t, s)
  BY <1>3 DEF Ready, Conflicts
<1> QED
  BY <1>1, <1>2, <1>3

\* Tasks without a conflict do not touch the same tile, unless both read it:
\* the clauses name what they share, but for the diagonal tile of a solve,
\* which nobody writes any more, and the tiles of the buffer, which are
\* written by the task that writes the tile of the matrix in the same place.
LEMMA DisjointWithoutConflict ==
    ASSUME TasksInv, DiagonalInv, NEW s \in tasks, NEW t \in tasks,
           ~Conflicts(s, t)
    PROVE  Writes(s) \cap (Reads(t) \cup Writes(t)) = {}
<1>1. /\ s \in Task /\ t \in Task
      /\ Placed(s) /\ Placed(t)
  BY DEF TasksInv
<1>2. <<s.row, s.column>> # <<t.row, t.column>>
  BY DEF Conflicts, DependInOut
<1>3. <<s.row, s.column>> \notin DependIn(t)
  BY DEF Conflicts, DependInOut
<1>4. Writes(s) \cap Writes(t) = {}
  BY <1>1, <1>2 DEF Writes, Placed, Task
<1>5. Writes(s) \cap Reads(t) = {}
  <2>1. CASE t.kind = "diagonal"
    BY <2>1 DEF Reads
  <2>2. CASE t.kind \in {"solve", "solveRow"}
    <3>1. s.row = s.column => s.row # t.i
      BY <2>2 DEF DiagonalInv
    <3>2. <<s.row, s.column>> # <<t.i, t.i>>
      BY <3>1
    <3>3. Reads(t) = {<<"matrix", t.i, t.i>>}
      BY <2>2 DEF Reads
    <3> QED
      BY <3>2, <3>3 DEF Writes
  <2>3. CASE t.kind = "update" /\ IsLU
    <3>1. Reads(t) = {<<"matrix", t.row, t.i>>, <<"matrix", t.i, t.column>>}
      BY <2>3 DEF Reads, IsLU, UsesFactor
    <3>2. DependIn(t) = {<<t.row, t.i>>, <<t.i, t.column>>}
      BY <2>3 DEF DependIn
    <3> QED
      BY <1>3, <3>1, <3>2 DEF Writes
  <2>4. CASE t.kind = "update" /\ ~IsLU /\ UsesFactor
    <3>1. Reads(t) = {<<"matrix", t.row, t.i>>, <<"factor", t.column, t.i>>}
      BY <2>4 DEF Reads
    <3>2. DependIn(t) = {<<t.row, t.i>>, <<t.column, t.i>>}
      BY <2>4 DEF DependIn
    <3>3. s.kind = "solve" => s.column = s.i
      BY <1>1 DEF Placed
    <3> QED
      BY <1>3, <3>1, <3>2, <3>3 DEF Writes
  <2>5. CASE t.kind = "update" /\ ~IsLU /\ ~UsesFactor
    <3>1. Reads(t) = {<<"matrix", t.row, t.i>>, <<"matrix", t.column, t.i>>}
      BY <2>5 DEF Reads
    <3>2. DependIn(t) = {<<t.row, t.i>>, <<t.column, t.i>>}
      BY <2>5 DEF DependIn
    <3> QED
      BY <1>3, <3>1, <3>2 DEF Writes
  <2> QED
    BY <1>1, <2>1, <2>2, <2>3, <2>4, <2>5 DEF Task
<1> QED
  BY <1>4, <1>5

LEMMA DisjointFromInvariant == IndInv => ReadyTasksDisjoint
BY ReadyWithoutConflict, DisjointWithoutConflict
   DEF IndInv, ReadyTasksDisjoint

-----------------------------------------------------------------------------
\* The first task.
LEMMA InitIndInv == Init => IndInv
<1> SUFFICES ASSUME Init PROVE IndInv
  OBVIOUS
<1> USE DEF Init, Diagonal
<1>1. TasksInv
  BY DEF TasksInv, Task, Placed
<1>2. StepInv
  BY DEF StepInv
<1>3. DiagonalInv
  BY DEF DiagonalInv
<1>4. UpdatedInv
  BY DEF UpdatedInv, DiagonalFactored
<1> QED
  BY <1>1, <1>2, <1>3, <1>4 DEF IndInv

\* A task that has run: the diagonal one ran after the updates of its tile.
LEMMA TakeTaskStep ==
    ASSUME IndInv, NEW task \in tasks, TakeTask(task)
    PROVE  IndInv'
<1> USE DEF IndInv
<1>1. /\ tasks' = tasks \ {task} /\ Ready(task)
      /\ call' = call /\ current' = current
  BY DEF TakeTask
<1>2. TasksInv'
  BY <1>1 DEF TasksInv, Placed
<1>3. StepInv'
  BY <1>1 DEF StepInv
<1>4. DiagonalInv'
  BY <1>1 DEF DiagonalInv
<1>5. ASSUME DiagonalFactored', NEW t \in tasks',
             t.row = current /\ t.column = current
      PROVE  FALSE
  <2>1. t \in tasks /\ t # task /\ t.kind # "diagonal"
    BY <1>1, <1>5 DEF DiagonalFactored
  <2>2. task.kind = "diagonal"
    BY <1>1, <1>5, <2>1 DEF UpdatedInv, DiagonalFactored
  <2>3. task.i = current /\ t.i < current
    BY <2>1, <2>2 DEF StepInv
  <2>4. task.row = current /\ task.column = current
    BY <2>2, <2>3 DEF TasksInv, Placed
  <2>5. Earlier(t, task)
    BY <2>3 DEF Earlier
  <2>6. Conflicts(task, t)
    BY <1>5, <2>4 DEF Conflicts, DependInOut
  <2> QED
    BY <1>1, <2>1, <2>5, <2>6 DEF Ready
<1>6. UpdatedInv'
  BY <1>1, <1>5 DEF UpdatedInv
<1> QED
  BY <1>2, <1>3, <1>4, <1>6

\* The tasks that a step creates.
LEMMA NewTasks ==
    ASSUME TasksInv, NEW t \in StepTasks(current)
    PROVE  /\ t \in Task /\ Placed(t)
           /\ t.i = current /\ t.kind # "diagonal"
           /\ t.row = t.column => t.row > current
<1>1. TilesAfter(current) \subseteq {k \in Nat : k > current}
  BY DEF TilesAfter, Tiles, TileStarts
<1>2. \/ \E row \in TilesAfter(current) : t = Solve(current, row)
      \/ \E column \in TilesAfter(current) : t = SolveRow(current, column)
      \/ \E row, column \in TilesAfter(current) :
             t = Update(current, row, column)
  BY DEF StepTasks, LUStepTasks, LowerStepTasks, Solves, Updates
<1>3. current \in Nat
  BY DEF TasksInv
<1> QED
  BY <1>1, <1>2, <1>3 DEF Solve, SolveRow, Update, Task, Placed

\* The next step: the tile of the finished diagonal task is nobody's target.
LEMMA NextTileStep ==
    ASSUME IndInv, NextTile
    PROVE  IndInv'
<1> USE DEF IndInv
<1> DEFINE next == Diagonal(current + call.tile)
<1>1. /\ current' = current + call.tile /\ call' = call
      /\ tasks' = tasks \cup StepTasks(current) \cup {next}
      /\ DiagonalFactored
  BY DEF NextTile
<1>2. call.tile \in Nat /\ call.tile > 0 /\ current \in Nat
  BY CallsAssumption DEF TasksInv
<1>3. /\ next \in Task /\ Placed(next) /\ next.kind = "diagonal"
      /\ next.i = current' /\ next.row > current
  BY <1>1, <1>2 DEF Diagonal, Task, Placed
<1>4. \A t \in tasks :
          t \in Task /\ Placed(t) /\ t.i < current /\ t.kind # "diagonal"
  BY <1>1 DEF TasksInv, StepInv, DiagonalFactored
<1>5. \A t \in StepTasks(current) :
          /\ t \in Task /\ Placed(t)
          /\ t.i = current /\ t.kind # "diagonal"
          /\ t.row = t.column => t.row > current
  BY NewTasks
<1>6. TasksInv'
  <2>1. tasks' \subseteq Task /\ \A t \in tasks' : Placed(t)
    BY <1>1, <1>3, <1>4, <1>5
  <2> QED
    BY <1>1, <1>2, <2>1 DEF TasksInv, Placed
<1>7. StepInv'
  <2> HIDE DEF next
  <2>1. \A t \in tasks \cup StepTasks(current) :
            t.i \in Nat /\ t.i < current' /\ t.kind # "diagonal"
    BY <1>1, <1>2, <1>4, <1>5 DEF Task
  <2> QED
    BY <1>1, <1>3, <2>1 DEF StepInv
<1>8. DiagonalInv'
  <2> SUFFICES ASSUME NEW s \in tasks', NEW t \in tasks',
                      s.kind \in {"solve", "solveRow"}, t.row = t.column
               PROVE  t.row # s.i
    BY DEF DiagonalInv
  <2>1. s \in tasks \cup StepTasks(current)
    BY <1>1, <1>3
  <2>2. CASE t \in tasks
    BY <1>1, <1>5, <2>1, <2>2 DEF DiagonalInv, UpdatedInv
  <2>3. CASE t \notin tasks
    <3>1. t.row > current /\ t.row \in Nat
      BY <1>1, <1>3, <1>5, <2>3 DEF Task
    <3>2. s.i <= current /\ s.i \in Nat
      BY <1>2, <1>4, <1>5, <2>1 DEF Task
    <3> QED
      BY <1>2, <3>1, <3>2
  <2> QED
    BY <2>2, <2>3
<1>9. UpdatedInv'
  BY <1>1, <1>3 DEF UpdatedInv, DiagonalFactored
<1> QED
  BY <1>6, <1>7, <1>8, <1>9

\* Nothing else changes the tasks.
LEMMA OtherStep ==
    ASSUME IndInv, UNCHANGED <<call, current, tasks>>
    PROVE  IndInv'
BY DEF IndInv, TasksInv, Placed, StepInv, DiagonalInv, UpdatedInv,
       DiagonalFactored

LEMMA IndInvHolds == Spec => []IndInv
<1>1. IndInv /\ [Next]_vars => IndInv'
  <2> SUFFICES ASSUME IndInv, [Next]_vars PROVE IndInv'
    OBVIOUS
  <2>1. CASE RunTask
    BY <2>1, TakeTaskStep DEF RunTask
  <2>2. CASE NextTile
    BY <2>2, NextTileStep
  <2>3. CASE Break
    BY <2>3, OtherStep DEF Break
  <2>4. CASE Return
    BY <2>4, OtherStep DEF Return
  <2>5. CASE Finished
    BY <2>5, OtherStep DEF Finished, vars
  <2>6. CASE UNCHANGED vars
    BY <2>6, OtherStep DEF vars
  <2> QED
    BY <2>1, <2>2, <2>3, <2>4, <2>5, <2>6 DEF Next
<1> QED
  BY <1>1, InitIndInv, PTL DEF Spec

-----------------------------------------------------------------------------
\* Tasks that OpenMP may run at the same time, given their depend clauses, do
\* not write what the other reads or writes, in the matrix or in the buffer
\* factor that no clause names: for every routine, size, tile and block.
THEOREM TasksAreDisjoint == Spec => []ReadyTasksDisjoint
<1>1. IndInv => ReadyTasksDisjoint
  BY DisjointFromInvariant
<1> QED
  BY <1>1, IndInvHolds, PTL

\* Among tasks there is one that was created before all others.
LEMMA FirstTask ==
    ASSUME NEW T, T \subseteq Task, T # {}
    PROVE  \E t \in T : \A s \in T : ~Earlier(s, t)
<1> DEFINE Steps == {t.i : t \in T}
<1>1. PICK i \in Steps : \A j \in Steps : i <= j
  <2> Steps \subseteq Nat /\ Steps # {}
    BY DEF Task
  <2> HIDE DEF Steps
  <2> QED
    BY LeastElement
<1> DEFINE T1 == {t \in T : t.i = i}
           Loops == {LoopOf(t) : t \in T1}
<1>2. PICK l \in Loops : \A j \in Loops : l <= j
  <2> Loops \subseteq Nat /\ Loops # {}
    BY DEF Task, LoopOf
  <2> HIDE DEF Loops
  <2> QED
    BY LeastElement
<1> DEFINE T2 == {t \in T1 : LoopOf(t) = l}
           Columns2 == {t.column : t \in T2}
<1>3. PICK c \in Columns2 : \A j \in Columns2 : c <= j
  <2> Columns2 \subseteq Nat /\ Columns2 # {}
    BY DEF Task
  <2> HIDE DEF Columns2
  <2> QED
    BY LeastElement
<1> DEFINE T3 == {t \in T2 : t.column = c}
           Rows == {t.row : t \in T3}
<1>4. PICK r \in Rows : \A j \in Rows : r <= j
  <2> Rows \subseteq Nat /\ Rows # {}
    BY DEF Task
  <2> HIDE DEF Rows
  <2> QED
    BY LeastElement
<1>5. PICK t \in T3 : t.row = r
  OBVIOUS
<1>6. ASSUME NEW s \in T, Earlier(s, t) PROVE FALSE
  <2>1. /\ s.i \in Nat /\ s.column \in Nat /\ s.row \in Nat
        /\ LoopOf(s) \in Nat
    BY DEF Task, LoopOf
  <2>2. t.i = i /\ LoopOf(t) = l /\ t.column = c /\ t.row = r
    BY <1>5
  <2>3. i \in Nat /\ l \in Nat /\ c \in Nat /\ r \in Nat
    BY <2>2, <1>5 DEF Task, LoopOf
  <2>4. i <= s.i
    BY <1>1
  <2>5. s.i = i => l <= LoopOf(s)
    BY <1>2
  <2>6. s.i = i /\ LoopOf(s) = l => c <= s.column
    BY <1>3
  <2>7. s.i = i /\ LoopOf(s) = l /\ s.column = c => r <= s.row
    BY <1>4
  <2> QED
    BY <1>6, <2>1, <2>2, <2>3, <2>4, <2>5, <2>6, <2>7 DEF Earlier
<1> QED
  BY <1>5, <1>6

\* The depend clauses never make the tasks wait in a circle: as long as a task
\* is left, some task is ready.
SomeTaskIsReady == tasks # {} => \E task \in tasks : Ready(task)

THEOREM NoTaskCycle == Spec => []SomeTaskIsReady
<1>1. IndInv => SomeTaskIsReady
  <2> SUFFICES ASSUME IndInv, tasks # {}
               PROVE  \E task \in tasks : Ready(task)
    BY DEF SomeTaskIsReady
  <2>1. PICK t \in tasks : \A s \in tasks : ~Earlier(s, t)
    BY FirstTask DEF IndInv, TasksInv
  <2> QED
    BY <2>1 DEF Ready
<1> QED
  BY <1>1, IndInvHolds, PTL

-----------------------------------------------------------------------------
(***************************************************************************)
(* The pivots that the sequential routines report.                         *)
(***************************************************************************)
\* What a routine does with one column.
UnblockedStep(routine, params, r, i) ==
    CASE routine = "cholesky" -> CholeskyStep(r, i)
      [] routine = "regularizedCholesky" -> RegularizedCholeskyStep(params, r, i)
      [] routine = "ldlAdjoint" -> LDLAdjointStep(r, i)
      [] routine = "regularizedLDLAdjoint" ->
           RegularizedLDLAdjointStep(params, r, i)
      [] routine = "ldlTranspose" -> LDLTransposeStep(r, i)
      [] routine = "hermitianDPP" -> HermitianDPPStep(params, r, i)
      [] routine = "nonHermitianDPP" -> NonHermitianDPPStep(params, r, i)

\* A column adds its pivot or none.
LEMMA StepAddsPivot ==
    ASSUME NEW routine \in Routines, NEW params, NEW r, NEW i,
           "pivots" \in DOMAIN r
    PROVE  /\ "pivots" \in DOMAIN UnblockedStep(routine, params, r, i)
           /\ UnblockedStep(routine, params, r, i).pivots \in {r.pivots, i}
<1> DEFINE Adds(s) == "pivots" \in DOMAIN s /\ s.pivots \in {r.pivots, i}
<1>1. Adds(CholeskyStep(r, i))
  BY DEF CholeskyStep
<1>2. Adds(RegularizedCholeskyStep(params, r, i))
  BY DEF RegularizedCholeskyStep
<1>3. Adds(LDLAdjointStep(r, i))
  BY DEF LDLAdjointStep
<1>4. Adds(RegularizedLDLAdjointStep(params, r, i))
  BY DEF RegularizedLDLAdjointStep
<1>5. Adds(LDLTransposeStep(r, i))
  BY DEF LDLTransposeStep
<1>6. Adds(HermitianDPPStep(params, r, i))
  BY DEF HermitianDPPStep
<1>7. Adds(NonHermitianDPPStep(params, r, i))
  BY DEF NonHermitianDPPStep
<1> QED
  BY <1>1, <1>2, <1>3, <1>4, <1>5, <1>6, <1>7 DEF UnblockedStep, Routines

\* f goes through the columns up to n.
GoesThrough(f, routine, params, m, n) ==
    f = [i \in 0..n |->
           IF i = 0 THEN Result(m, 0)
           ELSE IF f[i - 1].pivots < i - 1 THEN f[i - 1]
           ELSE UnblockedStep(routine, params, f[i - 1], i)]

\* One more column.
LEMMA OneMoreColumn ==
    ASSUME NEW f, NEW routine, NEW params, NEW m, NEW n \in Nat, n # 0,
           GoesThrough(f, routine, params, m, n - 1)
    PROVE  \E g : GoesThrough(g, routine, params, m, n)
<1> DEFINE Next1(i) == IF i = 0 THEN Result(m, 0)
                       ELSE IF f[i - 1].pivots < i - 1 THEN f[i - 1]
                       ELSE UnblockedStep(routine, params, f[i - 1], i)
           g == [i \in 0..n |-> Next1(i)]
<1>1. f = [i \in 0..(n - 1) |-> Next1(i)]
  BY DEF GoesThrough
<1>2. \A i \in 0..(n - 1) : g[i] = f[i]
  <2> HIDE DEF Next1
  <2> QED
    BY <1>1
<1> HIDE DEF g
<1>3. \A i \in 0..n : i = 0 \/ g[i - 1] = f[i - 1]
  BY <1>2
<1>4. g = [i \in 0..n |->
             IF i = 0 THEN Result(m, 0)
             ELSE IF g[i - 1].pivots < i - 1 THEN g[i - 1]
             ELSE UnblockedStep(routine, params, g[i - 1], i)]
  BY <1>3 DEF g
<1> QED
  BY <1>4 DEF GoesThrough

\* So some function goes through all of them.
LEMMA ColumnsExist ==
    ASSUME NEW routine, NEW params, NEW m, NEW n \in Nat
    PROVE  \E f : GoesThrough(f, routine, params, m, n)
<1> DEFINE S == {k \in 0..n : \E f : GoesThrough(f, routine, params, m, k)}
<1>1. 0 \in S
  <2> DEFINE f == [i \in 0..0 |-> Result(m, 0)]
  <2>1. GoesThrough(f, routine, params, m, 0)
    BY DEF GoesThrough
  <2> HIDE DEF f
  <2> QED
    BY <2>1
<1>2. ASSUME NEW k \in 1..n, k - 1 \in S PROVE k \in S
  BY <1>2, OneMoreColumn
<1> HIDE DEF S
<1>3. 0..n \subseteq S
  BY <1>1, <1>2, CountsUp
<1> QED
  BY <1>3 DEF S

\* A routine gives what such a function gives for the last column.
LEMMA UnblockedGoesThrough ==
    ASSUME NEW routine \in Routines, NEW params, NEW m, Height(m) \in Nat
    PROVE  \E f : /\ GoesThrough(f, routine, params, m, Height(m))
                  /\ UnblockedRoutine(routine, params, m) = f[Height(m)]
<1>1. \E f : GoesThrough(f, routine, params, m, Height(m))
  BY ColumnsExist
<1> USE <1>1 DEF GoesThrough, UnblockedStep, UnblockedRoutine, Columns
<1>2. CASE routine = "cholesky"
  BY <1>2 DEF UnblockedLowerCholeskyFactorization
<1>3. CASE routine = "regularizedCholesky"
  BY <1>3 DEF UnblockedDynamicallyRegularizedLowerCholeskyFactorization
<1>4. CASE routine = "ldlAdjoint"
  BY <1>4 DEF UnblockedLDLAdjointFactorization
<1>5. CASE routine = "regularizedLDLAdjoint"
  BY <1>5 DEF UnblockedDynamicallyRegularizedLDLAdjointFactorization
<1>6. CASE routine = "ldlTranspose"
  BY <1>6 DEF UnblockedLDLTransposeFactorization
<1>7. CASE routine = "hermitianDPP"
  BY <1>7 DEF UnblockedSampleLowerHermitianDPP
<1>8. CASE routine = "nonHermitianDPP"
  BY <1>8 DEF UnblockedSampleNonHermitianDPP
<1> QED
  BY <1>2, <1>3, <1>4, <1>5, <1>6, <1>7, <1>8 DEF Routines

\* An unblocked routine reports no more pivots than the matrix has rows.
LEMMA UnblockedPivots ==
    ASSUME NEW routine \in Routines, NEW params, NEW m, Height(m) \in Nat
    PROVE  UnblockedRoutine(routine, params, m).pivots \in 0..Height(m)
<1> DEFINE n == Height(m)
<1>1. PICK f : /\ GoesThrough(f, routine, params, m, n)
               /\ UnblockedRoutine(routine, params, m) = f[n]
  BY UnblockedGoesThrough
<1> HIDE DEF n
<1>2. n \in Nat
  BY DEF n
<1> DEFINE S == {k \in 0..n : "pivots" \in DOMAIN f[k] /\ f[k].pivots \in 0..k}
<1>3. 0 \in S
  BY <1>1, <1>2 DEF GoesThrough, Result
<1>4. ASSUME NEW k \in 1..n, k - 1 \in S PROVE k \in S
  <2>1. f[k] = IF f[k - 1].pivots < k - 1 THEN f[k - 1]
               ELSE UnblockedStep(routine, params, f[k - 1], k)
    BY <1>1, <1>2 DEF GoesThrough
  <2>2. "pivots" \in DOMAIN f[k - 1] /\ f[k - 1].pivots \in 0..(k - 1)
    BY <1>4
  <2>3. /\ "pivots" \in DOMAIN f[k]
        /\ f[k].pivots \in {f[k - 1].pivots, k}
    BY <2>1, <2>2, StepAddsPivot
  <2> QED
    BY <1>2, <2>2, <2>3
<1> HIDE DEF S
<1>5. 0..n \subseteq S
  BY <1>2, <1>3, <1>4, CountsUp
<1> QED
  BY <1>1, <1>2, <1>5 DEF S, n

\* The start of a block, a multiple of the block size, is not after it.
LEMMA BlockStart ==
    ASSUME NEW a \in Nat, NEW size \in Nat \ {0}
    PROVE  (a \div size) * size \in 0..a
OBVIOUS

\* A submatrix has the height asked for.
LEMMA SubmatrixHeight ==
    ASSUME NEW m, NEW i, NEW j, NEW h \in Nat, NEW w
    PROVE  Height(Submatrix(m, i, j, h, w)) = h
<1> DEFINE rows == [r \in 1..h |-> <<>> \o [c \in 1..w |-> m[i + r - 1][j + c - 1]]]
<1>1. Submatrix(m, i, j, h, w) = <<>> \o rows
  BY DEF Submatrix, Matrix
<1>2. rows = [r \in 1..h |-> rows[r]]
  OBVIOUS
<1> HIDE DEF rows
<1> QED
  BY <1>1, <1>2, WrittenDown DEF Height

\* Writing through a view keeps the height.
LEMMA OverwriteHeight ==
    ASSUME NEW m, NEW i, NEW j, NEW block, Height(m) \in Nat
    PROVE  Height(Overwrite(m, i, j, block)) = Height(m)
<1> DEFINE rows == [r \in 1..Height(m) |-> <<>> \o [c \in 1..Width(m) |->
                      IF /\ r - i + 1 \in 1..Height(block)
                         /\ c - j + 1 \in 1..Width(block)
                      THEN block[r - i + 1][c - j + 1] ELSE m[r][c]]]
<1>1. Overwrite(m, i, j, block) = <<>> \o rows
  BY DEF Overwrite, Matrix
<1>2. rows = [r \in 1..Height(m) |-> rows[r]]
  OBVIOUS
<1> HIDE DEF rows
<1>3. Len(<<>> \o rows) = Height(m)
  BY <1>2, WrittenDown
<1> QED
  BY <1>1, <1>3 DEF Height

\* f goes through the blocks up to row n.
GoesThroughBlocks(f, routine, size, params, m, n) ==
    f = [k \in 0..n |->
           IF k = 0 THEN Result(m, 0)
           ELSE LET i == ((k - 1) \div size) * size + 1
                IN  BlockStep(routine, params, f[i - 1], i, k - i + 1)]

\* One more row.
LEMMA OneMoreRow ==
    ASSUME NEW f, NEW routine, NEW size \in Nat \ {0}, NEW params, NEW m,
           NEW n \in Nat, n # 0,
           GoesThroughBlocks(f, routine, size, params, m, n - 1)
    PROVE  \E g : GoesThroughBlocks(g, routine, size, params, m, n)
<1> DEFINE i(k) == ((k - 1) \div size) * size + 1
           Next1(k) == IF k = 0 THEN Result(m, 0)
                       ELSE BlockStep(routine, params, f[i(k) - 1],
                                      i(k), k - i(k) + 1)
           g == [k \in 0..n |-> Next1(k)]
<1>1. f = [k \in 0..(n - 1) |-> Next1(k)]
  BY DEF GoesThroughBlocks
<1>2. \A k \in 0..(n - 1) : g[k] = f[k]
  <2> HIDE DEF Next1
  <2> QED
    BY <1>1
<1> HIDE DEF g
<1>3. ASSUME NEW k \in 0..n, k # 0 PROVE g[i(k) - 1] = f[i(k) - 1]
  <2>1. k - 1 \in Nat /\ k - 1 <= n - 1
    BY <1>3
  <2>2. ((k - 1) \div size) * size \in 0..(k - 1)
    BY <2>1, BlockStart
  <2>3. i(k) - 1 \in 0..(k - 1)
    BY <2>2
  <2> HIDE DEF i
  <2>4. i(k) - 1 \in 0..(n - 1)
    BY <2>1, <2>3
  <2> QED
    BY <1>2, <2>3
<1>4. g = [k \in 0..n |->
             IF k = 0 THEN Result(m, 0)
             ELSE BlockStep(routine, params, g[i(k) - 1],
                            i(k), k - i(k) + 1)]
  <2> HIDE DEF i
  <2> QED
    BY <1>3 DEF g
<1> QED
  BY <1>4 DEF GoesThroughBlocks

LEMMA BlocksExist ==
    ASSUME NEW routine, NEW size \in Nat \ {0}, NEW params, NEW m, NEW n \in Nat
    PROVE  \E f : GoesThroughBlocks(f, routine, size, params, m, n)
<1> DEFINE S == {k \in 0..n :
                    \E f : GoesThroughBlocks(f, routine, size, params, m, k)}
<1>1. 0 \in S
  <2> DEFINE f == [i \in 0..0 |-> Result(m, 0)]
  <2>1. GoesThroughBlocks(f, routine, size, params, m, 0)
    BY DEF GoesThroughBlocks
  <2> HIDE DEF f
  <2> QED
    BY <2>1
<1>2. ASSUME NEW k \in 1..n, k - 1 \in S PROVE k \in S
  BY <1>2, OneMoreRow
<1> HIDE DEF S
<1>3. 0..n \subseteq S
  BY <1>1, <1>2, CountsUp
<1> QED
  BY <1>3 DEF S

\* A block adds as many pivots as it has rows, or less.
LEMMA BlockAddsPivots ==
    ASSUME NEW routine \in Routines, NEW params, NEW before, NEW i \in Nat,
           NEW size \in Nat, before.pivots \in 0..(i - 1)
    PROVE  BlockStep(routine, params, before, i, size).pivots
               \in 0..(i + size - 1)
<1> DEFINE block == UnblockedRoutine(routine, Offset(params, i - 1),
                        Submatrix(before.matrix, i, i, size, size))
<1>1. block.pivots \in 0..size
  BY UnblockedPivots, SubmatrixHeight
<1> HIDE DEF block
<1>2. Accumulate(before, i, block).pivots = before.pivots + block.pivots
  BY DEF Accumulate
<1>3. AfterBlock(routine, before, i, size, block).pivots
         = before.pivots + block.pivots
  BY <1>2 DEF AfterBlock
<1>4. BlockStep(routine, params, before, i, size) =
         IF before.pivots < i - 1 THEN before
         ELSE AfterBlock(routine, before, i, size, block)
  BY DEF BlockStep, block
<1> QED
  BY <1>1, <1>3, <1>4

\* A blocked routine reports no more pivots than the matrix has rows.
LEMMA BlockedPivots ==
    ASSUME NEW routine \in Routines, NEW size \in Nat \ {0}, NEW params, NEW m,
           Height(m) \in Nat
    PROVE  Blocked(routine, size, params, m).pivots \in 0..Height(m)
<1> DEFINE n == Height(m)
<1>1. \E f : GoesThroughBlocks(f, routine, size, params, m, n)
  BY BlocksExist
<1>2. PICK f : /\ GoesThroughBlocks(f, routine, size, params, m, n)
               /\ Blocked(routine, size, params, m) = f[n]
  BY <1>1 DEF GoesThroughBlocks, Blocked
<1> HIDE DEF n
<1>3. n \in Nat
  BY DEF n
<1> DEFINE Good(k) == f[k].pivots \in 0..k
           S == {k \in 0..n : \A l \in 0..k : Good(l)}
<1>4. Good(0)
  BY <1>2, <1>3 DEF GoesThroughBlocks, Result
<1>5. ASSUME NEW k \in 1..n, \A l \in 0..(k - 1) : Good(l) PROVE Good(k)
  <2> DEFINE i == ((k - 1) \div size) * size + 1
  <2>1. i - 1 \in 0..(k - 1) /\ i \in 1..k
    <3>1. ((k - 1) \div size) * size \in 0..(k - 1)
      BY BlockStart
    <3> QED
      BY <3>1
  <2>2. f[k] = BlockStep(routine, params, f[i - 1], i, k - i + 1)
    <3> DEFINE Next1(l) ==
                 IF l = 0 THEN Result(m, 0)
                 ELSE LET j == ((l - 1) \div size) * size + 1
                      IN  BlockStep(routine, params, f[j - 1], j, l - j + 1)
    <3>1. f = [l \in 0..n |-> Next1(l)]
      BY <1>2 DEF GoesThroughBlocks
    <3>2. k \in 0..n /\ k # 0
      BY <1>3
    <3>3. f[k] = Next1(k)
      <4> HIDE DEF Next1
      <4> QED
        BY <3>1, <3>2
    <3> QED
      BY <3>2, <3>3
  <2> HIDE DEF i
  <2>3. f[i - 1].pivots \in 0..(i - 1)
    BY <1>5, <2>1
  <2>4. f[k].pivots \in 0..(i + (k - i + 1) - 1)
    BY <2>1, <2>2, <2>3, BlockAddsPivots
  <2> QED
    BY <2>1, <2>4
<1> HIDE DEF Good
<1>6. 0 \in S
  BY <1>3, <1>4
<1>7. ASSUME NEW k \in 1..n, k - 1 \in S PROVE k \in S
  <2>1. \A l \in 0..(k - 1) : Good(l)
    BY <1>7
  <2>2. \A l \in 0..k : l \in 0..(k - 1) \/ l = k
    OBVIOUS
  <2> QED
    BY <1>5, <2>1, <2>2
<1> HIDE DEF S
<1>8. 0..n \subseteq S
  BY <1>3, <1>6, <1>7, CountsUp
<1>9. Good(n)
  BY <1>3, <1>8 DEF S
<1> QED
  BY <1>2, <1>9 DEF n, Good

\* So does the routine for a tile.
LEMMA TilePivots ==
    ASSUME TasksInv, NEW params, NEW m, Height(m) \in Nat
    PROVE  TileRoutine(params, m).pivots \in 0..Height(m)
<1>1. call.routine \in Routines /\ call.block \in Nat \ {0}
  BY CallsAssumption DEF TasksInv
<1>2. CASE call.routine = "cholesky"
  <2>1. UnblockedLowerCholeskyFactorization(m)
          = UnblockedRoutine("cholesky", params, m)
    BY DEF UnblockedRoutine
  <2>2. "cholesky" \in Routines
    BY DEF Routines
  <2>3. UnblockedLowerCholeskyFactorization(m).pivots \in 0..Height(m)
    BY <2>1, <2>2, UnblockedPivots
  <2>4. Blocked("cholesky", call.block, <<>>, m).pivots \in 0..Height(m)
    BY <1>1, <2>2, BlockedPivots
  <2> QED
    BY <1>2, <2>3, <2>4 DEF TileRoutine, LowerCholeskyFactorization,
                            BlockedLowerCholeskyFactorization
<1>3. CASE call.routine # "cholesky"
  BY <1>1, <1>3, BlockedPivots DEF TileRoutine
<1> QED
  BY <1>2, <1>3

-----------------------------------------------------------------------------
(***************************************************************************)
(* The types, and what the number of pivots says.                          *)
(***************************************************************************)
\* The rows that are done when the diagonal task of the step is.
Done == current - 1 + TileSize(current)

\* Everything but the number of pivots.
ShapeInv ==
    /\ Height(matrix) = height /\ Height(factor) = height
    /\ current \in Tiles
    /\ \A task \in tasks : task.row \in Tiles /\ task.column \in Tiles
    /\ failed \in BOOLEAN
    /\ pc \in {"wait", "drain", "done"}
    /\ pc # "wait" => DiagonalFactored /\ LastTile

\* Until the diagonal task of the step has run, all pivots before its tile have
\* been found; after it, it says whether one of its own has not.
PivotsInv ==
    IF DiagonalFactored
    THEN pivots \in (current - 1)..Done /\ (failed <=> pivots < Done)
    ELSE pivots = current - 1 /\ ~failed

CountInv == ShapeInv /\ PivotsInv

\* The sizes of a call.
LEMMA Sizes ==
    ASSUME TasksInv
    PROVE  /\ height \in Nat \ {0} /\ call.tile \in Nat \ {0}
           /\ \A i \in Tiles :
                 /\ i \in 1..height /\ (i - 1) % call.tile = 0
                 /\ TileSize(i) \in 1..(height - i + 1)
                 /\ TileSize(i) <= call.tile
                 /\ i + TileSize(i) <= height => TileSize(i) = call.tile
<1>1. /\ call.tile \in Nat \ {0}
      /\ call.matrix \in Seq(Seq(Scalar)) /\ call.matrix # <<>>
  BY CallsAssumption DEF TasksInv
<1>2. height \in Nat \ {0}
  BY <1>1 DEF height, Height
<1>3. ASSUME NEW i \in Tiles
      PROVE  i \in 1..height /\ (i - 1) % call.tile = 0
  BY <1>3 DEF Tiles, TileStarts
<1> QED
  BY <1>1, <1>2, <1>3 DEF TileSize, Smaller

\* The tile after a full one.
LEMMA TileAfter ==
    ASSUME TasksInv, NEW i \in Tiles, i + TileSize(i) <= height
    PROVE  i + call.tile \in Tiles
<1>1. /\ i \in 1..height /\ (i - 1) % call.tile = 0 /\ height \in Nat
      /\ call.tile \in Nat \ {0} /\ i + call.tile <= height
  BY Sizes
<1>2. ASSUME NEW a \in Nat, NEW b \in Nat \ {0}, a % b = 0
      PROVE  (a + b) % b = 0
  <2>1. a = b * (a \div b) /\ a \div b \in Nat
    BY <1>2
  <2>2. a + b = b * (a \div b + 1)
    BY <2>1
  <2>3. \A q \in Nat : (b * q) % b = 0
    OBVIOUS
  <2>4. (b * (a \div b + 1)) % b = 0
    BY <2>1, <2>3
  <2> QED
    BY <2>2, <2>4
<1>3. ((i - 1) + call.tile) % call.tile = 0
  BY <1>1, <1>2
<1> QED
  BY <1>1, <1>3 DEF Tiles, TileStarts

LEMMA InitCountInv == Init => CountInv
<1> SUFFICES ASSUME Init PROVE CountInv
  OBVIOUS
<1>1. TasksInv
  BY InitIndInv DEF IndInv
<1>2. /\ call.tile \in Nat \ {0} /\ height \in Nat \ {0}
      /\ 1 \in Tiles
  <2>1. \A b \in Nat \ {0} : 0 % b = 0
    OBVIOUS
  <2> QED
    BY <1>1, <2>1, Sizes DEF Tiles, TileStarts
<1>3. Height(factor) = height
  <2> DEFINE rows == [i \in 1..height |-> <<>> \o [j \in 1..height |-> One]]
  <2>1. factor = <<>> \o rows
    BY DEF Init, LeftInBuffer, Matrix
  <2>2. rows = [i \in 1..height |-> rows[i]]
    OBVIOUS
  <2> HIDE DEF rows
  <2> QED
    BY <1>2, <2>1, <2>2, WrittenDown DEF Height
<1>4. ~DiagonalFactored
  BY DEF Init, Diagonal, DiagonalFactored
<1>5. ShapeInv
  <2>1. Height(matrix) = height
    BY DEF Init, height
  <2>2. current = 1 /\ failed \in BOOLEAN /\ pc = "wait"
    BY DEF Init
  <2>3. \A task \in tasks : task.row = 1 /\ task.column = 1
    BY DEF Init, Diagonal
  <2> QED
    BY <1>2, <1>3, <2>1, <2>2, <2>3 DEF ShapeInv
<1>6. PivotsInv
  BY <1>4 DEF Init, PivotsInv
<1> QED
  BY <1>5, <1>6 DEF CountInv

\* A task keeps the shapes.
LEMMA RunTaskShapes ==
    ASSUME IndInv, CountInv, NEW task \in tasks, TakeTask(task),
           CASE task.kind = "diagonal" -> FactorDiagonal(task)
             [] task.kind = "solve" -> SolveSubdiagonal(task)
             [] task.kind = "solveRow" -> SolveSuperdiagonal(task)
             [] task.kind = "update" -> UpdateTile(task)
    PROVE  /\ Height(matrix') = height /\ Height(factor') = height
           /\ task.kind # "diagonal" => UNCHANGED <<pivots, failed>>
<1>1. task.kind \in {"diagonal", "solve", "solveRow", "update"}
  BY DEF IndInv, TasksInv, Task
<1>2. height \in Nat /\ Height(matrix) = height /\ Height(factor) = height
  BY Sizes DEF IndInv, CountInv, ShapeInv
<1>3. /\ \A i, j, block : Height(Overwrite(matrix, i, j, block)) = height
      /\ \A i, j, block : Height(Overwrite(factor, i, j, block)) = height
  BY <1>2, OverwriteHeight
<1> HIDE DEF height
<1>4. CASE task.kind = "diagonal"
  BY <1>2, <1>3, <1>4 DEF FactorDiagonal
<1>5. CASE task.kind = "solve"
  BY <1>2, <1>3, <1>5 DEF SolveSubdiagonal
<1>6. CASE task.kind = "solveRow"
  BY <1>2, <1>3, <1>6 DEF SolveSuperdiagonal
<1>7. CASE task.kind = "update"
  BY <1>2, <1>3, <1>7 DEF UpdateTile
<1> QED
  BY <1>1, <1>4, <1>5, <1>6, <1>7

\* The diagonal task of the step counts its pivots.
LEMMA DiagonalCounts ==
    ASSUME IndInv, CountInv, NEW task \in tasks, task.kind = "diagonal",
           FactorDiagonal(task)
    PROVE  /\ pivots' \in (current - 1)..Done
           /\ failed' \in BOOLEAN /\ (failed' <=> pivots' < Done)
<1>1. task.i = current /\ TasksInv
  BY DEF IndInv, StepInv
<1>2. pivots = current - 1 /\ current \in Tiles
  BY DEF CountInv, ShapeInv, PivotsInv, DiagonalFactored
<1>3. TileSize(current) \in Nat /\ current \in Nat
  BY <1>1, <1>2, Sizes
<1> DEFINE block == TileRoutine(Offset(call.params, current - 1),
                                Tile(matrix, current, current))
<1>4. /\ pivots' = pivots + block.pivots
      /\ failed' = (block.pivots < TileSize(current))
  BY <1>1 DEF FactorDiagonal
<1>5. Height(Tile(matrix, current, current)) = TileSize(current)
  BY <1>3, SubmatrixHeight DEF Tile
<1>6. block.pivots \in 0..TileSize(current)
  BY <1>1, <1>3, <1>5, TilePivots
<1> HIDE DEF block
<1>7. failed' \in BOOLEAN /\ (failed' <=> block.pivots < TileSize(current))
  <2>1. (block.pivots < TileSize(current)) \in BOOLEAN
    BY <1>3, <1>6
  <2>2. failed' = (block.pivots < TileSize(current))
    BY <1>4
  <2> QED
    BY <2>1, <2>2, Zenon
<1>8. /\ pivots' \in (current - 1)..Done
      /\ pivots' < Done <=> block.pivots < TileSize(current)
  BY <1>2, <1>3, <1>4, <1>6 DEF Done
<1> QED
  BY <1>7, <1>8

LEMMA RunTaskCount ==
    ASSUME IndInv, CountInv, RunTask
    PROVE  CountInv'
<1>1. PICK task \in tasks :
        /\ TakeTask(task)
        /\ CASE task.kind = "diagonal" -> FactorDiagonal(task)
             [] task.kind = "solve" -> SolveSubdiagonal(task)
             [] task.kind = "solveRow" -> SolveSuperdiagonal(task)
             [] task.kind = "update" -> UpdateTile(task)
  BY DEF RunTask
<1>2. /\ tasks' = tasks \ {task}
      /\ call' = call /\ current' = current /\ pc' = pc
  BY <1>1 DEF TakeTask
<1>3. /\ Height(matrix') = height /\ Height(factor') = height
      /\ task.kind # "diagonal" => UNCHANGED <<pivots, failed>>
  BY <1>1, RunTaskShapes
<1>4. height' = height /\ Tiles' = Tiles /\ Done' = Done
  BY <1>2 DEF height, Tiles, Done, TileSize
<1>5. CASE task.kind = "diagonal"
  <2>1. /\ pivots' \in (current - 1)..Done
        /\ failed' \in BOOLEAN /\ (failed' <=> pivots' < Done)
    BY <1>1, <1>5, DiagonalCounts
  <2>2. DiagonalFactored'
    <3>1. ASSUME NEW t \in tasks, t.kind = "diagonal" PROVE t = task
      <4>1. t \in Task /\ Placed(t) /\ t.i = current
        BY <3>1 DEF IndInv, TasksInv, StepInv
      <4>2. task \in Task /\ Placed(task) /\ task.i = current
        BY <1>5 DEF IndInv, TasksInv, StepInv
      <4> QED
        BY <1>5, <3>1, <4>1, <4>2 DEF Task, Placed
    <3> QED
      BY <1>2, <3>1 DEF DiagonalFactored
  <2>3. pc = "wait"
    BY <1>5 DEF CountInv, ShapeInv, DiagonalFactored
  <2>4. ShapeInv'
    BY <1>2, <1>3, <1>4, <2>1, <2>3 DEF CountInv, ShapeInv
  <2>5. PivotsInv'
    BY <1>2, <1>4, <2>1, <2>2 DEF PivotsInv
  <2> QED
    BY <2>4, <2>5 DEF CountInv
<1>6. CASE task.kind # "diagonal"
  <2>1. DiagonalFactored' <=> DiagonalFactored
    BY <1>2, <1>6 DEF DiagonalFactored
  <2>2. LastTile' <=> LastTile
    BY <1>2, <1>3, <1>4, <1>6 DEF LastTile, TileSize
  <2>3. ShapeInv'
    BY <1>2, <1>3, <1>4, <1>6, <2>1, <2>2 DEF CountInv, ShapeInv
  <2>4. PivotsInv'
    BY <1>2, <1>3, <1>4, <1>6, <2>1 DEF CountInv, PivotsInv
  <2> QED
    BY <2>3, <2>4 DEF CountInv
<1> QED
  BY <1>5, <1>6

LEMMA NextTileCount ==
    ASSUME IndInv, CountInv, NextTile
    PROVE  CountInv'
<1>1. /\ current' = current + call.tile /\ call' = call /\ pc' = pc
      /\ tasks' = tasks \cup StepTasks(current)
                        \cup {Diagonal(current + call.tile)}
      /\ UNCHANGED <<matrix, factor, pivots, failed>>
      /\ DiagonalFactored /\ ~failed /\ pc = "wait"
      /\ ~(current + TileSize(current) > height)
  BY DEF NextTile, LastTile
<1>2. TasksInv /\ current \in Tiles
  BY DEF IndInv, CountInv, ShapeInv
<1>3. /\ current \in Nat /\ TileSize(current) \in Nat
      /\ call.tile \in Nat /\ height \in Nat
      /\ current + TileSize(current) <= height
      /\ TileSize(current) = call.tile
  BY <1>1, <1>2, Sizes
<1>4. current' \in Tiles
  BY <1>1, <1>2, <1>3, TileAfter
<1>5. height' = height /\ Tiles' = Tiles
  BY <1>1 DEF height, Tiles
<1>6. ASSUME NEW t \in StepTasks(current)
      PROVE  t.row \in Tiles /\ t.column \in Tiles
  <2>1. TilesAfter(current) \subseteq Tiles
    BY DEF TilesAfter
  <2>2. \/ \E row \in TilesAfter(current) : t = Solve(current, row)
        \/ \E column \in TilesAfter(current) : t = SolveRow(current, column)
        \/ \E row, column \in TilesAfter(current) :
               t = Update(current, row, column)
    BY <1>6 DEF StepTasks, LUStepTasks, LowerStepTasks, Solves, Updates
  <2> QED
    BY <1>2, <2>1, <2>2 DEF Solve, SolveRow, Update
<1>7. \A t \in tasks' : t.row \in Tiles /\ t.column \in Tiles
  <2>1. LET t == Diagonal(current + call.tile)
        IN  t.row \in Tiles /\ t.column \in Tiles
    BY <1>1, <1>4 DEF Diagonal
  <2> QED
    BY <1>1, <1>6, <2>1 DEF CountInv, ShapeInv
<1>8. ~DiagonalFactored'
  <2>1. Diagonal(current + call.tile).kind = "diagonal"
    BY DEF Diagonal
  <2> QED
    BY <1>1, <2>1 DEF DiagonalFactored
<1>9. pivots = current + call.tile - 1
  BY <1>1, <1>3 DEF CountInv, PivotsInv, Done
<1>10. ShapeInv'
  BY <1>1, <1>4, <1>5, <1>7 DEF CountInv, ShapeInv
<1>11. PivotsInv'
  <2>1. pivots' = pivots /\ failed' = failed /\ ~failed
    BY <1>1
  <2>2. pivots' = current' - 1
    BY <1>1, <1>3, <1>9, <2>1
  <2>3. ~failed'
    BY <2>1
  <2> QED
    BY <1>8, <2>2, <2>3 DEF PivotsInv
<1> QED
  BY <1>10, <1>11 DEF CountInv

\* The driver's other steps.
LEMMA DriverCount ==
    ASSUME CountInv,
           UNCHANGED <<call, matrix, factor, current, tasks, pivots, failed>>,
           pc' \in {"wait", "drain", "done"},
           pc' # "wait" => DiagonalFactored /\ LastTile
    PROVE  CountInv'
<1>1. /\ height' = height /\ Tiles' = Tiles /\ Done' = Done
      /\ (DiagonalFactored' <=> DiagonalFactored) /\ (LastTile' <=> LastTile)
  BY DEF height, Tiles, Done, TileSize, DiagonalFactored, LastTile
<1>2. ShapeInv'
  BY <1>1 DEF CountInv, ShapeInv
<1>3. PivotsInv'
  BY <1>1 DEF CountInv, PivotsInv
<1> QED
  BY <1>2, <1>3 DEF CountInv

LEMMA CountInvHolds == Spec => []CountInv
<1>1. IndInv /\ CountInv /\ [Next]_vars => CountInv'
  <2> SUFFICES ASSUME IndInv, CountInv, [Next]_vars PROVE CountInv'
    OBVIOUS
  <2>1. CASE RunTask
    BY <2>1, RunTaskCount
  <2>2. CASE NextTile
    BY <2>2, NextTileCount
  <2>3. CASE Break
    BY <2>3, DriverCount DEF Break
  <2>4. CASE Return
    BY <2>4, DriverCount DEF Return, CountInv, ShapeInv
  <2>5. CASE Finished
    BY <2>5, DriverCount DEF Finished, vars, CountInv, ShapeInv
  <2>6. CASE UNCHANGED vars
    BY <2>6, DriverCount DEF vars, CountInv, ShapeInv
  <2> QED
    BY <2>1, <2>2, <2>3, <2>4, <2>5, <2>6 DEF Next
<1> QED
  BY <1>1, InitCountInv, IndInvHolds, PTL DEF Spec

\* The driver stays inside the matrix, whatever the tile size, and never counts
\* more pivots than the matrix has rows.
THEOREM TypeCorrect == Spec => []TypeOK
<1>1. IndInv /\ CountInv => TypeOK
  <2> SUFFICES ASSUME IndInv, CountInv PROVE TypeOK
    OBVIOUS
  <2>1. /\ height \in Nat /\ current \in 1..height
        /\ TileSize(current) \in 1..(height - current + 1)
    BY Sizes DEF IndInv, CountInv, ShapeInv
  <2>2. pivots \in 0..height
    BY <2>1 DEF CountInv, PivotsInv, Done
  <2> QED
    BY <2>2 DEF CountInv, ShapeInv, TypeOK
<1> QED
  BY <1>1, IndInvHolds, CountInvHolds, PTL

\* When a call returns, it reports a failed pivot exactly if it has not counted
\* a pivot for every row: the loop is not left early without a failure, and a
\* failure in any tile, also the last one, shows in the number of pivots.
FailureIsReported == pc = "done" => (failed <=> pivots < height)

THEOREM FailureReported == Spec => []FailureIsReported
<1>1. IndInv /\ CountInv => FailureIsReported
  <2> SUFFICES ASSUME IndInv, CountInv, pc = "done"
               PROVE  failed <=> pivots < height
    BY DEF FailureIsReported
  <2>1. DiagonalFactored /\ LastTile
    BY DEF CountInv, ShapeInv
  <2>2. /\ height \in Nat /\ current \in 1..height
        /\ TileSize(current) \in 1..(height - current + 1)
    BY Sizes DEF IndInv, CountInv, ShapeInv
  <2>3. pivots \in (current - 1)..Done /\ (failed <=> pivots < Done)
    BY <2>1 DEF CountInv, PivotsInv
  <2>4. CASE failed
    BY <2>2, <2>3, <2>4 DEF Done
  <2>5. CASE ~failed
    BY <2>1, <2>2, <2>3, <2>5 DEF Done, LastTile
  <2> QED
    BY <2>4, <2>5
<1> QED
  BY <1>1, IndInvHolds, CountInvHolds, PTL
=============================================================================
