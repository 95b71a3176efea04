------------------------- MODULE TiledFactorizations -------------------------
(***************************************************************************)
(* The dense factorizations and samplers split into OpenMP tasks, one per  *)
(* tile and step.  The driver creates the tasks in program order; a task   *)
(* waits for the earlier tasks whose depend clauses conflict with its own, *)
(* and nothing else keeps two tasks from running at the same time.  The    *)
(* clauses name one address of a tile of the matrix.  They do not name the *)
(* buffer called factor, and most of them do not name the diagonal tile,   *)
(* although tasks read and write both.                                     *)
(***************************************************************************)
EXTENDS PivotedFactorizations, FiniteSets

CONSTANT Calls     \* the calls to make, see CallsAssumption

\* A tile size, a block size, the parameters and a square matrix for some
\* routine.
ASSUME CallsAssumption ==
    \A call \in Calls :
        /\ call.routine \in Routines
        /\ call.tile \in Nat \ {0} /\ call.block \in Nat \ {0}
        /\ call.matrix \in Seq(Seq(Scalar)) /\ call.matrix # <<>>
        /\ \A row \in 1..Height(call.matrix) :
              Len(call.matrix[row]) = Height(call.matrix)
        /\ Len(call.params.draws) = Height(call.matrix)
        /\ Len(call.params.signatures) = Height(call.matrix)

VARIABLES
    call,          \* the arguments of the call
    matrix,        \* the matrix, overwritten by its factor
    factor,        \* the workspace for the copies of the panels
    current,       \* the first row of the current tile
    tasks,         \* the tasks created and not yet finished
    pivots,        \* num_pivots
    regularization,  \* dynamic_regularization
    sample,
    failed,        \* failed_pivot
    pc             \* the driver: "wait" for the diagonal task, "drain", "done"

vars == <<call, matrix, factor, current, tasks, pivots, regularization,
          sample, failed, pc>>

height == Height(call.matrix)
TileSize(i) == Smaller(height - i + 1, call.tile)
Tiles == TileStarts(height, call.tile)
TilesAfter(i) == {k \in Tiles : k > i}
UsesFactor == call.routine \notin {"cholesky", "regularizedCholesky",
                                   "nonHermitianDPP"}
IsLU == call.routine = "nonHermitianDPP"
IsSampler == call.routine \in {"hermitianDPP", "nonHermitianDPP"}

-----------------------------------------------------------------------------
(***************************************************************************)
(* The tasks, what their depend clauses say and what they touch.           *)
(***************************************************************************)
Diagonal(i) == [kind |-> "diagonal", i |-> i, row |-> i, column |-> i]
Solve(i, row) == [kind |-> "solve", i |-> i, row |-> row, column |-> i]
SolveRow(i, column) ==
    [kind |-> "solveRow", i |-> i, row |-> i, column |-> column]
Update(i, row, column) ==
    [kind |-> "update", i |-> i, row |-> row, column |-> column]

\* Mutant: an update does not wait for the row of its column block.
DependInRowOnly(task) ==
    CASE task.kind = "solve" /\ IsCholesky(call.routine) ->
           {<<task.i, task.i>>}
      [] task.kind = "update" -> {<<task.row, task.i>>}
      [] OTHER -> {}

\* The tiles of the depend(in) clause.
DependIn(task) ==
    CASE task.kind = "solve" /\ IsCholesky(call.routine) ->
           {<<task.i, task.i>>}
      [] task.kind = "update" /\ IsLU ->
           {<<task.row, task.i>>, <<task.i, task.column>>}
      [] task.kind = "update" /\ ~IsLU ->
           {<<task.row, task.i>>, <<task.column, task.i>>}
      [] OTHER -> {}

\* The tile of the depend(inout) clause.
DependInOut(task) == <<task.row, task.column>>

Conflicts(later, earlier) ==
    \/ DependInOut(earlier) = DependInOut(later)
    \/ DependInOut(earlier) \in DependIn(later)
    \/ DependInOut(later) \in DependIn(earlier)

\* The order of creation: step by step, then as the loops of a step come, the
\* last of which goes down one column after the other.
LoopOf(task) ==
    CASE task.kind = "diagonal" -> 0
      [] task.kind = "solve" -> 1
      [] task.kind = "solveRow" -> 2
      [] task.kind = "update" -> 3
Earlier(s, t) ==
    \/ s.i < t.i
    \/ s.i = t.i /\ LoopOf(s) < LoopOf(t)
    \/ s.i = t.i /\ LoopOf(s) = LoopOf(t) /\ s.column < t.column
    \/ s.i = t.i /\ LoopOf(s) = LoopOf(t) /\ s.column = t.column /\ s.row < t.row

\* Mutant: a task waits for itself.
ReadyAfterItself(task) ==
    \A other \in tasks : ~Earlier(task, other) => ~Conflicts(task, other)

Ready(task) ==
    \A other \in tasks : Earlier(other, task) => ~Conflicts(task, other)

Reads(task) ==
    CASE task.kind = "diagonal" -> {}
      [] task.kind \in {"solve", "solveRow"} ->
           {<<"matrix", task.i, task.i>>}
      [] task.kind = "update" ->
           {<<"matrix", task.row, task.i>>,
            CASE IsLU -> <<"matrix", task.i, task.column>>
              [] UsesFactor -> <<"factor", task.column, task.i>>
              [] OTHER -> <<"matrix", task.column, task.i>>}
Writes(task) ==
    {<<"matrix", task.row, task.column>>} \cup
    (IF task.kind = "solve" /\ UsesFactor
     THEN {<<"factor", task.row, task.i>>} ELSE {})

-----------------------------------------------------------------------------
(***************************************************************************)
(* What a task computes.                                                   *)
(***************************************************************************)
Tile(m, row, column) ==
    Submatrix(m, row, column, TileSize(row), TileSize(column))

\* The sequential routine for a tile.
TileRoutine(params, m) ==
    IF call.routine = "cholesky" THEN LowerCholeskyFactorization(call.block, m)
    ELSE Blocked(call.routine, call.block, params, m)

\* Mutant: the tile is factored without the offset of its first row.
FactorDiagonalWithoutOffset(task) ==
    LET block == TileRoutine(call.params, Tile(matrix, task.i, task.i))
    IN  /\ matrix' = Overwrite(matrix, task.i, task.i, block.matrix)
        /\ pivots' = pivots + block.pivots
        /\ failed' = (block.pivots < TileSize(task.i))
        /\ regularization' = regularization \o block.regularization
        /\ sample' = sample \o Shifted(block.sample, task.i - 1)
        /\ UNCHANGED factor

FactorDiagonal(task) ==
    LET offset == task.i - 1
        block == TileRoutine(Offset(call.params, offset),
                             Tile(matrix, task.i, task.i))
    IN  /\ matrix' = Overwrite(matrix, task.i, task.i, block.matrix)
        /\ pivots' = pivots + block.pivots
        /\ failed' = (block.pivots < TileSize(task.i))
        /\ regularization' = regularization \o block.regularization
        /\ sample' = sample \o Shifted(block.sample, offset)
        /\ UNCHANGED factor

SolveSubdiagonal(task) ==
    LET diagonal == Tile(matrix, task.i, task.i)
        solved == SolvedPanel(call.routine, diagonal,
                              Tile(matrix, task.row, task.i))
    IN  /\ matrix' = Overwrite(matrix, task.row, task.i,
                               DividedPanel(call.routine, diagonal, solved))
        /\ factor' = IF UsesFactor
                     THEN Overwrite(factor, task.row, task.i,
                                    CopiedPanel(call.routine, solved))
                     ELSE factor
        /\ UNCHANGED <<pivots, failed, regularization, sample>>

SolveSuperdiagonal(task) ==
    /\ matrix' = Overwrite(matrix, task.i, task.column,
                     LeftLowerUnitTriangularSolves(
                         Tile(matrix, task.i, task.i),
                         Tile(matrix, task.i, task.column)))
    /\ UNCHANGED <<factor, pivots, failed, regularization, sample>>

\* The new value of the tile: Cholesky multiplies by another tile of the
\* column, LDL and the Hermitian sampler by the copy of it, LU by a tile of the
\* row.
CholeskyUpdate(task, old) ==
    LET row == Tile(matrix, task.row, task.i)
    IN  IF task.row = task.column
        THEN LowerNormalHermitianOuterProduct(MinusOne, row, One, old)
        ELSE MatrixMultiplyNormalAdjoint(
                 MinusOne, row, Tile(matrix, task.column, task.i), One, old)
FactorUpdate(task, old) ==
    LET row == Tile(matrix, task.row, task.i)
        copy == Tile(factor, task.column, task.i)
    IN  IF task.row = task.column
        THEN MatrixMultiplyLowerNormalTranspose(MinusOne, row, copy, One, old)
        ELSE MatrixMultiplyNormalTranspose(MinusOne, row, copy, One, old)
LUUpdate(task, old) ==
    MatrixMultiplyNormalNormal(
        MinusOne, Tile(matrix, task.row, task.i),
        Tile(matrix, task.i, task.column), One, old)

UpdateTile(task) ==
    LET old == Tile(matrix, task.row, task.column)
        new == CASE IsLU -> LUUpdate(task, old)
                 [] UsesFactor -> FactorUpdate(task, old)
                 [] OTHER -> CholeskyUpdate(task, old)
    IN  /\ matrix' = Overwrite(matrix, task.row, task.column, new)
        /\ UNCHANGED <<factor, pivots, failed, regularization, sample>>

-----------------------------------------------------------------------------
(***************************************************************************)
(* The driver.                                                             *)
(***************************************************************************)
\* The tasks of the step at tile i: the solves, and for each column the
\* updates of its rows.
Solves(i) == {Solve(i, row) : row \in TilesAfter(i)}
Updates(i) == {Update(i, row, column) : row, column \in TilesAfter(i)}

LowerStepTasks(i) == Solves(i) \cup {u \in Updates(i) : u.row >= u.column}
LUStepTasks(i) ==
    Solves(i) \cup {SolveRow(i, column) : column \in TilesAfter(i)}
              \cup Updates(i)
StepTasks(i) == IF IsLU THEN LUStepTasks(i) ELSE LowerStepTasks(i)

\* The buffer is not cleared: something an earlier call left.
LeftInBuffer == Matrix(height, height, LAMBDA i, j : One)

Init ==
    /\ call \in Calls
    /\ matrix = call.matrix
    /\ factor = LeftInBuffer
    /\ current = 1
    /\ tasks = {Diagonal(1)}
    /\ pivots = 0
    /\ regularization = <<>>
    /\ sample = <<>>
    /\ failed = FALSE
    /\ pc = "wait"

TakeTask(task) ==
    /\ Ready(task)
    /\ tasks' = tasks \ {task}
    /\ UNCHANGED <<call, current, pc>>

\* Some task that is ready runs.  Tasks that are ready at the same time may
\* overlap; ReadyTasksDisjoint says that this makes no difference.
RunTask ==
    \E task \in tasks :
        /\ TakeTask(task)
        /\ CASE task.kind = "diagonal" -> FactorDiagonal(task)
             [] task.kind = "solve" -> SolveSubdiagonal(task)
             [] task.kind = "solveRow" -> SolveSuperdiagonal(task)
             [] task.kind = "update" -> UpdateTile(task)

\* The inner taskgroup is over when the diagonal task is.
DiagonalFactored == \A task \in tasks : task.kind # "diagonal"

\* Mutant: only a failed pivot ends the loop.
LastTileOnFailure == failed

LastTile == failed \/ current + TileSize(current) > height

\* Create the tasks of this step and the diagonal task of the next one.
NextTile ==
    /\ pc = "wait" /\ DiagonalFactored /\ ~LastTile
    /\ current' = current + call.tile
    /\ tasks' = tasks \cup StepTasks(current)
                      \cup {Diagonal(current + call.tile)}
    /\ UNCHANGED <<call, matrix, factor, pivots, regularization, sample,
                   failed, pc>>

Break ==
    /\ pc = "wait" /\ DiagonalFactored /\ LastTile
    /\ pc' = "drain"
    /\ UNCHANGED <<call, matrix, factor, current, tasks, pivots,
                   regularization, sample, failed>>

\* The outer taskgroup waits for every task.
Return ==
    /\ pc = "drain" /\ tasks = {}
    /\ pc' = "done"
    /\ UNCHANGED <<call, matrix, factor, current, tasks, pivots,
                   regularization, sample, failed>>

Finished == pc = "done" /\ UNCHANGED vars

Next == RunTask \/ NextTile \/ Break \/ Return \/ Finished

\* The OpenMP runtime takes some task as long as one is ready, and the driver
\* goes on when it need not wait.
Progress ==
    \/ \E task \in tasks : TakeTask(task)
    \/ NextTile \/ Break \/ Return
Fairness == WF_<<tasks, pc>>(Progress)

Spec == Init /\ [][Next]_vars /\ Fairness

-----------------------------------------------------------------------------
(***************************************************************************)
(* Properties.                                                             *)
(***************************************************************************)
\* The variables have their types; the driver never moves past the matrix.
TypeOK ==
    /\ Height(matrix) = height /\ Height(factor) = height
    /\ current \in Tiles
    /\ \A task \in tasks : task.row \in Tiles /\ task.column \in Tiles
    /\ pivots \in 0..height
    /\ failed \in BOOLEAN
    /\ pc \in {"wait", "drain", "done"}

\* Two tasks that may run at the same time do not touch the same tile of the
\* matrix or of the buffer, unless both only read it, although the depend
\* clauses do not mention all that the tasks touch.
ReadyTasksDisjoint ==
    \A s, t \in tasks :
        s # t /\ Ready(s) /\ Ready(t) =>
            Writes(s) \cap (Reads(t) \cup Writes(t)) = {}

\* The first n rows and columns of the lower triangle, or of all of m.
Leading(m, n) ==
    Matrix(n, n, LAMBDA i, j : IF IsLU \/ i >= j THEN m[i][j] ELSE Zero)

\* A result r up to the pivot that failed.
Reported(r) ==
    <<r.pivots, r.regularization, r.sample, Leading(r.matrix, r.pivots)>>

\* The order of the tasks, the tile size and the block size do not matter: the
\* tasks and the blocked routine report the pivots, the regularizations and the
\* sample of the unblocked routine, and leave the same factor.
SplittingAgrees ==
    pc = "done" =>
        LET unblocked == Reported(UnblockedRoutine(call.routine, call.params,
                                                   call.matrix))
        IN  /\ Reported([matrix |-> matrix, pivots |-> pivots, sample |-> sample,
                         regularization |-> regularization]) = unblocked
            /\ \A size \in 1..height :
                 Reported(Blocked(call.routine, size, call.params,
                                  call.matrix)) = unblocked

\* The product of the factors stored in m.
FactorProduct(m, n) ==
    LET unit(i, j) == CASE i = j -> One [] i > j -> m[i][j] [] OTHER -> Zero
        real(j) == FromReal(RealPart(m[j][j]))
        entry(i, j, k) ==
          CASE k > i \/ k > j -> Zero
            [] k <= i /\ k <= j /\ IsCholesky(call.routine) ->
                 Times(m[i][k], Conjugate(m[j][k]))
            [] k <= i /\ k <= j /\ call.routine = "ldlTranspose" ->
                 Times(unit(i, k), Times(m[k][k], unit(j, k)))
            [] k <= i /\ k <= j /\ IsLU -> Times(unit(i, k), m[k][j])
            [] OTHER -> Times(unit(i, k), Times(real(k), Conjugate(unit(j, k))))
    IN  Matrix(n, n, LAMBDA i, j : SumTo(n, LAMBDA k : entry(i, j, k)))

\* What the diagonal entry i of the input was changed by: the regularization
\* recorded for it, and -1 for an index that a sampler drops.
Perturbation(i) ==
    LET original == OriginalIndex(call.params, i)
        recorded == {r \in 1..Len(regularization) :
                        regularization[r][1] = original}
    IN  CASE IsSampler ->
               IF \E k \in 1..Len(sample) : sample[k] = i
               THEN Zero ELSE MinusOne
          [] ~IsSampler /\ recorded # {} ->
               FromReal(regularization[CHOOSE r \in recorded : TRUE][2])
          [] OTHER -> Zero

\* The factors multiply to the input, changed by exactly what the call reports:
\* the recorded regularizations under their original indices, and the sample.
ResultIsFactor ==
    pc = "done" =>
        Leading(FactorProduct(matrix, pivots), pivots) =
        Leading(Matrix(pivots, pivots, LAMBDA i, j :
                    IF i = j THEN Plus(call.matrix[i][i], Perturbation(i))
                    ELSE call.matrix[i][j]), pivots)

\* A call returns, whether or not a pivot fails.
CallReturns == <>(pc = "done")
=============================================================================
