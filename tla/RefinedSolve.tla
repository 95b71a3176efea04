---------------------------- MODULE RefinedSolve ----------------------------
(***************************************************************************)
(* Iterative refinement: the factorization of a matrix that is only close  *)
(* to the one of the system (regularized, or factored before its values    *)
(* changed) gives a first solution and then corrections of it, each of     *)
(* which is taken only if it makes the residual of its column smaller.     *)
(*                                                                         *)
(* A system is a record [matrix, ldl, regularization, scaling]: the system *)
(* to be solved is scaling (matrix + regularization) scaling, either of    *)
(* which may be missing, with ldl to apply the inverse of matrix +         *)
(* regularization.  control is [tolerance, max_iters], the tolerance being *)
(* a pair of numerator and denominator.  Scaling is undone for the caller, *)
(* who gives b and receives x of the unscaled system.                      *)
(*                                                                         *)
(* The members of SparseLDL that refine call Solve without its block size; *)
(* the model gives it that of the factor, the only one Solve accepts.      *)
(***************************************************************************)
EXTENDS SparseLDL

-----------------------------------------------------------------------------
(***************************************************************************)
(* Products with a sparse matrix: alpha op(matrix) x + beta y.             *)
(***************************************************************************)
Applied(alpha, rows, columns, values, x, beta, y) ==
    Matrix(Height(y), Width(y), LAMBDA i, j :
        Plus(Times(beta, y[i][j]), SumTo(Len(rows), LAMBDA k :
            IF rows[k] = i
            THEN Times(alpha, Times(values[k], x[columns[k]][j]))
            ELSE Zero)))
RowsOfEntries(m) == <<>> \o [k \in DOMAIN m.entries |-> m.entries[k].row]
ColumnsOfEntries(m) == <<>> \o [k \in DOMAIN m.entries |-> m.entries[k].column]
ValuesOfEntries(m) == <<>> \o [k \in DOMAIN m.entries |-> m.entries[k].value]

ApplySparse(alpha, m, x, beta, y) ==
    Applied(alpha, RowsOfEntries(m), ColumnsOfEntries(m), ValuesOfEntries(m),
            x, beta, y)
ApplyTransposeSparse(alpha, m, x, beta, y) ==
    Applied(alpha, ColumnsOfEntries(m), RowsOfEntries(m), ValuesOfEntries(m),
            x, beta, y)
ApplyAdjointSparse(alpha, m, x, beta, y) ==
    Applied(alpha, ColumnsOfEntries(m), RowsOfEntries(m),
            <<>> \o [k \in DOMAIN m.entries |-> Conjugate(m.entries[k].value)],
            x, beta, y)

-----------------------------------------------------------------------------
(***************************************************************************)
(* The system of a refinement and its approximate inverse.                 *)
(***************************************************************************)
ScaledRows(scaling, x) ==
    IF scaling = <<>> THEN x
    ELSE Matrix(Height(x), Width(x), LAMBDA i, j : Times(x[i][j], scaling[i]))
UnscaledRows(scaling, x) ==
    IF scaling = <<>> THEN x
    ELSE Matrix(Height(x), Width(x), LAMBDA i, j : Over(x[i][j], scaling[i]))

apply_matrix(system, x) ==
    LET input == ScaledRows(system.scaling, x)
        image == ApplySparse(One, system.matrix, input, Zero,
                             ZerosOf(Height(x), Width(x)))
        regularized == Through(system.regularization, image, LAMBDA y, entry :
            Matrix(Height(y), Width(y), LAMBDA i, j :
                IF i = entry[1]
                THEN Plus(y[i][j], Times(FromReal(entry[2]), input[i][j]))
                ELSE y[i][j]))
    IN  ScaledRows(system.scaling, regularized)

apply_inverse(system, policy, x) ==
    UnscaledRows(system.scaling,
        Solve(system.ldl, policy, FALSE, FALSE,
              UnscaledRows(system.scaling, x)))

-----------------------------------------------------------------------------
(***************************************************************************)
(* Refinement.                                                             *)
(***************************************************************************)
MaxNorm(x, j) == Max({Abs(x[i][j]) : i \in 1..Height(x)})
ColumnsAt(x, columns) ==
    Matrix(Height(x), Len(columns), LAMBDA i, k : x[i][columns[k]])
Subtracted(x, y) ==
    Matrix(Height(x), Width(x), LAMBDA i, j : Minus(x[i][j], y[i][j]))

\* Columns whose error is within the tolerance drop out.
Deflated(s, norms, control) ==
    SelectSeq(s.active, LAMBDA j :
        s.errors[j] * control.tolerance[2] > control.tolerance[1] * norms[j])

\* Mutant: any candidate is taken.
AlwaysImproves(residual, k, error) == TRUE
Improves(residual, k, error) == MaxNorm(residual, k) < error

\* One correction of the active columns; those it does not improve drop out,
\* with their old solution.
TakeImproved(b, active, s, candidate, residual) ==
    LET at(j) == CHOOSE k \in DOMAIN active : active[k] = j
        improved == SelectSeq(active, LAMBDA j :
            Improves(residual, at(j), s.errors[j]))
        taken == Range(improved)
    IN  [solution |-> Matrix(Height(b), Width(b), LAMBDA i, j :
             IF j \in taken THEN candidate[i][at(j)] ELSE s.solution[i][j]),
         residual |-> Matrix(Height(b), Width(b), LAMBDA i, j :
             IF j \in Range(active) THEN residual[i][at(j)]
             ELSE s.residual[i][j]),
         errors |-> <<>> \o [j \in DOMAIN s.errors |->
             IF j \in taken THEN MaxNorm(residual, at(j)) ELSE s.errors[j]],
         active |-> improved,
         num_iterations |-> s.num_iterations + 1]

Corrected(s, active, update) ==
    Matrix(Height(update), Len(active), LAMBDA i, k :
        Plus(s.solution[i][active[k]], update[i][k]))

RefinementStep(system, policy, b, active, s) ==
    LET taken(candidate) ==
            TakeImproved(b, active, s, candidate,
                Subtracted(ColumnsAt(b, active),
                           apply_matrix(system, candidate)))
    IN  taken(Corrected(s, active,
            apply_inverse(system, policy, ColumnsAt(s.residual, active))))

\* One correction is tried even if max_iters is zero.
RefineFrom(system, policy, control, b, norms, start) ==
    LET rounds == IF control.max_iters = 0 THEN 1 ELSE control.max_iters
        round(s, active) ==
            IF active = <<>> THEN [s EXCEPT !.active = <<>>]
            ELSE RefinementStep(system, policy, b, active, s)
    IN  Through(Indices(rounds), start, LAMBDA s, k :
            round(s, Deflated(s, norms, control)))

\* A right-hand side that is zero keeps the solution of the first solve and
\* counts for no error.
StartOfRefinement(b, norms, solution, residual) ==
    [solution |-> solution, residual |-> residual,
     errors |-> <<>> \o [j \in DOMAIN norms |->
         IF norms[j] = 0 THEN 0 ELSE MaxNorm(residual, j)],
     active |-> SelectSeq(Indices(Len(norms)), LAMBDA j : norms[j] # 0),
     num_iterations |-> 0]

Refine(system, policy, control, b) ==
    LET norms == <<>> \o [j \in 1..Width(b) |-> MaxNorm(b, j)]
        from(first) == StartOfRefinement(b, norms, first,
                           Subtracted(b, apply_matrix(system, first)))
        status(done) ==
            [solution |-> done.solution, errors |-> done.errors,
             norms |-> norms, num_iterations |-> done.num_iterations]
    IN  status(RefineFrom(system, policy, control, b, norms,
                          from(apply_inverse(system, policy, b))))

\* The wrappers scale the right-hand sides on the way in and the solution on
\* the way out.
RefinedSolve(system, policy, control, b) ==
    [Refine(system, policy, control, ScaledRows(system.scaling, b))
        EXCEPT !.solution = ScaledRows(system.scaling, @)]

\* The worst column, as a pair of its error and the norm to divide it by.
residual_relative_max_norm(status) ==
    Through(Indices(Len(status.errors)), <<0, 1>>, LAMBDA worst, j :
        IF /\ status.norms[j] # 0
           /\ status.errors[j] * worst[2] > worst[1] * status.norms[j]
        THEN <<status.errors[j], status.norms[j]>> ELSE worst)
=============================================================================
