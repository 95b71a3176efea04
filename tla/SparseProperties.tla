--------------------------- MODULE SparseProperties ---------------------------
(***************************************************************************)
(* What a program may rely on: edits arrive, the analysis finds the fill,  *)
(* the factorizations factor, and the solves solve.  Fill and elimination  *)
(* are defined here once more, from the dense matrix alone.                *)
(***************************************************************************)
EXTENDS SparseSolver

\* Every part of the state has its shape, and a locked list has one task
\* between linking and publishing.
TypeOK ==
    /\ phase \in {"editing", "analyzing", "analyzed", "ready"}
    /\ ldl.status \in {"empty", "symbolic", "factored", "failed"}
    /\ outcome.kind \in {"none", "threw", "solved", "refined", "sampled"}
    /\ \A s \in DOMAIN tasks :
           /\ tasks[s].next \in {"compute", "link", "publish", "done"}
           /\ phase = "analyzing" => tasks[s].column \in ColumnsOf(ordering, s)
    /\ phase = "analyzing" =>
           \A column \in DOMAIN child_locks :
               Cardinality({s \in DOMAIN tasks :
                   /\ tasks[s].next = "publish"
                   /\ parents[tasks[s].column] = column})
                   = (IF child_locks[column] THEN 1 ELSE 0)

\* The matrix holds what a table of its places would, after any sequence of
\* queued and immediate edits (CoordinateMatrix): nothing that is only queued,
\* removals before additions at a flush, sums of repeated additions, rows in
\* order without a place twice, and offsets that agree with the entries.
EditsApplied ==
    /\ matrix.entries \in Seq(Range(matrix.entries))
    /\ CoordinateGraph(matrix) = {p \in Places(matrix) : contents[p] # <<>>}
    /\ \A k \in DOMAIN matrix.entries :
           /\ matrix.entries[k].value = contents[Place(matrix.entries[k])]
           /\ k > 1 => Precedes(matrix.entries[k - 1], matrix.entries[k])
    /\ \A row \in 1..(matrix.rows + 1) :
           matrix.offsets[row] = Cardinality({p \in Places(matrix) :
               p[1] < row /\ contents[p] # <<>>})

-----------------------------------------------------------------------------
\* An ordering that comes with a forest, nested dissection among them, numbers
\* every vertex once, children before parents, and joins two supernodes by an
\* entry only if one is an ancestor of the other: what lets the tasks of the
\* parallel analysis and of the factorizations ignore their siblings.
Line(o, s) == Range(Path(o.forest.parents, s, {None}))
Related(o, s, t) == s \in Line(o, t) \/ t \in Line(o, s)
SupernodeOf(o, column) ==
    CHOOSE s \in DOMAIN o.sizes : column \in ColumnsOf(o, s)

\* Supernodes have the children whose parent they are.
IsForest(forest, s) ==
    /\ \/ forest.parents[s] = None
       \/ forest.parents[s] \in DOMAIN forest.parents /\ forest.parents[s] > s
    /\ Range(forest.children[s]) =
           {c \in DOMAIN forest.parents : forest.parents[c] = s}

Separates(m, o) ==
    /\ \A i \in 1..m.rows :
           /\ o.permutation[i] \in 1..m.rows /\ o.inverse[o.permutation[i]] = i
           /\ o.inverse[i] \in 1..m.rows /\ o.permutation[o.inverse[i]] = i
    /\ DOMAIN o.forest.parents = DOMAIN o.sizes
    /\ \A s \in DOMAIN o.sizes : IsForest(o.forest, s)
    /\ \A p \in CoordinateGraph(m) :
           Related(o, SupernodeOf(o, o.permutation[p[1]]),
                      SupernodeOf(o, o.permutation[p[2]]))

OrderingSeparates ==
    phase = "editing" /\ ordering.forest.roots # <<>> =>
        Separates(matrix, ordering)

\* The positions below the diagonal of the factor: eliminating a column joins
\* all of its later neighbours.
Filled(m, o) ==
    LET start == {<<ToNew(o, e[1]), ToNew(o, e[2])>> : e \in CoordinateGraph(m)}
        step(g, j) == g \cup {e \in (1..m.rows) \X (1..m.rows) :
            e[1] > j /\ e[2] > j /\ <<e[1], j>> \in g /\ <<e[2], j>> \in g}
    IN  {e \in Through(Indices(m.rows), start, step) : e[1] > e[2]}
RowsIn(filled, column) == {e[1] : e \in {d \in filled : d[2] = column}}

\* What the tasks of the parallel analysis are done with: they have written
\* the parent of a column, and hung the column into the list of its parent.
Computed ==
    {c \in 1..matrix.rows : \E s \in DOMAIN tasks :
        /\ c \in ColumnsOf(ordering, s)
        /\ \/ c < tasks[s].column
           \/ c = tasks[s].column /\ tasks[s].next # "compute"}
Finished ==
    {c \in 1..matrix.rows : \E s \in DOMAIN tasks :
        /\ c \in ColumnsOf(ordering, s)
        /\ \/ c < tasks[s].column
           \/ c = tasks[s].column /\ tasks[s].next = "done"}

\* However the tasks interleave, the list of a column has each of the finished
\* columns below it once; and when the column merges its list, nobody is late.
ChildrenAreListed ==
    phase = "analyzing" =>
        \A column \in 1..matrix.rows :
            LET children == {c \in Computed : parents[c] = column}
            IN  /\ Range(ChildList(column)) = children \cap Finished
                /\ Len(ChildList(column)) = Cardinality(children \cap Finished)
                /\ column \in Computed => children \subseteq Finished

\* What a task writes is the parent and the degree in the filled matrix, at
\* once and whatever the other tasks are doing; and in the end all is written.
IsExact(filled, column) ==
    LET rows == RowsIn(filled, column)
    IN  /\ degrees[column] = Cardinality(rows)
        /\ parents[column] = IF rows = {} THEN None ELSE Min(rows)
ResultsAreExact ==
    phase = "analyzing" =>
        \E filled \in {Filled(matrix, ordering)} :
            \A column \in 1..matrix.rows :
                column \in Computed \/ AllTasksDone => IsExact(filled, column)

\* A parallel or sequential analysis returns the elimination forest and the
\* degrees of the filled matrix, whatever its tasks met in the lists, the
\* locks and the flags of the analyses before it.
ForestIsExact ==
    phase = "analyzed" =>
        /\ parents \in [1..matrix.rows -> 0..matrix.rows]
        /\ degrees \in [1..matrix.rows -> Nat]
        /\ LET filled == Filled(matrix, ordering)
           IN  \A column \in 1..matrix.rows : IsExact(filled, column)

\* The postorder of the forest keeps subtrees together.
Below(s) ==
    {t \in DOMAIN parents : t # s /\
        \E line \in {Through(Indices(Len(parents)), <<t>>, LAMBDA up, i :
            IF Last(up) = None THEN up ELSE Append(up, parents[Last(up)]))} :
                s \in Range(line)}
SubtreesContiguous(forest) ==
    PostorderIsRefused(forest) \/
        \E post \in {FillPostorder(forest)} : \A s \in DOMAIN parents :
            {post.postorder[k] :
                k \in post.firsts[s]..(post.firsts[s] + Cardinality(Below(s)))}
                = Below(s) \cup {s}
PostorderIsExact ==
    phase = "analyzed" => SubtreesContiguous(FillFromParents(parents))

\* The simple algorithm, which does not compress paths, agrees.
SimpleForestIsExact ==
    phase = "analyzed" =>
        SimpleEliminationForestAndDegrees(matrix, ordering) = Forest

\* The fundamental supernodes are of consecutive columns, each of which has
\* all those after it and the rows of the last one.
AreDense(sizes, filled) ==
    \E starts \in {OffsetScan(sizes)} : \A s \in DOMAIN sizes :
        \A column \in (starts[s] + 1)..starts[s + 1] :
            RowsIn(filled, column) =
                ((column + 1)..starts[s + 1]) \cup RowsIn(filled, starts[s + 1])
FundamentalsAreExact ==
    phase = "analyzed" =>
        \E sizes \in {FormFundamentalSupernodes(parents, degrees)} :
            /\ Last(OffsetScan(sizes)) = matrix.rows
            /\ \E filled \in {Filled(matrix, ordering)} : AreDense(sizes, filled)

\* No task loses a child, each writes its part of the elimination forest, and
\* what an analysis returns is the whole of it, which the simple algorithm
\* agrees with; its postorder keeps subtrees together, and its fundamental
\* supernodes are dense.
ForestIsFound ==
    /\ ChildrenAreListed
    /\ ResultsAreExact
    /\ ForestIsExact
    /\ PostorderIsExact
    /\ SimpleForestIsExact
    /\ FundamentalsAreExact

OtherWaysAgree ==
    phase = "analyzed" =>
        /\ ordering.permutation # <<>> =>
               EliminationForestAndDegrees(PermuteMatrix(matrix, ordering),
                   [ordering EXCEPT !.permutation = <<>>]) = Forest
        /\ ValidFundamentalSupernodes(matrix, ordering,
               FormFundamentalSupernodes(parents, degrees))
StructuresOfForm(form, found, filled) ==
    LET o == form.ordering
        below(s) == UNION {RowsIn(filled, column) : column \in ColumnsOf(o, s)}
    IN  /\ found = ParallelFillStructureIndices(matrix, o)
        /\ \A s \in DOMAIN o.sizes :
               /\ Len(found[s]) = form.degrees[s]
               /\ below(s) \ ColumnsOf(o, s) = Range(found[s])
StructuresCover ==
    phase = "analyzed" =>
        \A c \in SupernodalControls :
            \A form \in {FormSupernodes(ordering, Forest, c)} :
                StructuresOfForm(form,
                    FillSupernodeStructureIndices(matrix, form.ordering,
                                                  form.members),
                    Filled(matrix, form.ordering))

\* What is derived from forest and degrees is right as well: they are found on
\* the permuted matrix, too; the fundamental supernodes pass
\* the check of the debug build; and the supernodes that are formed have the
\* structure of the fill, by either way to fill them.
AnalysisIsExact == OtherWaysAgree /\ StructuresCover

\* Every parallel analysis ends: the spin locks are released and no task waits
\* for a column that waits for it.
AnalysisReturns == (phase = "analyzing") ~> (phase = "analyzed")

-----------------------------------------------------------------------------
\* Dense elimination of the lower triangle, until a pivot is refused.
Eliminated(type, a) ==
    LET n == Height(a)
        adjoin(x) == IF type = LDLTranspose THEN x ELSE Conjugate(x)
        accepts(p) == CASE type = Cholesky -> Positive(RealPart(p))
                        [] type = LDLAdjoint -> RealPart(p) # 0
                        [] type = LDLTranspose -> p # Zero
        column(t, k) ==
            LET pivot == t.l[k][k]
                divisor == IF type = Cholesky
                           THEN FromReal(SquareRoot(RealPart(pivot))) ELSE pivot
                entry(i) == Over(t.l[i][k], divisor)
                update(i, j) ==
                    Times(Times(entry(i), adjoin(entry(j))),
                          IF type = Cholesky THEN One ELSE pivot)
            IN  IF ~t.ok \/ ~accepts(pivot) THEN [t EXCEPT !.ok = FALSE]
                ELSE [ok |-> TRUE, pivots |-> k,
                      l |-> Matrix(n, n, LAMBDA i, j :
                          CASE j < k \/ i < j -> t.l[i][j]
                            [] j = k /\ i = k -> divisor
                            [] j = k /\ i > k -> entry(i)
                            [] j > k /\ i >= j -> Minus(t.l[i][j], update(i, j)))]
    IN  Through(Indices(n), [ok |-> TRUE, pivots |-> 0, l |-> a], column)

\* The entry of the factor at this row and column, zero outside the structure.
FactorEntry(l, i, j) ==
    LET f == l.factor
        s == f.members[j]
        rows == Structure(f, s)
        scalar == {k \in DOMAIN f.structure[j] : f.structure[j][k] = i}
    IN  IF ~l.isSupernodal
        THEN IF i = j THEN f.diagonal[i]
             ELSE IF scalar = {} THEN Zero
                  ELSE f.lower[j][CHOOSE k \in scalar : TRUE]
        ELSE IF f.members[i] = s
             THEN f.diagonal[s][LocalColumn(f, s, i)][LocalColumn(f, s, j)]
             ELSE IF i \in Range(rows)
                  THEN f.lower[s][FindScalarRow(f, s, i)][LocalColumn(f, s, j)]
                  ELSE Zero

\* What the factor is a factor of: the matrix with what regularization added
\* to it, equilibrated and permuted.
Regularized(a, regularization) ==
    LET d == DynamicRegularizationDiagonal(Height(a), regularization)
    IN  Matrix(Height(a), Width(a), LAMBDA i, j :
            IF i = j THEN Plus(a[i][i], d[i]) ELSE a[i][j])
Permuted(a, scaling, o) ==
    Matrix(Height(a), Width(a), LAMBDA i, j :
        LET r == ToOld(o, i)
            c == ToOld(o, j)
        IN  IF scaling = <<>> THEN a[r][c]
            ELSE Over(a[r][c], Times(scaling[r], scaling[c])))

\* Whatever the algorithm (up-, left- or right-looking, by columns, supernodes
\* or blocks, sequential or parallel, with relaxed supernodes, equilibration
\* or regularization), the factor is that of dense elimination of the matrix
\* that the object read, and it fails if and only if elimination meets a pivot
\* it cannot use.  Whether that is the matrix it was asked to factor is the
\* question of RefactorFactorsTheMatrix.
FactorIsOf(given) ==
    LET a == Permuted(Regularized(given, ldl.regularization), ldl.scaling,
                      ldl.factor.ordering)
        reference == Eliminated(ldl.control.type, a)
    IN  phase = "ready" /\ ldl.status \in {"factored", "failed"} =>
            /\ ldl.status = "factored" /\ ~ldl.control.pivoting =>
                   /\ ldl.pivots = Height(a)
                   /\ \A i, j \in 1..Height(a) : i >= j =>
                          FactorEntry(ldl, i, j) = reference.l[i][j]
            /\ ~ldl.control.pivoting /\ ~ldl.control.regularize =>
                   (ldl.status = "factored") = reference.ok
FactorEliminates == FactorIsOf(MatrixInFactor)

\* A sample, the first or a later one of a sampler, by any of its algorithms:
\* with one taken off the diagonal of all rows that are not in it, the matrix
\* has the factor that the sampler leaves; every row was kept or left as its
\* draw and its pivot decide; and the likelihood does not depend on the
\* ordering.  This is about rows of the permuted matrix, which a sample without
\* supernodes names directly, one with supernodes by the rows of the caller's
\* matrix; what the caller reads in it is the question of SampleIsOfTheMatrix.
SampledRows(sampler) ==
    IF sampler.isSupernodal
    THEN {ToNew(sampler.factor.ordering, i) : i \in Range(sampler.sample)}
    ELSE Range(sampler.sample)
LeftOut(a, kept) ==
    Matrix(Height(a), Width(a), LAMBDA i, j :
        IF i = j /\ i \notin kept THEN Minus(a[i][j], One) ELSE a[i][j])
Pivots(reference) == Product(Height(reference.l), LAMBDA i : reference.l[i][i])
SampleFactors(sampler, a, kept, reference) ==
    /\ reference.ok
    /\ \A i, j \in 1..Height(a) : i >= j =>
           FactorEntry(sampler, i, j) = reference.l[i][j]
    /\ \A i \in 1..Height(a) :
           LET delta == RealPart(Plus(reference.l[i][i],
                                      IF i \in kept THEN Zero ELSE One))
           IN  (i \in kept) = Kept(Decisions(sampler.draws, 0), i, delta)
    /\ \A unordered \in {Eliminated(LDLAdjoint,
                           LeftOut(DenseMatrix(sampler.matrix),
                               {ToOld(sampler.factor.ordering, i) : i \in kept}))} :
           unordered.ok => Likelihood(sampler)
                               = Magnitude(RealPart(Pivots(unordered)))
    /\ \A k \in 2..Len(sampler.sample) :
           sampler.sample[k - 1] < sampler.sample[k]
SampleIsDrawn ==
    outcome.kind = "sampled" =>
        \A sampler \in {outcome.sampler} :
            \A a \in {Permuted(DenseMatrix(sampler.matrix), <<>>,
                              sampler.factor.ordering)} :
                \A kept \in {SampledRows(sampler)} :
                    SampleFactors(sampler, a, kept,
                                  Eliminated(LDLAdjoint, LeftOut(a, kept)))

\* Factorizations and samplers leave the factor that they should.
FactorIsExact == FactorEliminates /\ SampleIsDrawn

\* "Factors a new matrix with the same sparsity pattern as a previous
\* factorization": the factor is that of the matrix that the object was asked
\* to factor.
RefactorFactorsTheMatrix == FactorIsOf(factored)

\* "Return a sample from the DPP": the sample, read as rows of the matrix of
\* the process, has the likelihood that the sampler says it has.
SampleIsOfTheMatrix ==
    outcome.kind = "sampled" =>
        \E sampler \in {outcome.sampler} :
        \E reference \in {Eliminated(LDLAdjoint,
                LeftOut(DenseMatrix(sampler.matrix), Range(sampler.sample)))} :
            reference.ok => Likelihood(sampler)
                                = Magnitude(RealPart(Pivots(reference)))

-----------------------------------------------------------------------------
Image(a, x) ==
    Matrix(Height(a), Width(x), LAMBDA i, j :
        SumTo(Width(a), LAMBDA k : Times(a[i][k], x[k][j])))

\* A solve, sequential or parallel, returns x with A x = b for the matrix that
\* is in the factor.  With equilibration that is claimed for one right-hand
\* side only.
SolvedExactly ==
    outcome.kind = "solved"
        /\ (ldl.scaling = <<>> \/ Width(outcome.b) = 1) =>
            Image(Regularized(MatrixInFactor, ldl.regularization),
                  outcome.solution)
                = outcome.b

\* The three sweeps, called one after the other on a permuted right-hand side
\* of a matrix that is not scaled, make the same solve; they leave the pivoting
\* within supernodes out.
SweepsCompose ==
    outcome.kind = "solved" /\ ldl.scaling = <<>> /\ ~ldl.control.pivoting =>
        \A policy \in Policies :
            \E o \in {ldl.factor.ordering} :
                LET permuted == Matrix(Height(outcome.b), Width(outcome.b),
                        LAMBDA i, j : outcome.b[ToOld(o, i)][j])
                    swept == SolveLowerTranspose(ldl, policy,
                        SolveDiagonal(ldl, SolveLower(ldl, policy, permuted)))
                IN  \A i \in DOMAIN permuted :
                        swept[i] = outcome.solution[ToOld(o, i)]

\* The products with the transposed and adjoint matrix are those with the
\* matrix itself where it has the symmetry that it was factored for.
ProductsAgree ==
    outcome.kind = "solved" /\ Suits(ldl.control.type, matrix)
        /\ matrix.rows = NumRows(ldl) =>
            LET image(apply(_, _, _, _, _)) ==
                    apply(MinusOne, matrix, outcome.solution, One, outcome.b)
            IN  image(ApplySparse) =
                    IF ldl.control.type = LDLTranspose
                    THEN image(ApplyTransposeSparse)
                    ELSE image(ApplyAdjointSparse)

\* A refined solve says the truth about the residual of what it returns, never
\* returns a column that is worse than that of the plain solve, and stops in
\* time.
SystemResidual(system, b, x) ==
    ScaledRows(system.scaling,
        Subtracted(b, Image(Regularized(DenseMatrix(system.matrix),
                                        system.regularization), x)))
RefinedTruthfully ==
    LET status == outcome.status
        system == outcome.system
        error(x, j) == MaxNorm(SystemResidual(system, outcome.b, x), j)
        worst == residual_relative_max_norm(status)
    IN  outcome.kind = "refined" =>
            /\ \A j \in 1..Width(outcome.b) : status.norms[j] # 0 =>
                   /\ error(status.solution, j) = status.errors[j]
                   /\ error(status.solution, j) <= error(outcome.first, j)
                   /\ error(status.solution, j) * worst[2]
                          <= worst[1] * status.norms[j]
            /\ status.num_iterations <= outcome.control.max_iters
                   \/ status.num_iterations = 1

\* Solves and refined solves do what they promise.
SolutionSolves ==
    SolvedExactly /\ SweepsCompose /\ ProductsAgree /\ RefinedTruthfully

\* "Solves a set of linear systems using the factorization": every column, of
\* an equilibrated factorization too.
SolvesEverySystem ==
    outcome.kind = "solved" =>
        Image(Regularized(factored, ldl.regularization), outcome.solution)
            = outcome.b

\* The buffer of values has room for the factor that lies in it, and after a
\* parallel solve the boundaries lie in their buffer, apart from each other,
\* with as many columns as the right-hand sides, whatever widths the solves
\* before it had.
Cells(view) ==
    {view.at + i - 1 + (j - 1) * view.stride :
        i \in 1..view.height, j \in 1..view.width}
WorkspaceFits ==
    /\ ldl.isSupernodal => ldl.values >= FactorValues(ldl.factor)
    /\ outcome.kind # "threw"
    /\ boundaries.allocated =>
           LET views == boundaries.views
           IN  /\ Len(views) = Len(ldl.factor.degrees)
               /\ \A s \in DOMAIN views :
                      /\ views[s].height = ldl.factor.degrees[s]
                      /\ outcome.kind = "solved" /\ outcome.parallel =>
                             views[s].width = Width(outcome.b)
                      /\ Cells(views[s]) \subseteq 1..boundaries.capacity
                      /\ \A t \in DOMAIN views \ {s} :
                             Cells(views[s]) \cap Cells(views[t]) = {}
=============================================================================
