--------------------------- MODULE SupernodalSetup ---------------------------
(***************************************************************************)
(* The supernodal factor before any number is in it: the relaxed           *)
(* supernodes of a pattern, the blocks allocated for them, and how entries *)
(* of the matrix reach the blocks.                                         *)
(*                                                                         *)
(* A factor is a record: the ordering with its supernodes, the supernode   *)
(* of every row, the structure of every supernode, the sizes of its        *)
(* intersections with later supernodes, and the values of the diagonal and *)
(* lower blocks.  A structure keeps one index, its base, for blockSize     *)
(* consecutive rows below the diagonal block.  Blocks that are only        *)
(* allocated hold Stale values: the buffer is recycled and not cleared.    *)
(***************************************************************************)
EXTENDS SupernodalSymbolic, DenseKernels

Stale == <<1, 1>>

-----------------------------------------------------------------------------
(***************************************************************************)
(* From the scalar forest to allocated blocks.                             *)
(***************************************************************************)
\* control.relax decides whether the fundamental supernodes are merged.
FormSupernodes(o, scalar, control) ==
    LET sizes == FormFundamentalSupernodes(scalar.parents, scalar.degrees)
        offsets == OffsetScan(sizes)
        members == MemberToIndex(Len(scalar.parents), offsets)
        forest == FillFromParents(
            ConvertFromScalarToSupernodalEliminationForest(
                Len(sizes), scalar.parents, members))
        fundamental == [o EXCEPT !.sizes = sizes, !.offsets = offsets,
                                 !.forest = forest]
        degrees == <<>> \o [s \in DOMAIN sizes |->
                               scalar.degrees[offsets[s] + sizes[s]]]
    IN  IF control.relax THEN RelaxSupernodes(fundamental, degrees, control)
        ELSE [ordering |-> fundamental, degrees |-> degrees,
              members |-> members]

DiagonalFactor(sizes) ==
    <<>> \o [s \in DOMAIN sizes |->
                Matrix(sizes[s], sizes[s], LAMBDA i, j : Stale)]
LowerFactor(sizes, degrees) ==
    <<>> \o [s \in DOMAIN sizes |->
                Matrix(degrees[s], sizes[s], LAMBDA i, j : Stale)]

\* How many rows of each structure fall into each later supernode it meets,
\* in the order in which it meets them.
FillIntersectionSizes(bases, members, blockSize) ==
    LET sizes(structure) ==
            Through(structure, [last |-> None, sizes |-> <<>>],
                LAMBDA t, row :
                    [last |-> members[row],
                     sizes |->
                        IF members[row] = t.last
                        THEN [t.sizes EXCEPT ![Len(t.sizes)] = @ + blockSize]
                        ELSE Append(t.sizes, blockSize)]).sizes
    IN  <<>> \o [s \in DOMAIN bases |-> sizes(bases[s])]

\* Both ways to fill the structures; which one runs depends on the number of
\* threads.
Structures(m, form, parallel) ==
    IF parallel THEN ParallelFillStructureIndices(m, form.ordering)
    ELSE FillSupernodeStructureIndices(m, form.ordering, form.members)

m_allocateFactors(form) ==
    LET o == form.ordering
        entries(s) == (o.sizes[s] * (o.sizes[s] + 1)) \div 2
                          + o.sizes[s] * form.degrees[s]
    IN  [diagonal |-> DiagonalFactor(o.sizes),
         lower |-> LowerFactor(o.sizes, form.degrees),
         nnz |-> Through(Indices(Len(o.sizes)), 0,
                         LAMBDA n, s : n + entries(s))]

InitializeFactors(m, form, parallel) ==
    LET structures == Structures(m, form, parallel)
        allocated == m_allocateFactors(form)
    IN  [ordering |-> form.ordering, members |-> form.members,
         degrees |-> form.degrees, blockSize |-> 1, bases |-> structures,
         intersections |-> FillIntersectionSizes(structures, form.members, 1),
         diagonal |-> allocated.diagonal, lower |-> allocated.lower,
         nnz |-> allocated.nnz,
         permutations |-> Constant(Len(form.degrees), <<>>)]

\* What left-looking reserves for one update, and for a scaled transpose.
LeftLookingWorkspaceSize(f) ==
    LET met(s, k) == f.intersections[s][k]
        below(s, k) == f.degrees[s]
            - Through(Indices(k), 0, LAMBDA t, j : t + met(s, j))
        uses == UNION {UNION {{met(s, k) * met(s, k), met(s, k) * below(s, k)} :
                    k \in DOMAIN f.intersections[s]} : s \in DOMAIN f.degrees}
    IN  IF uses = {} THEN 0 ELSE Max(uses)

\* The k-th of the scalar rows that the bases stand for, and all of them.
ScalarBlockRow(bases, size, k) ==
    bases[(k - 1) \div size + 1] + ((k - 1) % size)
Structure(f, s) ==
    <<>> \o [k \in 1..f.degrees[s] |->
                ScalarBlockRow(f.bases[s], f.blockSize, k)]

\* The column of a supernode, and the row of its structure, of an index.  The
\* bases are searched for the index of the first row of the block.
LocalColumn(f, s, column) == column - f.ordering.offsets[s]
FindScalarRow(f, s, row) ==
    LET component == (row - 1) % f.blockSize
        place == CHOOSE k \in DOMAIN f.bases[s] :
                     f.bases[s][k] = row - component
    IN  f.blockSize * (place - 1) + component + 1

-----------------------------------------------------------------------------
(***************************************************************************)
(* Entries into blocks.                                                    *)
(***************************************************************************)
FillZeros(f) ==
    [f EXCEPT
        !.diagonal = <<>> \o [s \in DOMAIN @ |->
            Matrix(f.ordering.sizes[s], f.ordering.sizes[s],
                   LAMBDA i, j : Zero)],
        !.lower = <<>> \o [s \in DOMAIN @ |->
            Matrix(f.degrees[s], f.ordering.sizes[s], LAMBDA i, j : Zero)]]

\* An entry of the permuted matrix goes to the block of its column's
\* supernode; entries right of the diagonal block have no place.
PlaceEntry(f, e) ==
    LET s == f.members[e.column]
        j == LocalColumn(f, s, e.column)
    IN  IF s = f.members[e.row]
        THEN [f EXCEPT !.diagonal[s][LocalColumn(f, s, e.row)][j] = e.value]
        ELSE IF s > f.members[e.row] THEN f
             ELSE [f EXCEPT !.lower[s][FindScalarRow(f, s, e.row)][j] = e.value]

FillNonzeros(m, f) ==
    Through(Indices(m.rows), f, LAMBDA g, row :
        Through(PermutedRow(m, f.ordering, row), g, PlaceEntry))

\* One column at a time, from the conjugate of the matrix's row, after the
\* column has been cleared.
InitializeBlockColumn(s, m, type, f) ==
    LET o == f.ordering
        value(v) == IF type = LDLTranspose THEN v ELSE Conjugate(v)
        row(j) == SelectSeq(PermutedRow(m, o, j),
                            LAMBDA e : e.column > o.offsets[s])
        cleared == [f EXCEPT
            !.diagonal[s] = Matrix(o.sizes[s], o.sizes[s], LAMBDA i, j : Zero),
            !.lower[s] = Matrix(f.degrees[s], o.sizes[s], LAMBDA i, j : Zero)]
    IN  Through([k \in 1..o.sizes[s] |-> o.offsets[s] + k], cleared,
            LAMBDA g, j : Through(row(j), g, LAMBDA h, e :
                IF f.members[e.column] = s
                THEN [h EXCEPT !.diagonal[s][LocalColumn(f, s, e.column)]
                          [LocalColumn(f, s, j)] = value(e.value)]
                ELSE [h EXCEPT !.lower[s][FindScalarRow(f, s, e.column)]
                          [LocalColumn(f, s, j)] = value(e.value)]))

\* A refactorization gets its values through a conversion plan, which knows
\* where every stored entry of the lower triangle goes: A, A + sigma I or,
\* when a second matrix is given, A + sigma B.
injectEntries(input, i, j) ==
    LET shift == IF input.B # <<>> THEN input.B[i][j]
                 ELSE IF i = j THEN One ELSE Zero
    IN  Plus(input.A[i][j], Times(input.sigma, shift))

BlockCPlanInitializeFactorSupernodeColumns(s, input, f) ==
    LET o == f.ordering
        old(i) == ToOld(o, i)
        first == o.offsets[s]
    IN  [f EXCEPT
            !.diagonal[s] = Matrix(o.sizes[s], o.sizes[s], LAMBDA i, j :
                IF i < j THEN @[i][j]
                ELSE injectEntries(input, old(first + i), old(first + j))),
            !.lower[s] = Matrix(f.degrees[s], o.sizes[s], LAMBDA i, j :
                injectEntries(input, old(Structure(f, s)[i]), old(first + j)))]

-----------------------------------------------------------------------------
(***************************************************************************)
(* From a factor of the pattern of blocks to one of the scalar matrix.     *)
(***************************************************************************)
\* Every block index stands for size consecutive scalar ones.
UpgradePermutation(p, size) ==
    <<>> \o [i \in 1..(size * Len(p)) |->
                (p[(i - 1) \div size + 1] - 1) * size
                    + ((i - 1) % size) + 1]

\* Throws for a factor that has been expanded already.
MayExpand(f, size) == size >= 1 /\ f.blockSize = 1

\* The structures keep one index for each of the original ones.  The pivot
\* permutations are not taken over.
ExpandSymbolicFactorizationToScalar(f, size) ==
    LET o == f.ordering
        scaled(s) == <<>> \o [k \in DOMAIN s |-> size * s[k]]
        sizes == scaled(o.sizes)
        degrees == scaled(f.degrees)
        members == <<>> \o [i \in 1..(size * Len(f.members)) |->
                               f.members[(i - 1) \div size + 1]]
        bases == <<>> \o [s \in DOMAIN f.bases |->
            <<>> \o [k \in DOMAIN f.bases[s] |->
                        size * (f.bases[s][k] - 1) + 1]]
        form == [ordering |-> [o EXCEPT
                    !.sizes = sizes, !.offsets = scaled(@),
                    !.permutation = UpgradePermutation(@, size),
                    !.inverse = UpgradePermutation(@, size)],
                 degrees |-> degrees]
        allocated == m_allocateFactors(form)
    IN  [ordering |-> form.ordering, members |-> members, degrees |-> degrees,
         blockSize |-> size, bases |-> bases,
         intersections |-> FillIntersectionSizes(bases, members, size),
         diagonal |-> allocated.diagonal, lower |-> allocated.lower,
         nnz |-> allocated.nnz,
         permutations |-> Constant(Len(degrees), <<>>)]

\* The copy is complete but for the count of entries and the permutations of
\* pivots within supernodes.
CloneFactor(f) ==
    [f EXCEPT !.nnz = 0, !.permutations = Constant(Len(f.degrees), <<>>)]
=============================================================================
