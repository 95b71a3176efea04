------------------------------ MODULE SparseDPP ------------------------------
(***************************************************************************)
(* Sampling of a determinantal point process with a sparse Hermitian       *)
(* kernel: an LDL^H factorization that decides at every pivot whether its  *)
(* index is in the sample, and takes one off the pivot if it is not.       *)
(*                                                                         *)
(* A sampler is a record: its copy of the matrix, its control, the factor  *)
(* of its last sample and that sample.  draws[i] is what the random number *)
(* (or the comparison with 1/2, for the most likely choice) decides about  *)
(* row i of the permuted matrix.                                           *)
(***************************************************************************)
EXTENDS SparseLDL

Decisions(draws, offset) == [draws |-> draws, offset |-> offset]

-----------------------------------------------------------------------------
(***************************************************************************)
(* Without supernodes: up-looking.  The sample is of permuted rows.        *)
(***************************************************************************)
DecidedPivot(t, row, draws) ==
    LET delta == RealPart(t.factor.diagonal[row])
    IN  IF Kept(Decisions(draws, 0), row, delta)
        THEN [factor |-> [t.factor EXCEPT !.diagonal[row] = FromReal(delta)],
              sample |-> Append(t.sample, row)]
        ELSE [t EXCEPT !.factor.diagonal[row] = FromReal(delta - 1)]

SampledRow(t, row, s, draws) ==
    DecidedPivot(
        [t EXCEPT !.factor = Scalar_ldl!UpLookingRowUpdate(
            [@ EXCEPT !.diagonal[row] = s.scattered[row]], row, s.pattern,
            [s.scattered EXCEPT ![row] = Zero], LDLAdjoint)],
        row, draws)

UpLookingSample(f, m, draws) ==
    Through(Indices(m.rows),
            [factor |-> Scalar_ldl!ScalarFactor(f.ordering, f.room),
             sample |-> <<>>],
            LAMBDA t, row : SampledRow(t, row,
                ComputeTopologicalRowPatternAndScatterNonzeros(
                    m, f.ordering, f.ordering.forest.parents, row),
                draws))

-----------------------------------------------------------------------------
(***************************************************************************)
(* With supernodes.  The dense sampler decides about a diagonal block, and *)
(* its sample is appended in terms of the original rows.                   *)
(***************************************************************************)
AppendSupernodeSample(f, s, found, sample) ==
    sample \o [k \in DOMAIN found |->
                  ToOld(f.ordering, f.ordering.offsets[s] + found[k])]

WithDecisions(t, s, done) ==
    [t EXCEPT
        !.factor.diagonal[s] = done.matrix,
        !.factor.lower[s] =
            SolveAgainstDiagonalBlock(LDLAdjoint, done.matrix, @),
        !.sample = AppendSupernodeSample(t.factor, s, done.sample, @)]
SampledBlock(t, s, control, draws) ==
    WithDecisions(t, s, BlockedSampleLowerHermitianDPP(control.blas,
        Decisions(draws, t.factor.ordering.offsets[s]), t.factor.diagonal[s]))

\* Every sample starts from the matrix.
Loaded(f, m) == FillNonzeros(m, FillZeros(f))

\* The sampler has an update of its own, which is that of LDL^H.
LeftLookingUpdate(t, s) == LeftLookingSupernodeUpdate(t, LDLAdjoint, s)
LeftLookingSample(f, m, control, draws) ==
    Through(Indices(Len(f.degrees)),
            LeftLookingState(Loaded(f, m)) @@ [sample |-> <<>>],
            LAMBDA t, s : SampledBlock(LeftLookingUpdate(t, s), s, control,
                                       draws))

WithSchurComplement(t, s) ==
    [t EXCEPT !.schur[s] = OuterProduct(t.factor, LDLAdjoint, s, @)]
RightLookingSupernodeSample(t, s, control, draws) ==
    LET degree == t.factor.degrees[s]
        empty == Matrix(degree, degree, LAMBDA i, j : Zero)
    IN  WithSchurComplement(SampledBlock(
            MergeChildSchurComplements([t EXCEPT !.schur[s] = empty], s),
            s, control, draws), s)

\* The subtrees of the roots one after the other, each in postorder.
RightLookingSample(f, m, control, draws) ==
    LET order == Through(f.ordering.forest.roots, <<>>, LAMBDA done, root :
                     done \o FillPostorderImpl(root, f.ordering.forest))
    IN  Through(order,
                [factor |-> Loaded(f, m), sample |-> <<>>,
                 schur |-> Constant(Len(f.degrees), <<>>)],
                LAMBDA t, s :
                    RightLookingSupernodeSample(t, s, control, draws))

-----------------------------------------------------------------------------
(***************************************************************************)
(* The class.                                                              *)
(***************************************************************************)
SampledSupernodes(m, o, control) ==
    FormSupernodes(o, EliminationForestAndDegrees(m, o), control)
FormStructure(m, form) == InitializeFactors(m, form, FALSE)
NewSampler(m, o, control) ==
    [matrix |-> m, control |-> control, isSupernodal |-> control.isSupernodal,
     factor |->
        IF control.isSupernodal
        THEN FormStructure(m, SampledSupernodes(m, o, control))
        ELSE Scalar_ldl!UpLookingSetup(m, o),
     draws |-> <<>>, sample |-> <<>>]

\* The factor of the last sample is overwritten, and the sample is sorted.
WithSample(sampler, draws, done) ==
    [sampler EXCEPT !.factor = done.factor, !.draws = draws,
                    !.sample = SortSeq(done.sample, <)]
Sample(sampler, draws) ==
    LET f == sampler.factor
        m == sampler.matrix
    IN  WithSample(sampler, draws,
            IF ~sampler.isSupernodal THEN UpLookingSample(f, m, draws)
            ELSE IF sampler.control.algorithm = "leftLooking"
                 THEN LeftLookingSample(f, m, sampler.control, draws)
                 ELSE RightLookingSample(f, m, sampler.control, draws))

\* The likelihood of the last sample: the product of the sizes of the pivots,
\* of which the code returns the logarithm.
Likelihood(sampler) ==
    LET f == sampler.factor
        block(s) == f.diagonal[s]
        size(s) == Product(Height(block(s)), LAMBDA j : block(s)[j][j])
    IN  Magnitude(RealPart(
            IF sampler.isSupernodal THEN Product(Len(f.diagonal), size)
            ELSE Product(Len(f.diagonal), LAMBDA i : f.diagonal[i])))
=============================================================================
