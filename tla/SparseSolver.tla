----------------------------- MODULE SparseSolver -----------------------------
(***************************************************************************)
(* A program that uses the library: it edits a sparse matrix, analyzes and *)
(* factors it, refactors it with other values, solves systems with it, and *)
(* goes on to the next matrix with the same SparseLDL object.  The steps   *)
(* of the parallel analysis interleave; a call of the numeric part is one  *)
(* step, as modules BlockRightLooking and TriangularSolve have what is     *)
(* inside it.                                                              *)
(*                                                                         *)
(* A problem is a record: the matrix and its ordering; the entries and     *)
(* the places that it may be edited with, and how many edits there are;    *)
(* the controls to choose from; the inputs of refactorizations from        *)
(* arrays and the size of their blocks; replacement values for entries;    *)
(* the right-hand sides; whether the caller takes the value buffer;        *)
(* whether it goes on with a clone of the object; and the controls of the  *)
(* samplers it builds, with what the random numbers may decide.            *)
(***************************************************************************)
EXTENDS RefinedSolve, SparseDPP, ParallelAnalysis

CONSTANTS
    Sessions,    \* sequences of problems
    Policies,    \* choices of solve kernels
    Refinements  \* controls of the refined solve

\* An ordering that comes with a forest cuts the columns into supernodes, none
\* of them empty.
CutsIntoSupernodes(o, columns) ==
    /\ o.sizes \in Seq(Nat \ {0}) /\ o.offsets \in Seq(Nat)
    /\ Len(o.offsets) = Len(o.sizes) + 1
    /\ \A s \in DOMAIN o.sizes : o.offsets[s + 1] = o.offsets[s] + o.sizes[s]
    /\ o.offsets[1] = 0 /\ o.offsets[Len(o.offsets)] = columns

\* An ordering says where every column goes and which one comes there, by two
\* permutations that undo each other, unless all of them stay where they are.
Orders(columns) == {<<>>} \cup [1..columns -> 1..columns]
IsOrdering(o, columns) ==
    /\ o \in [permutation : Orders(columns), inverse : Orders(columns),
               sizes : Seq(Nat), offsets : Seq(Nat), forest : {o.forest}]
    /\ o.permutation # <<>> =>
           /\ o.inverse # <<>>
           /\ \A i \in 1..columns : /\ o.inverse[o.permutation[i]] = i
                                   /\ o.permutation[o.inverse[i]] = i

\* A problem starts with a matrix on which nothing is queued, and stays inside
\* of it.
ASSUME SessionsAssumption ==
    \A programme \in Sessions :
        /\ programme # <<>> /\ programme \in Seq(Range(programme))
        /\ \A p \in Range(programme) :
               /\ IsCoordinateMatrix(p.matrix) /\ EntryQueuesAreEmpty(p.matrix)
               /\ p.entries \subseteq MatrixEntries(p.matrix)
               /\ p.replacement \in Seq(MatrixEntries(p.matrix))
               /\ IsOrdering(p.ordering, p.matrix.rows)
               /\ p.ordering.forest.roots # <<>> =>
                      CutsIntoSupernodes(p.ordering, p.matrix.rows)
               /\ p.blockSize \in Nat /\ \A b \in p.rhs : Width(b) \in Nat

VARIABLES
    session,     \* the problems that are left, with the present one first
    phase,       \* "editing", "analyzing", "analyzed" or "ready"
    contents,    \* what the matrix should hold: a value, or <<>>, per place
    requests,    \* additions per place and removals since the last flush
    edits,       \* the number of edits of this problem
    ldl,         \* the SparseLDL object
    factored,    \* the dense matrix that it was asked to factor last, or <<>>
    boundaries,  \* the solve workspace of its factorization
    outcome      \* the last solve or sample, and what came of it

editing == <<contents, requests, edits>>
solving == <<ldl, factored, boundaries, outcome>>
vars == <<session, phase, matrix, ordering, analysis, editing, solving>>

problem == Head(session)
NoRequests(m) == [added |-> [p \in Places(m) |-> <<>>], removed |-> {}]
Held(m) == [p \in Places(m) |->
    IF p \in CoordinateGraph(m) THEN Value(m, p[1], p[2]) ELSE <<>>]
NoOutcome == [kind |-> "none"]

Init ==
    /\ session \in Sessions
    /\ phase = "editing"
    /\ matrix = problem.matrix /\ ordering = problem.ordering
    /\ contents = Held(matrix) /\ requests = NoRequests(matrix) /\ edits = 0
    /\ NoAnalysis
    /\ ldl = NoLDL /\ factored = <<>>
    /\ boundaries = NoWorkspace /\ outcome = NoOutcome

-----------------------------------------------------------------------------
(***************************************************************************)
(* Editing.                                                                *)
(***************************************************************************)
Added(x, y) == IF x = <<>> THEN y ELSE IF y = <<>> THEN x ELSE Plus(x, y)

\* A flush takes the removals first, so that an addition to a removed place
\* starts from nothing.
Flushed(c, r) == [p \in DOMAIN c |->
    Added(IF p \in r.removed THEN <<>> ELSE c[p], r.added[p])]

Edit ==
    /\ phase = "editing" /\ edits < problem.budget
    /\ edits' = edits + 1
    /\ UNCHANGED <<session, phase, ordering, analysis, solving>>

QueueAddition ==
    /\ Edit
    /\ \E e \in problem.entries :
           /\ matrix' = QueueEntryAddition(matrix, e)
           /\ requests' = [requests EXCEPT !.added[Place(e)] =
                              Added(@, e.value)]
    /\ UNCHANGED contents
QueueRemoval ==
    /\ Edit
    /\ \E e \in problem.entries :
           /\ matrix' = QueueEntryRemoval(matrix, Place(e))
           /\ requests' = [requests EXCEPT !.removed = @ \cup {Place(e)}]
    /\ UNCHANGED contents

\* The call that adds at once, with everything that has been queued.
AddAtOnce ==
    /\ Edit
    /\ \E e \in problem.entries :
           /\ matrix' = AddEntry(matrix, e)
           /\ contents' = Flushed(contents,
                  [requests EXCEPT !.added[Place(e)] = Added(@, e.value)])
    /\ requests' = NoRequests(matrix)

\* Without a flush, and only for an entry that is there.
ChangeValue ==
    /\ Edit
    /\ \E e \in problem.entries :
           /\ EntryIsPresent(matrix, e.row, e.column)
           /\ \/ /\ matrix' = ReplaceEntry(matrix, e)
                 /\ contents' = [contents EXCEPT ![Place(e)] = e.value]
              \/ /\ matrix' = AddToEntry(matrix, e)
                 /\ contents' = [contents EXCEPT ![Place(e)] = Plus(@, e.value)]
    /\ UNCHANGED requests

Flush ==
    /\ phase = "editing" /\ ~EntryQueuesAreEmpty(matrix)
    /\ matrix' = FlushEntryQueues(matrix)
    /\ contents' = Flushed(contents, requests)
    /\ requests' = NoRequests(matrix)
    /\ UNCHANGED <<session, phase, ordering, analysis, edits, solving>>

-----------------------------------------------------------------------------
(***************************************************************************)
(* Sampling, with the matrix as a kernel.                                  *)
(***************************************************************************)
\* A sampler has a copy of the matrix, and can be asked again: it is built
\* and asked at once, or has been built for an earlier sample.
Samplers ==
    IF outcome.kind = "sampled" THEN {outcome.sampler}
    ELSE {NewSampler(matrix, ordering, c) : c \in problem.samplers}
DrawSample ==
    /\ phase = "editing"
    /\ \E sampler \in Samplers, draws \in problem.draws :
           outcome' = [kind |-> "sampled", sampler |-> Sample(sampler, draws)]
    /\ UNCHANGED <<session, phase, matrix, ordering, analysis, editing, ldl,
                   factored, boundaries>>

-----------------------------------------------------------------------------
(***************************************************************************)
(* Analysis and factorization.                                             *)
(***************************************************************************)
\* Factorizations are asked for matrices with the symmetry of their type and
\* a nonzero diagonal, whatever is still queued.
Suits(type, m) ==
    /\ m.rows > 0
    /\ \A i \in 1..m.rows : Value(m, i, i) # Zero
    /\ \A p \in CoordinateGraph(m) :
           /\ <<p[2], p[1]>> \in CoordinateGraph(m)
           /\ Value(m, p[2], p[1]) =
                  IF type = LDLTranspose THEN Value(m, p[1], p[2])
                  ELSE Conjugate(Value(m, p[1], p[2]))
SupernodalControls == {c \in problem.controls :
                           c.isSupernodal /\ Suits(c.type, matrix)}
ScalarControls == {c \in problem.controls :
                       ~c.isSupernodal /\ Suits(c.type, matrix)}

\* The supernodal analysis does not depend on the rest of the control, which
\* is chosen when it has returned.
StartAnalysis ==
    /\ phase = "editing" /\ SupernodalControls # {}
    /\ ordering.permutation # <<>> /\ ordering.forest.roots # <<>>
    /\ BeginAnalysis(matrix, ordering)
    /\ phase' = "analyzing"
    /\ UNCHANGED <<session, matrix, ordering, editing, solving>>
AnalysisStep ==
    /\ phase = "analyzing" /\ TaskStep
    /\ UNCHANGED <<session, phase, matrix, ordering, editing, solving>>
EndAnalysis ==
    /\ phase = "analyzing" /\ AllTasksDone
    /\ phase' = "analyzed"
    /\ UNCHANGED <<session, matrix, ordering, analysis, editing, solving>>
SequentialAnalysis ==
    /\ phase = "editing" /\ SupernodalControls # {}
    /\ AnalyzeSequentially(matrix, ordering)
    /\ phase' = "analyzed"
    /\ UNCHANGED <<session, matrix, ordering, editing, solving>>

DenseMatrix(m) == Matrix(m.rows, m.columns, LAMBDA i, j : Value(m, i, j))
InputMatrix(input) ==
    Matrix(Height(input.A), Width(input.A),
           LAMBDA i, j : injectEntries(input, i, j))

\* The matrix whose values are in the factor: the one that the object was asked
\* to factor last.  But a supernodal object that has been given arrays keeps
\* reading them, even if it is then asked to factor another matrix.
MatrixInFactor ==
    IF ldl.isSupernodal /\ ldl.input # <<>> THEN InputMatrix(ldl.input)
    ELSE factored

\* A new factorization comes with a solve workspace of its own.
Becomes(l, a) ==
    /\ ldl' = l /\ factored' = a
    /\ phase' = "ready"
    /\ boundaries' = NoWorkspace /\ outcome' = NoOutcome
    /\ UNCHANGED <<session, matrix, ordering, analysis, editing>>

Forest == [parents |-> parents, degrees |-> degrees]

Analyzed ==
    /\ phase = "analyzed"
    /\ \E c \in SupernodalControls, deferred \in problem.deferred :
           /\ ~c.equilibrate
           /\ Becomes(AnalyzePattern(ldl, matrix, ordering, Forest, c, deferred),
                      <<>>)
Factored ==
    /\ phase = "analyzed"
    /\ \E c \in SupernodalControls, deferred \in problem.deferred :
           /\ c.algorithm = "rightLooking"
           /\ Becomes(FactorSupernodal(ldl, matrix, ordering, Forest, c,
                                       deferred), DenseMatrix(matrix))
FactoredWithoutSupernodes ==
    /\ phase = "editing"
    /\ \E c \in ScalarControls :
           Becomes(FactorScalar(matrix, ordering, c), DenseMatrix(matrix))

Expand ==
    /\ phase = "ready" /\ ldl.status = "symbolic" /\ problem.blockSize > 1
    /\ MayExpand(ldl.factor, problem.blockSize)
    /\ Becomes(ExpandedLDL(ldl, problem.blockSize), <<>>)

\* The caller goes on with a clone, of the analysis or of a factor.  A clone
\* has no pivot permutations, so the caller has not asked for pivoting, and no
\* arrays, so that it takes what is in the factor for its matrix.
CloneObject ==
    /\ phase = "ready" /\ problem.clone /\ MayClone(ldl)
    /\ ~ldl.control.pivoting
    /\ Becomes(Clone(ldl), MatrixInFactor)

-----------------------------------------------------------------------------
(***************************************************************************)
(* Numbers.                                                                *)
(***************************************************************************)
\* A refactorization keeps the solve workspace.
Renewed(l, a) ==
    /\ ldl' = l /\ factored' = a /\ outcome' = NoOutcome
    /\ UNCHANGED <<session, phase, ordering, analysis, boundaries>>

\* The arrays are not scaled, so the caller does not ask for equilibration.
RefactorFromArrays ==
    /\ phase = "ready" /\ MayRefactorBlocks(ldl, problem.blockSize)
    /\ ldl.scaling = <<>>
    /\ \E input \in problem.inputs :
           Renewed(RefactorBlocks(ldl, input), InputMatrix(input))
    /\ UNCHANGED <<matrix, editing>>

\* The replacements at a place, but for those that a throw prevents.
ReplacedAt(p) ==
    {k \in DOMAIN problem.replacement :
        /\ Place(problem.replacement[k]) = p
        /\ \A j \in 1..k : EntryIsPresent(matrix, problem.replacement[j].row,
                                          problem.replacement[j].column)}

\* The caller replaces values and factors again, or only replaces them and
\* refines with the factor of the old ones.
Replace ==
    /\ phase = "ready" /\ problem.replacement # <<>>
    /\ matrix' = ReplaceEntries(matrix, problem.replacement)
    /\ contents' = [p \in DOMAIN contents |->
           LET done == ReplacedAt(p)
           IN  IF done = {} THEN contents[p]
               ELSE problem.replacement[Max(done)].value]
    /\ outcome' = NoOutcome
    /\ UNCHANGED <<session, phase, ordering, analysis, requests, edits, ldl,
                   factored, boundaries>>
\* The matrix has the pattern that has been analyzed, which an expansion of
\* its blocks has not.
RefactorFromMatrix ==
    /\ phase = "ready" /\ MayRefactor(ldl) /\ Suits(ldl.control.type, matrix)
    /\ matrix.rows = NumRows(ldl)
    /\ Renewed(RefactorWithFixedSparsityPattern(ldl, matrix),
               DenseMatrix(matrix))
    /\ UNCHANGED <<matrix, editing>>

MaySolveNow == phase = "ready" /\ ldl.status = "factored"

\* A parallel solve prepares the boundaries, and throws if it cannot.
SolveSystem ==
    /\ MaySolveNow
    /\ \E policy \in Policies, b \in problem.rhs,
          parallel \in IF ldl.isSupernodal THEN BOOLEAN ELSE {FALSE} :
           /\ Height(b) = NumRows(ldl)
           /\ IF parallel /\ WorkspaceThrows(ldl.factor, boundaries)
              THEN /\ outcome' = [kind |-> "threw"]
                   /\ UNCHANGED boundaries
              ELSE /\ outcome' = [kind |-> "solved", b |-> b,
                                  parallel |-> parallel,
                                  solution |-> Solve(ldl, policy, parallel,
                                                     FALSE, b)]
                   /\ boundaries' =
                        IF parallel
                        THEN SolveWorkspace(ldl.factor, boundaries, Width(b))
                        ELSE boundaries
    /\ UNCHANGED <<session, phase, matrix, ordering, analysis, editing, ldl,
                   factored>>

SystemToRefine(control) ==
    [matrix |-> matrix, ldl |-> ldl,
     scaling |-> IF control.scaled THEN EquilibrationScaling(matrix) ELSE <<>>,
     regularization |-> IF control.regularized THEN ldl.regularization
                        ELSE <<>>]
RefineSystem ==
    /\ MaySolveNow /\ outcome.kind = "solved" /\ matrix.rows = NumRows(ldl)
    /\ ldl.scaling = <<>> \/ Width(outcome.b) = 1
    /\ \E policy \in Policies, control \in Refinements :
           outcome' = [kind |-> "refined", b |-> outcome.b,
                       system |-> SystemToRefine(control), control |-> control,
                       first |-> outcome.solution,
                       status |-> RefinedSolve(SystemToRefine(control), policy,
                                               control, outcome.b)]
    /\ UNCHANGED <<session, phase, matrix, ordering, analysis, editing, ldl,
                   factored, boundaries>>

\* The object is kept, with its buffers, for another matrix.
NextProblem ==
    /\ phase = "ready" /\ Len(session) > 1
    /\ session' = Tail(session)
    /\ phase' = "editing"
    /\ LET m == session[2].matrix
       IN  /\ matrix' = m /\ ordering' = session[2].ordering
           /\ contents' = Held(m) /\ requests' = NoRequests(m) /\ edits' = 0
    /\ outcome' = NoOutcome
    /\ UNCHANGED <<analysis, ldl, factored, boundaries>>

Next ==
    \/ QueueAddition \/ QueueRemoval \/ AddAtOnce \/ ChangeValue \/ Flush
    \/ DrawSample
    \/ StartAnalysis \/ AnalysisStep \/ EndAnalysis \/ SequentialAnalysis
    \/ Analyzed \/ Factored \/ FactoredWithoutSupernodes \/ Expand
    \/ CloneObject
    \/ RefactorFromArrays \/ Replace \/ RefactorFromMatrix
    \/ SolveSystem \/ RefineSystem \/ NextProblem

\* The task group waits for its tasks, and a thread takes up what is left.
Fairness == WF_vars(AnalysisStep \/ EndAnalysis)
Spec == Init /\ [][Next]_vars /\ Fairness
=============================================================================
