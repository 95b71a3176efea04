# A formal model of BlockCatamari

BlockCatamari factors sparse symmetric matrices. A symbolic analysis turns the
sparsity pattern into a forest of *supernodes*; numeric factorizations, samplers
and triangular solves then walk this forest, in parallel with Intel TBB or
OpenMP. This directory models the library in TLA+, checks it with TLC on small
forests and matrices, and proves with TLAPS, for every forest, matrix and tile
size, the main safety properties of the parallel sparse factorization, of the flow
graph and of the OpenMP tasks for dense factorizations, and of the parallel
solves. Paths below are relative to `src/include/catamari` unless they start with
`src/`.

## 1. Inventory

| component | state | operations | what makes it hard, what makes it correct |
|---|---|---|---|
| Symbolic analysis: `supernode_utils-impl.hpp`, `scalar_utils-impl.hpp`, `symmetric_ordering-impl.hpp` | permutation, scalar and supernodal parents, degrees, structures, child lists with locks, flags per thread | elimination forest, column counts, fundamental and relaxed supernodes, structures, `FillFromParents` | tasks over supernodes that share lists and recycled flags; the result must equal the fill of elimination |
| Block right-looking factorization: `block_right_looking-impl.hpp` | per supernode a front (diagonal, lower and Schur complement block); shared flag `m_fail`, TBB context, storage | recursion over the forest, child merges, kernels, failure and cancellation | tasks, a flag and a cancellation that race; no incomplete front may be used, the outcome must be true, nothing may outlive its owner |
| Schur complement storage: `SchurComplementStorage.hpp` | one stack or buffer per supernode | reallocate, push, pop, precomputed depth | fronts in use must not overlap, the stack must be deep enough |
| Flow graph for dense Cholesky: `cholesky_tbb-impl.hpp` | nodes with message counters, pivots, failure flag | build once, run many times, cancel | the order of tile operations; reuse after cancellation in a shared context |
| Triangular solves: `solve-impl.hpp`, `solve_openmp-impl.hpp`, `solve_kernels.hpp`, `trs_kernels.hpp` | right-hand sides, a buffer per supernode, cached traversal and groups | forward, diagonal, backward; parallel or serial; many equivalent kernels | sibling tasks that update common ancestors; stale buffers; a cache built lazily; a workspace that follows the number of right-hand sides |
| Left-looking, block left-looking and legacy right-looking factorizations | linked lists of descendants, workspaces, Schur complements | same promise as above | descendants must be applied in time, at the right rows |
| `SparseLDL` front end: `sparse_ldl-impl.hpp`, `factorization.hpp`, `common-impl.hpp` | scalar or supernodal factorization, equilibration, conversion plan, recycled buffers | Factor, AnalyzePattern, refactorize, Solve, refined solves, Clone, expansion to blocks | buffers that are not cleared, views that must be rebuilt, options that interact |
| Scalar factorization: `sparse_ldl/scalar/` | columns of the factor, row lists | up-looking, left-looking, solves | patterns computed on the fly must match the analysis |
| Coordinate matrix: `coordinate_matrix-impl.hpp` | sorted entries, row offsets, queues of additions and removals | queue, flush, resize, replace | order of flushes, offsets |
| Samplers for determinantal point processes: `sparse_hermitian_dpp*`, `dense_dpp/` | a factor, a sample | like a factorization, with a random choice per pivot, many times | each sample must start from the matrix again |
| Dense factorizations: `dense_factorizations/` | tiles, a buffer `factor` | unblocked, blocked, OpenMP tasks per tile, pivoted | depend clauses that name less than tasks touch; offsets; failure while tasks run |
| Kernels: `dense_basic_linear_algebra-impl.hpp` | | products, triangular solves, permutations | conjugates, sides, betas |
| Refinement: `refined_solve-impl.hpp` | active columns, errors | correct and deflate | truth of what it reports |
| Orderings: `unit_reach_nested_dissection-impl.hpp` | offsets and a supernode counter | recursive cuts of a grid | separation, numbering of children before parents |
| FGMRES, input and output, C and Python interfaces | | | not modelled, see section 5 |

The front end calls the symbolic analysis once per pattern and one of the
factorizations once per set of values. The block right-looking factorization
uses the storage, the dense kernels and, for large diagonal blocks, the flow
graph; all of them share one `RightLookingSharedState` with the failure flag and
the TBB context. A solve uses the factor and the forest, and caches of its own;
refinement calls solve; a sampler has an analysis and a factor of its own.

`PROJECT.json` lists all components with their status, and under `hazards` the
places where this code can go wrong in ways that tests hardly reach.

## 2. Modules

There are three groups. The first models *who does what when* in the parallel
sparse algorithms, with contents abstracted to the few states that matter. The
second and third model *what is computed*, exactly, over a finite field.

| module | models |
|---|---|
| `AssemblyForest` | the forest as a constant (`ForestAssumption`), children and roots, flop estimates, `storageNeeded` |
| `FiniteSums`, `FiniteSumProofs` | sums over finite sets; lemmas about them, about induction and recursion, and about loops over sequences |
| `AssemblyForestProofs` | induction in the forest; the recursive estimates grow towards the roots |
| `Elimination` | abstract specification of a numeric factorization: eliminate children first, tell the truth |
| `BlockRightLooking`, `MCBlockRightLooking` | the recursion `BlockRightLookingSubtree` with everything it calls; three forests for TLC |
| `BlockRightLookingProofs` | the theorems about its control and its storage |
| `CholeskyFlowgraph`, `CholeskyFlowgraphProofs` | the TBB flow graph over tiles; its theorems |
| `TriangularSystem` | abstract specification of a solve |
| `TriangularSolve`, `MCTriangularSolve` | the parallel and serial solves; a forest for TLC |
| `TriangularSolveProofs` | the theorems about the solves and their traversal |
| `Scalars`, `DenseKernels` | the numbers; views of matrices and the kernels |
| `DenseFactorizations`, `PivotedFactorizations` | sequential dense factorizations and samplers |
| `TiledFactorizations` | the same as OpenMP tasks with depend clauses, a state machine |
| `TiledFactorizationsProofs` | the theorems about its tasks and its pivots |
| `DenseProperties`, `MCTiledFactorizations` | what the dense routines promise; matrices for TLC |
| `CoordinateMatrix` | the sparse matrix with its queues |
| `ScalarSymbolic`, `SupernodalSymbolic` | sequential analysis by columns and by supernodes |
| `ParallelAnalysis` | the analysis by tasks, a state machine |
| `NestedDissection` | orderings of grids |
| `SupernodalSetup` | the supernodal factor, its buffer, and how entries reach it |
| `SupernodalNumeric` | left-looking, block left-looking and legacy right-looking factorizations |
| `BlockFactorization` | the numbers of the multifrontal factorization |
| `SolveKernels`, `SupernodalSolve` | the numbers of the solves, and their workspace |
| `ScalarFactorization` | up-looking and left-looking factorization and solves without supernodes |
| `SparseLDL` | the front end object |
| `RefinedSolve` | iterative refinement |
| `SparseDPP` | the sparse samplers |
| `SparseSolver` | a program that uses all of it, a state machine |
| `SparseProperties`, `MCSparseSolver` | what that program may rely on; programs for TLC |
| `SparseSolverProofs` | its theorems: locks, tasks and status; edits of the matrix; the lists and results of the parallel analysis; lemmas about supernodes, relaxation and the workspace |
| `SparseAnalysisProofs` | its theorems about the forest that either analysis returns, its postorder and its fundamental supernodes, and about the buffer of values and the workspace of parallel solves |

### BlockRightLooking

There is at most one activation of the recursion per supernode and call, so
`pc[s]` is the program counter of supernode `s` (the values are explained at the
head of the module). Steps are cut wherever another thread's writes become
visible: at each test of `m_fail` (`failed`), each use of the context (`ctx`), and
each wait. `failAndCancelExecution` is two steps (set the flag, cancel).

- `Enter` is `process_child`; `SpawnChildren`, `JoinChildren`, `StartAssembly`,
  `GatherFailed`, `Assemble` are the parallel path; `BeginSerial`, `ReserveFront`,
  `CallChild`, `MergeChild`, `ChildrenMerged` the serial one; `FactorDiagonal`,
  `BreakDown`, `SolveAgainstDiagonal`, `OuterProduct` are
  `BlockRightLookingSupernodeFinalize`.
- Which path a supernode takes is computed as in the code, from the flop
  estimates, the thresholds and the number of threads.
- Numbers are abstracted to what the memory of a front holds (`front`): stale,
  assembling, factored, solved, complete, or *torn* when a kernel was cut short
  (`CutKernel`) or worked on something that was not what it should have been.
  Contents are never consulted by a guard: if the program used a torn front the
  model would too, and the properties would show it.
- `bad` is the set of supernodes on which the present values break down; it is
  chosen anew in each call.
- `AfterWait` is TBB: a wait that finds the shared context cancelled may reset
  it. `RunTask` and `DropTask` are TBB's choice to start a task or, after a
  cancellation, to drop it.
- `store` and `view` are `schur_complement_storage` and `schur_complements`, with
  sizes and offsets.
- A child takes over the stack of its parent's serial subtree (`stack`), whose size is
  the recursive `StorageNeeded` of the subtree.

The build modelled is the one of the sources: `USE_SERIAL_SUBTREE_STORAGE_STACK`
and `REUSE_CHOLESKY_FLOWGRAPHS` on, `PROCESS_LEAVES_FIRST` and
`CHUNK_SERIAL_SUBTREES` off; `TbbCancellation` is the CMake option.

### CholeskyFlowgraph

A node `<<i, k, j>>` changes tile `(i, k)` with column `j` of tiles. `Predecessors`
are the edges the constructor makes. `received` counts messages, `applied` counts
the changes of a tile in this run. Other tasks of the context appear as
`OtherTaskFails` and `OtherWaitReturns`, in any run. `dropped` and `unseen` are history
variables, which no action consults: `dropped` says that a task of this run has been
destroyed and, once the wait has returned, that `is_cancelled()` did not tell; `unseen`
that this has happened in an earlier run, whose counters the graph then still holds.
The code does not prevent that (section 6), so `OperandsReady`, `PivotsExclusive` and
`RunReturnsTruth` say what they promise for every run until then. The graph appears in
`BlockRightLooking` as the kernel `TiledDiagonal`, which takes it to be correct: it
assumes what `fg_reuse` checks and `CholeskyFlowgraphProofs` proves, that is, graphs
that have not lost tasks unseen. The finding of `fg_shared` is therefore not part of
the theorems about `BlockRightLooking`.

### TriangularSolve

`pc[s]` is the frame of the recursion at `s`; `rhs[<<d, t>>]` counts how often the
update of `t` by `d` has been added to the right-hand side, `buffer[s]` what is in
the workspace of `s`. Serial subtrees use groups with one right-hand side
(`GroupStep`) and the order of child merges with several (`ChainStep`).
`parallel' \in BOOLEAN` in `StartSolve` stands for the number of threads, which
may change between solves. `NoDataRace` compares what the next steps of two
frames read and write. Every order this module allows gives the same sums, and
`SupernodalSolve` computes them in one of these orders.

The cached traversal is computed as in the code, by a stack, and the first index of
each subtree from it. `TraversalIsPostorder` says what these recursive definitions
are for: the slice from `solve_subtree_begin(s)` to `s` holds `s` and its
descendants and nothing else. It is a theorem of `TriangularSolveProofs`.

### Numbers

`Scalars` takes the integers modulo a prime for real numbers and pairs of them for
complex ones (the runs take the prime 7, a field of 49 elements). Because the
prime is 3 modulo 4, conjugation is not the identity and a transpose in place of
an adjoint shows; squares play the positive numbers, so Cholesky factorizations
can fail, and every square has one positive root. Equality is exact, so a property
may ask for the factor itself, or for `A x = b`, and an update that is missing,
doubled, misplaced or conjugated wrongly is a difference. What this cannot show is
rounding, growth, and the use of magnitudes: pivots are chosen, thresholds are
compared and refinement measures errors with the absolute value that `Scalars`
defines, an order of the field's elements without a triangle inequality.

The products named `MatrixMultiplyLower` compute a lower triangle. What they do to the
entries above it depends on the build: the generic version and MKL's GEMMT leave them
alone, with any other BLAS they are set to zero after a full product
(`dense_basic_linear_algebra-impl.hpp:1704-1776` and the two functions after it).
`ClearsUpper` is that choice. `dense_tiled` takes the BLAS without GEMMT, the sessions
the other; each passes with either value. No property compares what is above the
diagonal of such a product.

A routine that works in place is an operator from the matrix before to the
matrix after; a caller that would see it in between is a state machine.

### TiledFactorizations

`tasks` is the set of the OpenMP tasks created and not finished, and `Earlier` the
order of their creation. `Ready(task)` is the OpenMP rule: no earlier task has a
conflicting depend clause (`DependIn`, `DependInOut`: one address of a tile each).
Tasks run in any order that leaves, each as one step. That a step is atomic is not assumed but justified by
`ReadyTasksDisjoint`: two tasks that are ready together touch nothing in common,
in the matrix or in `factor`, although the clauses do not name all that they touch.
`NextTile` is the driver's loop, which waits for the diagonal task of each step;
`Break` and `Return` are the end of the loop, by failure or at the last tile, and
the wait of the outer taskgroup.

### ParallelAnalysis and SparseSolver

`ParallelAnalysis` has one task per supernode of the ordering. Per column it
computes (`ComputeColumn`, from the structures of the children), takes the lock of
the parent's list and links (`LinkColumn`), and publishes and unlocks
(`PublishColumn`). `stamps` are the flags with which a thread remembers rows, which
outlive an analysis. `SparseSolver` is the caller: `phase` says what it may do next,
each action is one call of the public interface and everything that call does.
`contents` and `requests` are a ghost of the matrix as a table, against which
`CoordinateMatrix` is checked. `ldl` is the `SparseLDL` object, a record explained at
the head of that module, with `values` the room of the value buffer that is handed
on from factorization to factorization; `boundaries` is the workspace of parallel
solves; `outcome` is what the last solve or sample returned. Blocks that the code
only allocates hold `Stale`, a value that shows up in the result if it is used.
`factored` is the matrix that the object was asked to factor last, and
`MatrixInFactor` the one whose values are in the factor; section 6 says when they
differ.

## 3. What the runs check

| run | question | bounds |
|---|---|---|
| `brl_failure` | Failure and cancellation in two successive parallel calls: order of flag and cancellation, merges of complete fronts only, nesting of tasks, context present, true outcome, storage released on success | 7 supernodes, two roots, parallel, single-child and serial subtrees, up to two breakdowns, one or two threads |
| `brl_storage` | Overlap and depth of stacks, pivots, types, with changing numbers of threads; `Elimination` is implemented; every call returns | 6 supernodes, two roots: one parallel, over a serial subtree of three with a stack and a leaf outside of it, and an isolated one; every set of at most one breakdown in each of two calls, one or two threads |
| `fg_reuse` | Order of tiles, pivots, flag before cancellation, truth of the result, with outside failures, and resets of the context by other waits at any moment, until a run has lost tasks unseen | three runs of a graph of 3 x 3 tiles, breakdown on any of them |
| `ts_solve` | Each update exactly once, no data race, groups prepared; `TriangularSystem` is implemented; every solve returns | 8 supernodes, numbered out of postorder, serial group of 3, two solves |
| `dense_tiled` | Tasks that may overlap are disjoint; tiled, blocked and unblocked routines agree and reconstruct the matrix up to the regularization or sample they report; pivoted and elementary routines factor the permuted matrix; kernels do what their names say; calls return | matrices of order 3, 4 and 5, definite and indefinite; tiles of 1 and 2, blocks of 1 to 5, thus up to 4 tiles, a narrower last one, a block inside a tile; every routine |
| `sparse_session` | A caller's session from edits to solutions, see below | matrices of order 2 to 6 and a grid of 10 points that are factored; grids of up to 25 points that are ordered |
| `brl_leak`, `brl_context`, `fg_shared`, `sparse_columns`, `sparse_refactor`, `sparse_sample` | the disagreements of section 6 | |

**`sparse_session`** starts in one of the programs of `MCSparseSolver`:
edits of a 2 x 3 matrix through every kind of request; a 2 x 2 matrix edited and
then factored; a star whose three leaves publish into one list of children, with
every supernodal and scalar option, failing values among them; complex symmetric
matrices; a small matrix and then a larger one with the same object, by every
algorithm, with values refactored from arrays; 2 x 2 blocks with shifts, and a
clone; eleven grids in two and three dimensions, and one that is also factored; two
kernels to be sampled from any number of times. Its properties:

- `EditsApplied`: the matrix equals the table of what was asked for.
- `OrderingSeparates`: the two permutations of an ordering undo each other; one with a
  forest numbers children before parents, has as the children of a supernode those
  whose parent it is, and joins two supernodes by an entry only if one is an ancestor
  of the other.
- `ForestIsFound`: in the parallel analysis the list of a column has each of its
  finished children once, and when the column merges its list, no child is missing
  (`ChildrenAreListed`); what a task writes is the parent and the degree in the filled
  matrix, at once and whatever the other tasks do, and in the end all is written
  (`ResultsAreExact`); what a parallel or sequential analysis returns are the parents
  and degrees of the fill, computed by eliminating the pattern (`ForestIsExact`), as is
  what the simple algorithm returns; the postorder keeps subtrees together; and the
  fundamental supernodes are dense blocks of the filled matrix (`FundamentalsAreExact`).
- `AnalysisIsExact`: what is derived from them is right too. Forest and degrees are
  those of the permuted matrix as well; the supernodes pass the check of the debug
  build; their structures are those of the fill.
- `FactorIsExact`: the factor is that of dense elimination of the permuted, scaled,
  regularized matrix, and it fails only if elimination does; a sample has the factor
  of the kernel less one on the diagonal of what was left out. There are two exceptions,
  each with a run of its own (section 6): the matrix is `MatrixInFactor`, which after
  arrays need not be the one that a refactorization was given; and `SampledRows` reads a
  sample without supernodes as rows of the permuted kernel.
- `SolutionSolves`: `A x = b` for `MatrixInFactor`, with one exception (section 6); the three sweeps compose
  to a solve; refinement reports its true residual and never makes a column worse.
- `WorkspaceFits`: buffers have room for what lies in them, for every sequence of
  widths and factorizations.
- `AnalysisReturns`: no task is stuck on a lock.

**Bounds.** Two calls are enough for what one call leaves to the next: every call
sets all control state anew, and the state that survives (`store`, `view`, `ctx`,
buffers and groups) is read in the following call only. The counters of a graph can
survive two runs, of which the second goes wrong because of the first; three runs show
that, and that a run in order is followed by one in order.
Two threads are enough for the thresholds; the number of threads that run tasks
is not bounded by the models, every interleaving of the active frames is
explored. The forests contain each kind of supernode (parallel, single child,
root and interior of a serial subtree, leaf outside of one, isolated root), each
kind of sibling pair, and several roots. Tile and merge
sizes are small so that the tiled kernels occur on fronts of size one to four.
The numeric models are deterministic but for the order of tasks, random numbers
and the caller's choices; orders of 4 to 6 are enough for fill, for a supernode
with a child whose structure has a gap, for two descendants in one linked list, for
relaxed merges that introduce zeros, and for a second level of supernodes.

`CHECK_DEADLOCK` is off only in the runs of `SparseSolver`: a caller stops when it
has nothing left to ask. Elsewhere a bounded behaviour ends in a step that says so.

**Fairness.** Liveness is checked with weak fairness of each frame and of the
caller (`BlockRightLooking`, `TriangularSolve`): TBB runs every spawned task, and a
thread that can go on does. `TiledFactorizations` asks only that some ready task is
taken, or the driver goes on, when that is possible (`Progress`); `SparseSolver` that
some step of the analysis is taken while there is one. Fairness never forces
another call, a breakdown or a cancellation.

Each property of a passing run has a mutant in the modules: the definition as a
plausible bug would have it, for which the run fails.

## 4. What is proved

`BlockRightLookingProofs` proves, for every forest, all sizes, thresholds, numbers
of threads, inputs and numbers of calls (assuming only `ForestAssumption` and
`ControlAssumption`):

- `ControlTypeCorrect`, `CancellationFollowsFailure`, `MergesAreComplete`,
  `FrontsAreAssembled`, `FramesAreNested`, `OutcomesAreTrue`: the invariants
  `ControlTypeOK`, `CancelledOnlyAfterFailure`, `MergesOnlyCompleteFronts`,
  `FactorsOnlyAssembledFronts`, `FramesNest` and `OutcomeIsTrue`;
- `Refinement`: `Spec` implements `Elimination!AbsSpec` with the complete fronts as
  the eliminated supernodes.

The argument. The safety properties are not inductive: none of them mentions the
failure flag, yet all of them hold through it. `IndInv` has five parts.

- `ControlTypeOK`, the ranges of the control state.
- `FlagInv`: a cancelled context, a frame that failed or was dropped and a torn
  front each imply `failed`, and `failed` implies that the input has a breakdown.
  A wait that hides a cancellation (`AfterWait`) can then only do so after the
  flag is set, and the flag is not cleared within a call.
- `NestInv`: where the children of a frame can be while it stands at a given label.
- `RootInv`: the same for the roots and the caller.
- `FrontInv` ties the label of a frame to the contents of its front: what is merged
  is complete, a frame past the merge has all children merged, `done` means
  complete or torn, and a complete front belongs to a `done` frame.

`FrameStep` proves that frames preserve it, one step per action and below it one
per part that the action can disturb; `DriverStep` does so for the caller.
`ReturnInv`, inductive relative to `IndInv`, relates the result to the flag and the
input. At the end of a call no frame is active (`QuietRoots`), and without the flag
every front is complete (`CompleteRoots`, by induction from the roots down), which
gives the outcome and the refinement.

Two more invariants are proved on top of it. `SuccessesCountEveryPivot` needs to know of
every partial result what it counts while it is being formed: `PivotInv` says that,
unless the call has failed, the count of a frame is the sum over the children it has
merged, plus its own columns once its diagonal block is factored, and those of whole
subtrees are complete when they are merged. The total is then a sum over the forest.
`ContextIsPresent` is about the two places that decide about parallelism separately
(finding 2). Its hypothesis `TilesAreWorthThreads` says that a front with a tiled kernel
has at least the work that makes a call parallel, and lemma `LargeTiles` derives it from
`4 MinParallelThreshold <= 9 TileSize^2`, which holds for the defaults 10^5 and 256
(`factorization.hpp:154` and `174`). What remains to show is that the estimates never
decrease from a front to the total, and that no frame of an earlier call is left when
the context is replaced.

`AssemblyForestProofs` proves `EstimatesAreMonotone`, what the two recursions over the
forest amount to along an edge: `WorkEstimate` is no less than that of a child, and
`StorageNeeded` has room for the supernode's own front below all that a child needs.
The provers cannot use a rule of induction, nor a recursive function without a proof
that it exists. `FiniteSumProofs` therefore does induction by taking a smallest
counterexample (`LeastElement`, `SmallestSubset`), shows that a recursive definition has
a solution, again by a least rank for which it would have none (`RecursionExists`), and
derives from the definition of `MapThenSumSet` the laws of sums: empty set, one more
element, equal and disjoint summands, bounds. For the loops over sequences that the
models write as `f[k]` from `f[k - 1]` it proves what their result is for one element
more (`LoopAppend`), and that what holds of the empty sequence and is kept by one element
more holds of all (`SequenceInduction`). All later modules use these.

`BlockRightLookingProofs` also proves `StacksAreSufficient`, `LiveFrontsAreBacked`,
`SuccessesReleaseStorage` and `TypeCorrect`: the invariants `StackSuffices`,
`LiveFrontsBacked`, `SuccessReleasesStorage` and `TypeOK`. The properties compare
offsets of two fronts that need not be related, which no single step does. `StorageInv`
therefore follows the discipline of a stack. A serial subtree has one stack, which its
frames share (`StackInv`), and the frames that are engaged with it, because they are
going to push or their front is still needed, form a chain: of two of them the one
further up is in its loop over the children (`ChainInv`). Hence the top of the stack is
where the lowest of them has pushed or will push (`TopInv`), each stands directly above
its parent with room for all of its own subtree (`PlaceInv`), and fronts on one stack
are ordered as in the forest (`OrderInv`), so they cannot overlap. Each operation on
storage has a lemma of its own (`NewStackStep`, `OwnBufferStep`, `PushStep`, `PopStep`,
`GiveBackStep`, `ReleaseStep`); the others move frames only (`QuietStep`, `PassingStep`,
`CallStep`, `SpawnStep`). A failed call may leave anything on its stacks; the proof
holds for the next call because whoever owns a stack starts it empty. `SpentInv` adds
that a front which has been merged, and that of a finished root, owns no storage any
more, and that a success has completed every front.

`TiledFactorizationsProofs` proves `TasksAreDisjoint`, the invariant
`ReadyTasksDisjoint` of the dense tasks, for every routine, matrix, tile and block
size (assuming only `CallsAssumption`; what a task computes plays no part). Of two
tasks, one was created first (`OrderTotal`), so two that are both ready do not
conflict (`ReadyWithoutConflict`), and what tasks share is then covered by the
clauses, with two exceptions (`DisjointWithoutConflict`). The buffer `factor` is in
no clause, but the tile of it that an update reads was written by the task that
wrote the same tile of the matrix, which the clause names. The diagonal tile that a
solve reads is in none either (but for Cholesky), and the clauses alone would not
do: `IndInv` adds that no task is left whose target is a diagonal tile for which
solves exist (`DiagonalInv`). This is preserved by the next step because the
diagonal task, for which the driver waits, has itself waited for the updates of its
tile (`UpdatedInv`), and belongs to the last step created (`StepInv`).

`NoTaskCycle` says that the clauses never make tasks wait in a circle: of the tasks that
are left, the one that the driver created first is ready (`FirstTask`). `TypeCorrect` is `TypeOK` of the tiles, and
`FailureReported` that a call returns fewer pivots than rows exactly if a pivot failed.
Both rest on the invariant `CountInv`: until the diagonal task of a step has run, the
pivots are the rows before its tile; after it, they fall short of the rows up to the end
of its tile exactly if it failed (`PivotsInv`). What a task computes now does play a
part. Each routine without blocks is a loop over columns whose step either fails and
leaves the pivots alone or adds one (`StepAddsPivot`), so that it returns the number of
its rows or, failed, less (`UnblockedPivots`); a routine with blocks is a loop of those
over submatrices (`BlockedPivots`, with the ends of its blocks inside the matrix by
`BlockStart`), and each task of the driver one of these in a tile (`TilePivots`). That
no step changes the height of the matrix or of the buffer (`ShapeInv`) needs, of the
assumption, that the matrix is square.

`CholeskyFlowgraphProofs` proves `OperandsAreReady`, `PivotsAreExclusive`,
`CancellationFollowsNotice`, `ResultsAreTrue` and `TypeCorrect`: all invariants of
`fg_reuse`, for every matrix size, tile size, set of breakdowns, outside failure and
number of runs, with resets of the context by other waits in any of them. No assumption
is made about these resets. A run that loses tasks unseen is itself in order, and so is
its result; what comes after is excluded by the properties (`unseen`), since `fg_shared`
shows that it goes wrong, except that types, counters and the order of flag and
cancellation (`Basic`) hold there too. `ReadyWithoutCancellation` proves the property that
`fg_shared` refutes for builds with `CATAMARI_DISABLE_TBB_CANCELLATION`. The state is a count of messages per node and a count
of changes per tile, and neither says who sent what. The proof therefore carries a
set `S`, the nodes that have sent their messages (`SentInv`): `S` is closed under
predecessors, each counter is the number of predecessors of its node in `S` until
all of them are, and a node that has a task is not in `S` but its predecessors are.
The changes of a tile are those of nodes of `S` (`TilesInv`), hence a node at work
finds its operands final (`WorkInv`). The diagonal tiles are factored in order, so
that one number `m` tells which of them are (`PivotInv`): two factorization nodes
cannot be at work together, and the pivots are the columns of the first `m` tiles.
`ProgressInv` says that without a notice of failure no task is lost, so an ended run
has all nodes in `S` (`QuietMeansSent`), and `IdleInv` that nothing of a run is left
for the next unless it lost tasks unseen.

`TriangularSolveProofs` first proves what the recursive definitions of `TriangularSolve`
are for: `TraversalPostorder` says that the order which the code
computes with a stack of pending supernodes is a postorder. `TraversalInv`, over the
steps of the loop, says that what is on the stack are the roots and the children of what
has been visited, each once and not visited itself; that as long as descendants of a
visited supernode are on the stack they are on its top, and nothing else has been
visited since; and that the descendants of a visited supernode lie next to it in the
order. The first index of a subtree is again a recursion, over indices, and
`SubtreesAreDescendants` shows that it gives the descendants.

It then proves `NoRaces`, `SolvesInOrder`, `GroupsArePrepared`, `UpdatesArriveOnce` and
`TypeCorrect`: the invariants `NoDataRace`, `GroupsPrepared`, `UpdatesExactlyOnce` and
`TypeOK`, and that `TriangularSolve` implements `TriangularSystem`, for every forest,
structure, threshold, number of right-hand sides and choice of threads, from
`ForestAssumption` and `StructureAssumption` alone. Two facts about the forest carry it.
Subtrees are slices of the postorder and two of them are disjoint or nested (`Laminar`).
What a supernode updates are its ancestors (`StructureAbove`), and what a subtree
updates outside of itself its root does too (`StructureInherited`), so a group that
keeps what is at most its root writes inside its subtree only (`OwnedInside`). The
invariant `IndInv` says for each frame what is solved below it: a frame that is ready or
serial is alone in its subtree, where what is solved is what the loop has passed
(`ForwardFrame`, `BackwardFrame`); a finished one has everything below it solved or
handed to a child. A step of one frame then cannot disturb another (`OthersKept`,
`OthersBackward`). When no backward frame is active, induction from the roots shows that
nothing is unsolved (`BackwardDoneStep`). Two parallel steps write to disjoint subtrees,
merge only buffers of finished children, and in the backward substitution write what is
unsolved and read what is solved. That groups are prepared is inductive by itself
(`GroupInv`): the recursion only enters what is below supernodes that are not serial.

`UpdatesExactlyOnce` says that at the moment a supernode is solved its updates are all
there; it says nothing of the buffers they come through. `CountInv` does. For every
update `<<d, t>>` it tells whether it has reached the right-hand side of `t`: as soon as
`d` is solved where the two are in one group or one thread solves (`Direct`), else when
`t` has merged its children (`RhsCount`). From the moment on at which the buffer of a
supernode `s` has been cleared or filled from the children (`Holds`), it has one of each
update by what is solved in the subtree of `s`, for the targets above `s` (`BufferCount`). A merge
sums over the children; of these exactly one has `d` below it (`Laminar`), so the sum has
one term that is not zero (`BroughtOnce`). Buffers of supernodes that hold nothing, and
entries for targets inside the subtree, may have anything in them: this is how the
leftovers of earlier solves come in, and why a buffer must be cleared before it is used.

`SparseSolverProofs` proves `TypeCorrect`, the invariant `TypeOK` of the session, from
`SessionsAssumption`: every programme has a problem, whose matrix satisfies the invariant
of its class (`IsCoordinateMatrix`) and has nothing queued; the entries that edits use lie
inside of it, as the assertions of `QueueEntryAddition` want; an ordering has its two
permutations for as many columns, which undo each other, or none; and one that comes with a forest cuts the
columns into supernodes, none of them empty. The part that needs an
argument is the spin locks of the lists of children, which `TypeOK` counts: a locked
list has exactly one task between reading and replacing its head, an unlocked one has
none. A task is at a column of its own supernode (`TasksInv`), columns of two supernodes
are apart (`ColumnsApart`), and only the task at a column writes its parent, before it
links it. Hence a task that changes its own place changes the holders of one list only,
its own (`LocksInv`, `LinkStep`, `PublishStep`); that several tasks with the same parent
may want the lock at once is what makes the count necessary. The rest says that edits
keep the shape of the matrix until the analysis reads it, so that the tasks are those of
the ordering, and that each call leaves the object in one of four states (`ObjectInv`).

`EditsHold` is the invariant `EditsApplied`, for matrices, queues and requests of any
size. The property compares the matrix with a table of what was asked for, and is silent
while something is queued; then a second table says what is still to come, and the two
are related to the matrix and its queues by `Tallies`, which every call keeps
(`QueueTallies`, `FlushTallies`, `ChangeTallies`, `ReplaceTallies`). A flush sorts,
combines, merges with the entries and combines again; what these keep is the total of
the values at each place (`Total`, `SortedFits`, `CombinedFits`), a removal takes away
whole places (`RemainingFits`), and in the end places strictly ascend, so that there is
one entry for each (`FlushFits`). A lookup searches one row between two offsets:
`RowSlices` shows that these bound the entries of the row, `EntryFound` that the search
finds the entry if there is one, past the end of a row too, and `ReplacementsFit` that a
series of replacements does what it does until one of them throws. The sort, the
removal and the replacements are recursive functions in the model, one round of the loop
for each element, and these lemmas go by induction over the sequence.

`OrderingsKeepSeparating` is `OrderingSeparates` under the hypothesis `OrderingsFit`,
which is about the inputs and not about the behaviour: an ordering that comes with a
forest separates the matrix that its problem starts with, and the entries that the
problem may be edited with join only supernodes on one line of the forest. A matrix that
is edited then has and will have entries in these places only (`InsideInv`). The orderings
that `NestedDissection` computes satisfy the hypothesis in the run, where `OrderingSeparates`
is checked before and after the edits; for every grid it is not proved.

From this it is proved that the parallel analysis is exact, for every matrix,
ordering, parallel depth and interleaving of the tasks, under `OrderingsFit` alone:
`ChildrenListed` is the invariant about the lists, `ResultsFollow` the step from
`ForestInv` to what the tasks have written. The first half of the argument has no state. The entries of the permuted matrix lie on lines
of the forest of supernodes, and elimination keeps them there (`FillOnLines`), so the
parent of a column is in its own supernode or an ancestor of it. The rows of a column in
the filled matrix are its own and those that its children have left
(`ChildrenBringFill`), and the pattern that the specification calls filled is the one
that this recursion gives (`FilledIsFill`).

The second half is the invariant `ForestInv`. A supernode begins only when its children
are done (`OrderInv`), thus all below it are (`DoneBelow`), and a task takes its columns
in order: when a column is computed all its children are finished (`KidsFinished`). A
computed column has the parent and degree of the filled matrix, and its structure is
kept until the parent has taken it; the stamps in force belong to computed columns, so
that no row is passed over because of a flag that an earlier column left
(`ResultInv`, `ColumnIsExact`). Each list is a chain, without a repetition, of the
finished children of its column, and a task that publishes still sees the head that it
has linked to (`ListsInv`). This last part is where tasks with the same parent could go
wrong: it needs `LocksInv`, by which no other task is between linking and publishing into
the same list (`PublishKeepsForest`, `ListGrows`). `ListIsFound` says that walking such a
chain yields its columns.

`SparseAnalysisProofs` completes `ForestFound`, the invariant `ForestIsFound`: what an
analysis has returned is the forest of the filled matrix, with its degrees
(`ForestHolds`), and what follows from it (`SimpleForestHolds`, `PostorderHolds`,
`FundamentalsHold`). For the parallel analysis this is what its tasks have written when all
are done. For the sequential one it is the correctness of two classical algorithms in
the form that the code gives them, and the larger part of the module; both are folds over
the rows, and the lemmas say what holds after each round.

- *Liu's elimination forest.* `ancestors` are shortcuts. In the middle of a row every
  parent that is written is right, and written for every column with an earlier row; an
  ancestor is on the line of its column in the true forest; and where it is the present
  row, no column on the way there still lacks its parent (`IsForestSoFar`). An entry
  sends its column up these shortcuts until one without an ancestor is left, which is a
  child of the row (`EdgeFits`, `RowFits`, `EliminationForestFits`). That the rows of a
  column are those whose row subtree it lies in is `FillGoesUp` and `RowSubtrees`.
- *The simple forest* has no shortcuts; it climbs parents and stops at the row or at
  a column already met in it. In the middle of a row the parents written are those of
  the true forest, and what has been met is closed upwards (`Amid`, `IsMet`, `WayUp`).
- *The postorder* of the library, used by the counts, puts every subtree into
  consecutive places, its root last (`PostorderFits`, `IsWholePostorder`).
  `PostorderHolds` says so of `FillPostorder`, which walks the lists of children: the
  places of a subtree begin where its turn came and end with its root (`WalkFacts`,
  `PostorderIsFilled`, `SubtreeInPlaces`).
- *The degrees of Gilbert, Ng and Peyton.* A first descendant is the least place in a
  subtree, and a leaf counts one (`FirstsFit`). An entry counts if its column is a leaf
  of the row subtree, which is seen by comparing places in the postorder; and then one
  is taken off where the new path meets the earlier ones, which is the root of a merged
  set (`LeafFound`, `SetsFit`, `OverlapFound`). The invariant of the loop
  (`SkeletonFits`, `CountsFit`) says what the counts in a subtree add up to: the leaves in
  it, and the columns that have an entry in a row of it that was passed, less one for
  every row that was passed and has its parent in it. At the end this is one more than
  the number of rows of the root (`ColumnAddsUp`); adding up along the forest gives each
  column its degree (`CountsAccumulate`, `DegreesFit`). The counts themselves may be
  negative, so that a degree is a natural number is a result here and not a type.
- *Fundamental supernodes.* A column joins the one before it if that is its only child
  and has one row more. The loop (`FundamentalsLoop`) shows that the columns of a
  supernode follow each other in the forest with degrees that fall by one, and then the
  rows of each are the next column and the rows of the next (`JoinedRows`).

`WorkspaceHolds` is the invariant `WorkspaceFits`, by `ForestHolds` under the same
hypothesis; most of its lemmas are at the end of `SparseSolverProofs`. The property is about numbers that are computed far apart. The front
end sizes the buffer by the supernodes of one factorization and hands it to the next;
the solve cuts its workspace by offsets, which sum up degrees, and tests only whether
the columns fit in it. The invariant `WorkspaceInv` says that a supernodal object has a
size and a degree for each supernode and room for what they amount to (`HasRoom`); that
the boundaries, if there are any, are those of this factor with the columns of *some*
solve (`IsWorkspace`), which is enough because a narrower solve keeps their places and
a wider one gets new ones (`SolveWorkspaceFits`); and that those of the last solve have
its columns. `CellsFit` then is geometry: offsets nest (`OffsetsNest`), and a place in a
view tells its row and its column (`PlacesApart`).

Most of the proof is about why an analysis has a size and a degree for each supernode.
Parents of an exact forest are later columns (`ExactForestClimbs`). Fundamental
supernodes have one column each, or more, and all columns together
(`FundamentalsCover`), so that the last column of each, from which its degree is taken,
is a column; and their parents come after them (`SupernodesRise`). Relaxation is the
difficult part: `mergeParents` is not the parent in the forest but the supernode in
front of which a merged one is put, and `RelaxationSizesOffsetsAndInversePermutation`
follows it until it ends. `IsMerged` says that it ends. Every supernode has a top, and a
depth by which each link descends; a merge of a child into a parent puts the top of the
child under the leftmost supernode of the parent, and deepens what is under the child by
the depth of what it was put under. This is kept because what is merged is a top
(`BestCanMerge`) and a later parent is no descendant of an earlier one (`MergeFits`,
`MergesOfParentKeep`, `MergesFit`). Then each way up ends (`PathsEnd`) and is a list of
columns (`ColumnsAreListed`). An expansion multiplies sizes and degrees alike
(`ExpandedHasRoom`), and no numeric step writes either (`ResultHasRoom`); that is what
`WithNumbers` is for in the model.

Only model-checked: liveness, which needs fairness and `ENABLED`; the numbers in
`TiledFactorizations` (`SplittingAgrees`, `ResultIsFactor`) and the sequential dense
routines (`PivotedFactors`, `KernelsAgree`); and of `SparseSolver` what the calls compute one after the other, by folds over
matrices: that nested dissection's orderings separate (`OrderingsFit`), `AnalysisIsExact` (the
permuted matrix, and the structures that the supernodes
take from the forest), `FactorIsExact` and `SolutionSolves`. The field arithmetic of these modules is a
finite computation, made for TLC.

## 5. What is not modelled

- Rounding, overflow and magnitudes of floating-point numbers, with what exists only
  for their sake: FGMRES and Givens rotations, refinement in promoted precision, the
  sums of logarithms (a likelihood is the product).
- OpenMP variants of sparse algorithms: the legacy right-looking recursion, the
  sparse samplers, the OpenMP helpers of the older symbolic interface and of block
  column initialization. They split a loop, or a tree with a wait per node, over tasks;
  the models have the sequential code and the TBB code for the same work.
- Minimum degree orderings, which come from the library `quotient` (its directory is
  a submodule), and the automatic choice of the scalar or supernodal strategy, which
  reads its counts. The models take any ordering with a forest, or without one.
- Timers, profiling, printing, file formats, the C and Python interfaces, examples.
- Exceptions (bad allocation; the checks in push and pop, which `StackSuffices` shows
  to be unreachable; the size check of the solve workspace is in `WorkspaceFits`).
- Weak memory order of `m_fail`: accesses interleave.
- Code that nothing calls: `UpdateDiagonalBlock`, `UpdateSubdiagonalBlock`, the branch
  `explicitly_permute`, the solve with thread-local buffers, variants behind macros
  that are off. (`PermuteMatrix` and `FillPostorder`, also without a caller, are
  checked by `AnalysisIsExact` and `ForestIsFound`.)

## 6. Disagreements found

1. `brl_leak`: after a failure, storage of inner supernodes stays allocated, against
   the comment on `RightLookingSharedState`. What is left may even outlive a success
   with another number of threads, which gives those fronts a place on a stack; this is
   why `SuccessReleasesStorage` speaks of the storage that the call used.
2. `brl_context`: with two or more threads and a total work below
   `min_parallel_threshold`, a tiled kernel dereferences a null context. Default
   tile sizes and thresholds exclude it.
3. `fg_shared`: a reset of the shared context by another wait hides a cancellation
   from a flow graph, which is then reused without the reset it needs.
4. `sparse_columns`: a solve of an equilibrated system with several right-hand sides
   scales the first column once per right-hand side and the others never.
5. `sparse_refactor`: a supernodal refactorization from a matrix with `kLeftLookingLDL`
   (`left_looking-impl.hpp:326`) does not read the matrix but the arrays of the last
   conversion plan, against "Factors a new matrix with the same sparsity pattern"
   (`sparse_ldl.hpp:196`). The run gives arrays with a shift, then the matrix without it,
   and finds the factor of the shifted one.
6. `sparse_sample`: the scalar sampler returns rows of the permuted kernel
   (`sparse_hermitian_dpp/scalar-impl.hpp:141`), while the supernodal ones map them back
   (`supernodal/common-impl.hpp:188`), against "Return a sample from the DPP"
   (`sparse_hermitian_dpp.hpp:45`). The run reads the sample as rows of the kernel and
   finds that it does not have the likelihood that the sampler gives it.

Also noticed while reading, without a run of their own; where the models are
concerned, callers avoid these cases:

- A failed call of the block right-looking factorization reports no pivots
  (`block_right_looking-impl.hpp:976`), although `num_successful_pivots` is documented as
  the number encountered "during the (attempted) factorization"
  (`sparse_ldl/scalar/factorization.hpp:64`).
- The scalar sampler compiles for real kernels only; its model is also run on complex
  ones.
- `Factorization::Clone` (`factorization.hpp:677`) does not copy the permutations of
  supernodal pivoting.
- Scalar LDL^T with dynamic regularization does not write the changed pivot back
  (`up_looking-impl.hpp:202`).
- `RefactorWithFixedSparsityPattern(matrix, control)` always throws for supernodal
  factorizations.
- Refactoring from arrays (`sparse_ldl.hpp:208`) keeps the old equilibration without
  scaling the new values.
- `Solve` sizes `permute_scratch_` by width times height but keeps the leading
  dimension of the caller (`solve-impl.hpp:171`).
- `OpenMPRightLookingLegacy` takes `supernode_offsets[root_index]` for
  `supernode_offsets[root]` in its serial branch
  (`right_looking_legacy_openmp-impl.hpp:288`).
- The refined solves of `SparseLDL` call `Solve` with one argument where two are
  required, so they would not compile if they were instantiated; the model gives the
  block size of the factor. They do one correction even if `max_iters` is zero.
- `unit_reach_nested_dissection.hpp` declares functions by names other than those
  that are defined.

## 7. Plan

Done: the parallel factorization, the flow graph and the parallel solves, with their
theorems; the dense factorizations as tasks; the symbolic analysis, sequential and
parallel; all sequential sparse factorizations, the front end, refinement, samplers,
nested dissection and the coordinate matrix, composed in one session.

Left, in this order:

1. `OrderingsFit` for what `NestedDissection` computes, by induction over the cuts.
2. The OpenMP recursions of the legacy factorization and of the sparse samplers, as
   task trees that implement `Elimination`.
3. A minimum degree ordering as a nondeterministic permutation of the session.
