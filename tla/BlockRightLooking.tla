-------------------------- MODULE BlockRightLooking --------------------------
(***************************************************************************)
(* The multifrontal ("block right-looking") numeric factorization, as the  *)
(* recursion BlockRightLookingSubtree runs it over the assembly forest     *)
(* with Intel TBB.  Every supernode has at most one activation record (a   *)
(* "frame") per factorization, and pc[s] is where that frame stands:       *)
(*                                                                         *)
(*   idle        not called yet                                            *)
(*   spawned     handed to task_group::run, not picked up by a thread      *)
(*   enter       process_child called                                      *)
(*   begin       BlockRightLookingSubtree called                           *)
(*   reserve     serial path, stack storage in place                       *)
(*   children    serial path, head of the loop over the children           *)
(*   recurse     serial path, inside the call that processes a child       *)
(*   wait        parallel path, children spawned                           *)
(*   gather      parallel path, task_group::wait returned                  *)
(*   assemble    parallel path, children being merged                      *)
(*   diagonal, solve, outer    the kernels of ...SupernodeFinalize         *)
(*   cancelDiag  shared flag set after a breakdown, context not cancelled  *)
(*   returnFalse the subtree returns false to process_child / process_root *)
(*   cancelChild as cancelDiag, in process_child                           *)
(*   done, aborted   returned true, returned false                         *)
(*   skipped     process_child returned early because of a failure         *)
(*   dropped     the task was cancelled by TBB before it started           *)
(*                                                                         *)
(* Steps are cut at the accesses to state that other threads change: the   *)
(* atomic flag m_fail and TBB's cancellation flag.                         *)
(***************************************************************************)
EXTENDS AssemblyForest

CONSTANTS
    TileSize,               \* control_.factor_tile_size
    MergeSize,              \* the literal 128 of the child merge
    MinParallelThreshold,   \* control_.min_parallel_threshold
    InverseRatio,           \* 1 / control_.parallel_ratio_threshold
    TbbCancellation,        \* not CATAMARI_DISABLE_TBB_CANCELLATION
    ThreadChoices,          \* values of get_max_num_tbb_threads()
    InputChoices,           \* sets of supernodes an input breaks down on
    MaxFactorizations       \* bound on the calls in a behaviour

ASSUME ControlAssumption ==
    /\ TileSize \in Nat \ {0}
    /\ MergeSize \in Nat
    /\ MinParallelThreshold \in Nat
    /\ InverseRatio \in Nat \ {0}
    /\ TbbCancellation \in BOOLEAN
    /\ ThreadChoices \subseteq Nat \ {0}
    /\ InputChoices \subseteq SUBSET Supernode
    /\ MaxFactorizations \in Nat

VARIABLES
    pc,         \* per supernode, where its frame stands
    stack,      \* the frame's subtreeStorage pointer, 0 for nullptr
    merged,     \* children added to the front in this factorization
    front,      \* what the memory of the front holds
    pivots,     \* num_successful_pivots of the frame's result
    view,       \* shared_state.schur_complements
    store,      \* shared_state.schur_complement_storage
    failed,     \* shared_state.m_fail
    ctx,        \* shared_state.tbb_ctx: null, live or cancelled
    threads,    \* shared_state.num_tbb_threads
    bad,        \* the supernodes the current values break down on
    main,       \* BlockRightLooking itself
    result,     \* what the last call returned
    round       \* number of calls so far

memory == <<view, store>>
shared == <<failed, ctx>>
call == <<threads, bad, main, result, round>>
vars == <<pc, stack, merged, front, pivots, memory, shared, call>>

Label == {"idle", "spawned", "enter", "begin", "reserve", "children",
          "recurse", "wait", "gather", "assemble", "diagonal", "solve",
          "outer", "cancelDiag", "returnFalse", "cancelChild", "done",
          "aborted", "skipped", "dropped"}

Returned == {"done", "aborted", "skipped", "dropped"}

\* A frame that some thread is executing or that TBB still has to execute.
Active(s) == pc[s] \notin Returned \cup {"idle"}

(***************************************************************************)
(* Contents of the memory of a front.  A kernel that TBB or m_fail cuts    *)
(* short, or that reads a front that is not what it should be, leaves it   *)
(* "torn"; values of an earlier factorization are "stale".                 *)
(***************************************************************************)
Contents == {"stale", "assembling", "factored", "solved", "complete", "torn"}

NullView == [owner |-> 0, base |-> 0, size |-> 0]
NoStorage == [cap |-> 0, top |-> 0]

-----------------------------------------------------------------------------
\* work >= min_parallel_work; with one thread the right side is infinite.
ParallelWork(work) ==
    /\ threads > 1
    /\ work >= MinParallelThreshold
    /\ work * InverseRatio * threads >= TotalWork

ParallelFactorization == ParallelWork(TotalWork)

ParallelNode(s) ==
    ParallelWork(WorkEstimate[s]) /\ Cardinality(Children(s)) > 1

SerialSubtree(s) == ~ParallelWork(WorkEstimate[s])

\* The kernels that run as TBB tasks of shared_state.tbb_ctx.
TiledDiagonal(s) == threads > 1 /\ SupernodeSize[s] > 3 * TileSize
TiledSolve(s) == threads > 1 /\ Degree[s] > 2 * TileSize
TiledOuter(s) == threads > 1 /\ 2 * Degree[s] > 3 * TileSize
TiledMerge(s) ==
    ctx # "null" /\ SupernodeSize[s] > MergeSize /\ Degree[s] > MergeSize

\* task_group::wait and graph::wait_for_all may reset the shared context they
\* find cancelled.
AfterWait(c) == IF c = "cancelled" THEN {"cancelled", "live"} ELSE {c}

Step(s, from, to) == pc[s] = from /\ pc' = [pc EXCEPT ![s] = to]

\* if (shared_state->hasFailed()) return false;
UnlessFailed(to) == IF failed THEN "returnFalse" ELSE to

-----------------------------------------------------------------------------
(***************************************************************************)
(* SchurComplementStorage.                                                 *)
(***************************************************************************)
Reallocate(s, size) ==
    store' = [store EXCEPT ![s] = [cap |-> size, top |-> 0]]

AllocateOwn(s) ==
    /\ stack[s] = 0
    /\ store' = [store EXCEPT ![s] = [cap |-> SizeForDegree(s),
                                      top |-> SizeForDegree(s)]]
    /\ view' = [view EXCEPT ![s] = [owner |-> s, base |-> 0,
                                    size |-> SizeForDegree(s)]]

\* Mutant: the view is made but the top of the stack does not move.
PushKeepingTop(s) ==
    /\ stack[s] # 0
    /\ view' = [view EXCEPT ![s] = [owner |-> stack[s],
                                    base |-> store[stack[s]].top,
                                    size |-> SizeForDegree(s)]]
    /\ UNCHANGED store

\* The exceptions of push and pop are not modelled: StackSuffices shows that
\* they are never thrown.
Push(s) ==
    /\ stack[s] # 0
    /\ store' = [store EXCEPT ![stack[s]].top = @ + SizeForDegree(s)]
    /\ view' = [view EXCEPT ![s] = [owner |-> stack[s],
                                    base |-> store[stack[s]].top,
                                    size |-> SizeForDegree(s)]]

AllocateSchurComplement(s) == AllocateOwn(s) \/ Push(s)

\* Mutant: the stack is sized as if the first child were expanded in place.
ExpandInPlaceNeeded(s) ==
    IF IsLeaf(s) THEN SizeForDegree(s)
    ELSE Max({StorageNeeded[c] + (IF c = FirstOf(Children(s)) THEN 0
                                  ELSE SizeForDegree(s)) : c \in Children(s)}
             \cup {SizeForDegree(s)})

\* getStoragedNeeded computes the value once per storage object; the forest
\* of a factorization never changes.
getStoragedNeeded(s) == StorageNeeded[s]

\* Mutant: a child with a storage of its own keeps it.
ReleaseMergedKeepsStorage(s, c) ==
    IF SerialSubtree(s)
    THEN /\ store' = [store EXCEPT ![stack[s]].top = @ - view[c].size]
         /\ view' = [view EXCEPT ![c] = NullView]
    ELSE UNCHANGED memory

\* Pop a merged child's Schur complement, or release its own buffer (which
\* leaves the child's view pointing at it).
ReleaseMerged(s, c) ==
    IF SerialSubtree(s)
    THEN /\ store' = [store EXCEPT ![stack[s]].top = @ - view[c].size]
         /\ view' = [view EXCEPT ![c] = NullView]
    ELSE /\ store' = [store EXCEPT ![c] = NoStorage]
         /\ UNCHANGED view

-----------------------------------------------------------------------------
(***************************************************************************)
(* process_child, and the start of a spawned task.                         *)
(***************************************************************************)
RunTask(s) ==
    /\ ctx # "cancelled"
    /\ Step(s, "spawned", IF IsRoot(s) THEN "begin" ELSE "enter")
    /\ UNCHANGED <<stack, merged, front, pivots, memory, shared, call>>

\* Mutant: a cancelled task is lost.
DropTaskLost(s) == FALSE

DropTask(s) ==
    /\ ctx = "cancelled"
    /\ Step(s, "spawned", "dropped")
    /\ UNCHANGED <<stack, merged, front, pivots, memory, shared, call>>

Enter(s) ==
    /\ Step(s, "enter", IF failed THEN "skipped" ELSE "begin")
    /\ UNCHANGED <<stack, merged, front, pivots, memory, shared, call>>

-----------------------------------------------------------------------------
(***************************************************************************)
(* BlockRightLookingSubtree, serial path.                                  *)
(***************************************************************************)
\* Mutant: every supernode of a serial subtree makes its own stack.
BeginSerialOwnStack(s) ==
    /\ ~ParallelNode(s)
    /\ Step(s, "begin", UnlessFailed("reserve"))
    /\ IF ~failed /\ SerialSubtree(s)
       THEN /\ stack' = [stack EXCEPT ![s] = s]
            /\ Reallocate(s, getStoragedNeeded(s))
       ELSE UNCHANGED <<stack, store>>
    /\ UNCHANGED <<merged, front, pivots, view, shared, call>>

BeginSerial(s) ==
    /\ ~ParallelNode(s)
    /\ Step(s, "begin", UnlessFailed("reserve"))
    /\ IF ~failed /\ SerialSubtree(s) /\ stack[s] = 0
       THEN /\ stack' = [stack EXCEPT ![s] = s]
            /\ Reallocate(s, getStoragedNeeded(s))
       ELSE UNCHANGED <<stack, store>>
    /\ UNCHANGED <<merged, front, pivots, view, shared, call>>

\* A leaf's columns are initialized here, the others' at their first merge.
ReserveFront(s) ==
    /\ ~failed
    /\ Step(s, "reserve", "children")
    /\ front' = [front EXCEPT ![s] = IF IsLeaf(s) THEN "assembling" ELSE @]
    /\ AllocateSchurComplement(s)
    /\ UNCHANGED <<stack, merged, pivots, shared, call>>

ReserveFailed(s) ==
    /\ failed
    /\ Step(s, "reserve", "returnFalse")
    /\ UNCHANGED <<stack, merged, front, pivots, memory, shared, call>>

\* The child inherits the stack of its parent's serial subtree.
CallChild(s) ==
    LET uncalled == {c \in Children(s) : pc[c] = "idle"}
        child == FirstOf(uncalled)
    IN  /\ pc[s] = "children" /\ uncalled # {}
        /\ pc' = [pc EXCEPT ![s] = "recurse", ![child] = "enter"]
        /\ stack' = [stack EXCEPT ![child] = stack[s]]
        /\ UNCHANGED <<merged, front, pivots, memory, shared, call>>

\* The first merge initializes the columns and zero-fills the Schur
\* complement, the later ones accumulate.
AfterMerge(s, c) ==
    IF front[c] # "complete" THEN "torn"
    ELSE IF merged[s] = {} THEN "assembling"
    ELSE front[s]

MergeChild(s, c) ==
    /\ pc[s] = "recurse"
    /\ c \in Children(s) \ merged[s] /\ pc[c] \in Returned
    /\ pivots' = [pivots EXCEPT ![s] = @ + pivots[c]]
    /\ Step(s, "recurse", UnlessFailed("children"))
    /\ IF failed
       THEN UNCHANGED <<merged, front, memory>>
       ELSE /\ merged' = [merged EXCEPT ![s] = @ \cup {c}]
            /\ front' = [front EXCEPT ![s] = AfterMerge(s, c)]
            /\ ReleaseMerged(s, c)
    /\ UNCHANGED <<stack, shared, call>>

ChildrenMerged(s) ==
    /\ merged[s] = Children(s)
    /\ Step(s, "children", UnlessFailed("diagonal"))
    /\ UNCHANGED <<stack, merged, front, pivots, memory, shared, call>>

-----------------------------------------------------------------------------
(***************************************************************************)
(* BlockRightLookingSubtree, parallel path.  This path does not look at    *)
(* m_fail before it spawns.                                                *)
(***************************************************************************)
SpawnChildren(s) ==
    LET inline == LastOf(Children(s))
    IN  /\ pc[s] = "begin" /\ ParallelNode(s)
        /\ pc' = [t \in Supernode |->
                    IF t = s THEN "wait"
                    ELSE IF t = inline THEN "enter"
                    ELSE IF t \in Children(s) THEN "spawned"
                    ELSE pc[t]]
        /\ UNCHANGED <<stack, merged, front, pivots, memory, shared, call>>

\* Mutant: the wait gives up once the factorization has failed.
JoinChildrenEarly(s) ==
    /\ failed \/ \A c \in Children(s) : pc[c] \in Returned
    /\ Step(s, "wait", "gather")
    /\ failed' = (failed \/ ctx = "cancelled")
    /\ ctx' \in AfterWait(ctx)
    /\ UNCHANGED <<stack, merged, front, pivots, memory, call>>

\* tg.wait() returns; status != complete sets the flag.
JoinChildren(s) ==
    /\ \A c \in Children(s) : pc[c] \in Returned
    /\ Step(s, "wait", "gather")
    /\ failed' = (failed \/ ctx = "cancelled")
    /\ ctx' \in AfterWait(ctx)
    /\ UNCHANGED <<stack, merged, front, pivots, memory, call>>

\* Mutant: the flag is not tested between the wait and the merge.
StartAssemblyUnchecked(s) ==
    /\ Step(s, "gather", "assemble")
    /\ AllocateOwn(s)
    /\ UNCHANGED <<stack, merged, front, pivots, shared, call>>

StartAssembly(s) ==
    /\ ~failed
    /\ Step(s, "gather", "assemble")
    /\ AllocateOwn(s)
    /\ UNCHANGED <<stack, merged, front, pivots, shared, call>>

TotalPivots(S) == SumOver(pivots, S)

\* Mutant: the contributions of the children are not merged.
ReleaseChildrenNoResults(s) ==
    /\ store' = [t \in Supernode |->
                    IF t \in Children(s) THEN NoStorage ELSE store[t]]
    /\ view' = [t \in Supernode |->
                    IF t \in Children(s) THEN NullView ELSE view[t]]
    /\ UNCHANGED pivots

\* Storage and views of all children go, merged or not.
ReleaseChildren(s) ==
    /\ store' = [t \in Supernode |->
                    IF t \in Children(s) THEN NoStorage ELSE store[t]]
    /\ view' = [t \in Supernode |->
                    IF t \in Children(s) THEN NullView ELSE view[t]]
    /\ pivots' = [pivots EXCEPT ![s] = @ + TotalPivots(Children(s))]

GatherFailed(s) ==
    /\ failed
    /\ Step(s, "gather", "returnFalse")
    /\ ReleaseChildren(s)
    /\ UNCHANGED <<stack, merged, front, shared, call>>

\* Mutant: the flag is not tested between the merge and Finalize.
AssembleUnchecked(s) ==
    /\ Step(s, "assemble", "diagonal")
    /\ merged' = [merged EXCEPT ![s] = Children(s)]
    /\ front' = [front EXCEPT ![s] =
                    IF @ # "torn"
                       /\ \A c \in Children(s) : front[c] = "complete"
                    THEN "assembling" ELSE "torn"]
    /\ ReleaseChildren(s)
    /\ ctx' \in (IF TiledMerge(s) THEN AfterWait(ctx) ELSE {ctx})
    /\ UNCHANGED <<stack, failed, call>>

\* BlockMergeChildSchurComplements finished or broke off (see CutKernel);
\* its own task group waits on the same context.
Assemble(s) ==
    /\ Step(s, "assemble", UnlessFailed("diagonal"))
    /\ merged' = [merged EXCEPT ![s] = Children(s)]
    /\ front' = [front EXCEPT ![s] =
                    IF @ # "torn"
                       /\ \A c \in Children(s) : front[c] = "complete"
                    THEN "assembling" ELSE "torn"]
    /\ ReleaseChildren(s)
    /\ ctx' \in (IF TiledMerge(s) THEN AfterWait(ctx) ELSE {ctx})
    /\ UNCHANGED <<stack, failed, call>>

-----------------------------------------------------------------------------
(***************************************************************************)
(* BlockRightLookingSupernodeFinalize.                                     *)
(***************************************************************************)
\* Tiles of a kernel are skipped: by their own test of m_fail (merge and
\* solve), or by TBB because the context is cancelled.
CutKernel(s) ==
    /\ \/ pc[s] = "assemble" /\ failed
       \/ pc[s] = "assemble" /\ TiledMerge(s) /\ ctx = "cancelled"
       \/ pc[s] = "solve" /\ TiledSolve(s) /\ (failed \/ ctx = "cancelled")
       \/ pc[s] = "outer" /\ TiledOuter(s) /\ ctx = "cancelled"
    /\ front[s] # "torn"
    /\ front' = [front EXCEPT ![s] = "torn"]
    /\ UNCHANGED <<pc, stack, merged, pivots, memory, shared, call>>

WhenReady(s, ready, next) == IF front[s] = ready THEN next ELSE "torn"

\* A supernode without rows below is a root: Finalize returns true at once
\* and process_root releases its storage.
FactorDiagonal(s) ==
    /\ s \notin bad
    /\ Step(s, "diagonal", IF Degree[s] = 0 THEN "done"
                           ELSE UnlessFailed("solve"))
    /\ front' = [front EXCEPT ![s] =
                    WhenReady(s, "assembling", IF Degree[s] = 0
                                               THEN "complete"
                                               ELSE "factored")]
    /\ pivots' = [pivots EXCEPT ![s] = @ + SupernodeSize[s]]
    /\ store' = [store EXCEPT ![s] = IF IsRoot(s) THEN NoStorage ELSE @]
    /\ ctx' \in (IF TiledDiagonal(s) THEN AfterWait(ctx) ELSE {ctx})
    /\ UNCHANGED <<stack, merged, view, failed, call>>

\* The flow graph of a tiled diagonal block cancels the context itself, before
\* it waits for its tasks (unless the build has no cancellation).
BrokenContexts(s) ==
    IF TiledDiagonal(s) /\ ctx # "null" /\ TbbCancellation
    THEN AfterWait("cancelled") ELSE {ctx}

\* Mutant: the context is cancelled before the flag is set.
BreakDownUnflagged(s) ==
    /\ s \in bad \/ (TiledDiagonal(s) /\ ctx = "cancelled")
    /\ Step(s, "diagonal", "cancelDiag")
    /\ \E p \in 0..(SupernodeSize[s] - 1) :
          pivots' = [pivots EXCEPT ![s] = @ + p]
    /\ ctx' \in BrokenContexts(s)
    /\ UNCHANGED <<stack, merged, front, memory, failed, call>>

\* Too few pivots: the block is not positive definite, or the tasks of its
\* flow graph were cancelled.
BreakDown(s) ==
    /\ s \in bad \/ (TiledDiagonal(s) /\ ctx = "cancelled")
    /\ Step(s, "diagonal", "cancelDiag")
    /\ failed' = TRUE
    /\ \E p \in 0..(SupernodeSize[s] - 1) :
          pivots' = [pivots EXCEPT ![s] = @ + p]
    /\ ctx' \in BrokenContexts(s)
    /\ UNCHANGED <<stack, merged, front, memory, call>>

SolveAgainstDiagonal(s) ==
    /\ Step(s, "solve", UnlessFailed("outer"))
    /\ front' = [front EXCEPT ![s] = WhenReady(s, "factored", "solved")]
    /\ UNCHANGED <<stack, merged, pivots, memory, shared, call>>

OuterProduct(s) ==
    /\ Step(s, "outer", "done")
    /\ front' = [front EXCEPT ![s] = WhenReady(s, "solved", "complete")]
    /\ UNCHANGED <<stack, merged, pivots, memory, shared, call>>

\* The second half of failAndCancelExecution.
CancelExecution(s) ==
    /\ \/ Step(s, "cancelDiag", "returnFalse")
       \/ Step(s, "cancelChild", "aborted")
    /\ ctx' = IF ctx # "null" /\ TbbCancellation THEN "cancelled" ELSE ctx
    /\ UNCHANGED <<stack, merged, front, pivots, memory, failed, call>>

\* process_child fails and cancels; process_root only sets the flag.
ReturnFalse(s) ==
    /\ Step(s, "returnFalse", IF IsRoot(s) THEN "aborted" ELSE "cancelChild")
    /\ failed' = TRUE
    /\ store' = [store EXCEPT ![s] = IF IsRoot(s) THEN NoStorage ELSE @]
    /\ UNCHANGED <<stack, merged, front, pivots, view, ctx, call>>

-----------------------------------------------------------------------------
(***************************************************************************)
(* BlockRightLooking.                                                      *)
(***************************************************************************)
NoResult == [outcome |-> "none", pivots |-> 0]

Init ==
    /\ pc = [s \in Supernode |-> "idle"]
    /\ stack = [s \in Supernode |-> 0]
    /\ merged = [s \in Supernode |-> {}]
    /\ front = [s \in Supernode |-> "stale"]
    /\ pivots = [s \in Supernode |-> 0]
    /\ view = [s \in Supernode |-> NullView]
    /\ store = [s \in Supernode |-> NoStorage]
    /\ failed = FALSE
    /\ ctx = "null"
    /\ threads = 1
    /\ bad = {}
    /\ main = "returned"
    /\ result = NoResult
    /\ round = 0

\* What a call finds at its start, apart from the context.
StartCall ==
    /\ main = "returned" /\ round < MaxFactorizations
    /\ round' = round + 1
    /\ threads' \in ThreadChoices
    /\ bad' \in InputChoices
    /\ failed' = FALSE
    /\ main' = "roots"
    /\ pc' = [s \in Supernode |-> "idle"]
    /\ stack' = [s \in Supernode |-> 0]
    /\ merged' = [s \in Supernode |-> {}]
    /\ front' = [s \in Supernode |-> "stale"]
    /\ pivots' = [s \in Supernode |-> 0]
    /\ UNCHANGED <<memory, result>>

\* Mutant: an existing context is not reset.
StartKeepingContext ==
    /\ StartCall
    /\ ctx' = IF ~ParallelFactorization' THEN "null"
              ELSE IF ctx = "null" THEN "live" ELSE ctx

\* Mutant: an existing context is destroyed where it should be reset.
StartLosingContext ==
    /\ StartCall
    /\ ctx' = IF ParallelFactorization' /\ ctx = "null" THEN "live" ELSE "null"

\* m_fail is cleared and the context reset, created or destroyed.
Start ==
    /\ StartCall
    /\ ctx' = IF ParallelFactorization' THEN "live" ELSE "null"

SerialRoots == ~ParallelFactorization \/ Cardinality(Roots) <= 1

\* The loop stops at the first root after which m_fail is set.
NextRoot ==
    LET uncalled == {r \in Roots : pc[r] = "idle"}
        started == Roots \ uncalled
    IN  /\ main = "roots" /\ SerialRoots
        /\ uncalled # {} /\ (started # {} => ~failed)
        /\ \A r \in started : pc[r] \in Returned
        /\ pc' = [pc EXCEPT ![FirstOf(uncalled)] = "begin"]
        /\ UNCHANGED <<stack, merged, front, pivots, memory, shared, call>>

RootLoopDone ==
    LET uncalled == {r \in Roots : pc[r] = "idle"}
    IN  /\ main = "roots" /\ SerialRoots
        /\ \A r \in Roots \ uncalled : pc[r] \in Returned
        /\ uncalled = {} \/ (uncalled # Roots /\ failed)
        /\ main' = "finish"
        /\ UNCHANGED <<pc, stack, merged, front, pivots, memory, shared,
                       threads, bad, result, round>>

SpawnRoots ==
    /\ main = "roots" /\ ~SerialRoots
    /\ main' = "join"
    /\ pc' = [s \in Supernode |->
                IF s = LastOf(Roots) THEN "begin"
                ELSE IF s \in Roots THEN "spawned"
                ELSE pc[s]]
    /\ UNCHANGED <<stack, merged, front, pivots, memory, shared,
                   threads, bad, result, round>>

\* The status of this wait is not looked at.
JoinRoots ==
    /\ main = "join"
    /\ \A r \in Roots : pc[r] \in Returned
    /\ main' = "finish"
    /\ ctx' \in AfterWait(ctx)
    /\ UNCHANGED <<pc, stack, merged, front, pivots, memory, failed,
                   threads, bad, result, round>>

\* Mutant: the flag is not consulted for the result.
ReturnResultUnchecked ==
    /\ main = "finish"
    /\ main' = "returned"
    /\ result' = [outcome |-> "success",
                  pivots |-> TotalPivots(Roots)]
    /\ UNCHANGED <<pc, stack, merged, front, pivots, memory, shared,
                   threads, bad, round>>

\* The contributions of the roots are added up on success only.
ReturnResult ==
    /\ main = "finish"
    /\ main' = "returned"
    /\ result' = [outcome |-> IF failed THEN "failure" ELSE "success",
                  pivots |-> IF failed THEN 0 ELSE TotalPivots(Roots)]
    /\ UNCHANGED <<pc, stack, merged, front, pivots, memory, shared,
                   threads, bad, round>>

\* After the last call of a bounded behaviour nothing happens any more.
Terminated ==
    /\ main = "returned" /\ round = MaxFactorizations
    /\ UNCHANGED vars

Frame(s) ==
    \/ RunTask(s) \/ DropTask(s) \/ Enter(s)
    \/ BeginSerial(s) \/ ReserveFront(s) \/ ReserveFailed(s)
    \/ CallChild(s) \/ (\E c \in Supernode : MergeChild(s, c))
    \/ ChildrenMerged(s)
    \/ SpawnChildren(s) \/ JoinChildren(s) \/ StartAssembly(s)
    \/ GatherFailed(s) \/ Assemble(s)
    \/ CutKernel(s) \/ FactorDiagonal(s) \/ BreakDown(s)
    \/ SolveAgainstDiagonal(s) \/ OuterProduct(s)
    \/ CancelExecution(s) \/ ReturnFalse(s)

Driver == NextRoot \/ RootLoopDone \/ SpawnRoots \/ JoinRoots \/ ReturnResult

Next == Start \/ (\E s \in Supernode : Frame(s)) \/ Driver \/ Terminated

(***************************************************************************)
(* TBB runs every spawned task and every call returns, so each frame that  *)
(* can take a step eventually takes one; nobody has to call again.         *)
(***************************************************************************)
Fairness == (\A s \in Supernode : WF_vars(Frame(s))) /\ WF_vars(Driver)

Spec == Init /\ [][Next]_vars

FairSpec == Spec /\ Fairness

-----------------------------------------------------------------------------
(***************************************************************************)
(* Properties.                                                             *)
(***************************************************************************)
\* The part of the type invariant that does not count or measure anything.
ControlTypeOK ==
    /\ pc \in [Supernode -> Label]
    /\ stack \in [Supernode -> 0..NumSupernodes]
    /\ merged \in [Supernode -> SUBSET Supernode]
    /\ front \in [Supernode -> Contents]
    /\ failed \in BOOLEAN
    /\ ctx \in {"null", "live", "cancelled"}
    /\ threads \in ThreadChoices \cup {1}
    /\ bad \in SUBSET Supernode
    /\ main \in {"returned", "roots", "join", "finish"}
    /\ result.outcome \in {"none", "success", "failure"}
    /\ round \in 0..MaxFactorizations

\* Type invariant: all state stays in its range; in particular a pop never
\* takes the top of a stack below zero.
TypeOK ==
    /\ ControlTypeOK
    /\ pivots \in [Supernode -> Nat]
    /\ view \in [Supernode ->
                    [owner : 0..NumSupernodes, base : Nat, size : Nat]]
    /\ store \in [Supernode -> [cap : Nat, top : Nat]]
    /\ result.pivots \in Nat

\* While a factorization runs, TBB's cancellation never overtakes m_fail:
\* whoever sees tasks of the context cancelled can already see the failure
\* (the purpose of failureCallback and of the order of the two statements of
\* failAndCancelExecution).
CancelledOnlyAfterFailure ==
    main # "returned" /\ ctx = "cancelled" => failed

\* A Schur complement is added into the parent's front only if the child's
\* front is complete: no child that was dropped, skipped, aborted or cut
\* short by cancellation contributes.
MergesOnlyCompleteFronts ==
    \A s \in Supernode : \A c \in merged[s] : front[c] = "complete"

\* The diagonal block of a supernode is factored only when its front holds
\* this factorization's columns and the whole update of every child.
FactorsOnlyAssembledFronts ==
    \A s \in Supernode :
        pc[s] = "diagonal" =>
            front[s] = "assembling" /\ merged[s] = Children(s)

\* A frame of a child is only active while its parent's frame (or, for a
\* root, the call of BlockRightLooking) waits for it: nothing is released or
\* returned under a task that still runs.
FramesNest ==
    \A s \in Supernode :
        Active(s) =>
            IF IsRoot(s) THEN main \in {"roots", "join"}
            ELSE pc[Parent[s]] \in {"recurse", "wait"}

\* The Schur complement of s is still going to be read or written.
InUse(s) ==
    \/ pc[s] \in {"children", "recurse", "assemble", "diagonal", "solve",
                  "outer"} /\ view[s].size > 0
    \/ /\ pc[s] = "done" /\ ~IsRoot(s) /\ s \notin merged[Parent[s]]
       /\ pc[Parent[s]] \in {"recurse", "wait", "gather", "assemble"}

\* Every Schur complement in use has the child's dimensions (the assertion in
\* BlockMergeChildSchurComplement), lies below the top of an allocated
\* storage, and overlaps no other one.
LiveFrontsBacked ==
    \A s \in Supernode : InUse(s) =>
        LET v == view[s]
        IN  /\ v.size = SizeForDegree(s)
            /\ v.base + v.size <= store[v.owner].top
            /\ store[v.owner].top <= store[v.owner].cap
            /\ \A t \in Supernode \ {s} :
                  InUse(t) /\ view[t].owner = v.owner =>
                      \/ view[t].base + view[t].size <= v.base
                      \/ v.base + v.size <= view[t].base

\* storageNeeded is enough for every sequence of pushes and pops of a serial
\* subtree: push and pop never throw.
StackSuffices ==
    \A s \in Supernode : stack[s] # 0 =>
        LET st == store[stack[s]]
        IN  /\ pc[s] = "reserve" => st.top + SizeForDegree(s) <= st.cap
            /\ pc[s] = "recurse" /\ SerialSubtree(s) =>
                  \A c \in Children(s) \ merged[s] :
                      pc[c] = "done" => view[c].size <= st.top

\* Wherever a kernel or a task group dereferences tbb_ctx, it is not null.
ContextPresent ==
    \A s \in Supernode :
        \/ pc[s] = "diagonal" /\ TiledDiagonal(s)
        \/ pc[s] = "solve" /\ TiledSolve(s)
        \/ pc[s] = "outer" /\ TiledOuter(s)
        \/ pc[s] = "wait"
        => ctx # "null"

\* The outcome tells the truth about the input, whatever the previous call on
\* the same object left behind: success means an input without a breakdown,
\* failure an input with one.
OutcomeIsTrue ==
    main = "returned" =>
        /\ result.outcome = "success" => bad = {}
        /\ result.outcome = "failure" => bad # {}

\* A success counts each column's pivot exactly once, over all the partial
\* results that the tasks and the roots contribute.
SuccessCountsEveryPivot ==
    main = "returned" /\ result.outcome = "success" =>
        result.pivots = NumColumns

\* After a success none of the storage that the call used is left allocated:
\* neither the stacks of the serial subtrees nor the buffers of the other
\* fronts.  (What a failed call left behind may survive a success in which
\* the number of threads gives those fronts a place on a stack.)
SuccessReleasesStorage ==
    main = "returned" /\ result.outcome = "success" =>
        \A s \in Supernode : stack[s] \in {0, s} => store[s].cap = 0

\* "Each front should only be allocated while it is actively in use"
\* (supernode_utils.hpp): between two calls no front is in use.
AllocatedOnlyWhileInUse ==
    main = "returned" => \A s \in Supernode : store[s].cap = 0

(***************************************************************************)
(* The abstract specification, with the supernodes whose fronts are        *)
(* complete as the eliminated ones.                                        *)
(***************************************************************************)
Abstract == INSTANCE Elimination WITH
    eliminated <- {s \in Supernode : front[s] = "complete"},
    indefinite <- bad,
    outcome <- IF main = "returned" THEN result.outcome ELSE "running"

\* The factorization implements the abstract elimination.
ImplementsElimination == Abstract!AbsSpec

\* Every call returns, with or without a failure.
EveryCallReturns == Abstract!Returns
=============================================================================
