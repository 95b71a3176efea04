--------------------------- MODULE TriangularSolve ---------------------------
(***************************************************************************)
(* Solve: the forward and backward substitutions with the supernodal       *)
(* factor, one supernode at a time, as tasks over the assembly forest or,  *)
(* with one thread, as two sweeps over all supernodes.                     *)
(*                                                                         *)
(* A supernode d is solved with its diagonal block and then updates the    *)
(* right-hand side of every supernode in Structure[d].  In parallel, the   *)
(* updates travel in buffers (schur_complements): from each child to its   *)
(* parent, or, when there is a single right-hand side, directly inside a   *)
(* serial subtree and through the buffer of its root ("boundary") beyond   *)
(* it.  Numbers are abstracted to the count of how often each update       *)
(* <<d, t>> has been added into a place.                                   *)
(***************************************************************************)
EXTENDS AssemblyForest, SequencesExt

CONSTANTS
    Structure,          \* the supernodes with rows in the structure of s
    ForwardWork,        \* solve_kernels::forward_work
    ForwardMaxDepth,    \* solve_kernels::forward_max_depth
    BackwardWork,       \* solve_kernels::backward_work
    BackwardMaxDepth,   \* solve_kernels::backward_max_depth
    MaxSolves           \* bound on the solves in a behaviour

\* The parent is the supernode of the first row of the structure, and the
\* remaining rows are in the structure of the parent.
ASSUME StructureAssumption ==
    /\ Structure \in [Supernode -> SUBSET Supernode]
    /\ \A s \in Supernode : Structure[s] = {} <=> IsRoot(s)
    /\ \A s \in Supernode : ~IsRoot(s) =>
          /\ Parent[s] \in Structure[s]
          /\ Structure[s] \ {Parent[s]} \subseteq Structure[Parent[s]]
    /\ {ForwardWork, ForwardMaxDepth, BackwardWork, BackwardMaxDepth,
        MaxSolves} \subseteq Nat

\* An update of the right-hand side of u[2] by the solution of u[1].
Update == {u \in Supernode \X Supernode : u[2] \in Structure[u[1]]}
UpdatesOf(d) == {u \in Update : u[1] = d}
NoUpdates == [u \in Update |-> 0]

-----------------------------------------------------------------------------
(***************************************************************************)
(* The cached traversal.                                                   *)
(***************************************************************************)
\* FillFromParents packs children and roots in increasing order.
Ascending(S) ==
    CHOOSE q \in [1..Cardinality(S) -> S] :
        \A i, j \in 1..Cardinality(S) : i < j => q[i] < q[j]

ChildSequence(s) == Ascending(Children(s))

\* After k steps of the loop over the stack of pending supernodes.
Traversal[k \in 0..NumSupernodes] ==
    IF k = 0
    THEN [pending |-> Ascending(Roots), order |-> <<>>]
    ELSE LET before == Traversal[k - 1]
             s == Last(before.pending)
         IN  [pending |-> Front(before.pending) \o ChildSequence(s),
              order |-> <<s>> \o before.order]

solve_postorder == Traversal[NumSupernodes].order

\* The indices in solve_postorder of the first supernode of the subtree of
\* solve_postorder[i], and of the one after the last.
SubtreeBegin[i \in 1..NumSupernodes] ==
    LET s == solve_postorder[i]
    IN  Min({i} \cup {SubtreeBegin[j] : j \in
                        {k \in 1..(i - 1) : Parent[solve_postorder[k]] = s}})

IndexOf(s) == CHOOSE i \in 1..NumSupernodes : solve_postorder[i] = s
solve_subtree_begin(s) == SubtreeBegin[IndexOf(s)]
solve_subtree_end(s) == IndexOf(s) + 1

\* The supernodes from the beginning of a subtree to its end.
SolveSubtree(s) ==
    {t \in Supernode : IndexOf(t) \in solve_subtree_begin(s)..IndexOf(s)}

\* What the recursive definitions above are for: the order lists a supernode
\* and all its descendants, and nothing else, from begin to end.
TraversalIsPostorder ==
    /\ \A i \in 1..NumSupernodes :
          /\ solve_postorder[i] \in Supernode
          /\ IndexOf(solve_postorder[i]) = i
    /\ \A s \in Supernode :
          /\ IndexOf(s) \in 1..NumSupernodes
          /\ solve_postorder[IndexOf(s)] = s
          /\ solve_subtree_begin(s) \in 1..IndexOf(s)
    /\ \A s, t \in Supernode :
          t \in SolveSubtree(s)
             <=> t = s \/ (~IsRoot(t) /\ Parent[t] \in SolveSubtree(s))

-----------------------------------------------------------------------------
(***************************************************************************)
(* Scheduling subtrees.                                                    *)
(***************************************************************************)
Ancestors[s \in Supernode] ==
    IF IsRoot(s) THEN {} ELSE {Parent[s]} \cup Ancestors[Parent[s]]
Depth(s) == Cardinality(Ancestors[s])

\* What the recursive definition is for.
AncestorsClimb ==
    \A s \in Supernode :
        Ancestors[s] = IF IsRoot(s) THEN {}
                       ELSE {Parent[s]} \cup Ancestors[Parent[s]]

ForwardSerial(s) ==
    WorkEstimate[s] < ForwardWork \/ Depth(s) > ForwardMaxDepth

BackwardSerial(s) ==
    /\ WorkEstimate[s] < BackwardWork \/ Depth(s) > BackwardMaxDepth
    /\ Cardinality(Children(s)) > 1

\* The roots of the groups that PrepareSolveAccumulationCache forms.
AccumulationRoots ==
    {s \in Supernode : /\ ForwardSerial(s)
                       /\ \A a \in Ancestors[s] : ~ForwardSerial(a)}

\* Mutant: every update stays inside the group.
OwnedAll(s, root) == Structure[s]

\* The targets in Structure[s] whose rows are not below the columns of the
\* root of the group; the root itself only updates its boundary.
Owned(s, root) ==
    IF Structure[root] = {} THEN Structure[s]
    ELSE IF s = root THEN {}
    ELSE {t \in Structure[s] : t <= root}

-----------------------------------------------------------------------------
VARIABLES
    phase,      \* returned, forward, diagonal, backward
    parallel,   \* max_threads > 1
    single,     \* one right-hand side, Cholesky, no supernodal pivoting
    prepared,   \* solve_accumulation_ready_
    pc,         \* per supernode, where the frame of its recursion stands
    at,         \* per frame, the index i of its serial loop
    sweep,      \* the supernode at which a sweep of one thread stands
    x,          \* per supernode: given, forward, scaled, solved
    rhs,        \* per update, how often it has been added to right_hand_sides
    buffer,     \* per supernode, how often an update is in its buffer
    solves      \* number of solves so far

call == <<phase, parallel, single, prepared, solves>>
data == <<x, rhs, buffer>>
vars == <<call, pc, at, sweep, data>>

Init ==
    /\ phase = "returned"
    /\ parallel = FALSE /\ single = FALSE /\ prepared = FALSE
    /\ pc = [s \in Supernode |-> "idle"]
    /\ at = [s \in Supernode |-> 0]
    /\ sweep = 0
    /\ x = [s \in Supernode |-> "solved"]
    /\ rhs = NoUpdates
    /\ buffer = [s \in Supernode |-> NoUpdates]
    /\ solves = 0

\* The frames of a phase at its start: a task for each root.
RootsReady == [s \in Supernode |-> IF IsRoot(s) THEN "ready" ELSE "idle"]

Active(s) == pc[s] \notin {"idle", "done"}

Go(s, from, to) == pc[s] = from /\ pc' = [pc EXCEPT ![s] = to]

\* Mutant: the groups are formed in the first solve only.
StartSolveFirstPrepares ==
    /\ phase = "returned" /\ solves < MaxSolves
    /\ phase' = "forward"
    /\ parallel' \in BOOLEAN /\ single' \in BOOLEAN
    /\ prepared' = (prepared \/ (solves = 0 /\ parallel' /\ single'))
    /\ pc' = IF parallel' THEN RootsReady ELSE [s \in Supernode |-> "idle"]
    /\ sweep' = 1
    /\ x' = [s \in Supernode |-> "given"]
    /\ rhs' = NoUpdates
    /\ solves' = solves + 1
    /\ UNCHANGED <<at, buffer>>

\* Solve, up to the forward substitution.  Buffers keep what an earlier solve
\* left in them.
StartSolve ==
    /\ phase = "returned" /\ solves < MaxSolves
    /\ phase' = "forward"
    /\ parallel' \in BOOLEAN /\ single' \in BOOLEAN
    /\ prepared' = (prepared \/ (parallel' /\ single'))
    /\ pc' = IF parallel' THEN RootsReady ELSE [s \in Supernode |-> "idle"]
    /\ sweep' = 1
    /\ x' = [s \in Supernode |-> "given"]
    /\ rhs' = NoUpdates
    /\ solves' = solves + 1
    /\ UNCHANGED <<at, buffer>>

-----------------------------------------------------------------------------
(***************************************************************************)
(* Updates.                                                                *)
(***************************************************************************)
Add(counts, added) == [u \in Update |-> counts[u] + added[u]]
Once(S) == [u \in Update |-> IF u \in S THEN 1 ELSE 0]

\* What the buffers of the children C bring for the targets T.
Brought(C, T) ==
    [u \in Update |->
        SumOver([c \in C |-> IF u[2] \in Structure[c] \cap T THEN buffer[c][u]
                             ELSE 0], C)]

\* mergeChild of the children of s: what is meant for s itself goes to its
\* right-hand side, the rest to its buffer.
ForParent(s) == Brought(Children(s), {s})
ForBuffer(s) == Brought(Children(s), Supernode \ {s})

-----------------------------------------------------------------------------
(***************************************************************************)
(* OpenMPLowerTriangularSolveRecursion.                                    *)
(***************************************************************************)
\* Mutant: the last child is not called.
ForwardSpawnForgetsLast(s) ==
    /\ phase = "forward"
    /\ pc[s] = "ready" /\ ~ForwardSerial(s)
    /\ pc' = [t \in Supernode |->
                 IF t = s THEN "wait"
                 ELSE IF t \in Children(s) \ {Max(Children(s))} THEN "ready"
                 ELSE pc[t]]
    /\ UNCHANGED <<call, at, sweep, data>>

\* Children before the last are handed to the task group, the last one is
\* called; all of them may run at the same time from then on.
ForwardSpawn(s) ==
    /\ phase = "forward"
    /\ pc[s] = "ready" /\ ~ForwardSerial(s)
    /\ pc' = [t \in Supernode |-> IF t = s THEN "wait"
                                  ELSE IF t \in Children(s) THEN "ready"
                                  ELSE pc[t]]
    /\ UNCHANGED <<call, at, sweep, data>>

\* Mutant: the buffer is not cleared before the children are merged.
ForwardMergeStale(s) ==
    /\ phase = "forward"
    /\ \A c \in Children(s) : pc[c] = "done"
    /\ Go(s, "wait", "finish")
    /\ rhs' = Add(rhs, ForParent(s))
    /\ buffer' = [buffer EXCEPT ![s] = Add(@, ForBuffer(s))]
    /\ UNCHANGED <<call, at, sweep, x>>

\* Mutant: the children are merged without waiting for them.
ForwardMergeEarly(s) ==
    /\ phase = "forward"
    /\ Go(s, "wait", "finish")
    /\ rhs' = Add(rhs, ForParent(s))
    /\ buffer' = [buffer EXCEPT ![s] = ForBuffer(s)]
    /\ UNCHANGED <<call, at, sweep, x>>

\* group.wait returns: the buffer is cleared and the children are merged.
ForwardMerge(s) ==
    /\ phase = "forward"
    /\ \A c \in Children(s) : pc[c] = "done"
    /\ Go(s, "wait", "finish")
    /\ rhs' = Add(rhs, ForParent(s))
    /\ buffer' = [buffer EXCEPT ![s] = ForBuffer(s)]
    /\ UNCHANGED <<call, at, sweep, x>>

\* OpenMPLowerSupernodalTrapezoidalSolve.
ForwardFinish(s) ==
    /\ phase = "forward"
    /\ Go(s, "finish", "done")
    /\ x' = [x EXCEPT ![s] = "forward"]
    /\ buffer' = [buffer EXCEPT ![s] = Add(@, Once(UpdatesOf(s)))]
    /\ UNCHANGED <<call, at, sweep, rhs>>

\* A group clears the boundary of its root first.
ForwardSerialStart(s) ==
    /\ phase = "forward" /\ ForwardSerial(s)
    /\ Go(s, "ready", "serial")
    /\ at' = [at EXCEPT ![s] = solve_subtree_begin(s)]
    /\ buffer' = IF single THEN [buffer EXCEPT ![s] = NoUpdates] ELSE buffer
    /\ UNCHANGED <<call, sweep, x, rhs>>

\* One supernode of SolveAccumulationGroupForward.
GroupStep(root) ==
    LET d == solve_postorder[at[root]]
        owned == {u \in UpdatesOf(d) : u[2] \in Owned(d, root)}
    IN  /\ phase = "forward" /\ single
        /\ pc[root] = "serial" /\ at[root] < solve_subtree_end(root)
        /\ at' = [at EXCEPT ![root] = @ + 1]
        /\ x' = [x EXCEPT ![d] = "forward"]
        /\ rhs' = Add(rhs, Once(owned))
        /\ buffer' = [buffer EXCEPT ![root] =
                         Add(@, Once(UpdatesOf(d) \ owned))]
        /\ UNCHANGED <<call, pc, sweep>>

\* One supernode of the loop that retains the child-merge order.
ChainStep(root) ==
    LET d == solve_postorder[at[root]]
    IN  /\ phase = "forward" /\ ~single
        /\ pc[root] = "serial" /\ at[root] < solve_subtree_end(root)
        /\ at' = [at EXCEPT ![root] = @ + 1]
        /\ x' = [x EXCEPT ![d] = "forward"]
        /\ rhs' = Add(rhs, ForParent(d))
        /\ buffer' = [buffer EXCEPT ![d] =
                         Add(ForBuffer(d), Once(UpdatesOf(d)))]
        /\ UNCHANGED <<call, pc, sweep>>

ForwardSerialDone(s) ==
    /\ phase = "forward" /\ at[s] = solve_subtree_end(s)
    /\ Go(s, "serial", "done")
    /\ UNCHANGED <<call, at, sweep, data>>

\* LowerTriangularSolve, with one thread: supernodes in increasing order.
ForwardSweep ==
    /\ phase = "forward" /\ ~parallel /\ sweep <= NumSupernodes
    /\ x' = [x EXCEPT ![sweep] = "forward"]
    /\ rhs' = Add(rhs, Once(UpdatesOf(sweep)))
    /\ sweep' = sweep + 1
    /\ UNCHANGED <<call, pc, at, buffer>>

-----------------------------------------------------------------------------
\* tg.wait returns in the forward substitution, or its sweep ends.
ForwardDone ==
    /\ phase = "forward"
    /\ IF parallel THEN \A r \in Roots : pc[r] = "done"
       ELSE sweep > NumSupernodes
    /\ phase' = "diagonal"
    /\ UNCHANGED <<parallel, single, prepared, solves, pc, at, sweep, data>>

\* For a Cholesky factor the diagonal is the identity.
DiagonalSolve ==
    /\ phase = "diagonal"
    /\ phase' = "backward"
    /\ x' = [s \in Supernode |-> "scaled"]
    /\ pc' = IF parallel THEN RootsReady ELSE pc
    /\ sweep' = NumSupernodes
    /\ UNCHANGED <<parallel, single, prepared, solves, at, rhs, buffer>>

-----------------------------------------------------------------------------
(***************************************************************************)
(* OpenMPLowerTransposeTriangularSolveRecursion.  The tasks of all levels  *)
(* are in one group, and a frame returns without waiting for its children. *)
(***************************************************************************)
\* Depending on the sizes of the supernode, the buffer is left alone or
\* overwritten by a copy of solution entries, which are not updates.
Gathered(s) ==
    {buffer, [buffer EXCEPT ![s] = [u \in Update |-> 2]]}

BackwardVisit(s) ==
    /\ phase = "backward" /\ pc[s] = "ready"
    /\ x' = [x EXCEPT ![s] = "solved"]
    /\ buffer' \in Gathered(s)
    /\ IF BackwardSerial(s)
       THEN /\ pc' = [pc EXCEPT ![s] = "serial"]
            /\ at' = [at EXCEPT ![s] = solve_subtree_end(s) - 2]
       ELSE /\ pc' = [t \in Supernode |->
                        IF t = s THEN "done"
                        ELSE IF t \in Children(s) THEN "ready"
                        ELSE pc[t]]
            /\ UNCHANGED at
    /\ UNCHANGED <<call, sweep, rhs>>

\* Reverse postorder.
BackwardSerialStep(s) ==
    LET d == solve_postorder[at[s]]
    IN  /\ phase = "backward"
        /\ pc[s] = "serial" /\ at[s] >= solve_subtree_begin(s)
        /\ at' = [at EXCEPT ![s] = @ - 1]
        /\ x' = [x EXCEPT ![d] = "solved"]
        /\ buffer' \in Gathered(d)
        /\ UNCHANGED <<call, pc, sweep, rhs>>

BackwardSerialDone(s) ==
    /\ phase = "backward" /\ at[s] < solve_subtree_begin(s)
    /\ Go(s, "serial", "done")
    /\ UNCHANGED <<call, at, sweep, data>>

\* Mutant: the loop goes on past the first supernode.
BackwardSweepPastFirst ==
    /\ phase = "backward" /\ ~parallel /\ sweep >= 0
    /\ x' = [x EXCEPT ![sweep] = "solved"]
    /\ sweep' = sweep - 1
    /\ UNCHANGED <<call, pc, at, rhs, buffer>>

\* LowerTransposeTriangularSolve, with one thread.
BackwardSweep ==
    /\ phase = "backward" /\ ~parallel /\ sweep >= 1
    /\ x' = [x EXCEPT ![sweep] = "solved"]
    /\ sweep' = sweep - 1
    /\ UNCHANGED <<call, pc, at, rhs, buffer>>

\* Every task of the group has ended.
BackwardDone ==
    /\ phase = "backward"
    /\ IF parallel THEN \A s \in Supernode : ~Active(s) ELSE sweep = 0
    /\ phase' = "returned"
    /\ UNCHANGED <<parallel, single, prepared, solves, pc, at, sweep, data>>

Terminated ==
    /\ phase = "returned" /\ solves = MaxSolves
    /\ UNCHANGED vars

-----------------------------------------------------------------------------
Frame(s) ==
    \/ ForwardSpawn(s) \/ ForwardMerge(s) \/ ForwardFinish(s)
    \/ ForwardSerialStart(s) \/ GroupStep(s) \/ ChainStep(s)
    \/ ForwardSerialDone(s)
    \/ BackwardVisit(s) \/ BackwardSerialStep(s) \/ BackwardSerialDone(s)

Driver ==
    \/ ForwardSweep \/ ForwardDone \/ DiagonalSolve
    \/ BackwardSweep \/ BackwardDone

Next == StartSolve \/ (\E s \in Supernode : Frame(s)) \/ Driver \/ Terminated

\* TBB runs every spawned task, and every call returns; nobody has to solve
\* again.
Fairness == (\A s \in Supernode : WF_vars(Frame(s))) /\ WF_vars(Driver)

Spec == Init /\ [][Next]_vars

FairSpec == Spec /\ Fairness

-----------------------------------------------------------------------------
(***************************************************************************)
(* Properties.                                                             *)
(***************************************************************************)
\* Type invariant.
TypeOK ==
    /\ phase \in {"returned", "forward", "diagonal", "backward"}
    /\ {parallel, single, prepared} \subseteq BOOLEAN
    /\ pc \in [Supernode ->
                  {"idle", "ready", "wait", "finish", "serial", "done"}]
    /\ at \in [Supernode -> 0..(NumSupernodes + 1)]
    /\ sweep \in 0..(NumSupernodes + 1)
    /\ x \in [Supernode -> {"given", "forward", "scaled", "solved"}]
    /\ rhs \in [Update -> Nat]
    /\ buffer \in [Supernode -> [Update -> Nat]]
    /\ solves \in 0..MaxSolves

\* When a supernode is solved in the forward substitution, its right-hand side
\* has had every update by a descendant, each exactly once: none is lost in a
\* buffer, left there by an earlier solve, or added on two paths.
UpdatesExactlyOnce ==
    solves > 0 => \A u \in Update : x[u[2]] # "given" => rhs[u] = 1

\* What the next step of the frame of s reads and writes.
InProgress(s) == solve_postorder[at[s]]

Writes(s) ==
    IF pc[s] = "wait" /\ \A c \in Children(s) : pc[c] = "done"
    THEN {<<"rhs", s>>, <<"buffer", s>>}
    ELSE IF pc[s] = "finish" \/ (phase = "backward" /\ pc[s] = "ready")
    THEN {<<"rhs", s>>, <<"buffer", s>>}
    ELSE IF pc[s] = "serial" /\ at[s] \in solve_subtree_begin(s)..IndexOf(s)
    THEN IF phase = "forward" /\ single
         THEN {<<"buffer", s>>} \cup
                  {<<"rhs", t>> :
                      t \in {InProgress(s)} \cup Owned(InProgress(s), s)}
         ELSE {<<"rhs", InProgress(s)>>, <<"buffer", InProgress(s)>>}
    ELSE {}

Reads(s) ==
    IF phase = "forward"
    THEN IF pc[s] = "wait" /\ \A c \in Children(s) : pc[c] = "done"
         THEN {<<"buffer", c>> : c \in Children(s)}
         ELSE IF pc[s] = "serial" /\ at[s] <= IndexOf(s) /\ ~single
         THEN {<<"buffer", c>> : c \in Children(InProgress(s))}
         ELSE {}
    ELSE IF pc[s] = "ready" THEN {<<"rhs", t>> : t \in Structure[s]}
    ELSE IF pc[s] = "serial" /\ at[s] >= solve_subtree_begin(s)
    THEN {<<"rhs", t>> : t \in Structure[InProgress(s)]}
    ELSE {}

\* Steps of two frames that may be taken at the same time touch no entry of
\* the right-hand side or of a buffer that one of them writes.
NoDataRace ==
    parallel => \A s, t \in Supernode :
        s # t => Writes(s) \cap (Writes(t) \cup Reads(t)) = {}

\* A serial subtree with a single right-hand side is a prepared group (the
\* assertion before SolveAccumulationGroupForward), and what leaves the group
\* has a place in the boundary ("Invalid accumulation boundary map" is never
\* thrown).
GroupsPrepared ==
    \A s \in Supernode :
        phase = "forward" /\ parallel /\ single /\ pc[s] = "serial" =>
            /\ prepared /\ s \in AccumulationRoots
            /\ \A i \in solve_subtree_begin(s)..IndexOf(s) :
                  LET d == solve_postorder[i]
                  IN  Structure[d] \ Owned(d, s) \subseteq Structure[s]

\* The abstract triangular system.
Abstract == INSTANCE TriangularSystem WITH busy <- phase # "returned"

\* Every solve eliminates and substitutes in an order that the dependencies
\* allow, and returns only when all unknowns are solved.
ImplementsTriangularSystem == Abstract!AbsSpec

\* Every solve returns.
EverySolveReturns == phase = "forward" ~> phase = "returned"
=============================================================================
