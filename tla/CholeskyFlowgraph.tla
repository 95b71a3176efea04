-------------------------- MODULE CholeskyFlowgraph --------------------------
(***************************************************************************)
(* CholeskyFlowgraph: the dense Cholesky factorization of one large        *)
(* diagonal block as a TBB flow graph over its tiles.  The graph is built  *)
(* once and run again for each factorization with the same pattern, in a   *)
(* task_group_context that it shares with every other task of the sparse   *)
(* factorization.                                                          *)
(*                                                                         *)
(* Tile (i, k), i >= k, is changed by the nodes <<i, k, j>>, j = 1..k:     *)
(* for j < k the low-rank update with column j of tiles, for j = k the     *)
(* Cholesky factorization (i = k) or the triangular solve (i > k).         *)
(*                                                                         *)
(* Blocks with fewer than three tiles are factored serially, without a     *)
(* graph, and are not part of this module.  TBB is modelled by how the     *)
(* code uses it: a continue_node runs its body in a task once it has got   *)
(* a message from each predecessor, and then sends one to each successor;  *)
(* tasks of a cancelled context are destroyed instead of run; a wait that  *)
(* returns resets the context.                                             *)
(***************************************************************************)
EXTENDS Integers, FiniteSets, FiniteSetsExt

CONSTANTS
    Height,         \* matrix.height
    TileSize,       \* tile_size
    Cancellation,   \* not CATAMARI_DISABLE_TBB_CANCELLATION
    OthersFail,     \* other tasks of the context may cancel it during a run
    OthersWait,     \* waits of other task groups may reset it
    Inputs,         \* tiles on which a matrix breaks down, 0 for none
    MaxRuns         \* bound on the runs in a behaviour

NumTiles == (Height + TileSize - 1) \div TileSize

ASSUME FlowgraphAssumption ==
    /\ Height \in Nat /\ TileSize \in Nat \ {0} /\ MaxRuns \in Nat
    /\ Height >= 3 * TileSize
    /\ {Cancellation, OthersFail, OthersWait} \subseteq BOOLEAN
    /\ Inputs \subseteq 0..NumTiles

TileWidth(j) == Min({TileSize, Height - (j - 1) * TileSize})

Tile == {t \in (1..NumTiles) \X (1..NumTiles) : t[2] <= t[1]}
Node == {n \in (1..NumTiles) \X (1..NumTiles) \X (1..NumTiles) :
            n[3] <= n[2] /\ n[2] <= n[1]}

IsFactor(n) == n[1] = n[3]
Target(n) == <<n[1], n[2]>>

-----------------------------------------------------------------------------
(***************************************************************************)
(* The edges that the constructor makes.                                   *)
(***************************************************************************)
\* last_update(i, k) when node n is created.
LastUpdate(n) == IF n[3] > 1 THEN {<<n[1], n[2], n[3] - 1>>} ELSE {}

FactorOf(j) == <<j, j, j>>
SolveOf(i, j) == <<i, j, j>>

\* Mutant: last_update is set by the first update only.
PredecessorsFirstUpdate(n) ==
    LET i == n[1] k == n[2] j == n[3]
    IN  (IF j > 1 THEN {<<i, k, 1>>} ELSE {})
            \cup (IF IsFactor(n) THEN {}
                  ELSE IF k = j THEN {FactorOf(j)}
                  ELSE {SolveOf(i, j), SolveOf(k, j)})

Predecessors(n) ==
    LET i == n[1] k == n[2] j == n[3]
    IN  LastUpdate(n)
            \cup (IF IsFactor(n) THEN {}
                  ELSE IF k = j THEN {FactorOf(j)}
                  ELSE {SolveOf(i, j), SolveOf(k, j)})

Successors(n) == {m \in Node : n \in Predecessors(m)}

-----------------------------------------------------------------------------
VARIABLES
    phase,      \* "idle" or "waiting", inside g.wait_for_all()
    received,   \* per node, the messages that its counter has seen
    task,       \* per node: none, ready, working, cancelling
    applied,    \* per tile, the changes made to it in this run
    pivots,     \* num_pivots
    failed,     \* m_failed
    notified,   \* what failureCallback sets: the shared m_fail
    ctx,        \* the context: live or cancelled
    bad,        \* the tile on which this matrix breaks down
    result,     \* what the last run returned, -1 before the first
    runs,       \* number of runs so far
    dropped,    \* history: a task of this run has been destroyed, and once
                \* its wait has returned, is_cancelled() did not tell
    unseen      \* history: an earlier run has ended so

matrix == <<applied, pivots, bad>>
flags == <<failed, notified, ctx>>
call == <<phase, result, runs>>
history == <<dropped, unseen>>
vars == <<task, received, matrix, flags, call, history>>

Init ==
    /\ phase = "idle"
    /\ received = [n \in Node |-> 0]
    /\ task = [n \in Node |-> "none"]
    /\ applied = [t \in Tile |-> 0]
    /\ pivots = 0
    /\ failed = FALSE
    /\ notified = FALSE
    /\ ctx = "live"
    /\ bad = 0
    /\ result = -1
    /\ runs = 0
    /\ dropped = FALSE
    /\ unseen = FALSE

-----------------------------------------------------------------------------
\* Mutant: the pivots of the last run are still counted.
RunKeepingPivots ==
    /\ phase = "idle" /\ runs < MaxRuns
    /\ phase' = "waiting"
    /\ runs' = runs + 1
    /\ bad' \in Inputs
    /\ failed' = FALSE /\ notified' = FALSE /\ ctx' = "live"
    /\ applied' = [t \in Tile |-> 0]
    /\ task' = [task EXCEPT ![FactorOf(1)] = "ready"]
    /\ dropped' = FALSE /\ unseen' = (unseen \/ dropped)
    /\ UNCHANGED <<received, result, pivots>>

\* run: a new matrix in a new factorization, which has cleared the shared flag
\* and the context.  The first node has no predecessors.
Run ==
    /\ phase = "idle" /\ runs < MaxRuns
    /\ phase' = "waiting"
    /\ runs' = runs + 1
    /\ bad' \in Inputs
    /\ pivots' = 0
    /\ failed' = FALSE /\ notified' = FALSE /\ ctx' = "live"
    /\ applied' = [t \in Tile |-> 0]
    /\ task' = [task EXCEPT ![FactorOf(1)] = "ready"]
    /\ dropped' = FALSE /\ unseen' = (unseen \/ dropped)
    /\ UNCHANGED <<received, result>>

\* Mutant: a node waits for one message too many.
CompletedByLate(n) ==
    {m \in Successors(n) : received[m] >= Cardinality(Predecessors(m))}

\* The successors for which the message of n is the last one.
CompletedBy(n) ==
    {m \in Successors(n) : received[m] + 1 >= Cardinality(Predecessors(m))}

\* The body of n returns: its task ends and its messages go out.
Send(n) ==
    LET completed == CompletedBy(n)
    IN  /\ received' = [m \in Node |->
                IF m \in completed THEN 0
                ELSE IF m \in Successors(n) THEN received[m] + 1
                ELSE received[m]]
        /\ task' = [m \in Node |->
                IF m = n THEN "none"
                ELSE IF m \in completed THEN "ready"
                ELSE task[m]]

StartNode(n) ==
    /\ task[n] = "ready" /\ ctx = "live" /\ ~failed
    /\ task' = [task EXCEPT ![n] = "working"]
    /\ UNCHANGED <<received, matrix, flags, call, history>>

\* if (hasFailed()) return msg;
SkipNode(n) ==
    /\ task[n] = "ready" /\ ctx = "live" /\ failed
    /\ Send(n)
    /\ UNCHANGED <<matrix, flags, call, history>>

DropNode(n) ==
    /\ task[n] = "ready" /\ ctx = "cancelled"
    /\ task' = [task EXCEPT ![n] = "none"]
    /\ dropped' = TRUE
    /\ UNCHANGED <<received, matrix, flags, call, unseen>>

BreaksDown(n) == IsFactor(n) /\ n[1] = bad

FinishNode(n) ==
    /\ task[n] = "working" /\ ~BreaksDown(n)
    /\ applied' = [applied EXCEPT ![Target(n)] = @ + 1]
    /\ pivots' = IF IsFactor(n) THEN pivots + TileWidth(n[1]) ELSE pivots
    /\ Send(n)
    /\ UNCHANGED <<bad, flags, call, history>>

\* Mutant: the failure callback is not called.
BreakDownSilently(n) ==
    /\ task[n] = "working" /\ BreaksDown(n)
    /\ \E p \in 0..(TileWidth(n[1]) - 1) : pivots' = pivots + p
    /\ failed' = TRUE
    /\ task' = [task EXCEPT ![n] = "cancelling"]
    /\ UNCHANGED <<received, applied, bad, notified, ctx, call, history>>

\* Too few pivots; the first half of m_cancelExecution.
BreakDown(n) ==
    /\ task[n] = "working" /\ BreaksDown(n)
    /\ \E p \in 0..(TileWidth(n[1]) - 1) : pivots' = pivots + p
    /\ failed' = TRUE /\ notified' = TRUE
    /\ task' = [task EXCEPT ![n] = "cancelling"]
    /\ UNCHANGED <<received, applied, bad, ctx, call, history>>

CancelExecution(n) ==
    /\ task[n] = "cancelling"
    /\ ctx' = IF Cancellation THEN "cancelled" ELSE ctx
    /\ Send(n)
    /\ UNCHANGED <<matrix, failed, notified, call, history>>

\* Mutant: the graph is not reset after it is cancelled.
WaitReturnsUnreset ==
    /\ phase = "waiting"
    /\ \A n \in Node : task[n] = "none"
    /\ phase' = "idle"
    /\ result' = pivots
    /\ ctx' = "live"
    /\ dropped' = (dropped /\ ctx = "live")
    /\ UNCHANGED <<task, received, matrix, failed, notified, runs, unseen>>

\* wait_for_all keeps whether the context is cancelled for is_cancelled and
\* resets the context; reset() clears the counters.
WaitReturns ==
    /\ phase = "waiting"
    /\ \A n \in Node : task[n] = "none"
    /\ phase' = "idle"
    /\ result' = pivots
    /\ received' = IF ctx = "cancelled" THEN [n \in Node |-> 0] ELSE received
    /\ ctx' = "live"
    /\ dropped' = (dropped /\ ctx = "live")
    /\ UNCHANGED <<task, matrix, failed, notified, runs, unseen>>

-----------------------------------------------------------------------------
\* A breakdown in another front, with failAndCancelExecution.
OtherTaskFails ==
    /\ OthersFail /\ phase = "waiting" /\ ctx = "live"
    /\ notified' = TRUE
    /\ ctx' = IF Cancellation THEN "cancelled" ELSE ctx
    /\ UNCHANGED <<task, received, matrix, failed, call, history>>

\* task_group::wait returns in another subtree of the elimination.
OtherWaitReturns ==
    /\ OthersWait /\ phase = "waiting" /\ ctx = "cancelled"
    /\ ctx' = "live"
    /\ UNCHANGED <<task, received, matrix, failed, notified, call, history>>

Terminated ==
    /\ phase = "idle" /\ runs = MaxRuns
    /\ UNCHANGED vars

Body(n) ==
    \/ StartNode(n) \/ SkipNode(n) \/ DropNode(n)
    \/ FinishNode(n) \/ BreakDown(n) \/ CancelExecution(n)

Next ==
    \/ Run \/ WaitReturns \/ (\E n \in Node : Body(n))
    \/ OtherTaskFails \/ OtherWaitReturns \/ Terminated

Spec == Init /\ [][Next]_vars

-----------------------------------------------------------------------------
(***************************************************************************)
(* Properties.                                                             *)
(*                                                                         *)
(* The wait of another task group may reset the shared context before this *)
(* graph's wait returns.  If tasks of the run have been destroyed by then, *)
(* is_cancelled() does not tell, the counters are not reset, and what      *)
(* later runs do is lost with them (OperandsAlwaysReady is violated).  The *)
(* properties below that end with "unseen" speak of every run before that. *)
(***************************************************************************)
\* Type invariant; a counter never reaches the number of predecessors, it
\* starts over.
TypeOK ==
    /\ phase \in {"idle", "waiting"}
    /\ task \in [Node -> {"none", "ready", "working", "cancelling"}]
    /\ received \in [Node -> Nat]
    /\ \A n \in Node :
          received[n] # 0 => received[n] < Cardinality(Predecessors(n))
    /\ applied \in [Tile -> Nat]
    /\ pivots \in Nat /\ result \in Nat \cup {-1}
    /\ {failed, notified, dropped, unseen} \subseteq BOOLEAN
    /\ ctx \in {"live", "cancelled"}
    /\ bad \in Inputs \cup {0}
    /\ runs \in 0..MaxRuns

\* The tiles that n reads besides its target.
Operands(n) ==
    IF IsFactor(n) THEN {}
    ELSE IF n[2] = n[3] THEN {<<n[3], n[3]>>}
    ELSE {<<n[1], n[3]>>, <<n[2], n[3]>>}

\* "The factorization of block (j, j) can only start when it has received its
\* final update" and its like for the solves and the updates: the body of a
\* node works on a tile that has had all earlier changes and no later one,
\* and reads only tiles that are final.  Two bodies that run at the same time
\* then never touch the same tile in conflict.
OperandsAlwaysReady ==
    \A n \in Node : task[n] = "working" =>
        /\ applied[Target(n)] = n[3] - 1
        /\ \A t \in Operands(n) : applied[t] = t[2]

\* The same, as far as the code keeps it: through failures, cancellations and
\* resets by others, in this run and in all that follow, until a run has lost
\* tasks unseen.
OperandsReady == OperandsAlwaysReady \/ unseen

\* "Diagonal blocks are factorized sequentially due to dependencies, so this
\* pivot count accumulation need not be atomic": no two factorization nodes
\* work at the same time, until a run has lost tasks unseen.
PivotsExclusive ==
    \/ \A m, n \in {f \in Node : IsFactor(f)} :
          task[m] = "working" /\ task[n] \in {"working", "cancelling"} => m = n
    \/ unseen

\* The failure callback sets the flag of the sparse factorization "in advance
\* of (potentially) cancelling all tasks in ctx".
CancelledOnlyAfterNotified == ctx = "cancelled" => notified

\* A run returns all pivots only if every tile is final and the matrix does
\* not break down, fewer only if the failure has been notified, and never
\* more; also the run that itself loses tasks unseen, but none after it.
RunReturnsTruth ==
    phase = "idle" /\ runs > 0 =>
        \/ /\ result <= Height
           /\ result = Height =>
                 bad = 0 /\ \A t \in Tile : applied[t] = t[2]
           /\ result < Height => notified
        \/ unseen
=============================================================================
