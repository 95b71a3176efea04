--------------------------- MODULE ParallelAnalysis ---------------------------
(***************************************************************************)
(* The elimination forest and the degrees of a permuted matrix, computed   *)
(* by tasks over the supernodes of its ordering.  Every column merges the  *)
(* structures of its children into its own, and then hangs itself into the *)
(* list of children of its parent, which columns of other tasks may be     *)
(* doing at the same moment: a spin lock for each list guards that.        *)
(*                                                                         *)
(* The lists, the locks and the flags with which a thread tells the rows   *)
(* it has met are kept from one analysis to the next.  stamps holds the    *)
(* <<row, column>> pairs in the flags of some thread; whether the thread   *)
(* that works on a column is the one that holds a pair is left open.       *)
(***************************************************************************)
EXTENDS SupernodalSymbolic

CONSTANT
    ParallelDepth   \* supernodes above this depth spawn their children (7)

ASSUME ParallelDepthAssumption == ParallelDepth \in Nat

VARIABLES
    matrix,        \* the matrix, whose values are of no interest here
    ordering,      \* its ordering, with supernodes and the assembly forest
    tasks,         \* for each supernode, the column it is at and what is next
    child_heads,   \* per column, the child that was linked last
    child_next,    \* per column, the next in the list it is a member of
    child_locks,   \* per column, whether its list is locked
    structures,    \* per column, the rows below it, until the parent is done
    stamps,        \* what the threads' flags hold
    parents,       \* the result: the parent of every column
    degrees        \* and the number of rows below it

analysis == <<tasks, child_heads, child_next, child_locks, structures, stamps,
              parents, degrees>>

Children(s) == ordering.forest.children[s]
IsDone(s) == tasks[s].next = "done"

-----------------------------------------------------------------------------
(***************************************************************************)
(* When a supernode's turn has come.                                       *)
(***************************************************************************)
Level(s) == Len(Path(ordering.forest.parents, s, {None})) - 1
Spawns(s) == Level(s) < ParallelDepth /\ Len(Children(s)) > 1

\* Without tasks of their own, siblings are recursed into from left to right.
HasTurn(s) ==
    LET up == ordering.forest.parents[s]
        before == {c \in Range(Children(up)) : c < s}
    IN  up # None => Spawns(up) \/ \A c \in before : IsDone(c)

\* Mutant: the children are spawned, but not waited for.
MayComputeUnawaited(s) ==
    \A a \in Range(Path(ordering.forest.parents, s, {None})) : HasTurn(a)

MayCompute(s) ==
    /\ \A a \in Range(Path(ordering.forest.parents, s, {None})) : HasTurn(a)
    /\ \A c \in Range(Children(s)) : IsDone(c)

-----------------------------------------------------------------------------
(***************************************************************************)
(* The steps of a task.                                                    *)
(***************************************************************************)
\* The first k members from i on; what is in no list may point anywhere.
ChildList(column) ==
    LET list[k \in 0..Len(child_next)] ==
            [i \in DOMAIN child_next \cup {None} |->
                IF k = 0 \/ i = None THEN <<>>
                ELSE <<i>> \o list[k - 1][child_next[i]]]
    IN  list[Len(child_next)][child_heads[column]]
OwnRows(column) ==
    {e.column : e \in {d \in Range(PermutedRow(matrix, ordering, column)) :
                           d.column > column}}

\* Rows of the first child are taken as they are; the others, and the rows of
\* the column itself, when they are not flagged.
ColumnStructure(column, flagged) ==
    LET list == ChildList(column)
        others == UNION {structures[c] : c \in Range(Tail(list))}
    IN  IF list = <<>> THEN OwnRows(column)
        ELSE (structures[list[1]]
                 \cup ((others \cup OwnRows(column)) \ flagged)) \ {column}

\* The flags of the executing thread, which may be the ones that were stamped
\* with this column before.
FlagsFound(column) == {{}, {row \in DOMAIN parents : <<row, column>> \in stamps}}

NextColumn(s) ==
    IF tasks[s].column = ordering.offsets[s] + ordering.sizes[s]
    THEN [tasks[s] EXCEPT !.next = "done"]
    ELSE [column |-> tasks[s].column + 1, next |-> "compute"]

\* Of the children of a column, whose structures are part of its own now.
Freed(s, column) ==
    <<>> \o [c \in DOMAIN s |-> IF c \in Range(ChildList(column)) THEN {} ELSE s[c]]

ComputeColumn(s) ==
    LET column == tasks[s].column
    IN  /\ tasks[s].next = "compute"
        /\ MayCompute(s)
        /\ \E flagged \in FlagsFound(column) :
               LET rows == ColumnStructure(column, flagged)
                   parent == IF rows = {} THEN None ELSE Min(rows)
                   computed == [structures EXCEPT ![column] = rows]
               IN  /\ parents' = [parents EXCEPT ![column] = parent]
                   /\ degrees' = [degrees EXCEPT ![column] = Cardinality(rows)]
                   /\ structures' = IF parent = None
                                    THEN Freed(computed, column) ELSE computed
                   /\ tasks' = [tasks EXCEPT ![s] =
                          IF parent = None THEN NextColumn(s)
                          ELSE [@ EXCEPT !.next = "link"]]
        /\ stamps' = stamps \cup {<<row, column>> : row \in
               UNION {structures[c] : c \in Range(ChildList(column))}}
        /\ UNCHANGED <<child_heads, child_next, child_locks>>

\* Mutant: without waiting for the lock.
LinkAtOnce(s) ==
    LET column == tasks[s].column
        parent == parents[column]
    IN  /\ tasks[s].next = "link"
        /\ child_locks' = [child_locks EXCEPT ![parent] = TRUE]
        /\ child_next' = [child_next EXCEPT ![column] = child_heads[parent]]
        /\ tasks' = [tasks EXCEPT ![s].next = "publish"]
        /\ UNCHANGED <<child_heads, structures, stamps, parents, degrees>>

\* Spin until the lock of the parent's list is free, and read its head.
LinkColumn(s) ==
    LET column == tasks[s].column
        parent == parents[column]
    IN  /\ tasks[s].next = "link"
        /\ ~child_locks[parent]
        /\ child_locks' = [child_locks EXCEPT ![parent] = TRUE]
        /\ child_next' = [child_next EXCEPT ![column] = child_heads[parent]]
        /\ tasks' = [tasks EXCEPT ![s].next = "publish"]
        /\ UNCHANGED <<child_heads, structures, stamps, parents, degrees>>

\* Mutant: the lock stays taken.
PublishOnly(s) ==
    LET column == tasks[s].column
        parent == parents[column]
    IN  /\ tasks[s].next = "publish"
        /\ child_heads' = [child_heads EXCEPT ![parent] = column]
        /\ structures' = Freed(structures, column)
        /\ tasks' = [tasks EXCEPT ![s] = NextColumn(s)]
        /\ UNCHANGED <<child_next, child_locks, stamps, parents, degrees>>

\* Become the head, release the lock, free the children and go on.
PublishColumn(s) ==
    LET column == tasks[s].column
        parent == parents[column]
    IN  /\ tasks[s].next = "publish"
        /\ child_heads' = [child_heads EXCEPT ![parent] = column]
        /\ child_locks' = [child_locks EXCEPT ![parent] = FALSE]
        /\ structures' = Freed(structures, column)
        /\ tasks' = [tasks EXCEPT ![s] = NextColumn(s)]
        /\ UNCHANGED <<child_next, stamps, parents, degrees>>

TaskStep ==
    \E s \in DOMAIN tasks : ComputeColumn(s) \/ LinkColumn(s) \/ PublishColumn(s)

-----------------------------------------------------------------------------
(***************************************************************************)
(* An analysis from its beginning to its end.                              *)
(***************************************************************************)
NoAnalysis ==
    /\ tasks = <<>> /\ stamps = {} /\ parents = <<>> /\ degrees = <<>>
    /\ child_heads = <<>> /\ child_next = <<>> /\ child_locks = <<>>
    /\ structures = <<>>

\* Resizing without a value keeps what is there.
Resized(s, n) ==
    <<>> \o [i \in 1..n |-> IF i \in DOMAIN s THEN s[i] ELSE None]

\* Mutant: the flags of the analysis before are still trusted.
BeginWithOldFlags(m, o) ==
    /\ tasks' = <<>> \o [s \in DOMAIN o.sizes |->
           [column |-> o.offsets[s] + 1, next |-> "compute"]]
    /\ child_heads' = Constant(m.rows, None)
    /\ child_next' = Resized(child_next, m.rows)
    /\ child_locks' = Constant(m.rows, FALSE)
    /\ structures' = Constant(m.rows, {})
    /\ stamps' = stamps
    /\ parents' = Resized(parents, m.rows)
    /\ degrees' = Resized(degrees, m.rows)

\* The heads are filled anew, and each thread's flags when it first needs them.
BeginAnalysis(m, o) ==
    /\ tasks' = <<>> \o [s \in DOMAIN o.sizes |->
           [column |-> o.offsets[s] + 1, next |-> "compute"]]
    /\ child_heads' = Constant(m.rows, None)
    /\ child_next' = Resized(child_next, m.rows)
    /\ child_locks' = Constant(m.rows, FALSE)
    /\ structures' = Constant(m.rows, {})
    /\ stamps' = {}
    /\ parents' = Resized(parents, m.rows)
    /\ degrees' = Resized(degrees, m.rows)

AllTasksDone == \A s \in DOMAIN tasks : IsDone(s)

\* With one thread, or without an assembly forest, the forest comes from the
\* rows of the matrix and the workspace is not touched.
AnalyzeSequentially(m, o) ==
    LET forest == EliminationForestAndDegrees(m, o)
    IN  /\ parents' = forest.parents
        /\ degrees' = forest.degrees
        /\ UNCHANGED <<tasks, child_heads, child_next, child_locks, structures,
                       stamps>>
=============================================================================
