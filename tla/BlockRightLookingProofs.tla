---------------------- MODULE BlockRightLookingProofs ----------------------
(***************************************************************************)
(* Proofs about the block right-looking factorization for every forest,    *)
(* control, input and number of threads and calls.                         *)
(***************************************************************************)
EXTENDS BlockRightLooking, AssemblyForestProofs

\* Labels of a frame that has not touched its children yet.
Early == {"idle", "spawned", "enter", "begin", "reserve"}

\* The flag is raised before anything that reacts to a failure happens, and
\* only on account of a breakdown.
FlagInv ==
    /\ ctx = "cancelled" => failed
    /\ failed => bad # {}
    /\ \A s \in Supernode :
          /\ pc[s] \in {"cancelDiag", "returnFalse", "cancelChild", "aborted",
                        "skipped", "dropped"} => failed
          /\ front[s] = "torn" => failed

\* Where the children of a frame can be while it stands at a given label.
NestInv ==
    \A s \in Supernode :
        /\ pc[s] \in Early => \A c \in Children(s) : pc[c] = "idle"
        /\ pc[s] = "children" =>
              \A c \in Children(s) \ merged[s] : pc[c] = "idle"
        /\ pc[s] = "recurse" =>
              \E c \in Children(s) \ merged[s] :
                 \A d \in Children(s) \ merged[s] : d # c => pc[d] = "idle"
        /\ pc[s] \notin {"recurse", "wait"} =>
              \A c \in Children(s) : ~Active(c)
        /\ pc[s] = "gather" => \A c \in Children(s) : pc[c] \in Returned
        /\ pc[s] = "assemble" => \A c \in Children(s) : pc[c] = "done"

RootInv ==
    /\ \A r \in Roots : Active(r) => main \in {"roots", "join"}
    /\ main = "roots" /\ ~SerialRoots => \A r \in Roots : pc[r] = "idle"

\* What a front has been through when its frame stands at a given label.
FrontInv ==
    \A s \in Supernode :
        /\ merged[s] \subseteq Children(s)
        /\ \A c \in merged[s] : pc[c] = "done" /\ front[c] = "complete"
        /\ pc[s] \in Early \cup {"wait", "gather", "assemble"} =>
              merged[s] = {}
        /\ pc[s] = "assemble" =>
              \A c \in Children(s) : front[c] = "complete"
        /\ pc[s] \in {"children", "recurse"} =>
              front[s] = "assembling" \/ (merged[s] = {} /\ ~IsLeaf(s))
        /\ pc[s] = "diagonal" => front[s] = "assembling"
        /\ pc[s] = "solve" => front[s] \in {"factored", "torn"}
        /\ pc[s] = "outer" => front[s] \in {"solved", "torn"}
        /\ pc[s] = "done" => front[s] \in {"complete", "torn"}
        /\ pc[s] \in {"diagonal", "solve", "outer", "done"} =>
              merged[s] = Children(s)
        /\ pc[s] \in {"solve", "outer", "done"} => s \notin bad
        /\ front[s] = "complete" => pc[s] = "done"

IndInv == ControlTypeOK /\ FlagInv /\ NestInv /\ RootInv /\ FrontInv

\* The first supernode of a set of supernodes that is not empty is in it.
LEMMA FirstIsElement ==
    ASSUME NEW S, S \subseteq Supernode, S # {}
    PROVE  FirstOf(S) \in S
<1>1. S \subseteq Nat
  BY DEF Supernode
<1>2. \E x \in S : \A y \in S : x =< y
  BY <1>1, LeastElement
<1> QED
  BY <1>2 DEF FirstOf, Min

\* The last supernode of a set of supernodes that is not empty is in it.
LEMMA LastIsElement ==
    ASSUME NEW S, S \subseteq Supernode, S # {}
    PROVE  LastOf(S) \in S
BY GreatestElement DEF LastOf, Max

\* A node that is processed in parallel has children.
LEMMA ChildrenOfParallelNode ==
    ASSUME NEW s \in Supernode, ParallelNode(s)
    PROVE  Children(s) # {}
BY FS_EmptySet DEF ParallelNode

-----------------------------------------------------------------------------
(***************************************************************************)
(* The steps of the frames.                                                *)
(***************************************************************************)
\* A step of any frame preserves the inductive invariant.
LEMMA FrameStep ==
    ASSUME IndInv, NEW s \in Supernode, Frame(s)
    PROVE  IndInv'
<1> USE DEF IndInv, ControlTypeOK, Step, memory, shared, call
<1>1. CASE RunTask(s)
  <2>1. ControlTypeOK'
    BY <1>1 DEF Label, Contents, RunTask, IsRoot
  <2>2. FlagInv'
    BY <1>1, ChildFacts DEF FlagInv, FrontInv, RunTask, IsRoot
  <2>3. NestInv'
    BY <1>1, ChildFacts DEF FlagInv, NestInv, FrontInv, Early, Active,
          Returned, RunTask, IsRoot
  <2>4. RootInv'
    BY <1>1, ChildFacts DEF NestInv, RootInv, Early, Active, Returned,
          SerialRoots, ParallelFactorization, ParallelWork, Roots, RunTask,
          IsRoot
  <2>5. FrontInv'
    BY <1>1, ChildFacts DEF FlagInv, NestInv, FrontInv, Early, Active,
          Returned, RunTask, IsRoot
  <2> QED
    BY <2>1, <2>2, <2>3, <2>4, <2>5
<1>2. CASE DropTask(s)
  <2>1. ControlTypeOK'
    BY <1>2 DEF Label, Contents, DropTask
  <2>2. FlagInv'
    BY <1>2, ChildFacts DEF FlagInv, FrontInv, DropTask
  <2>3. NestInv'
    BY <1>2, ChildFacts DEF FlagInv, NestInv, FrontInv, Early, Active,
          Returned, DropTask
  <2>4. RootInv'
    BY <1>2, ChildFacts DEF NestInv, RootInv, Early, Active, Returned,
          SerialRoots, ParallelFactorization, ParallelWork, Roots, DropTask
  <2>5. FrontInv'
    BY <1>2, ChildFacts DEF FlagInv, NestInv, FrontInv, Early, Active,
          Returned, DropTask
  <2> QED
    BY <2>1, <2>2, <2>3, <2>4, <2>5
<1>3. CASE Enter(s)
  <2>1. ControlTypeOK'
    BY <1>3 DEF Label, Contents, Enter
  <2>2. FlagInv'
    BY <1>3, ChildFacts DEF FlagInv, FrontInv, Enter
  <2>3. NestInv'
    BY <1>3, ChildFacts DEF FlagInv, NestInv, FrontInv, Early, Active,
          Returned, Enter
  <2>4. RootInv'
    BY <1>3, ChildFacts DEF NestInv, RootInv, Early, Active, Returned,
          SerialRoots, ParallelFactorization, ParallelWork, Roots, Enter
  <2>5. FrontInv'
    BY <1>3, ChildFacts DEF FlagInv, NestInv, FrontInv, Early, Active,
          Returned, Enter
  <2> QED
    BY <2>1, <2>2, <2>3, <2>4, <2>5
<1>4. CASE BeginSerial(s)
  <2>1. ControlTypeOK'
    BY <1>4 DEF Label, Contents, BeginSerial, UnlessFailed, Reallocate,
          Supernode
  <2>2. FlagInv'
    BY <1>4, ChildFacts DEF FlagInv, FrontInv, BeginSerial, UnlessFailed,
          Reallocate
  <2>3. NestInv'
    BY <1>4, ChildFacts DEF FlagInv, NestInv, FrontInv, Early, Active,
          Returned, BeginSerial, UnlessFailed, Reallocate
  <2>4. RootInv'
    BY <1>4, ChildFacts DEF NestInv, RootInv, Early, Active, Returned,
          SerialRoots, ParallelFactorization, ParallelWork, Roots,
          BeginSerial, UnlessFailed, Reallocate
  <2>5. FrontInv'
    BY <1>4, ChildFacts DEF FlagInv, NestInv, FrontInv, Early, Active,
          Returned, BeginSerial, UnlessFailed, Reallocate
  <2> QED
    BY <2>1, <2>2, <2>3, <2>4, <2>5
<1>5. CASE ReserveFront(s)
  <2>1. ControlTypeOK'
    BY <1>5 DEF Label, Contents, ReserveFront, AllocateSchurComplement,
          AllocateOwn, Push, IsLeaf
  <2>2. FlagInv'
    BY <1>5, ChildFacts DEF FlagInv, FrontInv, ReserveFront,
          AllocateSchurComplement, AllocateOwn, Push, IsLeaf
  <2>3. NestInv'
    BY <1>5, ChildFacts DEF FlagInv, NestInv, FrontInv, Early, Active,
          Returned, ReserveFront, AllocateSchurComplement, AllocateOwn, Push,
          IsLeaf
  <2>4. RootInv'
    BY <1>5, ChildFacts DEF NestInv, RootInv, Early, Active, Returned,
          SerialRoots, ParallelFactorization, ParallelWork, Roots,
          ReserveFront, AllocateSchurComplement, AllocateOwn, Push, IsLeaf
  <2>5. FrontInv'
    BY <1>5, ChildFacts DEF FlagInv, NestInv, FrontInv, Early, Active,
          Returned, ReserveFront, AllocateSchurComplement, AllocateOwn, Push,
          IsLeaf
  <2> QED
    BY <2>1, <2>2, <2>3, <2>4, <2>5
<1>6. CASE ReserveFailed(s)
  <2>1. ControlTypeOK'
    BY <1>6 DEF Label, Contents, ReserveFailed
  <2>2. FlagInv'
    BY <1>6, ChildFacts DEF FlagInv, FrontInv, ReserveFailed
  <2>3. NestInv'
    BY <1>6, ChildFacts DEF FlagInv, NestInv, FrontInv, Early, Active,
          Returned, ReserveFailed
  <2>4. RootInv'
    BY <1>6, ChildFacts DEF NestInv, RootInv, Early, Active, Returned,
          SerialRoots, ParallelFactorization, ParallelWork, Roots,
          ReserveFailed
  <2>5. FrontInv'
    BY <1>6, ChildFacts DEF FlagInv, NestInv, FrontInv, Early, Active,
          Returned, ReserveFailed
  <2> QED
    BY <2>1, <2>2, <2>3, <2>4, <2>5
<1>7. CASE CallChild(s)
  <2> DEFINE uncalled == {c \in Children(s) : pc[c] = "idle"}
             child == FirstOf(uncalled)
  <2>a. child \in Children(s) /\ pc[child] = "idle" /\ pc[s] = "children"
    <3>1. uncalled # {} /\ uncalled \subseteq Supernode
      BY <1>7 DEF CallChild, Children
    <3> QED
      BY <1>7, <3>1, FirstIsElement DEF CallChild
  <2>b. pc' = [pc EXCEPT ![s] = "recurse", ![child] = "enter"]
    BY <1>7 DEF CallChild
  <2>c. child \in Supernode /\ child # s /\ ~IsRoot(child) /\ Parent[child] = s
    BY <2>a, ChildFacts
  <2>d. \A t \in Supernode : child \in Children(t) => t = s
    BY <2>c, ChildFacts
  <2>e. UNCHANGED <<merged, front, failed, ctx, bad, main, threads>>
    BY <1>7 DEF CallChild
  <2> HIDE DEF child
  <2>1. ControlTypeOK'
    BY <1>7, <2>a, <2>b, <2>c, <2>d, <2>e DEF Label, Contents, CallChild
  <2>2. FlagInv'
    BY <1>7, <2>a, <2>b, <2>c, <2>d, <2>e, ChildFacts DEF FlagInv, FrontInv,
          CallChild
  <2>3. NestInv'
    BY <1>7, <2>a, <2>b, <2>c, <2>d, <2>e, ChildFacts DEF FlagInv, NestInv,
          FrontInv, Early, Active, Returned
  <2>4. RootInv'
    BY <1>7, <2>a, <2>b, <2>c, <2>d, <2>e, ChildFacts DEF NestInv, RootInv,
          Early, Active, Returned, SerialRoots, ParallelFactorization,
          ParallelWork, Roots
  <2>5. FrontInv'
    BY <1>7, <2>a, <2>b, <2>c, <2>d, <2>e, ChildFacts DEF FlagInv, NestInv,
          FrontInv, Early, Active, Returned
  <2> QED
    BY <2>1, <2>2, <2>3, <2>4, <2>5
<1>8. ASSUME NEW c \in Supernode, MergeChild(s, c)
      PROVE  IndInv'
  <2>1. ControlTypeOK'
    BY <1>8 DEF Label, Contents, MergeChild, UnlessFailed, AfterMerge,
          ReleaseMerged
  <2>2. FlagInv'
    BY <1>8, ChildFacts DEF FlagInv, FrontInv, MergeChild, UnlessFailed,
          AfterMerge, ReleaseMerged, NestInv, Returned
  <2>3. NestInv'
    BY <1>8, ChildFacts DEF FlagInv, NestInv, FrontInv, Early, Active,
          Returned, MergeChild, UnlessFailed, AfterMerge, ReleaseMerged
  <2>4. RootInv'
    BY <1>8, ChildFacts DEF NestInv, RootInv, Early, Active, Returned,
          SerialRoots, ParallelFactorization, ParallelWork, Roots, MergeChild,
          UnlessFailed, AfterMerge, ReleaseMerged
  <2>5. FrontInv'
    BY <1>8, ChildFacts DEF FlagInv, NestInv, FrontInv, Early, Active,
          Returned, MergeChild, UnlessFailed, AfterMerge, ReleaseMerged
  <2> QED
    BY <2>1, <2>2, <2>3, <2>4, <2>5
<1>9. CASE ChildrenMerged(s)
  <2>1. ControlTypeOK'
    BY <1>9 DEF Label, Contents, ChildrenMerged, UnlessFailed
  <2>2. FlagInv'
    BY <1>9, ChildFacts DEF FlagInv, FrontInv, ChildrenMerged, UnlessFailed
  <2>3. NestInv'
    BY <1>9, ChildFacts DEF FlagInv, NestInv, FrontInv, Early, Active,
          Returned, ChildrenMerged, UnlessFailed
  <2>4. RootInv'
    BY <1>9, ChildFacts DEF NestInv, RootInv, Early, Active, Returned,
          SerialRoots, ParallelFactorization, ParallelWork, Roots,
          ChildrenMerged, UnlessFailed
  <2>5. FrontInv'
    BY <1>9, ChildFacts DEF FlagInv, NestInv, FrontInv, Early, Active,
          Returned, ChildrenMerged, UnlessFailed, IsLeaf
  <2> QED
    BY <2>1, <2>2, <2>3, <2>4, <2>5
<1>10. CASE SpawnChildren(s)
  <2>a. LastOf(Children(s)) \in Children(s)
    <3>1. Children(s) # {} /\ Children(s) \subseteq Supernode
      BY <1>10, ChildrenOfParallelNode DEF SpawnChildren, Children
    <3> QED
      BY <3>1, LastIsElement
  <2>b. \A c \in Children(s) :
           pc[c] = "idle" /\ pc'[c] \in {"spawned", "enter"}
    BY <1>10, ChildFacts DEF SpawnChildren, NestInv, Early
  <2>c. pc[s] = "begin" /\ pc'[s] = "wait" /\ pc' \in [Supernode -> Label]
    BY <1>10 DEF SpawnChildren, Label
  <2>d. \A t \in Supernode : t # s /\ t \notin Children(s) => pc'[t] = pc[t]
    BY <1>10, <2>a DEF SpawnChildren
  <2>e. UNCHANGED <<merged, front, failed, ctx, bad, main, threads>>
    BY <1>10 DEF SpawnChildren
  <2>1. ControlTypeOK'
    BY <1>10, <2>a, <2>b, <2>c, <2>d, <2>e
       DEF Label, Contents, SpawnChildren
  <2>2. FlagInv'
    BY <1>10, <2>a, <2>b, <2>c, <2>d, <2>e, ChildFacts DEF FlagInv, FrontInv,
          SpawnChildren
  <2>3. NestInv'
    BY <1>10, <2>a, <2>b, <2>c, <2>d, <2>e, ChildFacts DEF FlagInv, NestInv,
          FrontInv, Early, Active, Returned, SpawnChildren
  <2>4. RootInv'
    BY <1>10, <2>a, <2>b, <2>c, <2>d, <2>e, ChildFacts DEF NestInv, RootInv,
          Early, Active, Returned, SerialRoots, ParallelFactorization,
          ParallelWork, Roots, SpawnChildren
  <2>5. FrontInv'
    BY <1>10, <2>a, <2>b, <2>c, <2>d, <2>e, ChildFacts DEF FlagInv, NestInv,
          FrontInv, Early, Active, Returned, SpawnChildren
  <2> QED
    BY <2>1, <2>2, <2>3, <2>4, <2>5
<1>11. CASE JoinChildren(s)
  <2>1. ControlTypeOK'
    BY <1>11 DEF Label, Contents, JoinChildren, AfterWait
  <2>2. FlagInv'
    BY <1>11, ChildFacts DEF FlagInv, FrontInv, JoinChildren, AfterWait
  <2>3. NestInv'
    BY <1>11, ChildFacts DEF FlagInv, NestInv, FrontInv, Early, Active,
          Returned, JoinChildren, AfterWait
  <2>4. RootInv'
    BY <1>11, ChildFacts DEF NestInv, RootInv, Early, Active, Returned,
          SerialRoots, ParallelFactorization, ParallelWork, Roots,
          JoinChildren, AfterWait
  <2>5. FrontInv'
    BY <1>11, ChildFacts DEF FlagInv, NestInv, FrontInv, Early, Active,
          Returned, JoinChildren, AfterWait
  <2> QED
    BY <2>1, <2>2, <2>3, <2>4, <2>5
<1>12. CASE StartAssembly(s)
  <2>1. ControlTypeOK'
    BY <1>12 DEF Label, Contents, StartAssembly, AllocateOwn
  <2>2. FlagInv'
    BY <1>12, ChildFacts DEF FlagInv, FrontInv, StartAssembly, AllocateOwn
  <2>3. NestInv'
    BY <1>12, ChildFacts DEF FlagInv, NestInv, FrontInv, Early, Active,
          Returned, StartAssembly, AllocateOwn
  <2>4. RootInv'
    BY <1>12, ChildFacts DEF NestInv, RootInv, Early, Active, Returned,
          SerialRoots, ParallelFactorization, ParallelWork, Roots,
          StartAssembly, AllocateOwn
  <2>5. FrontInv'
    BY <1>12, ChildFacts DEF FlagInv, NestInv, FrontInv, Early, Active,
          Returned, StartAssembly, AllocateOwn
  <2> QED
    BY <2>1, <2>2, <2>3, <2>4, <2>5
<1>13. CASE GatherFailed(s)
  <2>1. ControlTypeOK'
    BY <1>13 DEF Label, Contents, GatherFailed, ReleaseChildren
  <2>2. FlagInv'
    BY <1>13, ChildFacts DEF FlagInv, FrontInv, GatherFailed, ReleaseChildren
  <2>3. NestInv'
    BY <1>13, ChildFacts DEF FlagInv, NestInv, FrontInv, Early, Active,
          Returned, GatherFailed, ReleaseChildren
  <2>4. RootInv'
    BY <1>13, ChildFacts DEF NestInv, RootInv, Early, Active, Returned,
          SerialRoots, ParallelFactorization, ParallelWork, Roots,
          GatherFailed, ReleaseChildren
  <2>5. FrontInv'
    BY <1>13, ChildFacts DEF FlagInv, NestInv, FrontInv, Early, Active,
          Returned, GatherFailed, ReleaseChildren
  <2> QED
    BY <2>1, <2>2, <2>3, <2>4, <2>5
<1>14. CASE Assemble(s)
  <2>1. ControlTypeOK'
    BY <1>14 DEF Label, Contents, Assemble, UnlessFailed, ReleaseChildren,
          AfterWait, Children
  <2>2. FlagInv'
    BY <1>14, ChildFacts DEF FlagInv, FrontInv, Assemble, UnlessFailed,
          ReleaseChildren, AfterWait
  <2>3. NestInv'
    BY <1>14, ChildFacts DEF FlagInv, NestInv, FrontInv, Early, Active,
          Returned, Assemble, UnlessFailed, ReleaseChildren, AfterWait
  <2>4. RootInv'
    BY <1>14, ChildFacts DEF NestInv, RootInv, Early, Active, Returned,
          SerialRoots, ParallelFactorization, ParallelWork, Roots, Assemble,
          UnlessFailed, ReleaseChildren, AfterWait
  <2>5. FrontInv'
    BY <1>14, ChildFacts DEF FlagInv, NestInv, FrontInv, Early, Active,
          Returned, Assemble, UnlessFailed, ReleaseChildren, AfterWait
  <2> QED
    BY <2>1, <2>2, <2>3, <2>4, <2>5
<1>15. CASE CutKernel(s)
  <2>1. ControlTypeOK'
    BY <1>15 DEF Label, Contents, CutKernel
  <2>2. FlagInv'
    BY <1>15, ChildFacts DEF FlagInv, FrontInv, CutKernel
  <2>3. NestInv'
    BY <1>15, ChildFacts DEF FlagInv, NestInv, FrontInv, Early, Active,
          Returned, CutKernel
  <2>4. RootInv'
    BY <1>15, ChildFacts DEF NestInv, RootInv, Early, Active, Returned,
          SerialRoots, ParallelFactorization, ParallelWork, Roots, CutKernel
  <2>5. FrontInv'
    BY <1>15, ChildFacts DEF FlagInv, NestInv, FrontInv, Early, Active,
          Returned, CutKernel
  <2> QED
    BY <2>1, <2>2, <2>3, <2>4, <2>5
<1>16. CASE FactorDiagonal(s)
  <2>1. ControlTypeOK'
    BY <1>16 DEF Label, Contents, FactorDiagonal, UnlessFailed, WhenReady,
          AfterWait
  <2>2. FlagInv'
    BY <1>16, ChildFacts DEF FlagInv, FrontInv, FactorDiagonal, UnlessFailed,
          WhenReady, AfterWait
  <2>3. NestInv'
    BY <1>16, ChildFacts DEF FlagInv, NestInv, FrontInv, Early, Active,
          Returned, FactorDiagonal, UnlessFailed, WhenReady, AfterWait
  <2>4. RootInv'
    BY <1>16, ChildFacts DEF NestInv, RootInv, Early, Active, Returned,
          SerialRoots, ParallelFactorization, ParallelWork, Roots,
          FactorDiagonal, UnlessFailed, WhenReady, AfterWait
  <2>5. FrontInv'
    BY <1>16, ChildFacts DEF FlagInv, NestInv, FrontInv, Early, Active,
          Returned, FactorDiagonal, UnlessFailed, WhenReady, AfterWait
  <2> QED
    BY <2>1, <2>2, <2>3, <2>4, <2>5
<1>17. CASE BreakDown(s)
  <2>1. ControlTypeOK'
    BY <1>17 DEF Label, Contents, BreakDown, BrokenContexts, AfterWait
  <2>2. FlagInv'
    BY <1>17, ChildFacts DEF FlagInv, FrontInv, BreakDown,
          BrokenContexts, AfterWait
  <2>3. NestInv'
    BY <1>17, ChildFacts DEF FlagInv, NestInv, FrontInv, Early, Active,
          Returned, BreakDown, BrokenContexts, AfterWait
  <2>4. RootInv'
    BY <1>17, ChildFacts DEF NestInv, RootInv, Early, Active, Returned,
          SerialRoots, ParallelFactorization, ParallelWork, Roots,
          BreakDown, BrokenContexts, AfterWait
  <2>5. FrontInv'
    BY <1>17, ChildFacts DEF FlagInv, NestInv, FrontInv, Early, Active,
          Returned, BreakDown, BrokenContexts, AfterWait
  <2> QED
    BY <2>1, <2>2, <2>3, <2>4, <2>5
<1>18. CASE SolveAgainstDiagonal(s)
  <2>1. ControlTypeOK'
    BY <1>18 DEF Label, Contents, SolveAgainstDiagonal, UnlessFailed,
          WhenReady
  <2>2. FlagInv'
    BY <1>18, ChildFacts DEF FlagInv, FrontInv, SolveAgainstDiagonal,
          UnlessFailed, WhenReady
  <2>3. NestInv'
    BY <1>18, ChildFacts DEF FlagInv, NestInv, FrontInv, Early, Active,
          Returned, SolveAgainstDiagonal, UnlessFailed, WhenReady
  <2>4. RootInv'
    BY <1>18, ChildFacts DEF NestInv, RootInv, Early, Active, Returned,
          SerialRoots, ParallelFactorization, ParallelWork, Roots,
          SolveAgainstDiagonal, UnlessFailed, WhenReady
  <2>5. FrontInv'
    BY <1>18, ChildFacts DEF FlagInv, NestInv, FrontInv, Early, Active,
          Returned, SolveAgainstDiagonal, UnlessFailed, WhenReady
  <2> QED
    BY <2>1, <2>2, <2>3, <2>4, <2>5
<1>19. CASE OuterProduct(s)
  <2>1. ControlTypeOK'
    BY <1>19 DEF Label, Contents, OuterProduct, WhenReady
  <2>2. FlagInv'
    BY <1>19, ChildFacts DEF FlagInv, FrontInv, OuterProduct, WhenReady
  <2>3. NestInv'
    BY <1>19, ChildFacts DEF FlagInv, NestInv, FrontInv, Early, Active,
          Returned, OuterProduct, WhenReady
  <2>4. RootInv'
    BY <1>19, ChildFacts DEF NestInv, RootInv, Early, Active, Returned,
          SerialRoots, ParallelFactorization, ParallelWork, Roots,
          OuterProduct, WhenReady
  <2>5. FrontInv'
    BY <1>19, ChildFacts DEF FlagInv, NestInv, FrontInv, Early, Active,
          Returned, OuterProduct, WhenReady
  <2> QED
    BY <2>1, <2>2, <2>3, <2>4, <2>5
<1>20. CASE CancelExecution(s)
  <2>1. ControlTypeOK'
    BY <1>20 DEF Label, Contents, CancelExecution
  <2>2. FlagInv'
    BY <1>20, ChildFacts DEF FlagInv, FrontInv, CancelExecution
  <2>3. NestInv'
    BY <1>20, ChildFacts DEF FlagInv, NestInv, FrontInv, Early, Active,
          Returned, CancelExecution
  <2>4. RootInv'
    BY <1>20, ChildFacts DEF NestInv, RootInv, Early, Active, Returned,
          SerialRoots, ParallelFactorization, ParallelWork, Roots,
          CancelExecution
  <2>5. FrontInv'
    BY <1>20, ChildFacts DEF FlagInv, NestInv, FrontInv, Early, Active,
          Returned, CancelExecution
  <2> QED
    BY <2>1, <2>2, <2>3, <2>4, <2>5
<1>21. CASE ReturnFalse(s)
  <2>1. ControlTypeOK'
    BY <1>21 DEF Label, Contents, ReturnFalse, IsRoot
  <2>2. FlagInv'
    BY <1>21, ChildFacts DEF FlagInv, FrontInv, ReturnFalse, IsRoot
  <2>3. NestInv'
    BY <1>21, ChildFacts DEF FlagInv, NestInv, FrontInv, Early, Active,
          Returned, ReturnFalse, IsRoot
  <2>4. RootInv'
    BY <1>21, ChildFacts DEF NestInv, RootInv, Early, Active, Returned,
          SerialRoots, ParallelFactorization, ParallelWork, Roots,
          ReturnFalse, IsRoot
  <2>5. FrontInv'
    BY <1>21, ChildFacts DEF FlagInv, NestInv, FrontInv, Early, Active,
          Returned, ReturnFalse, IsRoot
  <2> QED
    BY <2>1, <2>2, <2>3, <2>4, <2>5
<1> QED
  BY <1>1, <1>2, <1>3, <1>4, <1>5, <1>6, <1>7, <1>8, <1>9, <1>10,
     <1>11, <1>12, <1>13, <1>14, <1>15, <1>16, <1>17, <1>18, <1>19, <1>20,
     <1>21 DEF Frame

-----------------------------------------------------------------------------
(***************************************************************************)
(* The invariant.                                                          *)
(***************************************************************************)
\* The invariant holds before the first call.
LEMMA InitIndInv == Init => IndInv
<1> SUFFICES ASSUME Init PROVE IndInv
  OBVIOUS
<1>1. ControlTypeOK
  <2>1. NumSupernodes \in Nat /\ MaxFactorizations \in Nat
    BY ForestAssumption, ControlAssumption
  <2>2. /\ stack \in [Supernode -> 0..NumSupernodes]
        /\ round \in 0..MaxFactorizations
    BY <2>1 DEF Init
  <2>3. pc \in [Supernode -> Label] /\ front \in [Supernode -> Contents]
    BY DEF Init, Label, Contents
  <2>4. merged \in [Supernode -> SUBSET Supernode]
    BY DEF Init
  <2> QED
    BY <2>2, <2>3, <2>4 DEF Init, ControlTypeOK, NoResult
<1>2. FlagInv
  BY DEF Init, FlagInv
<1>3. NestInv /\ RootInv /\ FrontInv
  BY ChildFacts
     DEF Init, NestInv, RootInv, FrontInv, Early, Active, Returned, Roots
<1> QED
  BY <1>1, <1>2, <1>3 DEF IndInv

\* The call of BlockRightLooking itself preserves the invariant.
LEMMA DriverStep ==
    ASSUME IndInv, Start \/ Driver
    PROVE  IndInv'
<1> USE DEF IndInv, ControlTypeOK, memory, shared, call
<1>1. CASE Start
  <2>1. ControlTypeOK'
    <3>1. NumSupernodes \in Nat /\ MaxFactorizations \in Nat
      BY ForestAssumption, ControlAssumption
    <3>2. bad' \in SUBSET Supernode
      BY <1>1, ControlAssumption DEF Start, StartCall
    <3>3. /\ stack' \in [Supernode -> 0..NumSupernodes]
          /\ round' \in 0..MaxFactorizations
      BY <1>1, <3>1 DEF Start, StartCall
    <3>4. pc' \in [Supernode -> Label] /\ front' \in [Supernode -> Contents]
      BY <1>1 DEF Start, StartCall, Label, Contents
    <3>5. merged' \in [Supernode -> SUBSET Supernode]
      BY <1>1 DEF Start, StartCall
    <3> QED
      BY <1>1, <3>2, <3>3, <3>4, <3>5 DEF Start, StartCall
  <2>2. FlagInv'
    BY <1>1 DEF Start, StartCall, FlagInv
  <2>3. NestInv' /\ RootInv' /\ FrontInv'
    BY <1>1, ChildFacts DEF Start, StartCall, NestInv, RootInv, FrontInv,
       Early, Active, Returned, Roots
  <2> QED
    BY <2>1, <2>2, <2>3
<1>2. CASE NextRoot
  <2> DEFINE uncalled == {r \in Roots : pc[r] = "idle"}
             root == FirstOf(uncalled)
  <2>1. root \in Roots /\ pc[root] = "idle"
    <3>1. uncalled # {} /\ uncalled \subseteq Supernode
      BY <1>2 DEF NextRoot, Roots
    <3> QED
      BY <3>1, FirstIsElement
  <2>2. pc' = [pc EXCEPT ![root] = "begin"]
    BY <1>2 DEF NextRoot
  <2>3. /\ UNCHANGED <<stack, merged, front, pivots, memory, shared, call>>
        /\ main = "roots" /\ SerialRoots
    BY <1>2 DEF NextRoot
  <2>4. root \in Supernode /\ \A t \in Supernode : root \notin Children(t)
    BY <2>1, ChildFacts DEF Roots
  <2> HIDE DEF root
  <2>5. ControlTypeOK' /\ FlagInv'
    BY <2>1, <2>2, <2>3 DEF FlagInv, Label
  <2>6. NestInv'
    BY <2>1, <2>2, <2>3, <2>4, ChildFacts
       DEF NestInv, Early, Active, Returned
  <2>7. RootInv'
    BY <2>1, <2>2, <2>3, <2>4 DEF RootInv, Active, Returned, Roots,
       SerialRoots, ParallelFactorization, ParallelWork
  <2>8. FrontInv'
    BY <2>1, <2>2, <2>3, <2>4, ChildFacts DEF FrontInv, Early
  <2> QED
    BY <2>5, <2>6, <2>7, <2>8
<1>3. CASE RootLoopDone
  <2>1. ControlTypeOK' /\ FlagInv' /\ NestInv' /\ FrontInv'
    BY <1>3 DEF RootLoopDone, FlagInv, NestInv, FrontInv, Active
  <2>2. RootInv'
    BY <1>3 DEF RootLoopDone, RootInv, Active, Returned
  <2> QED
    BY <2>1, <2>2
<1>4. CASE SpawnRoots
  <2>1. /\ main = "roots" /\ main' = "join"
        /\ \A t \in Supernode : t \notin Roots => pc'[t] = pc[t]
        /\ \A r \in Roots : pc[r] = "idle" /\ pc'[r] \in {"begin", "spawned"}
        /\ pc' \in [Supernode -> Label]
        /\ UNCHANGED <<stack, merged, front, pivots, memory, shared,
                       threads, bad, result, round>>
    <3>1. LastOf(Roots) \in Roots
      <4>1. ~(Cardinality(Roots) <= 1)
        BY <1>4 DEF SpawnRoots, SerialRoots
      <4>2. Roots # {}
        BY <4>1, FS_EmptySet
      <4>3. Roots \subseteq Supernode
        BY DEF Roots
      <4> QED
        BY <4>2, <4>3, LastIsElement
    <3>2. Roots \subseteq Supernode
      BY DEF Roots
    <3>3. pc' \in [Supernode -> Label]
      BY <1>4 DEF SpawnRoots, Label
    <3>4. \A r \in Roots : pc[r] = "idle" /\ pc'[r] \in {"begin", "spawned"}
      BY <1>4, <3>2 DEF SpawnRoots, RootInv
    <3> QED
      BY <1>4, <3>1, <3>2, <3>3, <3>4 DEF SpawnRoots
  <2>2. \A t \in Supernode : \A c \in Children(t) :
            c \notin Roots /\ pc'[c] = pc[c]
    BY <2>1, ChildFacts DEF Roots
  <2>3. ControlTypeOK' /\ FlagInv'
    BY <2>1 DEF FlagInv, Roots
  <2>4. NestInv'
    BY <2>1, <2>2, ChildFacts DEF NestInv, Early, Active, Returned
  <2>5. RootInv'
    BY <2>1 DEF RootInv
  <2>6. FrontInv'
    BY <2>1, <2>2, ChildFacts DEF FrontInv, Early
  <2> QED
    BY <2>3, <2>4, <2>5, <2>6
<1>5. CASE JoinRoots
  <2>1. ControlTypeOK' /\ FlagInv' /\ NestInv' /\ FrontInv'
    BY <1>5 DEF JoinRoots, AfterWait, FlagInv, NestInv, FrontInv, Active
  <2>2. RootInv'
    BY <1>5 DEF JoinRoots, RootInv, Active, Returned
  <2> QED
    BY <2>1, <2>2
<1>6. CASE ReturnResult
  <2>1. ControlTypeOK'
    BY <1>6 DEF ReturnResult
  <2>2. FlagInv' /\ NestInv' /\ FrontInv'
    BY <1>6 DEF ReturnResult, FlagInv, NestInv, FrontInv, Active
  <2>3. RootInv'
    BY <1>6 DEF ReturnResult, RootInv, Active
  <2> QED
    BY <2>1, <2>2, <2>3
<1> QED
  BY <1>1, <1>2, <1>3, <1>4, <1>5, <1>6 DEF Driver

\* Stuttering preserves the invariant.
LEMMA StutterStep ==
    ASSUME IndInv, UNCHANGED vars
    PROVE  IndInv'
<1> USE DEF IndInv, vars, memory, shared, call
<1>1. ControlTypeOK' /\ FlagInv' /\ FrontInv'
  BY DEF ControlTypeOK, FlagInv, FrontInv
<1>2. NestInv'
  BY DEF NestInv, Active
<1>3. RootInv'
  BY DEF RootInv, Active, SerialRoots, ParallelFactorization, ParallelWork
<1> QED
  BY <1>1, <1>2, <1>3

\* Every step of the system preserves the invariant.
LEMMA NextIndInv == IndInv /\ [Next]_vars => IndInv'
<1> SUFFICES ASSUME IndInv, [Next]_vars PROVE IndInv'
  OBVIOUS
<1>1. CASE Start \/ Driver
  BY <1>1, DriverStep
<1>2. ASSUME NEW s \in Supernode, Frame(s) PROVE IndInv'
  BY <1>2, FrameStep
<1>3. CASE Terminated \/ UNCHANGED vars
  BY <1>3, StutterStep DEF Terminated
<1> QED
  BY <1>1, <1>2, <1>3 DEF Next

\* The inductive invariant holds of every factorization.
THEOREM Invariance == Spec => []IndInv
BY InitIndInv, NextIndInv, PTL DEF Spec

\* The control state stays in its range.
THEOREM ControlTypeCorrect == Spec => []ControlTypeOK
<1>1. IndInv => ControlTypeOK
  BY DEF IndInv
<1> QED
  BY <1>1, Invariance, PTL

\* m_fail is set before TBB's cancellation can be observed, whatever the
\* waits of other task groups do to the context they share.
THEOREM CancellationFollowsFailure == Spec => []CancelledOnlyAfterFailure
<1>1. IndInv => CancelledOnlyAfterFailure
  BY DEF IndInv, FlagInv, CancelledOnlyAfterFailure
<1> QED
  BY <1>1, Invariance, PTL

\* Only complete Schur complements are ever added into a parent.
THEOREM MergesAreComplete == Spec => []MergesOnlyCompleteFronts
<1>1. IndInv => MergesOnlyCompleteFronts
  BY DEF IndInv, FrontInv, MergesOnlyCompleteFronts
<1> QED
  BY <1>1, Invariance, PTL

\* A diagonal block is factored only when its front is fully assembled.
THEOREM FrontsAreAssembled == Spec => []FactorsOnlyAssembledFronts
<1>1. IndInv => FactorsOnlyAssembledFronts
  BY DEF IndInv, FrontInv, FactorsOnlyAssembledFronts
<1> QED
  BY <1>1, Invariance, PTL

\* No frame outlives the frame, or the call, that waits for it.
THEOREM FramesAreNested == Spec => []FramesNest
<1>1. IndInv => FramesNest
  <2> SUFFICES ASSUME IndInv, NEW s \in Supernode, Active(s)
               PROVE  IF IsRoot(s) THEN main \in {"roots", "join"}
                      ELSE pc[Parent[s]] \in {"recurse", "wait"}
    BY DEF FramesNest
  <2>1. CASE IsRoot(s)
    BY <2>1 DEF IndInv, RootInv, Roots
  <2>2. CASE ~IsRoot(s)
    <3>1. Parent[s] \in Supernode /\ s \in Children(Parent[s])
      BY <2>2, ForestAssumption DEF IsRoot, Supernode, Children
    <3> QED
      BY <2>2, <3>1 DEF IndInv, NestInv
  <2> QED
    BY <2>1, <2>2
<1> QED
  BY <1>1, Invariance, PTL

-----------------------------------------------------------------------------
(***************************************************************************)
(* Refinement.                                                             *)
(***************************************************************************)
\* Once every root has returned or was never called, no frame is active: the
\* largest active supernode would have an active parent.
LEMMA QuietRoots ==
    ASSUME IndInv, \A r \in Roots : ~Active(r)
    PROVE  \A s \in Supernode : ~Active(s)
<1> DEFINE A == {s \in Supernode : Active(s)}
<1> SUFFICES ASSUME A # {} PROVE FALSE
  OBVIOUS
<1>1. PICK s \in A : \A t \in A : s >= t
  BY GreatestElement
<1>2. Parent[s] # 0
  BY <1>1 DEF Roots, IsRoot
<1>3. Parent[s] \in Supernode /\ Parent[s] > s /\ s \in Children(Parent[s])
  BY <1>1, <1>2, ForestAssumption DEF Supernode, Children
<1>4. pc[Parent[s]] \in {"recurse", "wait"}
  BY <1>1, <1>3 DEF IndInv, NestInv
<1>5. Parent[s] \in A
  BY <1>3, <1>4 DEF Active, Returned
<1> QED
  BY <1>1, <1>3, <1>5 DEF Supernode

\* If every root succeeded and m_fail was never set, every front is complete.
LEMMA CompleteRoots ==
    ASSUME IndInv, ~failed, \A r \in Roots : pc[r] = "done"
    PROVE  /\ \A s \in Supernode : front[s] = "complete"
           /\ bad = {}
<1> DEFINE A == {s \in Supernode : pc[s] # "done"}
<1>1. A = {}
  <2> SUFFICES ASSUME A # {} PROVE FALSE
    OBVIOUS
  <2>1. PICK s \in A : \A t \in A : s >= t
    BY GreatestElement
  <2>2. Parent[s] # 0
    BY <2>1 DEF Roots, IsRoot
  <2>3. Parent[s] \in Supernode /\ Parent[s] > s /\ s \in Children(Parent[s])
    BY <2>1, <2>2, ForestAssumption DEF Supernode, Children
  <2>4. pc[Parent[s]] = "done"
    BY <2>1, <2>3 DEF Supernode
  <2>5. s \in merged[Parent[s]]
    BY <2>3, <2>4 DEF IndInv, FrontInv
  <2> QED
    BY <2>1, <2>3, <2>5 DEF IndInv, FrontInv
<1>2. \A s \in Supernode : front[s] = "complete" /\ s \notin bad
  BY <1>1 DEF IndInv, FrontInv, FlagInv
<1> QED
  BY <1>2 DEF IndInv, ControlTypeOK

\* What the last steps of a call find, and that its outcome is the truth.
ReturnInv ==
    /\ main \in {"finish", "returned"} => \A s \in Supernode : ~Active(s)
    /\ main = "finish" /\ ~failed => \A r \in Roots : pc[r] = "done"
    /\ OutcomeIsTrue

\* A frame only completes its own front, from a full assembly and never for a
\* supernode that breaks down; it leaves the call alone.
LEMMA FrameEffect ==
    ASSUME IndInv, NEW s \in Supernode, Frame(s)
    PROVE  /\ Active(s)
           /\ UNCHANGED <<bad, main, result>>
           /\ front[s] # "complete"
           /\ front' \in [Supernode -> Contents]
           /\ \A t \in Supernode : t # s => front'[t] = front[t]
           /\ front'[s] = "complete" => s \notin bad /\ merged[s] = Children(s)
<1> USE DEF IndInv, ControlTypeOK, Step, memory, shared, call
<1> DEFINE Effect ==
        /\ Active(s)
        /\ UNCHANGED <<bad, main, result>>
        /\ front[s] # "complete"
        /\ \A t \in Supernode : t # s => front'[t] = front[t]
        /\ front'[s] = "complete" => s \notin bad /\ merged[s] = Children(s)
<1>1. front' \in [Supernode -> Contents]
  BY FrameStep
<1>2. CASE RunTask(s) \/ DropTask(s) \/ Enter(s) \/ BeginSerial(s)
           \/ ReserveFailed(s) \/ ChildrenMerged(s)
  <2>1. Effect
    BY <1>2 DEF RunTask, DropTask, Enter, BeginSerial, ReserveFailed,
       ChildrenMerged, Active, Returned, FrontInv
  <2> QED
    BY <1>1, <2>1
<1>3. CASE CallChild(s) \/ SpawnChildren(s)
  <2>1. /\ pc[s] \in {"children", "begin"}
        /\ UNCHANGED <<front, bad, main, result>>
    BY <1>3 DEF CallChild, SpawnChildren
  <2>2. Effect
    BY <2>1 DEF Active, Returned, FrontInv
  <2> QED
    BY <1>1, <2>2
<1>4. CASE JoinChildren(s) \/ StartAssembly(s) \/ GatherFailed(s)
           \/ BreakDown(s) \/ CancelExecution(s) \/ ReturnFalse(s)
  <2>1. Effect
    BY <1>4 DEF JoinChildren, StartAssembly, GatherFailed, BreakDown,
       CancelExecution, ReturnFalse, Active, Returned, FrontInv
  <2> QED
    BY <1>1, <2>1
<1>5. CASE ReserveFront(s) \/ CutKernel(s)
  <2>1. Effect
    BY <1>5 DEF ReserveFront, CutKernel, Active, Returned, FrontInv
  <2> QED
    BY <1>1, <2>1
<1>6. ASSUME NEW c \in Supernode, MergeChild(s, c) PROVE Effect
  BY <1>6 DEF MergeChild, AfterMerge, Active, Returned, FrontInv
<1>7. CASE Assemble(s)
  <2>1. Effect
    BY <1>7 DEF Assemble, Active, Returned, FrontInv
  <2> QED
    BY <1>1, <2>1
<1>8. CASE FactorDiagonal(s) \/ SolveAgainstDiagonal(s) \/ OuterProduct(s)
  <2>1. Effect
    BY <1>8 DEF FactorDiagonal, SolveAgainstDiagonal, OuterProduct,
       WhenReady, Active, Returned, FrontInv
  <2> QED
    BY <1>1, <2>1
<1> QED
  BY <1>1, <1>2, <1>3, <1>4, <1>5, <1>6, <1>7, <1>8 DEF Frame

\* A call returns success only when every front is complete, and failure only
\* when m_fail was set by a breakdown.
LEMMA NextReturnInv == IndInv /\ ReturnInv /\ [Next]_vars => ReturnInv'
<1> SUFFICES ASSUME IndInv, ReturnInv, [Next]_vars PROVE ReturnInv'
  OBVIOUS
<1> USE DEF ReturnInv, OutcomeIsTrue
<1>1. CASE Start
  BY <1>1 DEF Start, StartCall
<1>2. ASSUME NEW s \in Supernode, Frame(s) PROVE ReturnInv'
  BY <1>2, FrameEffect
<1>3. CASE NextRoot \/ SpawnRoots
  BY <1>3 DEF NextRoot, SpawnRoots, call
<1>4. CASE RootLoopDone
  <2>1. \A r \in Roots : ~Active(r)
    BY <1>4 DEF RootLoopDone, Active
  <2>2. \A s \in Supernode : ~Active(s)
    BY <2>1, QuietRoots
  <2>3. ~failed => \A r \in Roots : pc[r] \in Returned
    BY <1>4 DEF RootLoopDone
  <2>4. ~failed => \A r \in Roots : pc[r] = "done"
    BY <2>3 DEF IndInv, FlagInv, Returned, Roots
  <2> QED
    BY <1>4, <2>2, <2>4 DEF RootLoopDone, shared, Active
<1>5. CASE JoinRoots
  <2>1. \A r \in Roots : pc[r] \in Returned
    BY <1>5 DEF JoinRoots
  <2>2. \A s \in Supernode : ~Active(s)
    BY <2>1, QuietRoots DEF Active
  <2>3. ~failed => \A r \in Roots : pc[r] = "done"
    BY <2>1 DEF IndInv, FlagInv, Returned, Roots
  <2> QED
    BY <1>5, <2>2, <2>3 DEF JoinRoots, Active
<1>6. CASE ReturnResult
  <2>1. ~failed => bad = {}
    BY <1>6, CompleteRoots DEF ReturnResult
  <2>2. failed => bad # {}
    BY DEF IndInv, FlagInv
  <2> QED
    BY <1>6, <2>1, <2>2 DEF ReturnResult, Active
<1>7. CASE Terminated \/ UNCHANGED vars
  BY <1>7 DEF Terminated, vars, shared, call, Active
<1> QED
  BY <1>1, <1>2, <1>3, <1>4, <1>5, <1>6, <1>7 DEF Next, Driver

\* Before the first call there is no result to be wrong.
LEMMA InitReturnInv == Init => ReturnInv
BY DEF Init, ReturnInv, OutcomeIsTrue, NoResult, Active

\* Success is reported only for an input without a breakdown, and failure
\* only for one with a breakdown, for every sequence of calls.
THEOREM OutcomesAreTrue == Spec => []OutcomeIsTrue
<1>1. ReturnInv => OutcomeIsTrue
  BY DEF ReturnInv
<1> QED
  BY <1>1, Invariance, InitReturnInv, NextReturnInv, PTL DEF Spec

\* Every step is a step of the abstract elimination or changes none of its
\* variables.
LEMMA RefinedStep ==
    IndInv /\ ReturnInv /\ [Next]_vars => [Abstract!AbsNext]_(Abstract!absVars)
<1> SUFFICES ASSUME IndInv, ReturnInv, [Next]_vars
             PROVE  [Abstract!AbsNext]_(Abstract!absVars)
  OBVIOUS
<1> USE DEF Abstract!AbsNext, Abstract!absVars
<1>1. CASE Start
  <2>1. bad' \in SUBSET Supernode
    BY <1>1, ControlAssumption DEF Start, StartCall
  <2>2. {s \in Supernode : front'[s] = "complete"} = {}
    BY <1>1 DEF Start, StartCall
  <2>3. Abstract!Begin
    BY <1>1, <2>1, <2>2 DEF Start, StartCall, Abstract!Begin, IndInv,
       ControlTypeOK
  <2> QED
    BY <2>3
<1>2. ASSUME NEW s \in Supernode, Frame(s)
      PROVE  [Abstract!AbsNext]_(Abstract!absVars)
  <2>1. /\ main \notin {"finish", "returned"}
        /\ UNCHANGED <<bad, main, result>>
        /\ front[s] # "complete"
        /\ \A t \in Supernode : t # s => front'[t] = front[t]
        /\ front'[s] = "complete" => s \notin bad /\ merged[s] = Children(s)
    BY <1>2, FrameEffect DEF ReturnInv
  <2>2. CASE front'[s] = "complete"
    <3>1. Children(s) \subseteq {t \in Supernode : front[t] = "complete"}
      BY <2>1, <2>2, ChildFacts DEF IndInv, FrontInv
    <3>2. {t \in Supernode : front'[t] = "complete"}
              = {t \in Supernode : front[t] = "complete"} \cup {s}
      BY <2>1, <2>2
    <3>3. Abstract!Eliminate(s)
      BY <2>1, <2>2, <3>1, <3>2 DEF Abstract!Eliminate
    <3> QED
      BY <3>3
  <2>3. CASE front'[s] # "complete"
    <3>1. {t \in Supernode : front'[t] = "complete"}
              = {t \in Supernode : front[t] = "complete"}
      BY <2>1, <2>3
    <3> QED
      BY <2>1, <3>1
  <2> QED
    BY <2>2, <2>3
<1>3. CASE NextRoot \/ RootLoopDone \/ SpawnRoots \/ JoinRoots
  BY <1>3 DEF NextRoot, RootLoopDone, SpawnRoots, JoinRoots, call
<1>4. CASE ReturnResult
  <2>1. CASE failed
    <3>1. Abstract!Fail
      BY <1>4, <2>1 DEF ReturnResult, Abstract!Fail, IndInv, FlagInv
    <3> QED
      BY <3>1
  <2>2. CASE ~failed
    <3>1. {s \in Supernode : front[s] = "complete"} = Supernode
      BY <1>4, <2>2, CompleteRoots DEF ReturnInv, ReturnResult
    <3>2. Abstract!Succeed
      BY <1>4, <2>2, <3>1 DEF ReturnResult, Abstract!Succeed
    <3> QED
      BY <3>2
  <2> QED
    BY <2>1, <2>2
<1>5. CASE Terminated \/ UNCHANGED vars
  BY <1>5 DEF Terminated, vars, call
<1> QED
  BY <1>1, <1>2, <1>3, <1>4, <1>5 DEF Next, Driver

\* The factorization with any number of threads, calls and failures
\* implements the abstract elimination.
THEOREM Refinement == Spec => ImplementsElimination
<1>1. Init => Abstract!AbsInit
  BY DEF Init, Abstract!AbsInit, NoResult
<1> QED
  BY <1>1, Invariance, InitReturnInv, NextReturnInv, RefinedStep, PTL
     DEF Spec, ImplementsElimination, Abstract!AbsSpec
-----------------------------------------------------------------------------
(***************************************************************************)
(* Counting the pivots.                                                    *)
(***************************************************************************)
\* Labels of a frame that has factored its diagonal block.
Counted == {"solve", "outer", "done"}

Own(s) == IF pc[s] \in Counted THEN SupernodeSize[s] ELSE 0

\* Unless something failed, a frame has counted the pivots of the children it
\* has merged and, once its diagonal block is factored, its own.
PivotInv ==
    /\ pivots \in [Supernode -> Nat]
    /\ ~failed => \A s \in Supernode :
                     pivots[s] = TotalPivots(merged[s]) + Own(s)
    /\ result.pivots \in Nat
    /\ SuccessCountsEveryPivot

LEMMA PivotSums ==
    ASSUME IndInv, NEW p \in [Supernode -> Nat], NEW S, S \subseteq Supernode
    PROVE  IsFiniteSet(S) /\ SumOver(p, S) \in Nat
<1>1. IsFiniteSet(S) /\ \A x \in S : p[x] \in Nat
  BY FiniteForest, FS_Subset
<1> QED
  BY <1>1, SumNatural

\* The step of a frame that keeps its own account.
LEMMA AccountStep ==
    ASSUME IndInv, IndInv', PivotInv, NEW s \in Supernode, pc[s] # "done",
           failed => failed', UNCHANGED <<main, result>>,
           pivots' \in [Supernode -> Nat],
           \A t \in Supernode : t # s => /\ pivots'[t] = pivots[t]
                                        /\ merged'[t] = merged[t]
                                        /\ Own(t)' = Own(t),
           ~failed' => pivots'[s] = TotalPivots(merged'[s]) + Own(s)'
    PROVE  PivotInv'
<1> USE DEF IndInv, ControlTypeOK
<1>1. ASSUME ~failed', NEW t \in Supernode
      PROVE  pivots'[t] = TotalPivots(merged[t])' + Own(t)'
  <2>1. s \notin merged'[t] /\ merged'[t] \subseteq Supernode
    <3>1. merged'[s] \subseteq Children(s) /\ merged'[t] \subseteq Supernode
      BY DEF FrontInv
    <3>2. t # s => s \notin merged[t]
      BY DEF FrontInv
    <3> QED
      BY <3>1, <3>2, ChildFacts
  <2>2. \A x \in merged'[t] : pivots[x] \in Int /\ pivots'[x] = pivots[x]
    BY <2>1 DEF PivotInv
  <2>3. IsFiniteSet(merged'[t])
    BY <2>1, FiniteForest, FS_Subset
  <2>4. SumOver(pivots, merged'[t]) = SumOver(pivots', merged'[t])
    BY <2>2, <2>3, SumAgrees
  <2>5. pivots'[t] = TotalPivots(merged'[t]) + Own(t)'
    BY <1>1 DEF PivotInv
  <2> QED
    BY <2>4, <2>5 DEF TotalPivots
<1> QED
  BY <1>1 DEF PivotInv, SuccessCountsEveryPivot

\* A step of any frame keeps the account.
LEMMA FrameCounts ==
    ASSUME IndInv, IndInv', PivotInv, NEW s \in Supernode, Frame(s)
    PROVE  PivotInv'
<1> USE DEF IndInv, ControlTypeOK, Step, memory, shared, call
<1>1. Active(s) /\ pc[s] # "done" /\ UNCHANGED <<main, result>>
  BY FrameEffect DEF Active, Returned
<1>2. pivots \in [Supernode -> Nat]
  BY DEF PivotInv
<1>3. ~failed => pivots[s] = TotalPivots(merged[s]) + Own(s)
  BY DEF PivotInv
<1>4. CASE RunTask(s) \/ DropTask(s) \/ Enter(s) \/ BeginSerial(s)
           \/ ReserveFront(s) \/ ReserveFailed(s) \/ ChildrenMerged(s)
           \/ JoinChildren(s) \/ StartAssembly(s) \/ CutKernel(s)
           \/ SolveAgainstDiagonal(s) \/ OuterProduct(s)
           \/ CancelExecution(s) \/ ReturnFalse(s)
  <2>1. /\ UNCHANGED <<pivots, merged>> /\ (failed => failed')
        /\ \A t \in Supernode : t # s => pc'[t] = pc[t]
        /\ ~failed' => (pc'[s] \in Counted <=> pc[s] \in Counted)
    BY <1>4 DEF RunTask, DropTask, Enter, BeginSerial, ReserveFront,
       ReserveFailed, ChildrenMerged, JoinChildren, StartAssembly, CutKernel,
       SolveAgainstDiagonal, OuterProduct, CancelExecution, ReturnFalse,
       UnlessFailed, Counted, FlagInv
  <2> QED
    BY <1>1, <1>2, <1>3, <2>1, AccountStep DEF Own
<1>5. CASE CallChild(s)
  <2> DEFINE child == FirstOf({c \in Children(s) : pc[c] = "idle"})
  <2>1. /\ UNCHANGED <<pivots, merged, failed>>
        /\ pc' = [pc EXCEPT ![s] = "recurse", ![child] = "enter"]
        /\ pc[s] = "children"
    BY <1>5 DEF CallChild
  <2>2. child \in Supernode /\ pc[child] = "idle"
    <3> DEFINE uncalled == {c \in Children(s) : pc[c] = "idle"}
    <3>1. uncalled # {} /\ uncalled \subseteq Supernode
      BY <1>5 DEF CallChild, Children
    <3>2. FirstOf(uncalled) \in uncalled
      BY <3>1, FirstIsElement
    <3> QED
      BY <3>1, <3>2
  <2> HIDE DEF child
  <2>3. \A t \in Supernode : pc'[t] \in Counted <=> pc[t] \in Counted
    BY <2>1, <2>2 DEF Counted
  <2> QED
    BY <1>1, <1>2, <1>3, <2>1, <2>3, AccountStep DEF Own
<1>6. CASE SpawnChildren(s)
  <2>1. UNCHANGED <<pivots, merged, failed>> /\ pc[s] = "begin"
    BY <1>6 DEF SpawnChildren
  <2>2. \A c \in Children(s) : pc[c] = "idle"
    BY <2>1 DEF NestInv, Early
  <2>3. LastOf(Children(s)) \in Children(s)
    <3>1. Children(s) # {} /\ Children(s) \subseteq Supernode
      BY <1>6, ChildrenOfParallelNode DEF SpawnChildren, Children
    <3> QED
      BY <3>1, LastIsElement
  <2>4. \A t \in Supernode : pc'[t] \in Counted <=> pc[t] \in Counted
    BY <1>6, <2>1, <2>2, <2>3 DEF SpawnChildren, Counted
  <2> QED
    BY <1>1, <1>2, <1>3, <2>1, <2>4, AccountStep DEF Own
<1>7. ASSUME NEW c \in Supernode, MergeChild(s, c) PROVE PivotInv'
  <2>1. /\ c \in Children(s) /\ c \notin merged[s] /\ c # s
        /\ pc[s] = "recurse" /\ pc'[s] \notin Counted /\ UNCHANGED failed
        /\ \A t \in Supernode : t # s => pc'[t] = pc[t]
        /\ pivots' = [pivots EXCEPT ![s] = @ + pivots[c]]
        /\ merged' = IF failed THEN merged
                     ELSE [merged EXCEPT ![s] = @ \cup {c}]
    BY <1>7, ChildFacts DEF MergeChild, UnlessFailed, Counted
  <2>2. ASSUME ~failed
        PROVE  pivots'[s] = TotalPivots(merged'[s]) + Own(s)'
    <3>1. /\ IsFiniteSet(merged[s]) /\ TotalPivots(merged[s]) \in Nat
          /\ pivots[c] \in Nat
          /\ \A x \in merged[s] \cup {c} : pivots[x] \in Int
      BY <1>2, PivotSums DEF TotalPivots
    <3>2. SumOver(pivots, merged[s] \cup {c}) = pivots[c] + SumOver(pivots, merged[s])
      BY <2>1, <3>1, SumAdd
    <3>3. pivots[s] = TotalPivots(merged[s]) + 0 /\ Own(s)' = 0
      BY <1>3, <2>1, <2>2 DEF Own, Counted
    <3>4. /\ pivots'[s] = pivots[s] + pivots[c]
          /\ merged'[s] = merged[s] \cup {c}
      BY <1>2, <2>1, <2>2
    <3> QED
      BY <3>1, <3>2, <3>3, <3>4 DEF TotalPivots
  <2>3. pivots' \in [Supernode -> Nat]
    BY <1>2, <2>1
  <2>4. \A t \in Supernode : t # s => /\ pivots'[t] = pivots[t]
                                     /\ merged'[t] = merged[t]
                                     /\ Own(t)' = Own(t)
    BY <1>2, <2>1 DEF Own
  <2>5. UNCHANGED failed
    BY <2>1
  <2> QED
    BY <1>1, <2>2, <2>3, <2>4, <2>5, AccountStep
<1>8. CASE GatherFailed(s) \/ Assemble(s)
  <2>1. TotalPivots(Children(s)) \in Nat
    BY <1>2, PivotSums DEF TotalPivots, Children
  <2>2. /\ pc[s] \in {"gather", "assemble"} /\ pc'[s] \notin Counted
        /\ \A t \in Supernode : t # s => pc'[t] = pc[t]
        /\ pivots' = [pivots EXCEPT ![s] = @ + TotalPivots(Children(s))]
        /\ UNCHANGED failed
        /\ ~failed => merged' = [merged EXCEPT ![s] = Children(s)]
        /\ \A t \in Supernode : t # s => merged'[t] = merged[t]
    BY <1>8 DEF GatherFailed, Assemble, ReleaseChildren, UnlessFailed, Counted
  <2>3. ASSUME ~failed
        PROVE  pivots'[s] = TotalPivots(merged'[s]) + Own(s)'
    <3>1. merged[s] = {} /\ merged'[s] = Children(s)
      BY <2>2, <2>3 DEF FrontInv
    <3>2. TotalPivots(merged[s]) = 0
      BY <3>1, SumEmpty DEF TotalPivots
    <3>3. pivots[s] = 0 /\ Own(s)' = 0
      BY <1>3, <2>2, <2>3, <3>2 DEF Own, Counted
    <3> QED
      BY <1>2, <2>1, <2>2, <3>1, <3>3
  <2>4. pivots' \in [Supernode -> Nat]
    BY <1>2, <2>1, <2>2
  <2> QED
    BY <1>1, <2>2, <2>3, <2>4, AccountStep DEF Own
<1>9. CASE FactorDiagonal(s)
  <2>1. /\ pc[s] = "diagonal" /\ UNCHANGED <<merged, failed>>
        /\ \A t \in Supernode : t # s => pc'[t] = pc[t]
        /\ pivots' = [pivots EXCEPT ![s] = @ + SupernodeSize[s]]
        /\ ~failed => pc'[s] \in Counted
    BY <1>9 DEF FactorDiagonal, UnlessFailed, Counted
  <2>2. SupernodeSize[s] \in Nat /\ TotalPivots(merged[s]) \in Nat
    BY <1>2, PivotSums, ForestAssumption DEF TotalPivots
  <2>3. ~failed => pivots'[s] = TotalPivots(merged[s]) + Own(s)'
    BY <1>2, <1>3, <2>1, <2>2 DEF Own, Counted
  <2>4. pivots' \in [Supernode -> Nat]
    BY <1>2, <2>1, <2>2
  <2> QED
    BY <1>1, <2>1, <2>3, <2>4, AccountStep DEF Own
<1>10. CASE BreakDown(s)
  <2>1. PICK p \in 0..(SupernodeSize[s] - 1) :
           pivots' = [pivots EXCEPT ![s] = @ + p]
    BY <1>10 DEF BreakDown
  <2>2. pivots' \in [Supernode -> Nat]
    BY <1>2, <2>1, ForestAssumption
  <2>3. /\ failed' /\ UNCHANGED merged
        /\ \A t \in Supernode : t # s => pc'[t] = pc[t]
    BY <1>10 DEF BreakDown
  <2> QED
    BY <1>1, <2>1, <2>2, <2>3, AccountStep DEF Own
<1> QED
  BY <1>4, <1>5, <1>6, <1>7, <1>8, <1>9, <1>10 DEF Frame

\* When every root has succeeded, their accounts hold every pivot once.
LEMMA RootsHoldAll ==
    ASSUME IndInv, PivotInv, ~failed, \A r \in Roots : pc[r] = "done"
    PROVE  TotalPivots(Roots) = NumColumns
<1>1. ASSUME NEW s \in Supernode
      PROVE  /\ pivots[s] \in Nat /\ SupernodeSize[s] \in Nat
             /\ pivots[s] = SumOver(pivots, Children(s)) + SupernodeSize[s]
  <2>1. pc[s] = "done" /\ merged[s] = Children(s)
    BY CompleteRoots DEF IndInv, FrontInv
  <2>2. Own(s) = SupernodeSize[s]
    BY <2>1 DEF Own, Counted
  <2> QED
    BY <2>1, <2>2, ForestAssumption DEF PivotInv, TotalPivots
<1> QED
  BY <1>1, SumUpTheForest DEF TotalPivots, NumColumns

LEMMA InitPivotInv == Init => PivotInv
<1> SUFFICES ASSUME Init PROVE PivotInv
  OBVIOUS
<1>1. \A s \in Supernode : /\ pivots[s] = 0 /\ Own(s) = 0
                           /\ TotalPivots(merged[s]) = 0
  BY SumEmpty DEF Init, Own, Counted, TotalPivots
<1> QED
  BY <1>1 DEF Init, PivotInv, SuccessCountsEveryPivot, NoResult

LEMMA NextPivotInv ==
    IndInv /\ IndInv' /\ ReturnInv /\ PivotInv /\ [Next]_vars => PivotInv'
<1> SUFFICES ASSUME IndInv, IndInv', ReturnInv, PivotInv, [Next]_vars
             PROVE  PivotInv'
  OBVIOUS
<1>1. CASE Start
  <2>1. \A s \in Supernode : /\ pivots'[s] = 0 /\ Own(s)' = 0
                             /\ merged'[s] = {}
    BY <1>1 DEF Start, StartCall, Own, Counted
  <2>2. \A s \in Supernode : TotalPivots(merged[s])' = 0
    BY <2>1, SumEmpty DEF TotalPivots
  <2> QED
    BY <1>1, <2>1, <2>2 DEF Start, StartCall, PivotInv,
       SuccessCountsEveryPivot
<1>2. ASSUME NEW s \in Supernode, Frame(s) PROVE PivotInv'
  BY <1>2, FrameCounts
<1>3. CASE NextRoot \/ SpawnRoots \/ RootLoopDone \/ JoinRoots
  <2>1. /\ UNCHANGED <<pivots, merged, failed, result>>
        /\ main' # "returned"
    BY <1>3 DEF NextRoot, SpawnRoots, RootLoopDone, JoinRoots, shared, call
  <2>2. \A t \in Supernode : pc'[t] \in Counted <=> pc[t] \in Counted
    <3>1. CASE NextRoot
      <4>1. LET first == FirstOf({r \in Roots : pc[r] = "idle"})
            IN  pc' = [pc EXCEPT ![first] = "begin"] /\ pc[first] = "idle"
        <5> DEFINE uncalled == {r \in Roots : pc[r] = "idle"}
        <5>1. uncalled # {} /\ uncalled \subseteq Supernode
          BY <3>1 DEF NextRoot, Roots
        <5>2. FirstOf(uncalled) \in uncalled
          BY <5>1, FirstIsElement
        <5> QED
          BY <3>1, <5>2 DEF NextRoot
      <4> QED
        BY <4>1 DEF IndInv, ControlTypeOK, Counted
    <3>2. CASE SpawnRoots
      <4>1. \A r \in Roots : pc[r] = "idle"
        BY <3>2 DEF SpawnRoots, IndInv, RootInv
      <4>2. LastOf(Roots) \in Roots
        <5>1. Roots # {} /\ Roots \subseteq Supernode
          <6>1. Cardinality(Roots) > 1
            BY <3>2, FiniteForest, FS_CardinalityType DEF SpawnRoots, SerialRoots
          <6> QED
            BY <6>1, FS_EmptySet DEF Roots
        <5> QED
          BY <5>1, LastIsElement
      <4> QED
        BY <3>2, <4>1, <4>2 DEF SpawnRoots, Counted
    <3>3. CASE RootLoopDone \/ JoinRoots
      BY <3>3 DEF RootLoopDone, JoinRoots
    <3> QED
      BY <1>3, <3>1, <3>2, <3>3
  <2> QED
    BY <2>1, <2>2 DEF PivotInv, Own, TotalPivots, SuccessCountsEveryPivot
<1>4. CASE ReturnResult
  <2>1. /\ UNCHANGED <<pc, pivots, merged, failed>>
        /\ result' = [outcome |-> IF failed THEN "failure" ELSE "success",
                      pivots |-> IF failed THEN 0 ELSE TotalPivots(Roots)]
    BY <1>4 DEF ReturnResult, shared
  <2>2. ~failed => TotalPivots(Roots) = NumColumns
    BY <1>4, RootsHoldAll DEF ReturnInv, ReturnResult
  <2>3. TotalPivots(Roots) \in Nat
    BY PivotSums DEF PivotInv, TotalPivots, Roots
  <2> QED
    BY <2>1, <2>2, <2>3 DEF PivotInv, Own, TotalPivots, SuccessCountsEveryPivot
<1>5. CASE Terminated \/ UNCHANGED vars
  <2>1. UNCHANGED <<pc, pivots, merged, failed, main, result>>
    BY <1>5 DEF Terminated, vars, shared, call
  <2> QED
    BY <2>1 DEF PivotInv, Own, TotalPivots, SuccessCountsEveryPivot
<1> QED
  BY <1>1, <1>2, <1>3, <1>4, <1>5 DEF Next, Driver

\* The partial results of the tasks are in order in every reachable state.
THEOREM PivotsAreCounted == Spec => []PivotInv
BY Invariance, InitReturnInv, NextReturnInv, InitPivotInv, NextPivotInv, PTL
   DEF Spec

\* A call that succeeds reports each column's pivot once, whatever the order
\* in which tasks and roots contribute.
THEOREM SuccessesCountEveryPivot == Spec => []SuccessCountsEveryPivot
<1>1. PivotInv => SuccessCountsEveryPivot
  BY DEF PivotInv
<1> QED
  BY <1>1, PivotsAreCounted, PTL
-----------------------------------------------------------------------------
(***************************************************************************)
(* The context of the task groups.                                         *)
(***************************************************************************)
\* Work that is worth a task stays worth it when there is more of it.
LEMMA MoreWork ==
    ASSUME NEW v \in Nat, NEW w \in Nat, v <= w, ControlTypeOK,
           TotalWork \in Nat, ParallelWork(v)
    PROVE  ParallelWork(w)
<1>1. threads \in Nat /\ InverseRatio \in Nat /\ MinParallelThreshold \in Nat
  BY ControlAssumption DEF ControlTypeOK
<1>2. \A x, y, k \in Nat : x <= y => x * k <= y * k
  OBVIOUS
<1> DEFINE a == v * InverseRatio
           b == w * InverseRatio
<1>3. a \in Nat /\ b \in Nat /\ a <= b
  BY <1>1, <1>2
<1>4. a * threads \in Nat /\ b * threads \in Nat /\ a * threads <= b * threads
  <2> HIDE DEF a, b
  <2> QED
    BY <1>1, <1>2, <1>3
<1>5. a * threads >= TotalWork /\ threads > 1 /\ v >= MinParallelThreshold
  BY DEF ParallelWork
<1>6. b * threads >= TotalWork
  <2> HIDE DEF a, b
  <2> QED
    BY <1>4, <1>5
<1> QED
  BY <1>1, <1>5, <1>6 DEF ParallelWork


\* A front that is large enough for a tiled kernel is enough work for the call
\* to be a parallel one.
TilesAreWorthThreads ==
    \A s \in Supernode :
        SupernodeSize[s] > 3 * TileSize \/ 2 * Degree[s] > 3 * TileSize
            => WorkEstimate[s] >= MinParallelThreshold

\* With the default values 256 and 1e5, among others, it always is.
LEMMA LargeTiles ==
    ASSUME 4 * MinParallelThreshold <= 9 * (TileSize * TileSize)
    PROVE  TilesAreWorthThreads
<1> SUFFICES ASSUME NEW s \in Supernode,
                    SupernodeSize[s] > 3 * TileSize \/ 2 * Degree[s] > 3 * TileSize
             PROVE  WorkEstimate[s] >= MinParallelThreshold
  BY DEF TilesAreWorthThreads
<1> DEFINE n == SupernodeSize[s]
           d == Degree[s]
           q == TileSize * TileSize
<1>1. n \in Nat \ {0} /\ d \in Nat /\ TileSize \in Nat \ {0}
  BY ForestAssumption, ControlAssumption
<1>2. \A x, y, z \in Nat : x <= y => /\ x * z \in Nat /\ x * z <= y * z
                                     /\ z * x <= z * y
  OBVIOUS
<1>3. \A x \in Nat : x \div 3 \in Nat /\ 3 * (x \div 3) + 2 >= x
  OBVIOUS
<1>4. WorkEstimate[s] >= IntraNodeWork(s)
  <2>1. SumOver(WorkEstimate, Children(s)) \in Nat
    BY FiniteForest, SumNatural, WorkNatural, ChildFacts
  <2> QED
    BY <2>1, WorkRecursion, IntraNodeWorkNatural
<1>5. /\ IntraNodeWork(s) = (n * n * n) \div 3 + n * n * d + n * d * d
      /\ n * n * n \in Nat /\ n * n * d \in Nat /\ n * d * d \in Nat
  BY <1>1 DEF IntraNodeWork
<1>6. q \in Nat /\ TileSize <= q
  BY <1>1, <1>2
<1>7. CASE 2 * d > 3 * TileSize
  <2>1. (2 * d) * (2 * d) >= (3 * TileSize) * (3 * TileSize)
    <3>1. \A x, y \in Nat : x >= y => x * x >= y * y
      OBVIOUS
    <3> QED
      BY <1>1, <1>7, <3>1
  <2>2. n * d * d >= d * d
    <3>1. n * d >= d /\ n * d \in Nat
      BY <1>1, <1>2
    <3> QED
      BY <1>1, <1>2, <3>1
  <2>3. d * d \in Nat /\ 4 * (d * d) >= 9 * q
    BY <1>1, <2>1
  <2>4. (n * n * n) \div 3 \in Nat
    BY <1>3, <1>5
  <2> HIDE DEF n, d, q
  <2> QED
    BY <1>4, <1>5, <1>6, <2>2, <2>3, <2>4, WorkNatural, ControlAssumption DEF q
<1>8. CASE n > 3 * TileSize
  <2>1. n * n >= 9 * q /\ n * n \in Nat
    <3>1. \A x, y \in Nat : x >= y => x * x >= y * y
      OBVIOUS
    <3>2. n * n >= (3 * TileSize) * (3 * TileSize)
      BY <1>1, <1>8, <3>1
    <3> QED
      BY <1>1, <3>2
  <2>2. n * n * n >= (n * n) * 3
    BY <1>1, <1>2, <1>8, <2>1
  <2>3. (n * n * n) \div 3 >= 9 * q - 1 /\ (n * n * n) \div 3 \in Nat
    <3> DEFINE c == n * n * n
               e == c \div 3
    <3>1. c \in Nat /\ e \in Nat /\ 3 * e + 2 >= c /\ c >= 27 * q
      BY <1>3, <1>5, <1>6, <2>1, <2>2
    <3> HIDE DEF c, e, q
    <3>2. e >= 9 * q - 1
      BY <1>6, <3>1
    <3> QED
      BY <3>1, <3>2 DEF e, c
  <2>4. 4 * (9 * q - 1) >= 9 * q
    BY <1>1, <1>6
  <2> HIDE DEF n, d, q
  <2> QED
    BY <1>4, <1>5, <1>6, <2>3, <2>4, WorkNatural, ControlAssumption DEF q
<1> QED
  BY <1>7, <1>8

\* The context exists as long as a call runs that is parallel as a whole, and
\* only then; who waits for tasks has decided to make them.
ContextInv ==
    /\ main # "returned" => (ctx = "null" <=> ~ParallelFactorization)
    /\ \A s \in Supernode : pc[s] = "wait" => ParallelNode(s)

LEMMA FrameKeepsContext ==
    ASSUME IndInv, ContextInv, NEW s \in Supernode, Frame(s)
    PROVE  ContextInv'
<1> USE DEF IndInv, ControlTypeOK, Step, memory, shared, call
<1>1. UNCHANGED <<threads, main>>
  BY DEF Frame, RunTask, DropTask, Enter, BeginSerial, ReserveFront,
     ReserveFailed, CallChild, MergeChild, ChildrenMerged, SpawnChildren,
     JoinChildren, StartAssembly, GatherFailed, Assemble, CutKernel,
     FactorDiagonal, BreakDown, SolveAgainstDiagonal, OuterProduct,
     CancelExecution, ReturnFalse
<1>2. ctx' = "null" <=> ctx = "null"
  BY DEF Frame, RunTask, DropTask, Enter, BeginSerial, ReserveFront,
     ReserveFailed, CallChild, MergeChild, ChildrenMerged, SpawnChildren,
     JoinChildren, StartAssembly, GatherFailed, Assemble, CutKernel,
     FactorDiagonal, BreakDown, SolveAgainstDiagonal, OuterProduct,
     CancelExecution, ReturnFalse, AfterWait, BrokenContexts
<1>3. ASSUME NEW t \in Supernode, pc'[t] = "wait", pc[t] # "wait"
      PROVE  ParallelNode(t)
  <2>1. CASE SpawnChildren(s)
    BY <1>3, <2>1 DEF SpawnChildren
  <2>2. CASE CallChild(s)
    <3>1. pc' = [pc EXCEPT ![s] = "recurse",
                           ![FirstOf({c \in Children(s) : pc[c] = "idle"})] = "enter"]
      BY <2>2 DEF CallChild
    <3> QED
      BY <1>3, <3>1
  <2>3. CASE ~SpawnChildren(s) /\ ~CallChild(s)
    BY <1>3, <2>3 DEF Frame, RunTask, DropTask, Enter, BeginSerial,
       ReserveFront, ReserveFailed, MergeChild, ChildrenMerged, JoinChildren,
       StartAssembly, GatherFailed, Assemble, CutKernel, FactorDiagonal,
       BreakDown, SolveAgainstDiagonal, OuterProduct, CancelExecution,
       ReturnFalse, UnlessFailed
  <2> QED
    BY <2>1, <2>2, <2>3
<1>4. /\ \A t \in Supernode : ParallelNode(t)' <=> ParallelNode(t)
      /\ ParallelFactorization' <=> ParallelFactorization
  BY <1>1 DEF ParallelNode, ParallelFactorization, ParallelWork
<1> QED
  BY <1>1, <1>2, <1>3, <1>4 DEF ContextInv

LEMMA NextContextInv == IndInv /\ ContextInv /\ [Next]_vars => ContextInv'
<1> SUFFICES ASSUME IndInv, ContextInv, [Next]_vars PROVE ContextInv'
  OBVIOUS
<1>1. CASE Start
  BY <1>1 DEF Start, StartCall, ContextInv
<1>2. ASSUME NEW s \in Supernode, Frame(s) PROVE ContextInv'
  BY <1>2, FrameKeepsContext
<1>3. CASE Driver
  <2>1. /\ UNCHANGED threads /\ main # "returned"
        /\ ctx' = "null" <=> ctx = "null"
        /\ \A t \in Supernode : pc'[t] = "wait" => pc[t] = "wait"
    <3>1. CASE NextRoot
      BY <3>1 DEF NextRoot, IndInv, ControlTypeOK, shared, call
    <3>2. CASE ~NextRoot
      BY <1>3, <3>2 DEF Driver, RootLoopDone, SpawnRoots, JoinRoots,
         ReturnResult, AfterWait, shared
    <3> QED
      BY <3>1, <3>2
  <2>2. /\ \A t \in Supernode : ParallelNode(t)' <=> ParallelNode(t)
        /\ ParallelFactorization' <=> ParallelFactorization
    BY <2>1 DEF ParallelNode, ParallelFactorization, ParallelWork
  <2> QED
    BY <2>1, <2>2 DEF ContextInv
<1>4. CASE Terminated \/ UNCHANGED vars
  <2>1. UNCHANGED <<threads, main, ctx, pc>>
    BY <1>4 DEF Terminated, vars, shared, call
  <2> QED
    BY <2>1 DEF ContextInv, ParallelNode, ParallelFactorization, ParallelWork
<1> QED
  BY <1>1, <1>2, <1>3, <1>4 DEF Next

\* No kernel and no task group dereferences a null context, in any sequence of
\* calls with any numbers of threads, provided that every front with a tiled
\* kernel is worth threads.
THEOREM ContextIsPresent ==
    ASSUME TilesAreWorthThreads PROVE Spec => []ContextPresent
<1>1. Init => ContextInv
  BY DEF Init, ContextInv
<1>2. IndInv /\ ReturnInv /\ ContextInv => ContextPresent
  <2> SUFFICES ASSUME IndInv, ReturnInv, ContextInv, NEW s \in Supernode,
                      \/ pc[s] = "diagonal" /\ TiledDiagonal(s)
                      \/ pc[s] = "solve" /\ TiledSolve(s)
                      \/ pc[s] = "outer" /\ TiledOuter(s)
                      \/ pc[s] = "wait"
               PROVE  ctx # "null"
    BY DEF ContextPresent
  <2>1. main # "returned"
    BY DEF ReturnInv, Active, Returned
  <2>2. /\ WorkEstimate[s] \in Nat /\ TotalWork \in Nat
        /\ WorkEstimate[s] <= TotalWork
    BY WorkAtMostTotal, EstimatesAreMonotone DEF EstimatesGrow
  <2>3. CASE pc[s] = "wait"
    <3>1. ParallelWork(WorkEstimate[s])
      BY <2>3 DEF ContextInv, ParallelNode
    <3>2. ParallelWork(TotalWork)
      BY <2>2, <3>1, MoreWork DEF IndInv
    <3> QED
      BY <2>1, <3>2 DEF ContextInv, ParallelFactorization
  <2>4. CASE pc[s] # "wait"
    <3>1. threads > 1 /\ WorkEstimate[s] >= MinParallelThreshold
      BY <2>4, ForestAssumption, ControlAssumption
         DEF TilesAreWorthThreads, TiledDiagonal, TiledSolve, TiledOuter
    <3>2. /\ threads \in Nat /\ InverseRatio \in Nat \ {0}
          /\ MinParallelThreshold \in Nat
      BY ControlAssumption DEF IndInv, ControlTypeOK
    <3>3. \A x \in Nat, k \in Nat \ {0} : x * k \in Nat /\ x * k >= x
      OBVIOUS
    <3>4. /\ TotalWork * InverseRatio \in Nat
          /\ TotalWork * InverseRatio >= TotalWork
      BY <2>2, <3>2, <3>3
    <3> DEFINE w == TotalWork * InverseRatio
    <3>5. w * threads \in Nat /\ w * threads >= w
      <4> HIDE DEF w
      <4>1. w \in Nat
        BY <3>4 DEF w
      <4> QED
        BY <3>1, <3>2, <3>3, <4>1
    <3>6. w * threads >= TotalWork
      <4> HIDE DEF w
      <4> QED
        BY <2>2, <3>4, <3>5 DEF w
    <3>7. TotalWork >= MinParallelThreshold
      BY <2>2, <3>1, <3>2
    <3>8. ParallelFactorization
      BY <3>1, <3>6, <3>7 DEF ParallelFactorization, ParallelWork
    <3> QED
      BY <2>1, <3>8 DEF ContextInv
  <2> QED
    BY <2>3, <2>4
<1> QED
  BY <1>1, <1>2, Invariance, InitReturnInv, NextReturnInv, NextContextInv, PTL
     DEF Spec

-----------------------------------------------------------------------------
(***************************************************************************)
(* The storage of the Schur complements is sufficient and never shared, in *)
(* every factorization of every forest.  The frames that use the stack of  *)
(* one serial subtree stand above each other in the forest and on it: each *)
(* of them but the lowest is inside its loop over the children.            *)
(***************************************************************************)
\* Labels of a frame that has allocated its own Schur complement.
Holding == {"children", "recurse", "assemble", "diagonal", "solve", "outer"}

\* Labels of a frame whose children's Schur complements are still needed.
Collecting == {"recurse", "wait", "gather", "assemble"}

\* Labels of a frame of a serial subtree that still has to push, or whose
\* children have.
Pushing == {"enter", "begin", "reserve", "children", "recurse"}

\* The Schur complement of s is allocated and will be used.
Holds(s) ==
    \/ pc[s] \in Holding
    \/ /\ pc[s] = "done" /\ ~IsRoot(s) /\ s \notin merged[Parent[s]]
       /\ pc[Parent[s]] \in Collecting

\* s is going to push its Schur complement on a stack of an ancestor's.
Before(s) == pc[s] \in {"enter", "begin", "reserve"}

\* s has something to do with the stack of its subtree.
Engaged(s) == stack[s] # 0 /\ (Before(s) \/ Holds(s))

End(s) == view[s].base + view[s].size

\* Where the Schur complement of s belongs on its stack.
Height(s) == IF stack[s] = s THEN 0 ELSE End(Parent[s])

MemoryOK ==
    /\ view \in [Supernode -> [owner : 0..NumSupernodes, base : Nat, size : Nat]]
    /\ store \in [Supernode -> [cap : Nat, top : Nat]]

\* A stack belongs to a whole serial subtree: a frame has none or that of the
\* root of the subtree, which its parent and its children share.
StackInv ==
    \A s \in Supernode :
        /\ pc[s] \in {"idle", "spawned", "wait", "gather", "assemble"} =>
              stack[s] = 0
        /\ stack[s] # 0 =>
              /\ SerialSubtree(s)
              /\ s <= stack[s] /\ stack[stack[s]] = stack[s]
              /\ stack[s] # s => ~IsRoot(s) /\ stack[Parent[s]] = stack[s]
              /\ \A c \in Children(s) : pc[c] # "idle" => stack[c] = stack[s]
        /\ SerialSubtree(s) /\ pc[s] \in {"reserve", "children", "recurse"} =>
              stack[s] # 0

\* Of two frames engaged with the same stack the later one is an ancestor that
\* is inside its loop over the children.
ChainInv ==
    \A s, t \in Supernode :
        Engaged(s) /\ Engaged(t) /\ stack[s] = stack[t] /\ s < t =>
            pc[t] = "recurse" /\ Parent[s] <= t

\* A front without a stack has a buffer of its own.
OwnInv ==
    \A s \in Supernode :
        Holds(s) /\ stack[s] = 0 =>
            /\ view[s].owner = s /\ view[s].base = 0
            /\ view[s].size = SizeForDegree(s)
            /\ store[s].top = SizeForDegree(s)
            /\ store[s].cap = SizeForDegree(s)

\* The stack has the size of its subtree's needs, and its top is where the
\* lowest frame engaged with it has pushed, or is going to push.
TopInv ==
    \A s \in Supernode :
        stack[s] # 0 =>
            /\ Engaged(s) => /\ store[stack[s]].cap = StorageNeeded[stack[s]]
                             /\ store[stack[s]].top <= store[stack[s]].cap
            /\ Before(s) => store[stack[s]].top = Height(s)
            /\ Holds(s) =>
                  /\ End(s) <= store[stack[s]].top
                  /\ pc[s] # "recurse" => store[stack[s]].top = End(s)

\* Where a Schur complement is on the stack, and the room that is left above
\* the parent's for the subtree.
PlaceInv ==
    \A s \in Supernode :
        stack[s] # 0 =>
            /\ Holds(s) => /\ view[s].owner = stack[s]
                           /\ view[s].base = Height(s)
                           /\ view[s].size = SizeForDegree(s)
            /\ pc[s] \in Pushing =>
                  Height(s) + StorageNeeded[s] <= StorageNeeded[stack[s]]

\* Schur complements on the same stack lie above each other.
OrderInv ==
    \A s, t \in Supernode :
        Holds(s) /\ Holds(t) /\ stack[s] # 0 /\ stack[s] = stack[t] /\ s < t =>
            End(t) <= view[s].base

StorageInv ==
    /\ MemoryOK /\ StackInv /\ ChainInv /\ OwnInv /\ TopInv /\ PlaceInv
    /\ OrderInv

-----------------------------------------------------------------------------
(***************************************************************************)
(* Consequences of the invariants.                                         *)
(***************************************************************************)
\* The parent of a supernode that is not a root is a supernode.
LEMMA ParentIsSupernode ==
    ASSUME NEW s \in Supernode, ~IsRoot(s)
    PROVE  Parent[s] \in Supernode /\ s \in Children(Parent[s])
BY ForestAssumption DEF IsRoot, Supernode, Children

\* The subtrees of a serial subtree are serial.
LEMMA SerialBelow ==
    ASSUME ControlTypeOK, NEW s \in Supernode,
           NEW c \in Children(s), SerialSubtree(s)
    PROVE  SerialSubtree(c)
<1>1. c \in Supernode
  BY ChildFacts
<1>2. /\ WorkEstimate[c] \in Nat /\ WorkEstimate[s] \in Nat
      /\ WorkEstimate[c] <= WorkEstimate[s] /\ TotalWork \in Nat
  BY <1>1, EstimatesAreMonotone DEF EstimatesGrow
<1> QED
  BY <1>2, MoreWork DEF SerialSubtree

\* The parent of a frame that uses the stack of an ancestor processes it.
LEMMA ParentEngaged ==
    ASSUME IndInv, StackInv, NEW s \in Supernode, Engaged(s), stack[s] # s
    PROVE  /\ Parent[s] \in Supernode /\ s \in Children(Parent[s])
           /\ stack[Parent[s]] = stack[s] /\ pc[Parent[s]] = "recurse"
<1>1. ~IsRoot(s) /\ stack[Parent[s]] = stack[s] /\ stack[s] # 0
  BY DEF StackInv, Engaged
<1>2. Parent[s] \in Supernode /\ s \in Children(Parent[s])
  BY <1>1, ParentIsSupernode
<1>3. pc[Parent[s]] \notin {"wait", "gather", "assemble"}
  BY <1>1, <1>2 DEF StackInv
<1>4. pc[Parent[s]] \in {"recurse", "wait", "gather", "assemble"}
  <2>1. CASE pc[s] = "done"
    BY <2>1 DEF Engaged, Before, Holds, Holding, Collecting
  <2>2. CASE pc[s] # "done"
    <3>1. Active(s)
      BY <2>2 DEF Engaged, Before, Holds, Holding, Active, Returned
    <3> QED
      BY <1>2, <3>1 DEF IndInv, NestInv
  <2> QED
    BY <2>1, <2>2
<1> QED
  BY <1>1, <1>2, <1>3, <1>4

\* As long as a frame uses the stack of another one, the owner is inside its
\* loop over the children.
LEMMA OwnerRecurses ==
    ASSUME IndInv, StackInv, NEW s \in Supernode, Engaged(s), stack[s] # s
    PROVE  pc[stack[s]] = "recurse"
<1> DEFINE r == stack[s]
           A == {t \in Supernode : Engaged(t) /\ stack[t] = r /\ t # r}
<1> SUFFICES ASSUME pc[r] # "recurse" PROVE FALSE
  OBVIOUS
<1>1. ASSUME NEW t \in A PROVE ~IsRoot(t) /\ Parent[t] \in A
  <2>1. /\ Parent[t] \in Supernode /\ t \in Children(Parent[t])
        /\ stack[Parent[t]] = r /\ pc[Parent[t]] = "recurse"
    BY ParentEngaged
  <2>2. ~IsRoot(t)
    BY <2>1, ChildFacts
  <2>3. Engaged(Parent[t])
    BY <2>1 DEF Engaged, Holds, Holding
  <2> QED
    BY <2>1, <2>2, <2>3
<1>2. A = {}
  BY <1>1, FromTheRoots
<1>3. s \in A
  OBVIOUS
<1> QED
  BY <1>2, <1>3

-----------------------------------------------------------------------------
(***************************************************************************)
(* Steps that leave the memory and the stacks alone.                       *)
(***************************************************************************)
\* The stacks stay shared as long as no frame without a stack gets to where
\* it needs one, and no frame with a stack to where it must not have one.
LEMMA SameStacks ==
    ASSUME IndInv, StackInv, UNCHANGED <<stack, threads>>,
           \A t \in Supernode : pc'[t] # pc[t] =>
              /\ pc'[t] \in {"idle", "spawned", "wait", "gather", "assemble"} =>
                    stack[t] = 0
              /\ SerialSubtree(t) /\ pc'[t] \in {"reserve", "children", "recurse"} =>
                    stack[t] # 0
              /\ pc[t] = "idle" /\ ~IsRoot(t) => stack[Parent[t]] = 0
    PROVE  StackInv'
<1> SUFFICES ASSUME NEW s \in Supernode
             PROVE
        /\ pc'[s] \in {"idle", "spawned", "wait", "gather", "assemble"} =>
              stack[s] = 0
        /\ stack[s] # 0 =>
              /\ SerialSubtree(s)
              /\ s <= stack[s] /\ stack[stack[s]] = stack[s]
              /\ stack[s] # s => ~IsRoot(s) /\ stack[Parent[s]] = stack[s]
              /\ \A c \in Children(s) : pc'[c] # "idle" => stack[c] = stack[s]
        /\ SerialSubtree(s) /\ pc'[s] \in {"reserve", "children", "recurse"} =>
              stack[s] # 0
  BY DEF StackInv, SerialSubtree, ParallelWork
<1>1. ASSUME stack[s] # 0, NEW c \in Children(s), pc'[c] # "idle"
      PROVE  stack[c] = stack[s]
  <2>1. c \in Supernode /\ ~IsRoot(c) /\ Parent[c] = s
    BY ChildFacts
  <2> QED
    BY <1>1, <2>1 DEF StackInv
<1> QED
  BY <1>1 DEF StackInv

\* If nothing is allocated, only storage is released that nobody will use, and
\* no frame begins to use a stack or a Schur complement, then the storage
\* stays in order.
LEMMA ReleaseStep ==
    ASSUME IndInv, StorageInv, MemoryOK', StackInv', UNCHANGED stack,
           NEW R \in SUBSET Supernode,
           \A r \in R : pc[r] # "recurse" /\ ~Before(r)' /\ ~Holds(r)',
           \A t \in Supernode \ R : view'[t] = view[t] /\ store'[t] = store[t],
           \A t \in Supernode :
              /\ Holds(t)' => Holds(t)
              /\ stack[t] # 0 =>
                    /\ Before(t)' => Before(t)
                    /\ pc'[t] \in Pushing => pc[t] \in Pushing
                    /\ Holds(t)' => (pc'[t] = "recurse" <=> pc[t] = "recurse")
    PROVE  StorageInv'
<1>1. ASSUME NEW t \in Supernode, Engaged(t)'
      PROVE  /\ Engaged(t) /\ stack[t] # 0 /\ t \notin R
             /\ pc[t] = "recurse" => pc'[t] = "recurse"
             /\ stack[t] \in Supernode \ R
             /\ Height(t)' = Height(t)
  <2>1. Engaged(t) /\ stack[t] # 0 /\ t \notin R
    BY <1>1 DEF Engaged
  <2>2. stack[t] \in Supernode
    BY <2>1 DEF IndInv, ControlTypeOK, Supernode
  <2>3. stack[t] # t => pc[stack[t]] = "recurse" /\ pc[Parent[t]] = "recurse"
                        /\ Parent[t] \in Supernode
    BY <2>1, OwnerRecurses, ParentEngaged DEF StorageInv
  <2>4. stack[t] # t => stack[t] \notin R /\ Parent[t] \notin R
    BY <2>3
  <2>5. Height(t)' = Height(t)
    BY <2>3, <2>4 DEF Height, End
  <2> QED
    BY <1>1, <2>1, <2>2, <2>4, <2>5 DEF Engaged, Before
<1>2. \A t \in Supernode : t \notin R => End(t)' = End(t)
  BY DEF End
<1>3. \A t \in Supernode : Holds(t)' => t \notin R
  OBVIOUS
<1>4. \A t \in Supernode : stack[t] # 0 /\ (Before(t)' \/ Holds(t)') => Engaged(t)'
  BY DEF Engaged
<1>5. ChainInv'
  BY <1>1 DEF StorageInv, ChainInv
<1>6. OwnInv'
  BY <1>3 DEF StorageInv, OwnInv
<1>7. TopInv'
  <2> SUFFICES ASSUME NEW t \in Supernode, stack[t] # 0, Engaged(t)'
               PROVE  /\ store[stack[t]].cap = StorageNeeded[stack[t]]
                      /\ store[stack[t]].top <= store[stack[t]].cap
                      /\ Before(t)' => store[stack[t]].top = Height(t)
                      /\ Holds(t)' =>
                            /\ End(t) <= store[stack[t]].top
                            /\ pc'[t] # "recurse" => store[stack[t]].top = End(t)
    BY <1>1, <1>2, <1>3, <1>4 DEF TopInv
  <2> QED
    BY <1>1 DEF StorageInv, TopInv
<1>8. PlaceInv'
  <2>1. ASSUME NEW t \in Supernode, stack[t] # 0, Holds(t)'
        PROVE  view'[t].owner = stack[t] /\ view'[t].base = Height(t)'
               /\ view'[t].size = SizeForDegree(t)
    BY <1>1, <1>3, <1>4, <2>1 DEF StorageInv, PlaceInv
  <2>2. ASSUME NEW t \in Supernode, stack[t] # 0, pc'[t] \in Pushing
        PROVE  Height(t)' + StorageNeeded[t] <= StorageNeeded[stack[t]]
    <3>1. Before(t)' \/ Holds(t)'
      BY <2>2 DEF Pushing, Before, Holds, Holding
    <3>2. Engaged(t)'
      BY <1>4, <2>2, <3>1
    <3>3. Height(t)' = Height(t) /\ Engaged(t)
      BY <1>1, <3>2
    <3>4. pc[t] \in Pushing
      BY <2>2
    <3> QED
      BY <2>2, <3>3, <3>4 DEF StorageInv, PlaceInv
  <2> QED
    BY <2>1, <2>2 DEF PlaceInv
<1>9. OrderInv'
  <2> SUFFICES ASSUME NEW s \in Supernode, NEW t \in Supernode,
                      Holds(s)', Holds(t)', stack[s] # 0,
                      stack[s] = stack[t], s < t
               PROVE  End(t)' <= view'[s].base
    BY DEF OrderInv
  <2> QED
    BY <1>2, <1>3 DEF StorageInv, OrderInv
<1> QED
  BY <1>5, <1>6, <1>7, <1>8, <1>9 DEF StorageInv

\* If the memory does not change at all, only the frames matter.
LEMMA QuietStep ==
    ASSUME IndInv, StorageInv, StackInv', UNCHANGED <<stack, view, store>>,
           \A t \in Supernode :
              /\ Holds(t)' => Holds(t)
              /\ stack[t] # 0 =>
                    /\ Before(t)' => Before(t)
                    /\ pc'[t] \in Pushing => pc[t] \in Pushing
                    /\ Holds(t)' => (pc'[t] = "recurse" <=> pc[t] = "recurse")
    PROVE  StorageInv'
<1>1. MemoryOK'
  BY DEF StorageInv, MemoryOK
<1> DEFINE R == {}
<1>2. /\ R \in SUBSET Supernode
      /\ \A r \in R : pc[r] # "recurse" /\ ~Before(r)' /\ ~Holds(r)'
      /\ \A t \in Supernode \ R : view'[t] = view[t] /\ store'[t] = store[t]
  OBVIOUS
<1> HIDE DEF R
<1> QED
  BY <1>1, <1>2, ReleaseStep

\* Where a frame can go without touching the memory: it passes a test, gives
\* up, returns, or goes on to the next kernel.
Passes(s, l) ==
    \/ pc[s] = "spawned" /\ l \in {"enter", "begin", "dropped"}
    \/ pc[s] = "enter" /\ l \in {"begin", "skipped"}
    \/ /\ pc[s] = "begin" /\ l \in {"reserve", "returnFalse"}
       /\ l = "reserve" => stack[s] # 0 \/ ~SerialSubtree(s)
    \/ pc[s] \in {"reserve", "recurse"} /\ l = "returnFalse"
    \/ pc[s] = "children" /\ l \in {"diagonal", "returnFalse"}
    \/ pc[s] = "wait" /\ l = "gather"
    \/ pc[s] = "diagonal" /\ l \in {"solve", "cancelDiag", "returnFalse"}
    \/ pc[s] = "solve" /\ l \in {"outer", "returnFalse"}
    \/ pc[s] = "outer" /\ l = "done"
    \/ pc[s] = "cancelDiag" /\ l = "returnFalse"
    \/ pc[s] = "returnFalse" /\ l = "cancelChild"
    \/ pc[s] = "cancelChild" /\ l = "aborted"

\* Such a step keeps the storage in order.
LEMMA PassingStep ==
    ASSUME IndInv, StorageInv, NEW s \in Supernode, NEW l, Passes(s, l),
           pc' = [pc EXCEPT ![s] = l],
           UNCHANGED <<stack, view, store, merged, threads>>
    PROVE  StorageInv'
<1> USE DEF IndInv, ControlTypeOK, StorageInv
<1>1. pc'[s] = l /\ \A t \in Supernode : t # s => pc'[t] = pc[t]
  OBVIOUS
<1>2. pc[s] \in {"spawned", "wait"} => stack[s] = 0
  BY DEF StackInv
<1>3. StackInv'
  <2>1. \A t \in Supernode : pc'[t] # pc[t] =>
           /\ pc'[t] \in {"idle", "spawned", "wait", "gather", "assemble"} =>
                 stack[t] = 0
           /\ SerialSubtree(t) /\ pc'[t] \in {"reserve", "children", "recurse"} =>
                 stack[t] # 0
           /\ pc[t] = "idle" /\ ~IsRoot(t) => stack[Parent[t]] = 0
    BY <1>1, <1>2 DEF Passes
  <2> QED
    BY <2>1, SameStacks
<1>4. ASSUME NEW t \in Supernode, Holds(t)' PROVE Holds(t)
  <2>1. ~IsRoot(t) => Parent[t] \in Supernode
    BY ParentIsSupernode
  <2>2. pc'[t] \in Holding => pc[t] \in Holding
    BY <1>1 DEF Passes, Holding
  <2>3. pc'[t] = "done" => pc[t] = "done" \/ pc[t] \in Holding
    BY <1>1 DEF Passes, Holding
  <2>4. ~IsRoot(t) /\ pc'[Parent[t]] \in Collecting => pc[Parent[t]] \in Collecting
    BY <1>1, <2>1 DEF Passes, Collecting
  <2> QED
    BY <1>4, <2>2, <2>3, <2>4 DEF Holds
<1>5. ASSUME NEW t \in Supernode, stack[t] # 0
      PROVE  /\ Before(t)' => Before(t)
             /\ pc'[t] \in Pushing => pc[t] \in Pushing
             /\ Holds(t)' => (pc'[t] = "recurse" <=> pc[t] = "recurse")
  BY <1>1, <1>2, <1>5 DEF Passes, Before, Pushing, Holds, Holding
<1> QED
  BY <1>3, <1>4, <1>5, QuietStep
-----------------------------------------------------------------------------
(***************************************************************************)
(* Steps that make, allocate, push, pop or hand on storage.                *)
(***************************************************************************)
\* The root of a serial subtree makes its stack.
LEMMA NewStackStep ==
    ASSUME IndInv, StorageInv, NEW s \in Supernode,
           SerialSubtree(s), stack[s] = 0, pc[s] = "begin",
           pc' = [pc EXCEPT ![s] = "reserve"],
           stack' = [stack EXCEPT ![s] = s],
           Reallocate(s, getStoragedNeeded(s)),
           UNCHANGED <<merged, view, threads>>
    PROVE  StorageInv'
<1> USE DEF IndInv, ControlTypeOK
<1>1. /\ pc'[s] = "reserve" /\ stack'[s] = s /\ s # 0
      /\ \A t \in Supernode : t # s => pc'[t] = pc[t] /\ stack'[t] = stack[t]
  BY DEF Supernode
<1>2. /\ store'[s].cap = StorageNeeded[s] /\ store'[s].top = 0
      /\ \A t \in Supernode : t # s => store'[t] = store[t]
      /\ StorageNeeded[s] \in Nat
      /\ store' \in [Supernode -> [cap : Nat, top : Nat]]
  BY EstimatesAreMonotone DEF StorageInv, MemoryOK, Reallocate,
     getStoragedNeeded, EstimatesGrow
<1>3. \A t \in Supernode : stack[t] # s
  BY <1>1 DEF StorageInv, StackInv
<1>4. /\ \A t \in Supernode : t # s => /\ Before(t)' <=> Before(t)
                                       /\ Holds(t)' => Holds(t)
                                       /\ Engaged(t)' => Engaged(t)
                                       /\ Height(t)' = Height(t)
      /\ \A t \in Supernode : End(t)' = End(t)
      /\ Before(s)' /\ ~Holds(s)' /\ Height(s)' = 0
  <2>1. \A t \in Supernode : ~IsRoot(t) => Parent[t] \in Supernode
    BY ParentIsSupernode
  <2> QED
    BY <1>1, <2>1 DEF Before, Holds, Holding, Collecting, Engaged, Height, End
<1>5. MemoryOK'
  BY <1>2 DEF StorageInv, MemoryOK
<1>6. StackInv'
  <2> SUFFICES ASSUME NEW t \in Supernode
               PROVE
        /\ pc'[t] \in {"idle", "spawned", "wait", "gather", "assemble"} =>
              stack'[t] = 0
        /\ stack'[t] # 0 =>
              /\ SerialSubtree(t)
              /\ t <= stack'[t] /\ stack'[stack'[t]] = stack'[t]
              /\ stack'[t] # t => ~IsRoot(t) /\ stack'[Parent[t]] = stack'[t]
              /\ \A c \in Children(t) : pc'[c] # "idle" => stack'[c] = stack'[t]
        /\ SerialSubtree(t) /\ pc'[t] \in {"reserve", "children", "recurse"} =>
              stack'[t] # 0
    BY DEF StackInv, SerialSubtree, ParallelWork
  <2>1. CASE t = s
    <3>1. \A c \in Children(s) : pc'[c] = "idle"
      BY <1>1, ChildFacts DEF NestInv, Early
    <3> QED
      BY <1>1, <2>1, <3>1 DEF Supernode
  <2>2. CASE t # s
    <3>1. stack[t] # 0 => Parent[t] # s \/ stack[t] = t
      BY DEF StorageInv, StackInv
    <3>2. stack[t] # 0 => stack[t] # s /\ stack[t] \in Supernode
      BY <1>3 DEF Supernode
    <3>3. stack[t] # 0 /\ ~IsRoot(t) => Parent[t] \in Supernode
      BY ParentIsSupernode
    <3>4. ASSUME stack[t] # 0, NEW c \in Children(t), pc'[c] # "idle"
          PROVE  stack'[c] = stack[t]
      <4>1. c \in Supernode /\ c # s
        <5>1. c \in Supernode /\ Parent[c] = t
          BY ChildFacts
        <5>2. pc[s] # "idle" /\ stack[s] # stack[t]
          BY <3>4
        <5> QED
          BY <3>4, <5>1, <5>2 DEF StorageInv, StackInv
      <4> QED
        BY <1>1, <3>4, <4>1 DEF StorageInv, StackInv
    <3> QED
      BY <1>1, <2>2, <3>1, <3>2, <3>3, <3>4 DEF StorageInv, StackInv
  <2> QED
    BY <2>1, <2>2
<1>7. ChainInv'
  <2> SUFFICES ASSUME NEW t \in Supernode, NEW u \in Supernode, Engaged(t)',
                      Engaged(u)', stack'[t] = stack'[u], t < u
               PROVE  pc'[u] = "recurse" /\ Parent[t] <= u
    BY DEF ChainInv
  <2>1. t # u
    BY DEF Supernode
  <2>2. t # s /\ u # s
    BY <1>1, <1>3, <2>1
  <2> QED
    BY <1>1, <1>4, <2>2 DEF StorageInv, ChainInv
<1>8. OwnInv'
  BY <1>1, <1>2, <1>4 DEF StorageInv, OwnInv
<1>9. TopInv'
  BY <1>1, <1>2, <1>3, <1>4 DEF StorageInv, TopInv, Supernode
<1>10. PlaceInv'
  BY <1>1, <1>2, <1>4 DEF StorageInv, PlaceInv
<1>11. OrderInv'
  BY <1>1, <1>4 DEF StorageInv, OrderInv
<1> QED
  BY <1>5, <1>6, <1>7, <1>8, <1>9, <1>10, <1>11 DEF StorageInv

\* A frame allocates a buffer of its own.
LEMMA OwnBufferStep ==
    ASSUME IndInv, StorageInv, NEW s \in Supernode, NEW l,
           \/ pc[s] = "reserve" /\ l = "children" /\ ~SerialSubtree(s)
           \/ pc[s] = "gather" /\ l = "assemble",
           AllocateOwn(s),
           pc' = [pc EXCEPT ![s] = l],
           UNCHANGED <<stack, merged, threads>>
    PROVE  StorageInv'
<1> USE DEF IndInv, ControlTypeOK
<1>1. /\ pc'[s] = l /\ s # 0 /\ stack[s] = 0
      /\ \A t \in Supernode : t # s => pc'[t] = pc[t]
  BY DEF Supernode, AllocateOwn
<1>2. /\ store'[s].cap = SizeForDegree(s) /\ store'[s].top = SizeForDegree(s)
      /\ view'[s].owner = s /\ view'[s].base = 0
      /\ view'[s].size = SizeForDegree(s)
      /\ \A t \in Supernode : t # s => view'[t] = view[t] /\ store'[t] = store[t]
      /\ MemoryOK'
  BY SizeNatural DEF StorageInv, MemoryOK, AllocateOwn, Supernode
<1>3. \A t \in Supernode : stack[t] # s
  BY <1>1 DEF StorageInv, StackInv
<1>4. StackInv'
  <2>1. \A t \in Supernode : pc'[t] # pc[t] =>
           /\ pc'[t] \in {"idle", "spawned", "wait", "gather", "assemble"} =>
                 stack[t] = 0
           /\ SerialSubtree(t) /\ pc'[t] \in {"reserve", "children", "recurse"} =>
                 stack[t] # 0
           /\ pc[t] = "idle" /\ ~IsRoot(t) => stack[Parent[t]] = 0
    BY <1>1
  <2> QED
    BY <2>1, SameStacks DEF StorageInv
<1>5. ASSUME NEW t \in Supernode, t # s
      PROVE  /\ Before(t)' <=> Before(t)
             /\ Holds(t)' => Holds(t)
             /\ Engaged(t)' => Engaged(t)
             /\ End(t)' = End(t)
             /\ stack[t] # 0 => Height(t)' = Height(t)
  <2>1. ~IsRoot(t) => Parent[t] \in Supernode
    BY ParentIsSupernode
  <2>2. stack[t] # 0 /\ stack[t] # t => ~IsRoot(t) /\ Parent[t] # s
    BY <1>1 DEF StorageInv, StackInv
  <2>3. Before(t)' <=> Before(t)
    BY <1>1, <1>5 DEF Before
  <2>4. Holds(t)' => Holds(t)
    BY <1>1, <1>5, <2>1 DEF Holds, Holding, Collecting
  <2> QED
    BY <1>2, <1>5, <2>1, <2>2, <2>3, <2>4 DEF Engaged, Height, End
<1>6. ~Engaged(s)' /\ stack'[s] = 0
  BY <1>1 DEF Engaged
<1>7. ChainInv'
  BY <1>1, <1>5, <1>6 DEF StorageInv, ChainInv
<1>8. OwnInv'
  BY <1>2, <1>5 DEF StorageInv, OwnInv
<1>9. TopInv'
  BY <1>1, <1>2, <1>3, <1>5, <1>6 DEF StorageInv, TopInv, Supernode
<1>10. PlaceInv'
  BY <1>1, <1>2, <1>5, <1>6 DEF StorageInv, PlaceInv
<1>11. OrderInv'
  BY <1>1, <1>2, <1>5, <1>6 DEF StorageInv, OrderInv
<1> QED
  BY <1>2, <1>4, <1>7, <1>8, <1>9, <1>10, <1>11 DEF StorageInv

\* A frame of a serial subtree pushes its Schur complement.
LEMMA PushStep ==
    ASSUME IndInv, StorageInv, NEW s \in Supernode,
           pc[s] = "reserve", Push(s),
           pc' = [pc EXCEPT ![s] = "children"],
           UNCHANGED <<stack, merged, threads>>
    PROVE  StorageInv'
<1> USE DEF IndInv, ControlTypeOK
<1> DEFINE r == stack[s]
<1>1. /\ pc'[s] = "children" /\ r # 0 /\ r \in Supernode
      /\ \A t \in Supernode : t # s => pc'[t] = pc[t]
  BY DEF Supernode, Push
<1>2. Engaged(s) /\ Before(s) /\ Engaged(s)' /\ ~Before(s)' /\ Holds(s)'
  BY <1>1 DEF Engaged, Before, Holds, Holding
<1>3. /\ store[r].cap = StorageNeeded[r] /\ store[r].top = Height(s)
      /\ Height(s) + StorageNeeded[s] <= StorageNeeded[r]
      /\ store[r].top \in Nat /\ StorageNeeded[s] \in Nat
      /\ StorageNeeded[r] \in Nat /\ SizeForDegree(s) <= StorageNeeded[s]
  BY <1>1, <1>2, EstimatesAreMonotone
     DEF StorageInv, MemoryOK, TopInv, PlaceInv, Pushing, EstimatesGrow
<1>4. /\ store'[r].cap = store[r].cap
      /\ store'[r].top = store[r].top + SizeForDegree(s)
      /\ store[r].top + SizeForDegree(s) \in Nat
      /\ view'[s].owner = r /\ view'[s].base = store[r].top
      /\ view'[s].size = SizeForDegree(s)
      /\ \A t \in Supernode : t # r => store'[t] = store[t]
      /\ \A t \in Supernode : t # s => view'[t] = view[t]
  <2>1. /\ store'[r].cap = store[r].cap
        /\ store'[r].top = store[r].top + SizeForDegree(s)
        /\ \A t \in Supernode : t # r => store'[t] = store[t]
    BY <1>1 DEF StorageInv, MemoryOK, Push
  <2>2. /\ view'[s].owner = r /\ view'[s].base = store[r].top
        /\ view'[s].size = SizeForDegree(s)
        /\ \A t \in Supernode : t # s => view'[t] = view[t]
    BY DEF StorageInv, MemoryOK, Push
  <2>3. store[r].top + SizeForDegree(s) \in Nat
    BY <1>3, SizeNatural
  <2> QED
    BY <2>1, <2>2, <2>3
<1>5. MemoryOK'
  <2>1. store' \in [Supernode -> [cap : Nat, top : Nat]]
    <3> DEFINE x == store[r].top + SizeForDegree(s)
               y == [store[r] EXCEPT !.top = x]
    <3>1. store' = [store EXCEPT ![r] = y]
      BY DEF Push
    <3>2. store[r] \in [cap : Nat, top : Nat] /\ x \in Nat
      BY <1>1, <1>4 DEF StorageInv, MemoryOK
    <3>3. y \in [cap : Nat, top : Nat]
      <4> HIDE DEF x
      <4> QED
        BY <3>2
    <3> HIDE DEF y
    <3> QED
      BY <3>1, <3>3 DEF StorageInv, MemoryOK
  <2>2. view' \in [Supernode -> [owner : 0..NumSupernodes, base : Nat, size : Nat]]
    BY <1>1, <1>3, SizeNatural DEF StorageInv, MemoryOK, Push
  <2> QED
    BY <2>1, <2>2 DEF MemoryOK
<1>6. StackInv'
  <2>1. \A t \in Supernode : pc'[t] # pc[t] =>
           /\ pc'[t] \in {"idle", "spawned", "wait", "gather", "assemble"} =>
                 stack[t] = 0
           /\ SerialSubtree(t) /\ pc'[t] \in {"reserve", "children", "recurse"} =>
                 stack[t] # 0
           /\ pc[t] = "idle" /\ ~IsRoot(t) => stack[Parent[t]] = 0
    BY <1>1
  <2> QED
    BY <2>1, SameStacks DEF StorageInv
<1>7. ASSUME NEW t \in Supernode, Engaged(t), stack[t] = r, t # s
      PROVE  s < t /\ pc[t] = "recurse"
  BY <1>2, <1>7 DEF StorageInv, ChainInv, Supernode
<1>8. ASSUME NEW t \in Supernode, t # s
      PROVE  /\ Before(t)' <=> Before(t)
             /\ Holds(t)' => Holds(t)
             /\ Engaged(t)' => Engaged(t)
             /\ End(t)' = End(t)
             /\ Engaged(t) => Height(t)' = Height(t)
  <2>1. ~IsRoot(t) => Parent[t] \in Supernode
    BY ParentIsSupernode
  <2>2. Engaged(t) /\ stack[t] # t => Parent[t] # s /\ Parent[t] \in Supernode
    BY ParentEngaged DEF StorageInv
  <2>3. Before(t)' <=> Before(t)
    BY <1>1, <1>8 DEF Before
  <2>4. Holds(t)' => Holds(t)
    BY <1>1, <1>8, <2>1 DEF Holds, Holding, Collecting
  <2> QED
    BY <1>4, <1>8, <2>1, <2>2, <2>3, <2>4 DEF Engaged, Height, End
<1>9. Height(s)' = Height(s) /\ End(s)' = Height(s) + SizeForDegree(s)
  <2>1. r # s => Parent[s] \in Supernode /\ Parent[s] # s
    BY <1>2, ParentEngaged, ChildFacts DEF StorageInv
  <2> QED
    BY <1>3, <1>4, <2>1 DEF Height, End
<1>10. ASSUME NEW t \in Supernode, Engaged(t), stack[t] = r, t # s
       PROVE  Holds(t) /\ End(t) <= Height(s)
  <2>1. Holds(t)
    BY <1>7, <1>10 DEF Holds, Holding
  <2> QED
    BY <1>3, <1>10, <2>1 DEF StorageInv, TopInv, Engaged
<1>11. ChainInv'
  <2> SUFFICES ASSUME NEW t \in Supernode, NEW u \in Supernode, Engaged(t)',
                      Engaged(u)', stack[t] = stack[u], t < u
               PROVE  pc'[u] = "recurse" /\ Parent[t] <= u
    BY DEF ChainInv
  <2>1. Engaged(t) /\ Engaged(u)
    BY <1>2, <1>8
  <2>2. u # s
    BY <1>7, <2>1 DEF Supernode
  <2> QED
    BY <1>1, <2>1, <2>2 DEF StorageInv, ChainInv
<1>12. OwnInv'
  <2>1. ASSUME NEW t \in Supernode, Holds(t)', stack[t] = 0
        PROVE  t # s /\ t # r /\ Holds(t)
    BY <1>1, <1>8, <2>1 DEF StorageInv, StackInv
  <2> QED
    BY <1>4, <2>1 DEF StorageInv, OwnInv
<1>13. TopInv'
  <2> SUFFICES ASSUME NEW t \in Supernode, stack[t] # 0, Engaged(t)'
               PROVE  /\ store'[stack[t]].cap = StorageNeeded[stack[t]]
                      /\ store'[stack[t]].top <= store'[stack[t]].cap
                      /\ Before(t)' => store'[stack[t]].top = Height(t)'
                      /\ Holds(t)' =>
                            /\ End(t)' <= store'[stack[t]].top
                            /\ pc'[t] # "recurse" => store'[stack[t]].top = End(t)'
    BY DEF TopInv, Engaged
  <2>1. CASE t = s
    <3> HIDE DEF IndInv, ControlTypeOK
    <3> QED
      BY <1>2, <1>3, <1>4, <1>9, <2>1, SizeNatural
  <2>2. CASE t # s /\ stack[t] = r
    <3>1. /\ pc[t] = "recurse" /\ End(t) <= Height(s) /\ End(t)' = End(t)
          /\ ~Before(t)' /\ pc'[t] = "recurse"
      BY <1>1, <1>7, <1>8, <1>10, <2>2 DEF Before
    <3>2. End(t) \in Int
      BY DEF End, StorageInv, MemoryOK
    <3> QED
      BY <1>3, <1>4, <2>2, <3>1, <3>2, SizeNatural
  <2>3. CASE t # s /\ stack[t] # r
    BY <1>1, <1>4, <1>8, <2>3 DEF StorageInv, TopInv, Supernode
  <2> QED
    BY <2>1, <2>2, <2>3
<1>14. PlaceInv'
  <2> SUFFICES ASSUME NEW t \in Supernode, stack[t] # 0
               PROVE  /\ Holds(t)' => /\ view'[t].owner = stack[t]
                                      /\ view'[t].base = Height(t)'
                                      /\ view'[t].size = SizeForDegree(t)
                      /\ pc'[t] \in Pushing =>
                            Height(t)' + StorageNeeded[t] <= StorageNeeded[stack[t]]
    BY DEF PlaceInv
  <2>1. CASE t = s
    BY <1>3, <1>4, <1>9, <2>1
  <2>2. CASE t # s
    <3>1. pc'[t] \in Pushing => Engaged(t)
      BY <1>1, <2>2 DEF Pushing, Engaged, Before, Holds, Holding
    <3>2. Holds(t)' => Engaged(t) /\ Holds(t)
      BY <1>8, <2>2 DEF Engaged
    <3> QED
      BY <1>1, <1>4, <1>8, <2>2, <3>1, <3>2 DEF StorageInv, PlaceInv
  <2> QED
    BY <2>1, <2>2
<1>15. OrderInv'
  <2> SUFFICES ASSUME NEW t \in Supernode, NEW u \in Supernode, Holds(t)',
                      Holds(u)', stack[t] # 0, stack[t] = stack[u], t < u
               PROVE  End(u)' <= view'[t].base
    BY DEF OrderInv
  <2>1. Engaged(t)' /\ Engaged(u)'
    BY DEF Engaged
  <2>2. CASE t = s
    <3>1. u # s
      BY <2>2 DEF Supernode
    <3> QED
      BY <1>3, <1>4, <1>8, <1>10, <2>1, <2>2, <3>1
  <2>3. CASE t # s /\ u = s
    BY <1>7, <1>8, <2>1, <2>3 DEF Supernode
  <2>4. CASE t # s /\ u # s
    BY <1>4, <1>8, <2>4 DEF StorageInv, OrderInv
  <2> QED
    BY <2>2, <2>3, <2>4
<1> QED
  BY <1>5, <1>6, <1>11, <1>12, <1>13, <1>14, <1>15 DEF StorageInv

\* A frame of a serial subtree merges a child and pops its Schur complement.
LEMMA PopStep ==
    ASSUME IndInv, StorageInv, NEW s \in Supernode, NEW c \in Supernode,
           SerialSubtree(s), ~failed, MergeChild(s, c)
    PROVE  StorageInv'
<1> USE DEF IndInv, ControlTypeOK
<1> DEFINE r == stack[s]
<1>1. /\ pc[s] = "recurse" /\ c \in Children(s) /\ c \notin merged[s]
      /\ pc[c] = "done" /\ c # s /\ c < s /\ Parent[c] = s /\ ~IsRoot(c)
  <2>1. pc[s] = "recurse" /\ c \in Children(s) \ merged[s] /\ pc[c] \in Returned
    BY DEF MergeChild, Step
  <2>2. pc[c] = "done"
    BY <2>1 DEF Returned, FlagInv
  <2> QED
    BY <2>1, <2>2, ChildFacts
<1>2. /\ pc'[s] = "children" /\ UNCHANGED <<stack, threads>>
      /\ \A t \in Supernode : t # s => pc'[t] = pc[t]
      /\ merged'[s] = merged[s] \cup {c}
      /\ \A t \in Supernode : t # s => merged'[t] = merged[t]
  BY DEF MergeChild, Step, UnlessFailed, call
<1>3. /\ r # 0 /\ r \in Supernode /\ s <= r /\ stack[c] = r /\ c # r
  <2>1. r # 0
    BY <1>1 DEF StorageInv, StackInv
  <2>2. r \in Supernode /\ s <= r
    BY <2>1 DEF StorageInv, StackInv, Supernode
  <2>3. stack[c] = r
    BY <1>1, <2>1 DEF StorageInv, StackInv
  <2>4. c # r
    BY <1>1, <2>2 DEF Supernode
  <2> QED
    BY <2>1, <2>2, <2>3, <2>4
<1>4. Holds(c) /\ Engaged(c) /\ Holds(s) /\ Engaged(s)
  BY <1>1, <1>3 DEF Holds, Holding, Collecting, Engaged
<1>5. /\ view[c].size = SizeForDegree(c) /\ view[c].base = End(s)
      /\ store[r].top = End(s) + view[c].size
      /\ store[r].cap = StorageNeeded[r] /\ store[r].top <= store[r].cap
      /\ End(s) \in Nat /\ view[c].size \in Nat
      /\ store[r].top \in Nat /\ store[r].cap \in Nat
  <2>1. Height(c) = End(s)
    BY <1>1, <1>3 DEF Height
  <2>2. view[c].base = End(s) /\ view[c].size = SizeForDegree(c)
    BY <1>3, <1>4, <2>1 DEF StorageInv, PlaceInv
  <2>3. store[r].top = End(c)
    BY <1>1, <1>3, <1>4 DEF StorageInv, TopInv
  <2>4. store[r].cap = StorageNeeded[r] /\ store[r].top <= store[r].cap
    BY <1>3, <1>4 DEF StorageInv, TopInv
  <2>5. /\ view[s].base \in Nat /\ view[s].size \in Nat /\ view[c].size \in Nat
        /\ store[r].top \in Nat /\ store[r].cap \in Nat
    BY <1>3 DEF StorageInv, MemoryOK
  <2>6. End(s) \in Nat
    BY <2>5 DEF End
  <2> QED
    BY <2>2, <2>3, <2>4, <2>5, <2>6 DEF End
<1>6. /\ store' = [store EXCEPT ![r] = [store[r] EXCEPT !.top = End(s)]]
      /\ view' = [view EXCEPT ![c] = NullView]
  <2>1. ReleaseMerged(s, c)
    BY DEF MergeChild
  <2>2. /\ store' = [store EXCEPT ![r].top = @ - view[c].size]
        /\ view' = [view EXCEPT ![c] = NullView]
    BY <2>1 DEF ReleaseMerged
  <2>3. store[r].top - view[c].size = End(s)
    BY <1>5
  <2> QED
    BY <2>2, <2>3
<1>7. /\ MemoryOK' /\ store'[r].top = End(s) /\ store'[r].cap = store[r].cap
      /\ \A t \in Supernode : t # r => store'[t] = store[t]
      /\ \A t \in Supernode : t # c => view'[t] = view[t]
  <2> DEFINE y == [store[r] EXCEPT !.top = End(s)]
  <2>1. store[r] \in [cap : Nat, top : Nat]
    BY <1>3 DEF StorageInv, MemoryOK
  <2>2. y \in [cap : Nat, top : Nat] /\ y.top = End(s) /\ y.cap = store[r].cap
    BY <1>5, <2>1
  <2>3. NullView \in [owner : 0..NumSupernodes, base : Nat, size : Nat]
    BY ForestAssumption DEF NullView
  <2>4. store' = [store EXCEPT ![r] = y] /\ view' = [view EXCEPT ![c] = NullView]
    BY <1>6
  <2> HIDE DEF y
  <2> QED
    BY <1>3, <2>2, <2>3, <2>4 DEF StorageInv, MemoryOK
<1>8. StackInv'
  <2>1. \A t \in Supernode : pc'[t] # pc[t] =>
           /\ pc'[t] \in {"idle", "spawned", "wait", "gather", "assemble"} =>
                 stack[t] = 0
           /\ SerialSubtree(t) /\ pc'[t] \in {"reserve", "children", "recurse"} =>
                 stack[t] # 0
           /\ pc[t] = "idle" /\ ~IsRoot(t) => stack[Parent[t]] = 0
    BY <1>1, <1>2, <1>3
  <2> QED
    BY <1>2, <2>1, SameStacks DEF StorageInv
<1>9. ~Holds(c)' /\ ~Engaged(c)' /\ Holds(s)' /\ Engaged(s)' /\ ~Before(s)
      /\ ~Before(s)'
  BY <1>1, <1>2, <1>3 DEF Engaged, Before, Holds, Holding, Collecting
<1>10. ASSUME NEW t \in Supernode, t # s
       PROVE  /\ Before(t)' <=> Before(t)
              /\ Holds(t)' => Holds(t) /\ t # c
              /\ Engaged(t)' => Engaged(t) /\ t # c
  <2>1. ~IsRoot(t) => Parent[t] \in Supernode
    BY ParentIsSupernode
  <2>2. Before(t)' <=> Before(t)
    BY <1>2, <1>10 DEF Before
  <2>3. Holds(t)' => Holds(t)
    BY <1>2, <1>10, <2>1 DEF Holds, Holding, Collecting
  <2> QED
    BY <1>2, <1>9, <2>2, <2>3 DEF Engaged
<1>11. ASSUME NEW t \in Supernode
       PROVE  /\ t # c => End(t)' = End(t)
              /\ Engaged(t) => Height(t)' = Height(t)
  <2>1. t # c => End(t)' = End(t)
    BY <1>7 DEF End
  <2>2. Engaged(t) /\ stack[t] # t => Parent[t] # c /\ Parent[t] \in Supernode
    BY <1>1, ParentEngaged DEF StorageInv
  <2> QED
    BY <1>2, <1>7, <2>1, <2>2 DEF Height, End
<1>12. ASSUME NEW t \in Supernode, Engaged(t), stack[t] = r, t # s, t # c
       PROVE  s < t /\ pc[t] = "recurse" /\ Holds(t) /\ End(t) <= End(s)
  <2>1. c < t
    BY <1>1, <1>3, <1>4, <1>12 DEF StorageInv, ChainInv, Supernode
  <2>2. s < t
    BY <1>1, <1>3, <1>4, <1>12, <2>1 DEF StorageInv, ChainInv, Supernode
  <2>3. pc[t] = "recurse"
    BY <1>4, <1>12, <2>2 DEF StorageInv, ChainInv
  <2>4. Holds(t)
    BY <2>3 DEF Holds, Holding
  <2>5. End(t) <= view[s].base
    BY <1>3, <1>4, <1>12, <2>2, <2>4 DEF StorageInv, OrderInv
  <2>6. view[s].base \in Nat /\ view[s].size \in Nat /\ End(t) \in Int
    BY DEF StorageInv, MemoryOK, End
  <2> QED
    BY <2>2, <2>3, <2>4, <2>5, <2>6 DEF End
<1>13. ChainInv'
  <2> SUFFICES ASSUME NEW t \in Supernode, NEW u \in Supernode, Engaged(t)',
                      Engaged(u)', stack[t] = stack[u], t < u
               PROVE  pc'[u] = "recurse" /\ Parent[t] <= u
    BY <1>2 DEF ChainInv
  <2>1. Engaged(t) /\ Engaged(u) /\ t # c /\ u # c
    BY <1>4, <1>9, <1>10
  <2>2. u # s
    BY <1>12, <2>1 DEF Supernode
  <2> QED
    BY <1>2, <2>1, <2>2 DEF StorageInv, ChainInv
<1>14. OwnInv'
  <2>1. ASSUME NEW t \in Supernode, Holds(t)', stack[t] = 0
        PROVE  t # s /\ t # r /\ t # c /\ Holds(t)
    BY <1>3, <1>9, <1>10, <2>1 DEF StorageInv, StackInv
  <2> QED
    BY <1>2, <1>7, <2>1 DEF StorageInv, OwnInv
<1>15. TopInv'
  <2> SUFFICES ASSUME NEW t \in Supernode, stack[t] # 0, Engaged(t)'
               PROVE  /\ store'[stack[t]].cap = StorageNeeded[stack[t]]
                      /\ store'[stack[t]].top <= store'[stack[t]].cap
                      /\ Before(t)' => store'[stack[t]].top = Height(t)'
                      /\ Holds(t)' =>
                            /\ End(t)' <= store'[stack[t]].top
                            /\ pc'[t] # "recurse" => store'[stack[t]].top = End(t)'
    BY <1>2 DEF TopInv, Engaged
  <2>1. store'[r].cap = StorageNeeded[r] /\ store'[r].top <= store'[r].cap
    BY <1>5, <1>7
  <2>2. CASE t = s
    BY <1>1, <1>5, <1>7, <1>9, <1>11, <2>1, <2>2
  <2>3. CASE t # s /\ stack[t] = r
    <3>1. t # c /\ Engaged(t)
      BY <1>10, <2>3
    <3>2. /\ pc[t] = "recurse" /\ End(t) <= End(s) /\ End(t)' = End(t)
          /\ ~Before(t)' /\ pc'[t] = "recurse"
      BY <1>2, <1>11, <1>12, <2>3, <3>1 DEF Before
    <3> QED
      BY <1>7, <2>1, <2>3, <3>2
  <2>4. CASE t # s /\ stack[t] # r
    <3>1. t # c /\ Engaged(t)
      BY <1>10, <2>4
    <3>2. stack[t] \in Supernode
      BY DEF Supernode
    <3>3. store'[stack[t]] = store[stack[t]] /\ pc'[t] = pc[t]
          /\ End(t)' = End(t) /\ Height(t)' = Height(t)
      BY <1>2, <1>7, <1>11, <2>4, <3>1, <3>2
    <3> QED
      BY <1>10, <2>4, <3>1, <3>3 DEF StorageInv, TopInv
  <2> QED
    BY <2>2, <2>3, <2>4
<1>16. PlaceInv'
  <2> SUFFICES ASSUME NEW t \in Supernode, stack[t] # 0
               PROVE  /\ Holds(t)' => /\ view'[t].owner = stack[t]
                                      /\ view'[t].base = Height(t)'
                                      /\ view'[t].size = SizeForDegree(t)
                      /\ pc'[t] \in Pushing =>
                            Height(t)' + StorageNeeded[t] <= StorageNeeded[stack[t]]
    BY <1>2 DEF PlaceInv
  <2>1. pc'[t] \in Pushing => pc[t] \in Pushing /\ Engaged(t)
    BY <1>1, <1>2 DEF Pushing, Engaged, Before, Holds, Holding
  <2>2. Holds(t)' => Engaged(t) /\ Holds(t) /\ t # c
    BY <1>1, <1>4, <1>10 DEF Engaged
  <2> QED
    BY <1>7, <1>11, <2>1, <2>2 DEF StorageInv, PlaceInv
<1>17. OrderInv'
  <2> SUFFICES ASSUME NEW t \in Supernode, NEW u \in Supernode, Holds(t)',
                      Holds(u)', stack[t] # 0, stack[t] = stack[u], t < u
               PROVE  End(u)' <= view'[t].base
    BY <1>2 DEF OrderInv
  <2>1. Holds(t) /\ Holds(u) /\ t # c /\ u # c
    BY <1>4, <1>9, <1>10
  <2> QED
    BY <1>7, <1>11, <2>1 DEF StorageInv, OrderInv
<1> QED
  BY <1>7, <1>8, <1>13, <1>14, <1>15, <1>16, <1>17 DEF StorageInv

\* A child gets the stack of the frame that calls it, and the room above the
\* frame's own Schur complement.
LEMMA CallStep ==
    ASSUME IndInv, StorageInv, NEW s \in Supernode, CallChild(s)
    PROVE  StorageInv'
<1> DEFINE r == stack[s]
<1>a. PICK d \in Children(s) :
         /\ pc[d] = "idle" /\ pc[s] = "children"
         /\ pc' = [pc EXCEPT ![s] = "recurse", ![d] = "enter"]
         /\ stack' = [stack EXCEPT ![d] = r]
  <2> DEFINE uncalled == {c \in Children(s) : pc[c] = "idle"}
  <2>1. uncalled # {} /\ uncalled \subseteq Supernode /\ pc[s] = "children"
    BY DEF CallChild, Children
  <2>2. FirstOf(uncalled) \in uncalled
    BY <2>1, FirstIsElement
  <2> QED
    BY <2>1, <2>2 DEF CallChild
<1>b. UNCHANGED <<merged, view, store, threads>>
  BY DEF CallChild, memory, call
<1>1. d \in Supernode /\ d < s /\ d # s /\ Parent[d] = s /\ ~IsRoot(d)
  BY ChildFacts
<1> USE DEF IndInv, ControlTypeOK
<1>2. /\ pc'[s] = "recurse" /\ pc'[d] = "enter" /\ stack'[d] = r
      /\ stack'[s] = r /\ stack[d] = 0
      /\ \A t \in Supernode : t # s /\ t # d => pc'[t] = pc[t]
      /\ \A t \in Supernode : t # d => stack'[t] = stack[t]
  BY <1>a, <1>1 DEF StorageInv, StackInv
<1>3. \A c \in Children(d) : pc[c] = "idle" /\ pc'[c] = "idle"
  <2>1. \A c \in Children(d) : pc[c] = "idle"
    BY <1>a, <1>1 DEF NestInv, Early
  <2>2. \A c \in Children(d) : c \in Supernode /\ c # s /\ c # d
    BY <1>a, <1>1, <2>1, ChildFacts
  <2> QED
    BY <1>2, <2>1, <2>2
<1>4. ASSUME NEW t \in Supernode
      PROVE  /\ t # d => (Before(t)' <=> Before(t))
             /\ t # d /\ Holds(t)' => Holds(t)
             /\ ~Holds(d)' /\ Before(d)'
             /\ t # d /\ Engaged(t)' => Engaged(t)
  <2>1. ~IsRoot(t) => Parent[t] \in Supernode /\ t \in Children(Parent[t])
    BY ParentIsSupernode
  <2>2. t # d => (Before(t)' <=> Before(t))
    BY <1>a, <1>2 DEF Before
  <2>3. ~Holds(d)' /\ Before(d)'
    BY <1>2 DEF Holds, Before, Holding
  <2>4. ASSUME t # d, Holds(t)', pc'[t] = "done" PROVE Holds(t)
    <3>1. ~IsRoot(t) /\ t \notin merged[Parent[t]] /\ pc'[Parent[t]] \in Collecting
      BY <1>b, <2>4 DEF Holds, Holding
    <3>2. pc[t] = "done"
      BY <1>2, <2>4
    <3>3. Parent[t] # s
      BY <1>a, <2>1, <3>1, <3>2 DEF NestInv
    <3>4. Parent[t] # d
      BY <1>2, <3>1 DEF Collecting
    <3> QED
      BY <1>2, <2>1, <3>1, <3>2, <3>3, <3>4 DEF Holds
  <2>5. ASSUME t # d, Holds(t)', pc'[t] # "done" PROVE Holds(t)
    BY <1>a, <1>2, <2>5 DEF Holds, Holding
  <2> QED
    BY <1>2, <2>2, <2>3, <2>4, <2>5 DEF Engaged
<1>5. CASE r = 0
  <2>1. UNCHANGED stack
    BY <1>a, <1>2, <1>5
  <2>2. ~SerialSubtree(s)
    BY <1>a, <1>5 DEF StorageInv, StackInv
  <2>3. \A t \in Supernode : pc'[t] # pc[t] =>
           /\ pc'[t] \in {"idle", "spawned", "wait", "gather", "assemble"} =>
                 stack[t] = 0
           /\ SerialSubtree(t) /\ pc'[t] \in {"reserve", "children", "recurse"} =>
                 stack[t] # 0
           /\ pc[t] = "idle" /\ ~IsRoot(t) => stack[Parent[t]] = 0
    BY <1>a, <1>1, <1>2, <1>5, <2>2
  <2>4. StackInv'
    BY <1>b, <2>1, <2>3, SameStacks DEF StorageInv
  <2>5. ASSUME NEW t \in Supernode
        PROVE  /\ Holds(t)' => Holds(t)
               /\ stack[t] # 0 =>
                    /\ Before(t)' => Before(t)
                    /\ pc'[t] \in Pushing => pc[t] \in Pushing
                    /\ Holds(t)' => (pc'[t] = "recurse" <=> pc[t] = "recurse")
    BY <1>2, <1>4, <1>5
  <2> QED
    BY <1>b, <2>1, <2>4, <2>5, QuietStep
<1>6. CASE r # 0
  <2>1. r \in Supernode /\ s <= r /\ d # r /\ stack[r] = r /\ SerialSubtree(s)
    <3>1. r \in Supernode /\ s <= r /\ stack[r] = r /\ SerialSubtree(s)
      BY <1>6 DEF StorageInv, StackInv, Supernode
    <3> QED
      BY <1>1, <3>1 DEF Supernode
  <2>2. Engaged(s) /\ Engaged(s)' /\ Holds(s) /\ ~Before(s) /\ Engaged(d)'
    BY <1>a, <1>2, <1>4, <1>6 DEF Engaged, Holds, Holding, Before
  <2>3. ASSUME NEW t \in Supernode, Engaged(t), stack[t] = r, t # s
        PROVE  s < t /\ pc[t] = "recurse"
    BY <1>a, <2>2, <2>3 DEF StorageInv, ChainInv, Supernode
  <2>4. ASSUME NEW t \in Supernode
        PROVE  /\ End(t)' = End(t)
               /\ t # d => Height(t)' = Height(t)
               /\ Height(d)' = End(s)
    BY <1>b, <1>1, <1>2, <2>1 DEF End, Height
  <2>5. MemoryOK'
    BY <1>b DEF StorageInv, MemoryOK
  <2>6. StackInv'
    <3> SUFFICES ASSUME NEW t \in Supernode
                 PROVE
          /\ pc'[t] \in {"idle", "spawned", "wait", "gather", "assemble"} =>
                stack'[t] = 0
          /\ stack'[t] # 0 =>
                /\ SerialSubtree(t)
                /\ t <= stack'[t] /\ stack'[stack'[t]] = stack'[t]
                /\ stack'[t] # t =>
                      ~IsRoot(t) /\ stack'[Parent[t]] = stack'[t]
                /\ \A c \in Children(t) :
                      pc'[c] # "idle" => stack'[c] = stack'[t]
          /\ SerialSubtree(t) /\ pc'[t] \in {"reserve", "children", "recurse"} =>
                stack'[t] # 0
      BY <1>b DEF StackInv, SerialSubtree, ParallelWork
    <3>1. CASE t = d
      <4>1. SerialSubtree(d)
        BY <1>a, <2>1, SerialBelow
      <4>2. d <= r
        BY <1>1, <2>1 DEF Supernode
      <4> QED
        BY <1>1, <1>2, <1>3, <2>1, <3>1, <4>1, <4>2
    <3>2. CASE t # d
      <4>1. stack'[t] = stack[t]
        BY <1>2, <3>2
      <4>2. /\ pc'[t] \in {"idle", "spawned", "wait", "gather", "assemble"} =>
                  stack[t] = 0
            /\ SerialSubtree(t) /\ pc'[t] \in {"reserve", "children", "recurse"} =>
                  stack[t] # 0
        BY <1>2, <1>6, <3>2 DEF StorageInv, StackInv
      <4>3. ASSUME stack[t] # 0
            PROVE  /\ SerialSubtree(t)
                   /\ t <= stack[t] /\ stack'[stack[t]] = stack[t]
        <5>1. /\ SerialSubtree(t) /\ t <= stack[t]
              /\ stack[stack[t]] = stack[t] /\ stack[t] \in Supernode
          BY <4>3 DEF StorageInv, StackInv, Supernode
        <5>2. stack[t] # d
          BY <1>2, <4>3, <5>1
        <5> QED
          BY <1>2, <5>1, <5>2
      <4>4. ASSUME stack[t] # 0, stack[t] # t
            PROVE  ~IsRoot(t) /\ stack'[Parent[t]] = stack[t]
        <5>1. ~IsRoot(t) /\ stack[Parent[t]] = stack[t]
          BY <4>4 DEF StorageInv, StackInv
        <5>2. Parent[t] \in Supernode /\ Parent[t] # d
          BY <1>2, <4>4, <5>1, ParentIsSupernode
        <5> QED
          BY <1>2, <5>1, <5>2
      <4>5. ASSUME stack[t] # 0, NEW c \in Children(t), pc'[c] # "idle"
            PROVE  stack'[c] = stack[t]
        <5>1. c \in Supernode /\ Parent[c] = t
          BY ChildFacts
        <5>2. CASE c = d
          BY <1>1, <1>2, <5>1, <5>2
        <5>3. CASE c # d
          <6>1. pc[c] # "idle"
            BY <1>a, <1>2, <4>5, <5>1, <5>3
          <6> QED
            BY <1>2, <4>5, <5>1, <5>3, <6>1 DEF StorageInv, StackInv
        <5> QED
          BY <5>2, <5>3
      <4> QED
        BY <4>1, <4>2, <4>3, <4>4, <4>5
    <3> QED
      BY <3>1, <3>2
  <2>7. ChainInv'
    <3> SUFFICES ASSUME NEW t \in Supernode, NEW u \in Supernode, Engaged(t)',
                        Engaged(u)', stack'[t] = stack'[u], t < u
                 PROVE  pc'[u] = "recurse" /\ Parent[t] <= u
      BY DEF ChainInv
    <3>1. CASE t = d
      <4>1. u # d
        BY <3>1 DEF Supernode
      <4>2. u = s \/ (s < u /\ pc[u] = "recurse")
        BY <1>2, <1>4, <2>3, <3>1, <4>1
      <4> QED
        BY <1>1, <1>2, <3>1, <4>1, <4>2 DEF Supernode
    <3>2. CASE u = d
      <4>1. t # d
        BY <3>2 DEF Supernode
      <4>2. t = s \/ s < t
        BY <1>2, <1>4, <2>3, <3>2, <4>1
      <4> QED
        BY <1>1, <3>2, <4>2 DEF Supernode
    <3>3. CASE t # d /\ u # d
      BY <1>2, <1>4, <3>3 DEF StorageInv, ChainInv
    <3> QED
      BY <3>1, <3>2, <3>3
  <2>8. OwnInv'
    BY <1>b, <1>2, <1>4, <1>6 DEF StorageInv, OwnInv
  <2>9. store[r].cap = StorageNeeded[r] /\ store[r].top <= store[r].cap
        /\ store[r].top = End(s)
    BY <1>a, <1>6, <2>2 DEF StorageInv, TopInv
  <2>10. TopInv'
    <3> SUFFICES ASSUME NEW t \in Supernode, stack'[t] # 0, Engaged(t)'
                 PROVE  /\ store[stack'[t]].cap = StorageNeeded[stack'[t]]
                        /\ store[stack'[t]].top <= store[stack'[t]].cap
                        /\ Before(t)' => store[stack'[t]].top = Height(t)'
                        /\ Holds(t)' =>
                            /\ End(t)' <= store[stack'[t]].top
                            /\ pc'[t] # "recurse" =>
                                  store[stack'[t]].top = End(t)'
      BY <1>b DEF TopInv, Engaged
    <3>1. CASE t = d
      BY <1>2, <1>4, <2>4, <2>9, <3>1
    <3>2. CASE t # d
      BY <1>2, <1>4, <2>4, <3>2 DEF StorageInv, TopInv
    <3> QED
      BY <3>1, <3>2
  <2>11. PlaceInv'
    <3>1. End(s) + StorageNeeded[d] <= StorageNeeded[r]
      <4>1. Height(s) + StorageNeeded[s] <= StorageNeeded[r]
        BY <1>a, <1>6 DEF StorageInv, PlaceInv, Pushing
      <4>2. view[s].base = Height(s) /\ view[s].size = SizeForDegree(s)
        BY <1>6, <2>2 DEF StorageInv, PlaceInv
      <4>3. /\ StorageNeeded[d] \in Nat /\ StorageNeeded[s] \in Nat
            /\ StorageNeeded[r] \in Nat
            /\ StorageNeeded[d] + SizeForDegree(s) <= StorageNeeded[s]
        BY <1>a, <1>1, <2>1, EstimatesAreMonotone DEF EstimatesGrow
      <4>4. view[s].base \in Nat /\ SizeForDegree(s) \in Nat
        BY SizeNatural DEF StorageInv, MemoryOK
      <4>5. Height(s) \in Nat /\ End(s) = Height(s) + SizeForDegree(s)
        BY <4>2, <4>4 DEF End
      <4> HIDE DEF IndInv, ControlTypeOK
      <4> QED
        BY <4>1, <4>3, <4>4, <4>5
    <3> SUFFICES ASSUME NEW t \in Supernode, stack'[t] # 0
                 PROVE  /\ Holds(t)' => /\ view[t].owner = stack'[t]
                                        /\ view[t].base = Height(t)'
                                        /\ view[t].size = SizeForDegree(t)
                        /\ pc'[t] \in Pushing =>
                              Height(t)' + StorageNeeded[t]
                                 <= StorageNeeded[stack'[t]]
      BY <1>b DEF PlaceInv
    <3>2. CASE t = d
      BY <1>2, <1>4, <2>4, <3>1, <3>2
    <3>3. CASE t # d
      <4>1. pc'[t] \in Pushing => pc[t] \in Pushing
        BY <1>a, <1>2, <3>3 DEF Pushing
      <4> QED
        BY <1>2, <1>4, <2>4, <3>3, <4>1 DEF StorageInv, PlaceInv
    <3> QED
      BY <3>2, <3>3
  <2>12. OrderInv'
    BY <1>b, <1>2, <1>4, <2>4 DEF StorageInv, OrderInv
  <2> QED
    BY <2>5, <2>6, <2>7, <2>8, <2>10, <2>11, <2>12 DEF StorageInv
<1> QED
  BY <1>5, <1>6

\* A parallel node has no stack to hand on to the children it spawns.
LEMMA SpawnStep ==
    ASSUME IndInv, StorageInv, NEW s \in Supernode,
           SpawnChildren(s)
    PROVE  StorageInv'
<1> USE DEF IndInv, ControlTypeOK
<1>1. stack[s] = 0
  <2>1. ~SerialSubtree(s)
    BY DEF SpawnChildren, ParallelNode, SerialSubtree
  <2> QED
    BY <2>1 DEF StorageInv, StackInv
<1>2. LastOf(Children(s)) \in Children(s)
  <2>1. Children(s) # {} /\ Children(s) \subseteq Supernode
    BY ChildrenOfParallelNode DEF SpawnChildren, Children
  <2> QED
    BY <2>1, LastIsElement
<1>3. /\ pc[s] = "begin" /\ pc'[s] = "wait"
      /\ \A c \in Children(s) : pc'[c] \in {"spawned", "enter"}
      /\ \A t \in Supernode : t # s /\ t \notin Children(s) => pc'[t] = pc[t]
      /\ UNCHANGED <<stack, merged, view, store, threads>>
  BY <1>2, ChildFacts DEF SpawnChildren, memory, call
<1>4. \A c \in Children(s) : /\ c \in Supernode /\ c # s /\ pc[c] = "idle"
                             /\ stack[c] = 0 /\ Parent[c] = s
  BY <1>3, ChildFacts DEF StorageInv, StackInv, NestInv, Early
<1>5. StackInv'
  <2>1. \A t \in Supernode : pc'[t] # pc[t] =>
           /\ pc'[t] \in {"idle", "spawned", "wait", "gather", "assemble"} =>
                 stack[t] = 0
           /\ SerialSubtree(t) /\ pc'[t] \in {"reserve", "children", "recurse"} =>
                 stack[t] # 0
           /\ pc[t] = "idle" /\ ~IsRoot(t) => stack[Parent[t]] = 0
    <3> SUFFICES ASSUME NEW t \in Supernode, pc'[t] # pc[t]
                 PROVE  /\ stack[t] = 0
                        /\ pc'[t] \notin {"reserve", "children", "recurse"}
                        /\ pc[t] = "idle" => stack[Parent[t]] = 0
      OBVIOUS
    <3>1. t = s \/ t \in Children(s)
      BY <1>3
    <3> QED
      BY <1>1, <1>3, <1>4, <3>1
  <2> QED
    BY <1>3, <2>1, SameStacks DEF StorageInv
<1>6. ASSUME NEW t \in Supernode
      PROVE  /\ Holds(t)' => Holds(t)
             /\ stack[t] # 0 =>
                  /\ Before(t)' => Before(t)
                  /\ pc'[t] \in Pushing => pc[t] \in Pushing
                  /\ Holds(t)' => (pc'[t] = "recurse" <=> pc[t] = "recurse")
  <2>1. CASE t = s
    BY <1>1, <1>3, <2>1 DEF Holds, Holding
  <2>2. CASE t \in Children(s)
    BY <1>3, <1>4, <2>2 DEF Holds, Holding
  <2>3. CASE t # s /\ t \notin Children(s)
    <3>1. ~IsRoot(t) => Parent[t] \in Supernode /\ Parent[t] # s
      BY <2>3, ParentIsSupernode
    <3>2. ~IsRoot(t) /\ pc'[Parent[t]] \in Collecting => pc[Parent[t]] \in Collecting
      BY <1>3, <3>1 DEF Collecting
    <3>3. Holds(t)' => Holds(t)
      BY <1>3, <2>3, <3>1, <3>2 DEF Holds
    <3> QED
      BY <1>3, <2>3, <3>3 DEF Before
  <2> QED
    BY <2>1, <2>2, <2>3
<1> QED
  BY <1>3, <1>5, <1>6, QuietStep

\* The storage of all children is released after a merge or a failed wait, a
\* single child's after its merge, and a root's when it returns.
LEMMA GiveBackStep ==
    ASSUME IndInv, StorageInv, NEW s \in Supernode, NEW l,
           NEW R \in SUBSET Supernode,
           \/ /\ pc[s] \in {"gather", "assemble"} /\ R = Children(s)
              /\ l = "returnFalse" \/ (l = "diagonal" /\ pc[s] = "assemble")
              /\ \A t \in Supernode : t # s => merged'[t] = merged[t]
           \/ /\ pc[s] = "recurse" /\ l = "children" /\ ~SerialSubtree(s)
              /\ \E c \in Children(s) :
                    /\ pc[c] \in Returned /\ R = {c}
                    /\ merged' = [merged EXCEPT ![s] = @ \cup {c}]
           \/ /\ pc[s] = "diagonal" /\ l = "done" /\ IsRoot(s)
              /\ R = {s} /\ UNCHANGED merged
           \/ /\ pc[s] = "returnFalse" /\ l = "aborted" /\ IsRoot(s)
              /\ R = {s} /\ UNCHANGED merged,
           pc' = [pc EXCEPT ![s] = l], MemoryOK',
           UNCHANGED <<stack, threads>>,
           \A t \in Supernode \ R : view'[t] = view[t] /\ store'[t] = store[t]
    PROVE  StorageInv'
<1> USE DEF IndInv, ControlTypeOK
<1>1. pc'[s] = l /\ \A t \in Supernode : t # s => pc'[t] = pc[t]
  OBVIOUS
<1>2. pc[s] = "recurse" /\ ~SerialSubtree(s) => stack[s] = 0
  BY DEF StorageInv, StackInv
<1>3. pc[s] \in {"gather", "assemble"} => \A c \in Children(s) : pc[c] \in Returned
  BY DEF NestInv, Returned
<1>4. StackInv'
  <2>1. \A t \in Supernode : pc'[t] # pc[t] =>
           /\ pc'[t] \in {"idle", "spawned", "wait", "gather", "assemble"} =>
                 stack[t] = 0
           /\ SerialSubtree(t) /\ pc'[t] \in {"reserve", "children", "recurse"} =>
                 stack[t] # 0
           /\ pc[t] = "idle" /\ ~IsRoot(t) => stack[Parent[t]] = 0
    BY <1>1
  <2> QED
    BY <2>1, SameStacks DEF StorageInv
<1>5. ASSUME NEW t \in R
      PROVE  pc[t] # "recurse" /\ ~Before(t)' /\ ~Holds(t)'
  <2>1. CASE t \in Children(s) /\ pc[t] \in Returned
    <3>1. t \in Supernode /\ t # s /\ Parent[t] = s
      BY <2>1, ChildFacts
    <3>2. pc'[t] = pc[t] /\ pc[t] \in Returned
      BY <1>1, <2>1, <3>1
    <3>3. l \notin Collecting
      BY <2>1, <3>1 DEF Collecting
    <3> QED
      BY <1>1, <3>1, <3>2, <3>3 DEF Returned, Before, Holds, Holding
  <2>2. CASE t = s /\ IsRoot(s) /\ pc[s] \in {"diagonal", "returnFalse"}
             /\ l \in {"done", "aborted"}
    BY <1>1, <2>2 DEF Before, Holds, Holding
  <2> QED
    BY <1>3, <1>5, <2>1, <2>2
<1>6. ASSUME NEW t \in Supernode
      PROVE  /\ Holds(t)' => Holds(t)
             /\ stack[t] # 0 =>
                  /\ Before(t)' => Before(t)
                  /\ pc'[t] \in Pushing => pc[t] \in Pushing
                  /\ Holds(t)' => (pc'[t] = "recurse" <=> pc[t] = "recurse")
  <2>1. CASE t = s
    BY <1>1, <1>2, <2>1 DEF Holds, Holding, Before, Pushing
  <2>2. CASE t # s
    <3>1. ~IsRoot(t) => Parent[t] \in Supernode
      BY ParentIsSupernode
    <3>2. ~IsRoot(t) /\ t \notin merged'[Parent[t]] /\ pc'[Parent[t]] \in Collecting
             => t \notin merged[Parent[t]] /\ pc[Parent[t]] \in Collecting
      BY <1>1, <3>1 DEF Collecting
    <3> QED
      BY <1>1, <2>2, <3>2 DEF Holds, Before
  <2> QED
    BY <2>1, <2>2
<1> QED
  BY <1>4, <1>5, <1>6, ReleaseStep

-----------------------------------------------------------------------------
(***************************************************************************)
(* All steps.                                                              *)
(***************************************************************************)
\* A step of any frame keeps the storage in order.
LEMMA FrameKeepsStorage ==
    ASSUME IndInv, StorageInv, NEW s \in Supernode, Frame(s)
    PROVE  StorageInv'
<1> USE DEF Step, memory, shared, call
<1>1. CASE RunTask(s)
  BY <1>1, PassingStep DEF RunTask, Passes
<1>2. CASE DropTask(s) \/ ReserveFailed(s) \/ OuterProduct(s)
  BY <1>2, PassingStep DEF DropTask, ReserveFailed, OuterProduct, Passes
<1>3. CASE Enter(s)
  BY <1>3, PassingStep DEF Enter, Passes
<1>4. CASE BeginSerial(s)
  <2>1. CASE ~failed /\ SerialSubtree(s) /\ stack[s] = 0
    BY <1>4, <2>1, NewStackStep DEF BeginSerial, UnlessFailed
  <2>2. CASE ~(~failed /\ SerialSubtree(s) /\ stack[s] = 0)
    <3>1. /\ pc[s] = "begin" /\ pc' = [pc EXCEPT ![s] = UnlessFailed("reserve")]
          /\ UNCHANGED <<stack, view, store, merged, threads>>
      BY <1>4, <2>2 DEF BeginSerial
    <3>2. Passes(s, UnlessFailed("reserve"))
      BY <2>2, <3>1 DEF Passes, UnlessFailed
    <3> QED
      BY <3>1, <3>2, PassingStep
  <2> QED
    BY <2>1, <2>2
<1>5. CASE ReserveFront(s)
  <2>1. /\ pc[s] = "reserve" /\ pc' = [pc EXCEPT ![s] = "children"]
        /\ UNCHANGED <<stack, merged, threads>>
        /\ AllocateOwn(s) \/ Push(s)
    BY <1>5 DEF ReserveFront, AllocateSchurComplement
  <2>2. CASE AllocateOwn(s)
    <3>1. ~SerialSubtree(s)
      BY <2>1, <2>2 DEF StorageInv, StackInv, AllocateOwn
    <3> QED
      BY <2>1, <2>2, <3>1, OwnBufferStep
  <2>3. CASE Push(s)
    BY <2>1, <2>3, PushStep
  <2> QED
    BY <2>1, <2>2, <2>3
<1>6. CASE CallChild(s)
  BY <1>6, CallStep
<1>7. ASSUME NEW c \in Supernode, MergeChild(s, c) PROVE StorageInv'
  <2>1. CASE failed
    BY <1>7, <2>1, PassingStep DEF MergeChild, UnlessFailed, Passes
  <2>2. CASE ~failed /\ SerialSubtree(s)
    BY <1>7, <2>2, PopStep
  <2>3. CASE ~failed /\ ~SerialSubtree(s)
    <3>1. /\ pc[s] = "recurse" /\ c \in Children(s) /\ pc[c] \in Returned
          /\ pc' = [pc EXCEPT ![s] = "children"]
          /\ merged' = [merged EXCEPT ![s] = @ \cup {c}]
          /\ store' = [store EXCEPT ![c] = NoStorage]
          /\ UNCHANGED <<stack, threads, view>>
      BY <1>7, <2>3 DEF MergeChild, UnlessFailed, ReleaseMerged
    <3>2. MemoryOK'
      BY <3>1 DEF StorageInv, MemoryOK, NoStorage
    <3>3. \A t \in Supernode \ {c} : view'[t] = view[t] /\ store'[t] = store[t]
      BY <3>1 DEF StorageInv, MemoryOK
    <3> QED
      BY <2>3, <3>1, <3>2, <3>3, GiveBackStep
  <2> QED
    BY <2>1, <2>2, <2>3
<1>8. CASE ChildrenMerged(s)
  BY <1>8, PassingStep DEF ChildrenMerged, UnlessFailed, Passes
<1>9. CASE SpawnChildren(s)
  BY <1>9, SpawnStep
<1>10. CASE JoinChildren(s)
  BY <1>10, PassingStep DEF JoinChildren, Passes
<1>11. CASE StartAssembly(s)
  BY <1>11, OwnBufferStep DEF StartAssembly
<1>12. ASSUME ReleaseChildren(s)
       PROVE  /\ MemoryOK'
              /\ \A t \in Supernode \ Children(s) :
                    view'[t] = view[t] /\ store'[t] = store[t]
  <2>1. NoStorage \in [cap : Nat, top : Nat]
        /\ NullView \in [owner : 0..NumSupernodes, base : Nat, size : Nat]
    BY ForestAssumption DEF NoStorage, NullView
  <2> QED
    BY <1>12, <2>1 DEF ReleaseChildren, StorageInv, MemoryOK
<1>13. Children(s) \in SUBSET Supernode
  BY DEF Children
<1>14. CASE GatherFailed(s)
  <2>1. /\ pc[s] = "gather" /\ pc' = [pc EXCEPT ![s] = "returnFalse"]
        /\ ReleaseChildren(s) /\ UNCHANGED <<stack, merged, threads>>
    BY <1>14 DEF GatherFailed
  <2> QED
    BY <1>12, <1>13, <2>1, GiveBackStep
<1>15. CASE Assemble(s)
  <2>1. /\ pc[s] = "assemble" /\ pc' = [pc EXCEPT ![s] = UnlessFailed("diagonal")]
        /\ UnlessFailed("diagonal") \in {"diagonal", "returnFalse"}
        /\ ReleaseChildren(s) /\ UNCHANGED <<stack, threads>>
    BY <1>15 DEF Assemble, UnlessFailed
  <2>2. \A t \in Supernode : t # s => merged'[t] = merged[t]
    BY <1>15 DEF Assemble, IndInv, ControlTypeOK
  <2> QED
    BY <1>12, <1>13, <2>1, <2>2, GiveBackStep
<1>16. CASE CutKernel(s)
  <2>1. UNCHANGED <<pc, stack, merged, view, store, threads>>
    BY <1>16 DEF CutKernel
  <2>2. StackInv'
    BY <2>1, SameStacks DEF StorageInv
  <2> QED
    BY <2>1, <2>2, QuietStep DEF Holds, Before
<1>17. ASSUME IsRoot(s), store' = [store EXCEPT ![s] = NoStorage], UNCHANGED view
       PROVE  /\ MemoryOK' /\ {s} \in SUBSET Supernode
              /\ \A t \in Supernode \ {s} : view'[t] = view[t] /\ store'[t] = store[t]
  BY <1>17 DEF StorageInv, MemoryOK, NoStorage
<1>18. CASE FactorDiagonal(s)
  <2>1. /\ pc[s] = "diagonal" /\ UNCHANGED <<stack, merged, view, threads>>
        /\ pc' = [pc EXCEPT ![s] = IF Degree[s] = 0 THEN "done" ELSE UnlessFailed("solve")]
        /\ store' = [store EXCEPT ![s] = IF IsRoot(s) THEN NoStorage ELSE @]
    BY <1>18 DEF FactorDiagonal
  <2>2. IsRoot(s) <=> Degree[s] = 0
    BY ForestAssumption DEF IsRoot
  <2>3. CASE IsRoot(s)
    <3>1. /\ pc' = [pc EXCEPT ![s] = "done"]
          /\ store' = [store EXCEPT ![s] = NoStorage]
      BY <2>1, <2>2, <2>3
    <3> QED
      BY <1>17, <2>1, <2>3, <3>1, GiveBackStep
  <2>4. CASE ~IsRoot(s)
    <3>1. pc' = [pc EXCEPT ![s] = UnlessFailed("solve")] /\ UNCHANGED store
      BY <2>1, <2>2, <2>4 DEF StorageInv, MemoryOK
    <3>2. Passes(s, UnlessFailed("solve"))
      BY <2>1 DEF Passes, UnlessFailed
    <3> QED
      BY <2>1, <3>1, <3>2, PassingStep
  <2> QED
    BY <2>3, <2>4
<1>19. CASE BreakDown(s)
  BY <1>19, PassingStep DEF BreakDown, Passes
<1>20. CASE SolveAgainstDiagonal(s)
  BY <1>20, PassingStep DEF SolveAgainstDiagonal, UnlessFailed, Passes
<1>21. CASE CancelExecution(s)
  BY <1>21, PassingStep DEF CancelExecution, Passes
<1>22. CASE ReturnFalse(s)
  <2>1. /\ pc[s] = "returnFalse" /\ UNCHANGED <<stack, merged, view, threads>>
        /\ pc' = [pc EXCEPT ![s] = IF IsRoot(s) THEN "aborted" ELSE "cancelChild"]
        /\ store' = [store EXCEPT ![s] = IF IsRoot(s) THEN NoStorage ELSE @]
    BY <1>22 DEF ReturnFalse
  <2>2. CASE IsRoot(s)
    <3>1. /\ pc' = [pc EXCEPT ![s] = "aborted"]
          /\ store' = [store EXCEPT ![s] = NoStorage]
      BY <2>1, <2>2
    <3> QED
      BY <1>17, <2>1, <2>2, <3>1, GiveBackStep
  <2>3. CASE ~IsRoot(s)
    <3>1. pc' = [pc EXCEPT ![s] = "cancelChild"] /\ UNCHANGED store
      BY <2>1, <2>3 DEF StorageInv, MemoryOK
    <3>2. Passes(s, "cancelChild")
      BY <2>1 DEF Passes
    <3> QED
      BY <2>1, <3>1, <3>2, PassingStep
  <2> QED
    BY <2>2, <2>3
<1> QED
  BY <1>1, <1>2, <1>3, <1>4, <1>5, <1>6, <1>7, <1>8, <1>9, <1>10, <1>11,
     <1>14, <1>15, <1>16, <1>18, <1>19, <1>20, <1>21, <1>22 DEF Frame

\* So does a step of BlockRightLooking itself.
LEMMA DriverKeepsStorage ==
    ASSUME IndInv, StorageInv, Start \/ Driver PROVE StorageInv'
<1> USE DEF memory, shared, call
<1>1. CASE Start
  <2>1. /\ \A t \in Supernode : pc'[t] = "idle" /\ stack'[t] = 0
        /\ UNCHANGED <<view, store>>
    BY <1>1 DEF Start, StartCall
  <2>2. \A t \in Supernode : ~Holds(t)' /\ ~Engaged(t)'
    BY <2>1 DEF Holds, Holding, Engaged
  <2>3. MemoryOK'
    BY <2>1 DEF StorageInv, MemoryOK
  <2>4. StackInv'
    BY <2>1 DEF StackInv
  <2>5. ChainInv' /\ OwnInv' /\ TopInv' /\ PlaceInv' /\ OrderInv'
    BY <2>1, <2>2 DEF ChainInv, OwnInv, TopInv, PlaceInv, OrderInv
  <2> QED
    BY <2>3, <2>4, <2>5 DEF StorageInv
<1>2. CASE Driver
  <2>1. UNCHANGED <<stack, merged, view, store, threads>>
    BY <1>2 DEF Driver, NextRoot, RootLoopDone, SpawnRoots, JoinRoots, ReturnResult
  <2>2. \A t \in Supernode :
           pc'[t] = pc[t] \/ (t \in Roots /\ pc[t] = "idle"
                              /\ pc'[t] \in {"begin", "spawned"})
    <3>1. CASE NextRoot
      <4> DEFINE uncalled == {r \in Roots : pc[r] = "idle"}
      <4>1. uncalled # {} /\ uncalled \subseteq Supernode
        BY <3>1 DEF NextRoot, Roots
      <4>2. FirstOf(uncalled) \in uncalled
        BY <4>1, FirstIsElement
      <4>3. pc' = [pc EXCEPT ![FirstOf(uncalled)] = "begin"]
        BY <3>1 DEF NextRoot
      <4> QED
        BY <4>2, <4>3 DEF IndInv, ControlTypeOK
    <3>2. CASE SpawnRoots
      <4>1. \A t \in Roots : pc[t] = "idle"
        BY <3>2 DEF SpawnRoots, IndInv, RootInv
      <4>2. Roots # {}
        BY <3>2, FS_EmptySet DEF SpawnRoots, SerialRoots
      <4>3. LastOf(Roots) \in Roots
        BY <4>2, LastIsElement DEF Roots
      <4> QED
        BY <3>2, <4>1, <4>3 DEF SpawnRoots
    <3>3. CASE RootLoopDone \/ JoinRoots \/ ReturnResult
      BY <3>3 DEF RootLoopDone, JoinRoots, ReturnResult
    <3> QED
      BY <1>2, <3>1, <3>2, <3>3 DEF Driver
  <2>3. \A t \in Supernode : pc[t] = "idle" => stack[t] = 0
    BY DEF StorageInv, StackInv
  <2>4. StackInv'
    <3>1. \A t \in Supernode : pc'[t] # pc[t] =>
             /\ pc'[t] \in {"idle", "spawned", "wait", "gather", "assemble"} =>
                   stack[t] = 0
             /\ SerialSubtree(t) /\ pc'[t] \in {"reserve", "children", "recurse"} =>
                   stack[t] # 0
             /\ pc[t] = "idle" /\ ~IsRoot(t) => stack[Parent[t]] = 0
      BY <2>2, <2>3 DEF Roots
    <3> QED
      BY <2>1, <3>1, SameStacks DEF StorageInv
  <2>5. ASSUME NEW t \in Supernode
        PROVE  /\ Holds(t)' => Holds(t)
               /\ stack[t] # 0 =>
                    /\ Before(t)' => Before(t)
                    /\ pc'[t] \in Pushing => pc[t] \in Pushing
                    /\ Holds(t)' => (pc'[t] = "recurse" <=> pc[t] = "recurse")
    <3>1. ~IsRoot(t) => Parent[t] \in Supernode
      BY ParentIsSupernode
    <3>2. ~IsRoot(t) /\ pc'[Parent[t]] \in Collecting => pc[Parent[t]] \in Collecting
      BY <2>2, <3>1 DEF Collecting
    <3>3. Holds(t)' => Holds(t)
      BY <2>1, <2>2, <3>2 DEF Holds, Holding
    <3> QED
      BY <2>2, <2>3, <3>3 DEF Before
  <2> QED
    BY <2>1, <2>4, <2>5, QuietStep
<1> QED
  BY <1>1, <1>2

\* Stuttering changes nothing.
LEMMA StutterKeepsStorage ==
    ASSUME IndInv, StorageInv, UNCHANGED vars PROVE StorageInv'
<1>1. UNCHANGED <<pc, stack, merged, view, store, threads>>
  BY DEF vars, memory, call
<1>2. StackInv'
  BY <1>1, SameStacks DEF StorageInv
<1> QED
  BY <1>1, <1>2, QuietStep DEF Holds, Before

\* The storage is in order in every reachable state.
THEOREM StorageInOrder == Spec => []StorageInv
<1>1. Init => StorageInv
  <2> SUFFICES ASSUME Init PROVE StorageInv
    OBVIOUS
  <2>1. \A t \in Supernode : /\ pc[t] = "idle" /\ stack[t] = 0
                             /\ ~Holds(t) /\ ~Engaged(t)
    BY DEF Init, Holds, Holding, Engaged
  <2>2. MemoryOK
    BY ForestAssumption DEF Init, MemoryOK, NullView, NoStorage
  <2>3. StackInv
    BY <2>1 DEF StackInv
  <2>4. ChainInv /\ OwnInv /\ TopInv /\ PlaceInv /\ OrderInv
    BY <2>1 DEF ChainInv, OwnInv, TopInv, PlaceInv, OrderInv
  <2> QED
    BY <2>2, <2>3, <2>4 DEF StorageInv
<1>2. IndInv /\ StorageInv /\ [Next]_vars => StorageInv'
  <2> SUFFICES ASSUME IndInv, StorageInv, [Next]_vars PROVE StorageInv'
    OBVIOUS
  <2>1. CASE Start \/ Driver
    BY <2>1, DriverKeepsStorage
  <2>2. ASSUME NEW s \in Supernode, Frame(s) PROVE StorageInv'
    BY <2>2, FrameKeepsStorage
  <2>3. CASE Terminated \/ UNCHANGED vars
    BY <2>3, StutterKeepsStorage DEF Terminated
  <2> QED
    BY <2>1, <2>2, <2>3 DEF Next
<1> QED
  BY <1>1, <1>2, Invariance, PTL DEF Spec

\* A stack that is sized by storageNeeded takes every push, and every pop finds
\* what it takes off, in every serial subtree of every forest.
THEOREM StacksAreSufficient == Spec => []StackSuffices
<1>1. IndInv /\ StorageInv => StackSuffices
  <2> SUFFICES ASSUME IndInv, StorageInv, NEW s \in Supernode, stack[s] # 0
               PROVE
        /\ pc[s] = "reserve" =>
              store[stack[s]].top + SizeForDegree(s) <= store[stack[s]].cap
        /\ pc[s] = "recurse" /\ SerialSubtree(s) =>
              \A c \in Children(s) \ merged[s] :
                 pc[c] = "done" => view[c].size <= store[stack[s]].top
    BY DEF StackSuffices
  <2>1. stack[s] \in Supernode
    BY DEF IndInv, ControlTypeOK, Supernode
  <2>2. ASSUME pc[s] = "reserve"
        PROVE  store[stack[s]].top + SizeForDegree(s) <= store[stack[s]].cap
    <3>1. Engaged(s) /\ Before(s)
      BY <2>2 DEF Engaged, Before
    <3>2. /\ store[stack[s]].cap = StorageNeeded[stack[s]]
          /\ store[stack[s]].top = Height(s)
          /\ Height(s) + StorageNeeded[s] <= StorageNeeded[stack[s]]
      BY <2>2, <3>1 DEF StorageInv, TopInv, PlaceInv, Pushing
    <3>3. /\ store[stack[s]].top \in Nat
          /\ StorageNeeded[s] \in Nat /\ StorageNeeded[stack[s]] \in Nat
          /\ SizeForDegree(s) <= StorageNeeded[s]
      BY <2>1, EstimatesAreMonotone DEF StorageInv, MemoryOK, EstimatesGrow
    <3> QED
      BY <3>2, <3>3, SizeNatural
  <2>3. ASSUME pc[s] = "recurse", NEW c \in Children(s) \ merged[s],
               pc[c] = "done"
        PROVE  view[c].size <= store[stack[s]].top
    <3>1. c \in Supernode /\ Parent[c] = s /\ ~IsRoot(c)
      BY ChildFacts
    <3>2. stack[c] = stack[s]
      BY <2>3 DEF StorageInv, StackInv
    <3>3. Holds(c)
      BY <2>3, <3>1 DEF Holds, Collecting
    <3>4. End(c) <= store[stack[s]].top
      BY <3>1, <3>2, <3>3 DEF StorageInv, TopInv
    <3>5. view[c].base \in Nat /\ view[c].size \in Nat /\ store[stack[s]].top \in Nat
      BY <2>1, <3>1 DEF StorageInv, MemoryOK
    <3> QED
      BY <3>4, <3>5 DEF End
  <2> QED
    BY <2>2, <2>3
<1> QED
  BY <1>1, Invariance, StorageInOrder, PTL

\* No Schur complement is written or read outside of storage that is allocated
\* for it, and no two share an entry.
THEOREM LiveFrontsAreBacked == Spec => []LiveFrontsBacked
<1>1. IndInv /\ StorageInv => LiveFrontsBacked
  <2> SUFFICES ASSUME IndInv, StorageInv, NEW s \in Supernode, InUse(s)
               PROVE
        /\ view[s].size = SizeForDegree(s)
        /\ view[s].base + view[s].size <= store[view[s].owner].top
        /\ store[view[s].owner].top <= store[view[s].owner].cap
        /\ \A t \in Supernode \ {s} :
              InUse(t) /\ view[t].owner = view[s].owner =>
                  \/ view[t].base + view[t].size <= view[s].base
                  \/ view[s].base + view[s].size <= view[t].base
    BY DEF LiveFrontsBacked
  <2>1. \A t \in Supernode : InUse(t) => Holds(t)
    BY DEF InUse, Holds, Holding, Collecting
  <2>2. \A t \in Supernode : InUse(t) =>
           view[t].owner = IF stack[t] = 0 THEN t ELSE stack[t]
    BY <2>1 DEF StorageInv, OwnInv, PlaceInv
  <2>3. CASE stack[s] = 0
    <3>1. /\ view[s].owner = s /\ view[s].base = 0
          /\ view[s].size = SizeForDegree(s)
          /\ store[s].top = SizeForDegree(s) /\ store[s].cap = SizeForDegree(s)
      BY <2>1, <2>3 DEF StorageInv, OwnInv
    <3>2. \A t \in Supernode \ {s} : InUse(t) => view[t].owner # s
      BY <2>2, <2>3 DEF StorageInv, StackInv
    <3> QED
      BY <3>1, <3>2, SizeNatural
  <2>4. CASE stack[s] # 0
    <3>1. Holds(s) /\ Engaged(s)
      BY <2>1, <2>4 DEF Engaged
    <3>2. /\ view[s].owner = stack[s] /\ view[s].size = SizeForDegree(s)
          /\ End(s) <= store[stack[s]].top
          /\ store[stack[s]].top <= store[stack[s]].cap
      BY <2>4, <3>1 DEF StorageInv, TopInv, PlaceInv
    <3>3. ASSUME NEW t \in Supernode \ {s}, InUse(t), view[t].owner = stack[s]
          PROVE  End(t) <= view[s].base \/ End(s) <= view[t].base
      <4>1. Holds(t) /\ stack[t] = stack[s]
        BY <2>1, <2>2, <2>4, <3>3 DEF StorageInv, StackInv
      <4>2. s < t \/ t < s
        BY DEF Supernode
      <4> QED
        BY <2>4, <3>1, <4>1, <4>2 DEF StorageInv, OrderInv
    <3> QED
      BY <3>2, <3>3 DEF End
  <2> QED
    BY <2>3, <2>4
<1> QED
  BY <1>1, Invariance, StorageInOrder, PTL

-----------------------------------------------------------------------------
(***************************************************************************)
(* What a success leaves allocated.                                        *)
(***************************************************************************)
\* The front of s is complete and has been added to its parent's.
Spent(s) ==
    pc[s] = "done" /\ (IsRoot(s) \/ s \in merged[Parent[s]])

\* A spent front's own storage has been released, and a call that succeeded
\* has completed every front.
SpentInv ==
    /\ \A s \in Supernode :
          /\ Spent(s) /\ stack[s] \in {0, s} => store[s].cap = 0
          /\ pc[s] \in {"solve", "outer"} => ~IsRoot(s)
    /\ main = "returned" /\ result.outcome = "success" =>
          \A s \in Supernode : pc[s] = "done"

\* A step of a frame releases the storage of the fronts that it spends.
LEMMA FrameReleases ==
    ASSUME IndInv, StorageInv, SpentInv, NEW s \in Supernode, Frame(s),
           NEW t \in Supernode, Spent(t)', stack'[t] \in {0, t}
    PROVE  store'[t].cap = 0
<1> USE DEF IndInv, ControlTypeOK, Step, memory, shared, call
<1>1. ~IsRoot(t) => Parent[t] \in Supernode /\ t \in Children(Parent[t])
  BY ParentIsSupernode
<1>2. pc'[t] = "done" /\ (IsRoot(t) \/ t \in merged'[Parent[t]])
  BY DEF Spent
<1>3. ASSUME UNCHANGED <<stack, store>>, Spent(t) PROVE store'[t].cap = 0
  BY <1>3 DEF SpentInv
<1>4. CASE RunTask(s) \/ DropTask(s) \/ Enter(s) \/ ReserveFailed(s)
           \/ ChildrenMerged(s) \/ JoinChildren(s) \/ CutKernel(s)
           \/ BreakDown(s) \/ SolveAgainstDiagonal(s) \/ CancelExecution(s)
  <2>1. UNCHANGED <<stack, store, merged>>
    BY <1>4 DEF RunTask, DropTask, Enter, ReserveFailed, ChildrenMerged,
       JoinChildren, CutKernel, BreakDown, SolveAgainstDiagonal,
       CancelExecution
  <2>2. pc'[t] = "done" => pc[t] = "done"
    BY <1>4 DEF RunTask, DropTask, Enter, ReserveFailed, ChildrenMerged,
       JoinChildren, CutKernel, BreakDown, SolveAgainstDiagonal,
       CancelExecution, UnlessFailed
  <2> QED
    BY <1>2, <1>3, <2>1, <2>2 DEF Spent
<1>5. CASE OuterProduct(s)
  <2>1. /\ pc[s] = "outer" /\ UNCHANGED <<stack, store, merged>>
        /\ \A u \in Supernode : u # s => pc'[u] = pc[u]
    BY <1>5 DEF OuterProduct
  <2>2. ~IsRoot(s) /\ s \notin merged[Parent[s]]
    BY <2>1, ParentIsSupernode DEF SpentInv, FrontInv
  <2> QED
    BY <1>2, <1>3, <2>1, <2>2 DEF Spent
<1>6. CASE BeginSerial(s)
  <2>1. /\ pc[s] = "begin" /\ pc'[s] # "done" /\ UNCHANGED merged
        /\ \A u \in Supernode : u # s => /\ pc'[u] = pc[u]
                                         /\ stack'[u] = stack[u]
                                         /\ store'[u] = store[u]
    BY <1>6 DEF BeginSerial, UnlessFailed, Reallocate, StorageInv, MemoryOK
  <2> QED
    BY <1>2, <2>1 DEF Spent, SpentInv
<1>7. CASE ReserveFront(s)
  <2>1. /\ pc[s] = "reserve" /\ pc'[s] # "done" /\ UNCHANGED <<merged, stack>>
        /\ \A u \in Supernode : u # s => pc'[u] = pc[u]
    BY <1>7 DEF ReserveFront
  <2>2. t # s /\ Spent(t)
    BY <1>2, <2>1 DEF Spent
  <2>3. stack[s] # t
    <3>1. CASE stack[s] = 0
      BY <3>1 DEF Supernode
    <3>2. CASE stack[s] = s
      BY <2>2, <3>2
    <3>3. CASE stack[s] # 0 /\ stack[s] # s
      <4>1. pc[stack[s]] = "recurse"
        BY <2>1, <3>3, OwnerRecurses DEF Engaged, Before, StorageInv
      <4> QED
        BY <2>2, <4>1 DEF Spent
    <3> QED
      BY <3>1, <3>2, <3>3
  <2>4. store'[t] = store[t]
    BY <1>7, <2>2, <2>3 DEF ReserveFront, AllocateSchurComplement,
       AllocateOwn, Push, StorageInv, MemoryOK
  <2> QED
    BY <2>1, <2>2, <2>4 DEF SpentInv
<1>8. CASE CallChild(s)
  <2>1. PICK d \in Supernode :
           /\ pc' = [pc EXCEPT ![s] = "recurse", ![d] = "enter"]
           /\ stack' = [stack EXCEPT ![d] = stack[s]]
           /\ UNCHANGED <<merged, store>>
    <3> DEFINE uncalled == {c \in Children(s) : pc[c] = "idle"}
    <3>1. uncalled # {} /\ uncalled \subseteq Supernode
      BY <1>8 DEF CallChild, Children
    <3>2. FirstOf(uncalled) \in uncalled
      BY <3>1, FirstIsElement
    <3> QED
      BY <1>8, <3>1, <3>2 DEF CallChild
  <2> QED
    BY <1>2, <2>1 DEF Spent, SpentInv
<1>9. ASSUME NEW c \in Supernode, MergeChild(s, c) PROVE store'[t].cap = 0
  <2>1. /\ pc[s] = "recurse" /\ c \in Children(s) /\ pc'[s] # "done"
        /\ UNCHANGED stack
        /\ \A u \in Supernode : u # s => pc'[u] = pc[u]
    BY <1>9 DEF MergeChild, UnlessFailed
  <2>2. t # s
    BY <1>2, <2>1
  <2>3. CASE failed
    BY <1>2, <1>3, <1>9, <2>1, <2>2, <2>3 DEF MergeChild, Spent
  <2>4. CASE ~failed
    <3>1. /\ ReleaseMerged(s, c)
          /\ merged'[s] = merged[s] \cup {c}
          /\ \A u \in Supernode : u # s => merged'[u] = merged[u]
      BY <1>9, <2>4 DEF MergeChild
    <3>2. Spent(t) \/ t = c
      BY <1>1, <1>2, <2>1, <2>2, <3>1 DEF Spent
    <3>3. CASE ~SerialSubtree(s)
      <4>1. store' = [store EXCEPT ![c] = NoStorage]
        BY <3>1, <3>3 DEF ReleaseMerged
      <4>2. store'[c].cap = 0 /\ (t # c => store'[t] = store[t])
        BY <4>1 DEF StorageInv, MemoryOK, NoStorage
      <4> QED
        BY <2>1, <3>2, <4>2 DEF SpentInv
    <3>4. CASE SerialSubtree(s)
      <4>1. stack[s] # 0 /\ stack[s] \in Supernode /\ s <= stack[s]
        BY <2>1, <3>4 DEF StorageInv, StackInv, Supernode
      <4>2. pc[stack[s]] = "recurse"
        <5>1. Engaged(s)
          BY <2>1, <4>1 DEF Engaged, Holds, Holding
        <5> QED
          BY <2>1, <5>1, OwnerRecurses DEF StorageInv
      <4>3. t # c
        <5>1. c < s /\ pc[c] # "idle"
          BY <1>9, <2>1, ChildFacts DEF MergeChild, Returned
        <5>2. stack[c] = stack[s] /\ stack[c] # c
          BY <2>1, <4>1, <5>1 DEF StorageInv, StackInv, Supernode
        <5> QED
          BY <2>1, <4>1, <5>2
      <4>4. Spent(t) /\ t # stack[s]
        BY <3>2, <4>2, <4>3 DEF Spent
      <4>5. store'[t] = store[t]
        BY <3>1, <3>4, <4>1, <4>4 DEF ReleaseMerged, StorageInv, MemoryOK
      <4> QED
        BY <2>1, <4>4, <4>5 DEF SpentInv
    <3> QED
      BY <3>3, <3>4
  <2> QED
    BY <2>3, <2>4
<1>10. CASE SpawnChildren(s)
  <2>1. UNCHANGED <<stack, store, merged>> /\ (pc'[t] = "done" => pc[t] = "done")
    BY <1>10 DEF SpawnChildren
  <2> QED
    BY <1>2, <1>3, <2>1 DEF Spent
<1>11. CASE StartAssembly(s)
  <2>1. /\ pc'[s] # "done" /\ UNCHANGED <<merged, stack>>
        /\ \A u \in Supernode : u # s => pc'[u] = pc[u] /\ store'[u] = store[u]
    BY <1>11 DEF StartAssembly, AllocateOwn, StorageInv, MemoryOK
  <2> QED
    BY <1>2, <2>1 DEF Spent, SpentInv
<1>12. CASE GatherFailed(s) \/ Assemble(s)
  <2>1. /\ pc'[s] # "done" /\ UNCHANGED stack
        /\ \A u \in Supernode : u # s => pc'[u] = pc[u]
        /\ \A u \in Supernode : u # s => merged'[u] = merged[u]
    BY <1>12 DEF GatherFailed, Assemble, UnlessFailed
  <2>2. /\ \A c \in Children(s) : store'[c].cap = 0
        /\ \A u \in Supernode \ Children(s) : store'[u] = store[u]
    BY <1>12, ChildFacts DEF GatherFailed, Assemble, ReleaseChildren, NoStorage
  <2>3. t \in Children(s) \/ Spent(t)
    BY <1>1, <1>2, <2>1 DEF Spent
  <2> QED
    BY <2>1, <2>2, <2>3 DEF SpentInv
<1>13. CASE FactorDiagonal(s) \/ ReturnFalse(s)
  <2>1. /\ UNCHANGED <<stack, merged>> /\ pc[s] \in {"diagonal", "returnFalse"}
        /\ \A u \in Supernode : u # s => pc'[u] = pc[u] /\ store'[u] = store[u]
        /\ IsRoot(s) => store'[s].cap = 0
    BY <1>13 DEF FactorDiagonal, ReturnFalse, NoStorage, StorageInv, MemoryOK
  <2>2. pc'[s] = "done" => IsRoot(s)
    BY <1>13, ForestAssumption DEF FactorDiagonal, ReturnFalse, UnlessFailed,
       IsRoot
  <2> QED
    BY <1>2, <2>1, <2>2 DEF Spent, SpentInv
<1> QED
  BY <1>4, <1>5, <1>6, <1>7, <1>8, <1>9, <1>10, <1>11, <1>12, <1>13 DEF Frame

\* Only a front with rows below goes on to the solve and the outer product.
LEMMA RootsEndEarly ==
    ASSUME IndInv, SpentInv, NEW s \in Supernode, Frame(s),
           NEW t \in Supernode, pc'[t] \in {"solve", "outer"}
    PROVE  ~IsRoot(t)
<1> USE DEF IndInv, ControlTypeOK, Step, UnlessFailed
<1>1. CASE FactorDiagonal(s)
  <2>1. pc' = [pc EXCEPT ![s] = IF Degree[s] = 0 THEN "done"
                                ELSE UnlessFailed("solve")]
    BY <1>1 DEF FactorDiagonal
  <2> QED
    BY <2>1, ForestAssumption DEF IsRoot, SpentInv
<1>2. CASE CallChild(s)
  <2>1. pc' = [pc EXCEPT ![s] = "recurse",
                         ![FirstOf({c \in Children(s) : pc[c] = "idle"})] = "enter"]
    BY <1>2 DEF CallChild
  <2>2. pc[t] = pc'[t]
    BY <2>1
  <2> QED
    BY <2>2 DEF SpentInv
<1>3. CASE SpawnChildren(s)
  BY <1>3 DEF SpawnChildren, SpentInv
<1>4. CASE ~FactorDiagonal(s) /\ ~CallChild(s) /\ ~SpawnChildren(s)
  <2>1. pc[t] = pc'[t] \/ (t = s /\ pc[s] = "solve")
    BY <1>4 DEF Frame, RunTask, DropTask, Enter, BeginSerial, ReserveFront,
       ReserveFailed, MergeChild, ChildrenMerged, JoinChildren,
       StartAssembly, GatherFailed, Assemble, CutKernel, BreakDown,
       SolveAgainstDiagonal, OuterProduct, CancelExecution, ReturnFalse
  <2> QED
    BY <2>1 DEF SpentInv
<1> QED
  BY <1>1, <1>2, <1>3, <1>4

\* A call that succeeds leaves none of its own storage allocated.
THEOREM SuccessesReleaseStorage == Spec => []SuccessReleasesStorage
<1>1. Init => SpentInv
  BY DEF Init, SpentInv, Spent, NoResult
<1>2. IndInv /\ IndInv' /\ ReturnInv /\ StorageInv /\ SpentInv /\ [Next]_vars => SpentInv'
  <2> SUFFICES ASSUME IndInv, IndInv', ReturnInv, StorageInv, SpentInv, [Next]_vars
               PROVE  SpentInv'
    OBVIOUS
  <2>1. CASE Start
    BY <2>1 DEF Start, StartCall, SpentInv, Spent
  <2>2. ASSUME NEW s \in Supernode, Frame(s) PROVE SpentInv'
    <3>1. main # "returned" /\ main' = main
      <4>1. Active(s) /\ UNCHANGED main
        BY <2>2, FrameEffect
      <4> QED
        BY <4>1 DEF ReturnInv
    <3> QED
      BY <2>2, <3>1, FrameReleases, RootsEndEarly DEF SpentInv
  <2>3. CASE Driver
    <3>1. /\ UNCHANGED <<stack, merged, store>>
          /\ \A t \in Supernode : pc'[t] \in {"done", "solve", "outer"} => pc[t] = pc'[t]
      <4>1. CASE NextRoot
        BY <4>1 DEF NextRoot, memory, IndInv, ControlTypeOK
      <4>2. CASE SpawnRoots
        BY <4>2 DEF SpawnRoots, memory
      <4>3. CASE RootLoopDone \/ JoinRoots \/ ReturnResult
        BY <4>3 DEF RootLoopDone, JoinRoots, ReturnResult, memory
      <4> QED
        BY <2>3, <4>1, <4>2, <4>3 DEF Driver
    <3>2. \A t \in Supernode :
             /\ Spent(t)' /\ stack'[t] \in {0, t} => store'[t].cap = 0
             /\ pc'[t] \in {"solve", "outer"} => ~IsRoot(t)
      BY <3>1 DEF Spent, SpentInv
    <3>3. main' = "returned" /\ result'.outcome = "success" =>
             \A t \in Supernode : pc'[t] = "done"
      <4>1. CASE ReturnResult
        <5>1. CASE ~failed
          <6>1. \A t \in Supernode : front[t] = "complete"
            BY <4>1, <5>1, CompleteRoots DEF ReturnInv, ReturnResult
          <6> QED
            BY <4>1, <6>1 DEF ReturnResult, IndInv, FrontInv
        <5>2. CASE failed
          BY <4>1, <5>2 DEF ReturnResult
        <5> QED
          BY <5>1, <5>2
      <4>2. CASE ~ReturnResult
        BY <2>3, <4>2 DEF Driver, NextRoot, RootLoopDone, SpawnRoots, JoinRoots, call
      <4> QED
        BY <4>1, <4>2
    <3> QED
      BY <3>2, <3>3 DEF SpentInv
  <2>4. CASE Terminated \/ UNCHANGED vars
    BY <2>4 DEF Terminated, vars, memory, call, SpentInv, Spent
  <2> QED
    BY <2>1, <2>2, <2>3, <2>4 DEF Next
<1>3. IndInv /\ SpentInv => SuccessReleasesStorage
  <2> SUFFICES ASSUME IndInv, SpentInv, main = "returned",
                      result.outcome = "success",
                      NEW s \in Supernode, stack[s] \in {0, s}
               PROVE  store[s].cap = 0
    BY DEF SuccessReleasesStorage
  <2>1. \A t \in Supernode : pc[t] = "done"
    BY DEF SpentInv
  <2>2. IsRoot(s) \/ s \in merged[Parent[s]]
    BY <2>1, ParentIsSupernode DEF IndInv, FrontInv
  <2> QED
    BY <2>1, <2>2 DEF SpentInv, Spent
<1> QED
  BY <1>1, <1>2, <1>3, Invariance, InitReturnInv, NextReturnInv,
     StorageInOrder, PTL DEF Spec

\* All state stays in its range in every factorization of every forest; in
\* particular no pop takes the top of a stack below zero.
THEOREM TypeCorrect == Spec => []TypeOK
<1>1. IndInv /\ StorageInv /\ PivotInv => TypeOK
  BY DEF IndInv, StorageInv, MemoryOK, PivotInv, TypeOK
<1> QED
  BY <1>1, Invariance, StorageInOrder, PivotsAreCounted, PTL
=============================================================================
