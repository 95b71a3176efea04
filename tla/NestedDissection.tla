-------------------------- MODULE NestedDissection --------------------------
(***************************************************************************)
(* The analytic orderings of a grid in which every vertex touches its      *)
(* nearest neighbours only: a box of vertices that is long enough is cut   *)
(* across its longest side, and its two parts are numbered before the cut. *)
(*                                                                         *)
(* A box is a sequence of half-open extents <<beg, end>>, x first; two of  *)
(* them for the 2D and three for the 3D functions, which differ in nothing *)
(* else.  Vertices are numbered from 1, along x first, and an extent       *)
(* counts from 0 as it does in the code.                                   *)
(***************************************************************************)
EXTENDS ScalarSymbolic

MinCutSize == 5

Side(box, d) == box[d][2] - box[d][1]
LongestSide(box) == Max({Side(box, d) : d \in DOMAIN box})

\* Of several longest sides the first is cut.
CutDimension(box) == Min({d \in DOMAIN box : Side(box, d) = LongestSide(box)})
CutAt(box, d) == box[d][1] + Side(box, d) \div 2
LeftPart(box, d) == [box EXCEPT ![d] = <<@[1], CutAt(box, d)>>]
RightPart(box, d) == [box EXCEPT ![d] = <<CutAt(box, d) + 1, @[2]>>]
Separator(box, d) == [box EXCEPT ![d] = <<CutAt(box, d), CutAt(box, d) + 1>>]

\* Every supernode is a box; a part of an ordering has its root at the end.
Uncut(box) == [boxes |-> <<box>>, parents |-> <<None>>]

\* Mutant: the supernodes of the right part are counted from its own first.
JoinedUnshifted(left, right, cut) ==
    LET n == Len(left.parents) + Len(right.parents) + 1
    IN  [boxes |-> left.boxes \o right.boxes \o <<cut>>,
         parents |-> [left.parents EXCEPT ![Len(left.parents)] = n]
             \o [right.parents EXCEPT ![Len(right.parents)] = n] \o <<None>>]

\* The roots of both parts become children of the cut.
Joined(left, right, cut) ==
    LET n == Len(left.parents) + Len(right.parents) + 1
        place(p) == IF p = None THEN n ELSE Len(left.parents) + p
    IN  [boxes |-> left.boxes \o right.boxes \o <<cut>>,
         parents |-> [left.parents EXCEPT ![Len(left.parents)] = n]
             \o [k \in DOMAIN right.parents |-> place(right.parents[k])]
             \o <<None>>]

Dissected(whole) ==
    LET ends == 0..LongestSide(whole)
        part[box \in [DOMAIN whole -> ends \X ends]] ==
            LET d == CutDimension(box)
            IN  IF LongestSide(box) < MinCutSize THEN Uncut(box)
                ELSE Joined(part[LeftPart(box, d)], part[RightPart(box, d)],
                            Separator(box, d))
    IN  part[whole]

\* A box is traversed along x in the innermost loop.
Stride(whole, d) ==
    Through(Indices(d - 1), 1, LAMBDA stride, e : stride * Side(whole, e))
Vertices(whole, box) ==
    Through(Indices(Len(box)), <<1>>, LAMBDA line, d :
        Through(Indices(Side(box, d)), <<>>, LAMBDA done, i :
            done \o [k \in DOMAIN line |->
                        line[k] + (box[d][1] + i - 1) * Stride(whole, d)]))

\* elements counts the elements in every direction, one less than the
\* vertices.  There is one root.
UnitReachNestedDissection(elements) ==
    LET whole == <<>> \o [d \in DOMAIN elements |-> <<0, elements[d] + 1>>]
        done == Dissected(whole)
        inverse == Through(done.boxes, <<>>, LAMBDA order, box :
                       order \o Vertices(whole, box))
        sizes == <<>> \o [k \in DOMAIN done.boxes |->
                             Len(Vertices(whole, done.boxes[k]))]
    IN  [permutation |-> <<>> \o [v \in DOMAIN inverse |->
             CHOOSE k \in DOMAIN inverse : inverse[k] = v],
         inverse |-> inverse, sizes |-> sizes, offsets |-> OffsetScan(sizes),
         forest |-> FillFromParents(done.parents)]
=============================================================================
