-------------------------- MODULE CoordinateMatrix --------------------------
(***************************************************************************)
(* The sparse matrices the library is given: CoordinateMatrix keeps its    *)
(* entries sorted by row and then column, the offset of every row, and two *)
(* queues of requests that are applied together by a flush.                *)
(*                                                                         *)
(* A matrix is a record; every operation of the class is an operator from  *)
(* the record, and the arguments of the call, to the record after it.      *)
(* Rows and columns count from 1, and offsets[r] is the number of entries  *)
(* before row r, so row r holds the entries offsets[r] + 1 .. offsets[r+1].*)
(***************************************************************************)
EXTENDS Scalars, SequencesExt

Entry(row, column, value) == [row |-> row, column |-> column, value |-> value]
Place(e) == <<e.row, e.column>>

\* MatrixEntry::operator<, which GraphEdge's order agrees with.
Precedes(d, e) == d.row < e.row \/ (d.row = e.row /\ d.column < e.column)

EmptyMatrix ==
    [rows |-> 0, columns |-> 0, entries |-> <<>>, offsets |-> <<0>>,
     toAdd |-> <<>>, toRemove |-> <<>>]

\* A call with the present size keeps the entries and both queues.
Resize(m, rows, columns) ==
    IF rows = m.rows /\ columns = m.columns THEN m
    ELSE [EmptyMatrix EXCEPT
             !.rows = rows, !.columns = columns,
             !.offsets = [r \in 1..(rows + 1) |-> 0]]

QueueEntryAddition(m, e) == [m EXCEPT !.toAdd = Append(@, e)]
QueueEntryAdditions(m, es) == [m EXCEPT !.toAdd = @ \o es]
QueueEntryRemoval(m, place) == [m EXCEPT !.toRemove = Append(@, place)]
EntryQueuesAreEmpty(m) == m.toAdd = <<>> /\ m.toRemove = <<>>

\* What the class maintains between calls: rows and then columns ascend, no
\* place comes twice, and the offsets agree with the entries.
Places(m) == (1..m.rows) \X (1..m.columns)
MatrixEntries(m) ==
    [row : 1..m.rows, column : 1..m.columns, value : Scalar]
RowEntryOffsets(m) ==
    [r \in 1..(m.rows + 1) |->
        Cardinality({k \in DOMAIN m.entries : m.entries[k].row < r})]
IsAscending(s) == \A k, l \in DOMAIN s : k < l => Precedes(s[k], s[l])
IsCoordinateMatrix(m) ==
    /\ DOMAIN m = DOMAIN EmptyMatrix /\ m.rows \in Nat /\ m.columns \in Nat
    /\ m.entries \in Seq(MatrixEntries(m)) /\ IsAscending(m.entries)
    /\ m.offsets = RowEntryOffsets(m)
    /\ m.toAdd \in Seq(MatrixEntries(m)) /\ m.toRemove \in Seq(Places(m))

\* std::sort, from which entries at one place come in any order: their values
\* are added.
Inserted(s, e) ==
    LET before == Cardinality({k \in DOMAIN s : ~Precedes(e, s[k])})
    IN  SubSeq(s, 1, before) \o <<e>> \o SubSeq(s, before + 1, Len(s))
Sorted(s) ==
    LET sorted[k \in 0..Len(s)] ==
            IF k = 0 THEN <<>> ELSE Inserted(sorted[k - 1], s[k])
    IN  sorted[Len(s)]

\* Neighbours with the same position become one entry with the sum of their
\* values, even if that is zero.
CombineSortedEntries(s) ==
    LET packed[k \in 0..Len(s)] ==
            IF k = 0 THEN <<>>
            ELSE LET prev == packed[k - 1]
                 IN  IF prev # <<>> /\ Place(Last(prev)) = Place(s[k])
                     THEN [prev EXCEPT ![Len(prev)].value =
                              Plus(@, s[k].value)]
                     ELSE Append(prev, s[k])
    IN  packed[Len(s)]

UpdateRowEntryOffsets(m) == [m EXCEPT !.offsets = RowEntryOffsets(m)]

FlushEntryAdditionQueue(m) ==
    LET added == CombineSortedEntries(Sorted(m.toAdd))
        merged == Sorted(m.entries \o added)
    IN  UpdateRowEntryOffsets(
            IF m.toAdd = <<>> THEN m
            ELSE [m EXCEPT !.entries = CombineSortedEntries(merged),
                           !.toAdd = <<>>])

\* What is left of the entries without these places.
Remaining(s, places) ==
    LET left[k \in 0..Len(s)] ==
            IF k = 0 THEN <<>>
            ELSE IF Place(s[k]) \in places THEN left[k - 1]
            ELSE Append(left[k - 1], s[k])
    IN  left[Len(s)]

\* Called by FlushEntryQueues without an update of the offsets, which the
\* flush of the additions makes up for.
FlushEntryRemovalQueue(m) ==
    [m EXCEPT
        !.entries = Remaining(@, Range(m.toRemove)),
        !.toRemove = <<>>]

\* Mutant: the additions are flushed before the removals.
FlushAdditionsFirst(m) ==
    IF EntryQueuesAreEmpty(m) THEN m
    ELSE UpdateRowEntryOffsets(FlushEntryRemovalQueue(FlushEntryAdditionQueue(m)))

FlushEntryQueues(m) ==
    IF EntryQueuesAreEmpty(m) THEN m
    ELSE FlushEntryAdditionQueue(FlushEntryRemovalQueue(m))

\* The one-call forms apply whatever else is queued.
AddEntry(m, e) == FlushEntryQueues(QueueEntryAddition(m, e))
AddEntries(m, es) == FlushEntryQueues(QueueEntryAdditions(m, es))
RemoveEntry(m, place) == FlushEntryQueues(QueueEntryRemoval(m, place))

RowEntryOffset(m, row) == m.offsets[row]
NumRowEntries(m, row) == RowEntryOffset(m, row + 1) - RowEntryOffset(m, row)

\* The first entry of the row that is not before this column (lower_bound),
\* the end of the row if there is none.
EntryOffset(m, row, column) ==
    RowEntryOffset(m, row)
        + Cardinality({k \in (RowEntryOffset(m, row) + 1)
                                  ..RowEntryOffset(m, row + 1) :
                           Precedes(m.entries[k], Entry(row, column, Zero))})

\* Both look at the entry after the row's end unless it is the matrix's end.
EntryExists(m, row, column) ==
    LET index == EntryOffset(m, row, column)
    IN  index < Len(m.entries) /\ Place(m.entries[index + 1]) = <<row, column>>
Value(m, row, column) ==
    IF EntryExists(m, row, column)
    THEN m.entries[EntryOffset(m, row, column) + 1].value ELSE Zero

\* ReplaceEntry and AddToEntry throw without this.
EntryIsPresent(m, row, column) ==
    LET index == EntryOffset(m, row, column)
    IN  /\ index # RowEntryOffset(m, row + 1)
        /\ m.entries[index + 1].column = column

ReplaceEntry(m, e) ==
    [m EXCEPT !.entries[EntryOffset(m, e.row, e.column) + 1].value = e.value]
AddToEntry(m, e) ==
    [m EXCEPT !.entries[EntryOffset(m, e.row, e.column) + 1].value =
        Plus(@, e.value)]

\* A throw leaves the replacements before it in place.
ReplaceEntries(m, es) ==
    LET done[k \in 0..Len(es)] ==
            IF k = 0 THEN m
            ELSE LET prev == done[k - 1]
                 IN  IF \A j \in 1..k :
                            EntryIsPresent(m, es[j].row, es[j].column)
                     THEN ReplaceEntry(prev, es[k]) ELSE prev
    IN  done[Len(es)]

\* What the orderings see: the positions, without the values.
CoordinateGraph(m) == {Place(m.entries[k]) : k \in DOMAIN m.entries}

\* The columns of a row, in the order in which they are stored.
RowEntries(m, row) ==
    SubSeq(m.entries, RowEntryOffset(m, row) + 1, RowEntryOffset(m, row + 1))
=============================================================================
