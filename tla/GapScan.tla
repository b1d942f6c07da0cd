------------------------------- MODULE GapScan -------------------------------
(***************************************************************************)
(* The search for missing blocks as the code runs it: the SQL statement of *)
(* Block.get_missing_block_ids, one pass over the ordered table with a     *)
(* session variable (app/models/data.py), and the loop of start_harvester  *)
(* over each run it returns (app/tasks.py).  Both are compared with the    *)
(* declarative forms in Gaps, which the harvester's specification uses,    *)
(* over every block table of a bounded size.                               *)
(***************************************************************************)
EXTENDS Gaps, SequencesExt

CONSTANTS Floor, Limit, Wide, Threads,
          MaxId   \* bound: the highest block number

\* The pieces of the only run, MAXIMUM_THREAD of them, stay within it.
ASSUME GapScanAssumption ==
  /\ {Floor, Limit, Wide, Threads, MaxId} \subseteq Nat /\ Limit > 0 /\ Threads > 0
  /\ (Threads - 1) * (Limit - 1) <= Wide + 1

VARIABLE ids      \* the numbers in data_block

\* Mutant of ScanRow: @rownum is not set where a run of missing numbers ends.
ScanRowKeepsCounting(s, id) ==
  LET expected == s.rownum + 1
  IN [rownum |-> expected,
      runs |-> IF expected = id THEN s.runs ELSE Append(s.runs, <<expected, id - 1>>)]

\* One row of the pass: @rownum counts up, and is set to id where id is not
\* the number expected.
ScanRow(s, id) ==
  LET expected == s.rownum + 1
  IN IF expected = id
     THEN [rownum |-> expected, runs |-> s.runs]
     ELSE [rownum |-> id, runs |-> Append(s.runs, <<expected, id - 1>>)]

\* WHERE id > floor.
AboveFloor == {n \in ids : n > Floor}

\* ORDER BY id: the highest row comes last.
Pass ==
  LET row(id, s) == ScanRow(s, id)
  IN MapThenFoldSet(row, [rownum |-> Floor, runs |-> <<>>], LAMBDA id : id, Max, AboveFloor)

\* The runs ORDER BY block_from DESC.
MissingBlockIds == Reverse(Pass.runs)

\* Mutant of WalkPiece: start = end, as if the end block were not harvested.
WalkPieceFromEnd(s) ==
  LET end == IF s.start - Limit < 0 THEN 0 ELSE s.start - Limit
  IN [start |-> end, pieces |-> Append(s.pieces, [start |-> s.start, end |-> end])]

\* One round of the loop over the pieces of a run.
WalkPiece(s) ==
  LET end == IF s.start - Limit < 0 THEN 0 ELSE s.start - Limit
  IN [start |-> end + 1,
      pieces |-> Append(s.pieces, [start |-> s.start, end |-> end])]

\* Mutant of Parallel: a short run is cut up as well.
ParallelWhenAlone(run, runs) == IF Len(runs) = 1 THEN Threads ELSE 1

\* How many pieces: more than one for a long run that is the only one.
Parallel(run, runs) ==
  IF Len(runs) = 1 /\ run[2] - run[1] > Wide THEN Threads ELSE 1

\* The pieces start_harvester makes of one of the runs it was given.
Walk(run, runs) ==
  LET round(s, i) == WalkPiece(s)
  IN FoldLeft(round, [start |-> run[2], pieces |-> <<>>],
              [i \in 1 .. Parallel(run, runs) |-> i]).pieces

Init == ids = {}

\* Another task adds a block or the repair takes one out.
Insert(n) == n \notin ids /\ ids' = ids \cup {n}
Delete(n) == n \in ids /\ ids' = ids \ {n}

Next == \E n \in 0 .. MaxId : Insert(n) \/ Delete(n)

Spec == Init /\ [][Next]_ids

------------------------------------------------------------------------------
\* The pass returns the maximal runs of missing numbers above the floor and
\* below a stored number, the highest first and each once.
ScanFindsGaps ==
  LET runs == MissingBlockIds
  IN /\ ToSet(runs) = Gaps(ids, Floor)
     /\ \A i, j \in DOMAIN runs : i < j => runs[i][1] > runs[j][1]

\* The loop cuts a run into the pieces that Pieces gives: they overlap by one
\* block, and end at the genesis block.
WalkIsPieces ==
  \A run \in Gaps(ids, Floor) :
    ToSet(Walk(run, MissingBlockIds))
      = Pieces(run, Gaps(ids, Floor) = {run}, Limit, Wide, Threads)

\* The blocks a call adds when no other task comes in between: Limit of them,
\* its end left out; down to the genesis block when that comes first.
PieceBlocks(p) == {n \in 0 .. p.start : n > p.end \/ p.start < Limit}

\* Every call of start_harvester for a gap starts at a missing block, so none is
\* wasted, and the calls of one run have a missing block in common at most.
PiecesAreMissing ==
  \A run \in Gaps(ids, Floor) : LET pieces == Walk(run, MissingBlockIds) IN
    /\ \A i \in DOMAIN pieces : pieces[i].start \in run[1] .. run[2]
    /\ \A i, j \in DOMAIN pieces : i < j =>
         PieceBlocks(pieces[i]) \cap PieceBlocks(pieces[j]) \subseteq {pieces[j].start}
==============================================================================
