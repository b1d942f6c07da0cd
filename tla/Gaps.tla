--------------------------------- MODULE Gaps ---------------------------------
(***************************************************************************)
(* What start_harvester asks of the block table before it continues from   *)
(* the head: the runs of missing block numbers (Block.get_missing_block_ids*)
(* of app/models/data.py) and the pieces it cuts them into (app/tasks.py). *)
(* Declarative forms, shared by the harvester's specification and proofs.  *)
(***************************************************************************)
EXTENDS Integers

Max2(a, b) == IF a >= b THEN a ELSE b

\* The maximal runs <<from, to>> of missing numbers that lie above floor and
\* below a stored number.
Gaps(ids, floor) ==
  {<<p[1] + 1, p[2] - 1>> : p \in
     {q \in (ids \cup {floor}) \X ids :
        /\ floor <= q[1]
        /\ q[1] + 1 < q[2]
        /\ \A m \in q[1] + 1 .. q[2] - 1 : m \notin ids}}

\* The pieces [start, end] of one run: start_harvester walks a run downwards
\* from its last block, one piece of limit blocks; a run that is alone and
\* longer than wide is cut into `threads` pieces.
Pieces(gap, alone, limit, wide, threads) ==
  LET parallel == IF alone /\ gap[2] - gap[1] > wide THEN threads ELSE 1
      Start(i) == IF i = 0 THEN gap[2] ELSE Max2(gap[2] - i * (limit - 1), 1)
  IN {[start |-> Start(i), end |-> Max2(Start(i) - limit, 0)] :
        i \in 0 .. parallel - 1}
===============================================================================
