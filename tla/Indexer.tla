------------------------------- MODULE Indexer -------------------------------
(***************************************************************************)
(* What the harvester promises a reader of its database, with the tasks,   *)
(* walks and repairs that bring it about left out: a table with one row per*)
(* block number, a copy of every block that ever left it, and a ledger of  *)
(* counted blocks that is written from genesis up and never rewritten.     *)
(* Harvester implements it.                                                *)
(***************************************************************************)
EXTENDS Integers

CONSTANTS
  Block, Number, NoBlock,
  MaxHeight   \* bound: the highest number

VARIABLES
  table,    \* the block in each row, NoBlock in an empty one
  counted,  \* the block counted in at each number, NoBlock while there is none
  kept      \* copies of blocks

indexVars == <<table, counted, kept>>

Row == 0 .. MaxHeight

Empty == [n \in Row |-> NoBlock]

BlocksOf(n) == {b \in Block : Number[b] = n}

\* Nothing but empty rows is written, with blocks of their number.
OnlyFilled ==
  /\ table' \in [Row -> Block \cup {NoBlock}]
  /\ \A n \in Row : table'[n] # table[n] => table[n] = NoBlock /\ table'[n] \in BlocksOf(n)

\* Blocks come in, in any order.
Insert == OnlyFilled /\ UNCHANGED <<counted, kept>>

\* A block leaves its row.  By then there is a copy of it, and copies are made
\* of blocks in the table only.
Remove(n) ==
  /\ table[n] # NoBlock
  /\ table' = [table EXCEPT ![n] = NoBlock]
  /\ kept \cup {table[n]} \subseteq kept'
  /\ kept' \subseteq kept \cup {table[m] : m \in Row}
  /\ UNCHANGED counted

\* The block of the first number that is not counted yet is counted in; the
\* genesis block may be added with that.
Count(n) ==
  /\ counted[n] = NoBlock
  /\ \A m \in Row : m < n => counted[m] # NoBlock
  /\ OnlyFilled
  /\ n > 0 => UNCHANGED table
  /\ table'[n] # NoBlock
  /\ counted' = [counted EXCEPT ![n] = table'[n]]
  /\ UNCHANGED kept

Init == table = Empty /\ counted = Empty /\ kept = {}

Next == Insert \/ \E n \in Row : Remove(n) \/ Count(n)

Spec == Init /\ [][Next]_indexVars
==============================================================================
