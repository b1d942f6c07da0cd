-------------------------------- MODULE Chain --------------------------------
(***************************************************************************)
(* The Substrate node the harvester follows, modelled from how the code    *)
(* uses it: chain_getHead, chain_getFinalisedHead, chain_getBlockHash(n)   *)
(* and chain_getBlock(hash).  The node is not part of the repository.      *)
(*                                                                         *)
(* The block tree is a constant.  The node's view of it moves: the best    *)
(* chain grows and is reorganised above the finalized block, and the       *)
(* finalized block only moves up along the best chain.                     *)
(***************************************************************************)
EXTENDS Integers

CONSTANTS
  Block,      \* the block hashes of the tree, dead forks included
  Number,     \* the height of each block
  Parent,     \* the parent hash of each block
  Paths,      \* the paths up from the genesis block: the block at each height
  Genesis,    \* the only block of height 0
  NoBlock,    \* a null hash
  MaxHeight   \* bound: the height of the tree

ASSUME ChainAssumption ==
  /\ MaxHeight \in Nat
  /\ NoBlock \notin Block
  /\ Genesis \in Block
  /\ \A b \in Block : Number[b] \in 0 .. MaxHeight
  /\ \A b \in Block : Number[b] = 0 <=> b = Genesis
  /\ \A b \in Block : Number[b] > 0 =>
       Parent[b] \in Block /\ Number[Parent[b]] = Number[b] - 1
  /\ \A p \in Paths : \E n \in 0 .. MaxHeight :
       /\ p \in [0 .. n -> Block]
       /\ \A i \in 0 .. n : /\ Number[p[i]] = i
                            /\ i > 0 => Parent[p[i]] = p[i - 1]
  /\ [i \in {0} |-> Genesis] \in Paths

VARIABLES
  best,   \* the best chain: the block at each height up to tip
  tip,    \* the height of the best block
  fin     \* the height of the finalized block

chainVars == <<best, tip, fin>>

Height == 0 .. MaxHeight

\* substrate.get_block_hash(n): None above the best block.
BlockHash(n) == IF n \in 0 .. tip THEN best[n] ELSE NoBlock

Finalized == {best[i] : i \in 0 .. fin}

ChainTypeOK ==
  /\ tip \in Height
  /\ best \in Paths /\ DOMAIN best = 0 .. tip
  /\ fin \in 0 .. tip

ChainInit ==
  /\ tip = 0
  /\ best = [i \in {0} |-> Genesis]
  /\ fin = 0

\* The node imports blocks: the best chain becomes another path of the tree
\* that keeps the finalized part.  It never becomes shorter than it was.
Import ==
  /\ \E c \in Paths :
       \E n \in tip .. MaxHeight :
         /\ DOMAIN c = 0 .. n
         /\ c # best
         /\ \A i \in 0 .. fin : c[i] = best[i]
         /\ best' = c
         /\ tip' = n
  /\ UNCHANGED fin

\* The node finalizes a block of its best chain.
Finalize ==
  /\ \E n \in fin + 1 .. tip : fin' = n
  /\ UNCHANGED <<best, tip>>

ChainNext == Import \/ Finalize
==============================================================================
