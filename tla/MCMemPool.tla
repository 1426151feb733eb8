------------------------------ MODULE MCMemPool ------------------------------
EXTENDS MemPool, TLC

\* Blocks are alike, and so are the workers.
Alike == Permutations(Block) \cup Permutations(Worker)
=============================================================================
