------------------------------ MODULE MCCardTree ------------------------------
EXTENDS CardTree

Memory == Permutations(Nodes)
===============================================================================
