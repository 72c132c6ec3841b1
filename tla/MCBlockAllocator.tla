-------------------------- MODULE MCBlockAllocator --------------------------
(***************************************************************************)
(* Blocks of eight bytes, objects of two types, chunks of two pointers.    *)
(***************************************************************************)
EXTENDS BlockAllocator, TLC

MCTypes    == {[size |-> 1, align |-> 1], [size |-> 3, align |-> 2]}
MCPointers == [size |-> 4, align |-> 4]

Symmetry == Permutations(Allocators) \cup Permutations(Blocks)
=============================================================================
