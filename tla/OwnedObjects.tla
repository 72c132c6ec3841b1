---------------------------- MODULE OwnedObjects ----------------------------
(***************************************************************************)
(* What BlockAllocator promises (src/utils/block_allocator.h): every       *)
(* object it has created is its own, its View lists them in the order of   *)
(* their creation, and it destructs each of them once, when it is reset,   *)
(* assigned to or destructed itself.  Blocks and addresses are not seen.   *)
(***************************************************************************)
EXTENDS Naturals, Sequences, SequencesExt

CONSTANTS
    Stores,    \* the allocators
    Things     \* the objects

VARIABLES
    contents,  \* the objects of an allocator, in the order of its View
    destructed \* the objects whose destructor has run

storeVars == <<contents, destructed>>

Owned == UNION {Range(contents[s]) : s \in Stores}

StoreTypeOK ==
    /\ contents \in [Stores -> Seq(Things)]
    /\ destructed \subseteq Things

StoreInit ==
    /\ contents = [s \in Stores |-> <<>>]
    /\ destructed = {}

(* Neither owned nor destructed before. *)
Fresh == Things \ (Owned \cup destructed)

(* Create() returns x, a fresh object. *)
Add(s, x) ==
    /\ UNCHANGED destructed
    /\ contents' = [contents EXCEPT ![s] = Append(@, x)]

Clear(s) ==
    /\ destructed' = destructed \cup Range(contents[s])
    /\ contents' = [contents EXCEPT ![s] = <<>>]

(* What s owned is destructed, and it takes what t owns.                   *)
Take(s, t) ==
    /\ s # t
    /\ destructed' = destructed \cup Range(contents[s])
    /\ contents' = [contents EXCEPT ![s] = contents[t], ![t] = <<>>]

StoreNext ==
    \E s \in Stores :
        \/ \E x \in Fresh : Add(s, x)
        \/ Clear(s)
        \/ \E t \in Stores : Take(s, t)

StoreSpec == StoreInit /\ [][StoreNext]_storeVars
=============================================================================
