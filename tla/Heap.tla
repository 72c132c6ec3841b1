-------------------------------- MODULE Heap --------------------------------
(* What a pointer, a cell and an object may hold that is not a value.      *)
CONSTANTS
    Null,    \* the null pointer
    Free,    \* what a heap cell without a value contains
    Absent,  \* what a program sees of an object that does not exist
    Empty    \* and of one that holds nothing
=============================================================================
