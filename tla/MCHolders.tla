----------------------------- MODULE MCHolders ------------------------------
(***************************************************************************)
(* A program with OneOfs and Optionals, each with its part of the heap.    *)
(* They share nothing, so that it is enough to let the objects of one      *)
(* class exist at a time.                                                  *)
(***************************************************************************)
EXTENDS OneOfHolders, OptionalHolders

HoldersInit == Init /\ OptInit

HoldersNext ==
    \/ optLive = {} /\ Next /\ UNCHANGED optVars
    \/ live = {} /\ OptNext /\ UNCHANGED vars

HoldersSpec == HoldersInit /\ [][HoldersNext]_<<vars, optVars>>

=============================================================================
