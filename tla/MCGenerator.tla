---------------------------- MODULE MCGenerator -----------------------------
(***************************************************************************)
(* The two sorts of Generator share nothing: it is enough that either the  *)
(* aliases or the structures refer to each other.                          *)
(***************************************************************************)
EXTENDS Generator

MCInit ==
    /\ \/ declared = SetToSeq(Aliases) /\ uses = [a \in Aliases |-> {}]
       \/ refers = [s \in Structures |-> [d \in Structures |-> None]]
    /\ Init

MCSpec == MCInit /\ [][Next]_vars /\ WF_vars(Next)

=============================================================================
