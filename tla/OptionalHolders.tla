-------------------------- MODULE OptionalHolders ---------------------------
(***************************************************************************)
(* The objects of a program that are Optional<T> (optional.h): a pointer   *)
(* to a value on the heap, or null.  The heap is explicit, as in           *)
(* OneOfHolders; any allocation or copy of a value may throw.  The names   *)
(* begin with Opt to tell the operations from those of OneOf.              *)
(***************************************************************************)
EXTENDS Heap, FiniteSets

CONSTANTS
    Optionals,  \* the objects a program has room for
    OptValues,  \* the values of T
    OptCells    \* heap cells

OptDistinct ==
    /\ Null \notin OptCells
    /\ Free \notin OptValues
    /\ Absent # Empty /\ {Absent, Empty} \cap OptValues = {}

ASSUME OptionalAssumption == OptDistinct

VARIABLES
    optLive,  \* the objects constructed and not destroyed
    optPtr,
    optHeap   \* the value in each cell

optVars == <<optLive, optPtr, optHeap>>

OptTypeOK ==
    /\ optLive \subseteq Optionals
    /\ optPtr \in [Optionals -> OptCells \cup {Null}]
    /\ optHeap \in [OptCells -> OptValues \cup {Free}]

OptInit ==
    /\ optLive = {}
    /\ optPtr = [h \in Optionals |-> Null]
    /\ optHeap = [c \in OptCells |-> Free]

-----------------------------------------------------------------------------

(* The heap after Reset() of h, and whether h has a value *)
OptHasValue(h) == optPtr[h] # Null
OptReleased(h) == IF OptHasValue(h) THEN [optHeap EXCEPT ![optPtr[h]] = Free] ELSE optHeap

(* `new T(value)` on the heap hp, assigned to the ptr of h *)
OptNew(h, v, hp) ==
    \E c \in OptCells :
        /\ hp[c] = Free
        /\ optHeap' = [hp EXCEPT ![c] = v]
        /\ optPtr' = [optPtr EXCEPT ![h] = c]

(* h is reset and gets no value: Reset(), an assignment of an Optional     *)
(* without one, or one whose `new` throws.                                 *)
OptEmptied(h) ==
    /\ optHeap' = OptReleased(h)
    /\ optPtr' = [optPtr EXCEPT ![h] = Null]

(* Optional() *)
OptConstruct(h) ==
    /\ h \notin optLive
    /\ optLive' = optLive \cup {h}
    /\ UNCHANGED <<optPtr, optHeap>>

(* Optional(const T&) and Optional(T&&) *)
OptConstructFrom(h, v) ==
    /\ h \notin optLive
    /\ optLive' = optLive \cup {h}
    /\ OptNew(h, v, optHeap)

(* Optional(const Optional&) *)
OptCopyConstruct(h, o) ==
    /\ h \notin optLive
    /\ o \in optLive
    /\ optLive' = optLive \cup {h}
    /\ IF OptHasValue(o) THEN OptNew(h, optHeap[optPtr[o]], optHeap)
       ELSE UNCHANGED <<optPtr, optHeap>>

(* Optional(Optional&&) *)
OptMoveConstruct(h, o) ==
    /\ h \notin optLive
    /\ o \in optLive
    /\ optLive' = optLive \cup {h}
    /\ optPtr' = [optPtr EXCEPT ![h] = optPtr[o], ![o] = Null]
    /\ UNCHANGED optHeap

(* A variant of OptCopyAssign: the value there is not deleted first. *)
OptCopyAssignLeaks(h, o) ==
    /\ {h, o} \subseteq optLive
    /\ IF o # h /\ OptHasValue(o) THEN OptNew(h, optHeap[optPtr[o]], optHeap)
       ELSE OptEmptied(h)
    /\ UNCHANGED optLive

(* operator=(const Optional&): an object assigned to itself is reset       *)
(* before its value is asked for.                                          *)
OptCopyAssign(h, o) ==
    /\ {h, o} \subseteq optLive
    /\ IF o # h /\ OptHasValue(o) THEN OptNew(h, optHeap[optPtr[o]], OptReleased(h))
       ELSE OptEmptied(h)
    /\ UNCHANGED optLive

OptCopyAssignThrows(h, o) ==
    /\ {h, o} \subseteq optLive
    /\ o # h /\ OptHasValue(o)
    /\ OptEmptied(h)
    /\ UNCHANGED optLive

(* A variant of OptMoveAssign: the pointers are swapped. *)
OptMoveAssignSwaps(h, o) ==
    /\ {h, o} \subseteq optLive
    /\ optPtr' = [optPtr EXCEPT ![h] = optPtr[o], ![o] = optPtr[h]]
    /\ UNCHANGED <<optLive, optHeap>>

(* operator=(Optional&&), which also empties an object moved to itself *)
OptMoveAssign(h, o) ==
    /\ {h, o} \subseteq optLive
    /\ IF o = h THEN OptEmptied(h)
       ELSE optHeap' = OptReleased(h) /\ optPtr' = [optPtr EXCEPT ![h] = optPtr[o], ![o] = Null]
    /\ UNCHANGED optLive

(* operator=(const T&) and operator=(T&&) *)
OptAssign(h, v) ==
    /\ h \in optLive
    /\ OptNew(h, v, OptReleased(h))
    /\ UNCHANGED optLive

OptAssignThrows(h) ==
    /\ h \in optLive
    /\ OptEmptied(h)
    /\ UNCHANGED optLive

(* operator=(const T&) of the value that the object holds itself: it is    *)
(* deleted before it is copied.                                            *)
OptAssignOwn(h) ==
    /\ h \in optLive
    /\ OptHasValue(h)
    /\ \E v \in OptValues : OptNew(h, v, OptReleased(h))
    /\ UNCHANGED optLive

OptReset(h) ==
    /\ h \in optLive
    /\ OptEmptied(h)
    /\ UNCHANGED optLive

(* ~Optional() *)
OptDestroy(h) ==
    /\ h \in optLive
    /\ optLive' = optLive \ {h}
    /\ OptEmptied(h)

OptNext ==
    \E h \in Optionals :
        \/ OptConstruct(h)
        \/ OptReset(h)
        \/ OptDestroy(h)
        \/ OptAssignOwn(h)
        \/ OptAssignThrows(h)
        \/ \E v \in OptValues : OptConstructFrom(h, v) \/ OptAssign(h, v)
        \/ \E o \in Optionals :
              \/ OptCopyConstruct(h, o) \/ OptMoveConstruct(h, o)
              \/ OptCopyAssign(h, o) \/ OptCopyAssignThrows(h, o) \/ OptMoveAssign(h, o)

OptSpec == OptInit /\ [][OptNext]_optVars

-----------------------------------------------------------------------------
(* Properties *)

(* Every value on the heap belongs to exactly one object that exists, and  *)
(* an object never points at a value that was deleted.                     *)
OptOwners(c) == {h \in optLive : optPtr[h] = c}
OptionalSoleOwner ==
    \A c \in OptCells :
        \/ optHeap[c] = Free /\ OptOwners(c) = {}
        \/ \E h \in optLive : optHeap[c] # Free /\ OptOwners(c) = {h}

(* The objects as a program sees them *)
OptContent ==
    [h \in Optionals |-> IF h \notin optLive THEN Absent
                         ELSE IF optPtr[h] = Null THEN Empty ELSE optHeap[optPtr[h]]]

(* The pointers implement values: what is done to one object shows in no   *)
(* other, but in the source of a move, which is then empty.                *)
OptAbstract ==
    INSTANCE Holders WITH Objects <- Optionals, Held <- OptValues, content <- OptContent
OptionalHoldsValues == OptAbstract!Spec

(* A copy holds what its source holds, and leaves it there; an assignment  *)
(* of an object to itself is apart.                                        *)
OptCopiesEqual ==
    [][\A h, o \in Optionals : OptCopyConstruct(h, o) \/ (o # h /\ OptCopyAssign(h, o)) =>
          OptContent' = [OptContent EXCEPT ![h] = OptContent[o]]]_optVars

(* A copy assignment leaves its source as it was, also when it assigns an  *)
(* object to itself, as the assignments of std::optional do.               *)
OptAssignKeepsSource ==
    [][\A h, o \in Optionals : OptCopyAssign(h, o) => OptContent'[o] = OptContent[o]]_optVars

=============================================================================
