---------------------------- MODULE OneOfHolders ----------------------------
(***************************************************************************)
(* The objects of a program that are OneOf<TYPES...> (one_of.h): a void    *)
(* pointer to a value on the heap and the index of the value's type.  The  *)
(* heap is explicit, so that a value owned twice, by nobody, or deleted    *)
(* through a pointer of another type shows.  Any allocation or copy of a   *)
(* value may throw.                                                        *)
(***************************************************************************)
EXTENDS Heap, FiniteSets

CONSTANTS
    Objects,  \* the objects a program has room for
    Types,    \* TYPES...
    Data,     \* what a value of a type may be
    Cells,    \* heap cells
    NoKind    \* kNoKind

ASSUME NullAssumption == Null \notin Cells
ASSUME NoKindAssumption == NoKind \notin Types

Values == [type : Types, datum : Data]

ASSUME FreeAssumption == Free \notin Values
ASSUME ContentAssumption == Absent # Empty /\ {Absent, Empty} \cap Values = {}

VARIABLES
    live,  \* the objects constructed and not destroyed
    ptr,
    kind,
    heap   \* the value in each cell

vars == <<live, ptr, kind, heap>>

OneOfTypeOK ==
    /\ live \subseteq Objects
    /\ ptr \in [Objects -> Cells \cup {Null}]
    /\ kind \in [Objects -> Types \cup {NoKind}]
    /\ heap \in [Cells -> Values \cup {Free}]

Init ==
    /\ live = {}
    /\ ptr = [h \in Objects |-> Null]
    /\ kind = [h \in Objects |-> NoKind]
    /\ heap = [c \in Cells |-> Free]

-----------------------------------------------------------------------------

Is(h, t) == kind[h] = t

(* Get<kind[h]>() is not null *)
HasValue(h) == kind[h] # NoKind /\ ptr[h] # Null

(* The heap after Reset() of h, which deletes Get<T>() for every T, of which *)
(* one is not null when there is a pointer and a kind to say its type.     *)
Released(h) ==
    IF HasValue(h) THEN [heap EXCEPT ![ptr[h]] = Free] ELSE heap

(* `new D(value)` on the heap hp, assigned to the ptr of h *)
New(h, v, hp) ==
    \E c \in Cells :
        /\ hp[c] = Free
        /\ heap' = [hp EXCEPT ![c] = v]
        /\ ptr' = [ptr EXCEPT ![h] = c]

(* An allocation or a constructor throws: h was reset and stays without    *)
(* a value, but Set() has its kind written by then.                        *)
Throws(h, k) ==
    /\ heap' = Released(h)
    /\ ptr' = [ptr EXCEPT ![h] = Null]
    /\ kind' = [kind EXCEPT ![h] = k]

(* OneOf() *)
Construct(h) ==
    /\ h \notin live
    /\ live' = live \cup {h}
    /\ UNCHANGED <<ptr, kind, heap>>

(* OneOf(T&& value).  When Set() throws there is no object. *)
ConstructFrom(h, v) ==
    /\ h \notin live
    /\ live' = live \cup {h}
    /\ kind' = [kind EXCEPT ![h] = v.type]
    /\ New(h, v, heap)

(* OneOf(const OneOf&), by copy assignment to the empty object.            *)
CopyConstruct(h, o) ==
    /\ h \notin live
    /\ o \in live
    /\ live' = live \cup {h}
    /\ kind' = [kind EXCEPT ![h] = kind[o]]
    /\ IF HasValue(o) THEN New(h, heap[ptr[o]], heap) ELSE UNCHANGED <<ptr, heap>>

(* A variant of MoveConstruct: the source keeps its pointer. *)
MoveConstructKeeps(h, o) ==
    /\ h \notin live
    /\ o \in live
    /\ live' = live \cup {h}
    /\ ptr' = [ptr EXCEPT ![h] = ptr[o]]
    /\ kind' = [kind EXCEPT ![h] = kind[o]]
    /\ UNCHANGED heap

(* OneOf(OneOf&&): the source loses its pointer and keeps its kind. *)
MoveConstruct(h, o) ==
    /\ h \notin live
    /\ o \in live
    /\ live' = live \cup {h}
    /\ ptr' = [ptr EXCEPT ![h] = ptr[o], ![o] = Null]
    /\ kind' = [kind EXCEPT ![h] = kind[o]]
    /\ UNCHANGED heap

(* A variant of CopyAssign: the kind is not copied. *)
CopyAssignKindless(h, o) ==
    /\ {h, o} \subseteq live
    /\ kind' = [kind EXCEPT ![h] = NoKind]
    /\ IF o # h /\ HasValue(o) THEN New(h, heap[ptr[o]], Released(h))
       ELSE heap' = Released(h) /\ ptr' = [ptr EXCEPT ![h] = Null]
    /\ UNCHANGED live

(* A variant of CopyAssign: the pointer is copied. *)
CopyAssignShallow(h, o) ==
    /\ {h, o} \subseteq live
    /\ o # h
    /\ heap' = Released(h)
    /\ ptr' = [ptr EXCEPT ![h] = ptr[o]]
    /\ kind' = [kind EXCEPT ![h] = kind[o]]
    /\ UNCHANGED live

(* A variant of CopyAssign: the reset comes after the copy. *)
CopyAssignResetsLate(h, o) ==
    /\ {h, o} \subseteq live
    /\ heap' = Released(h)
    /\ ptr' = [ptr EXCEPT ![h] = Null]
    /\ kind' = [kind EXCEPT ![h] = kind[o]]
    /\ UNCHANGED live

(* operator=(const OneOf&): resets, then copies from the other, which an   *)
(* assignment to itself has just emptied.                                  *)
CopyAssign(h, o) ==
    /\ {h, o} \subseteq live
    /\ kind' = [kind EXCEPT ![h] = IF o = h THEN NoKind ELSE kind[o]]
    /\ IF o # h /\ HasValue(o) THEN New(h, heap[ptr[o]], Released(h))
       ELSE heap' = Released(h) /\ ptr' = [ptr EXCEPT ![h] = Null]
    /\ UNCHANGED live

CopyAssignThrows(h, o) ==
    /\ {h, o} \subseteq live
    /\ o # h /\ HasValue(o)
    /\ Throws(h, NoKind)
    /\ UNCHANGED live

(* Set(value) and operator=(T&&) *)
Set(h, v) ==
    /\ h \in live
    /\ kind' = [kind EXCEPT ![h] = v.type]
    /\ New(h, v, Released(h))
    /\ UNCHANGED live

SetThrows(h, v) ==
    /\ h \in live
    /\ Throws(h, v.type)
    /\ UNCHANGED live

(* Set() of the value that the object holds itself, as Get() points to it: *)
(* it is deleted before it is copied, so that the new value is made of     *)
(* whatever the freed cell then reads as.                                  *)
SetOwn(h) ==
    /\ h \in live
    /\ HasValue(h)
    /\ \E d \in Data : New(h, [type |-> kind[h], datum |-> d], Released(h))
    /\ UNCHANGED <<live, kind>>

Reset(h) ==
    /\ h \in live
    /\ heap' = Released(h)
    /\ ptr' = [ptr EXCEPT ![h] = Null]
    /\ kind' = [kind EXCEPT ![h] = NoKind]
    /\ UNCHANGED live

(* ~OneOf() *)
Destroy(h) ==
    /\ h \in live
    /\ live' = live \ {h}
    /\ heap' = Released(h)
    /\ ptr' = [ptr EXCEPT ![h] = Null]
    /\ kind' = [kind EXCEPT ![h] = NoKind]

Next ==
    \E h \in Objects :
        \/ Construct(h)
        \/ Reset(h)
        \/ Destroy(h)
        \/ SetOwn(h)
        \/ \E v \in Values : ConstructFrom(h, v) \/ Set(h, v) \/ SetThrows(h, v)
        \/ \E o \in Objects :
              CopyConstruct(h, o) \/ MoveConstruct(h, o) \/ CopyAssign(h, o) \/ CopyAssignThrows(h, o)

Spec == Init /\ [][Next]_vars

-----------------------------------------------------------------------------
(* Properties *)

(* Every value on the heap belongs to exactly one object that exists, and  *)
(* an object never points at a value that was deleted: whatever is copied, *)
(* moved, reset, destroyed or thrown, nothing leaks or is deleted twice.   *)
Owners(c) == {h \in live : ptr[h] = c}
SoleOwner ==
    \A c \in Cells :
        \/ heap[c] = Free /\ Owners(c) = {}
        \/ \E h \in live : heap[c] # Free /\ Owners(c) = {h}

(* The kind of an object with a value is the type of the value, so that    *)
(* Get() casts to it and Reset() deletes it as what it is.                 *)
KindMatches ==
    \A h \in live : ptr[h] # Null => heap[ptr[h]] # Free /\ kind[h] = heap[ptr[h]].type

(* The objects as a program sees them *)
Content ==
    [h \in Objects |-> IF h \notin live THEN Absent
                       ELSE IF ptr[h] = Null THEN Empty ELSE heap[ptr[h]]]

(* The pointers implement values: what is done to one object shows in no   *)
(* other, but in the source of a move, which is then empty.  This is about *)
(* what Get() returns, not about the kind of an object without a value.    *)
Abstract == INSTANCE Holders WITH Held <- Values, content <- Content
HoldsValues == Abstract!Spec

(* A copy holds what its source holds, and leaves it there; an assignment  *)
(* of an object to itself is apart.                                        *)
CopiesEqual ==
    [][\A h, o \in Objects : CopyConstruct(h, o) \/ (o # h /\ CopyAssign(h, o)) =>
          Content' = [Content EXCEPT ![h] = Content[o]]]_vars

(* Is<T>() is true of an object that holds a value of type T.  The move    *)
(* constructor and a Set() that throws leave the kind of a value that is   *)
(* not there, although one_of.h:123 documents Is() as stated here.         *)
IsMeansHolds ==
    \A h \in live, t \in Types : Is(h, t) => ptr[h] # Null /\ heap[ptr[h]].type = t

(* A Set() that returns has set the value it was given (one_of.h:114),     *)
(* also one that the object itself holds.                                  *)
SetSetsTheValue == [][\A h \in Objects : SetOwn(h) => Content'[h] = Content[h]]_vars

=============================================================================
