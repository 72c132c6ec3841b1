------------------------------ MODULE Holders -------------------------------
(***************************************************************************)
(* What OneOf and Optional promise, without pointers: every object that    *)
(* exists is empty or holds a value of its own.  One object changes at a   *)
(* time, but for a move, which also empties the object moved from.  (That  *)
(* a copy holds what its source does is a property of the step, which the  *)
(* implementations state.)                                                 *)
(***************************************************************************)
CONSTANTS
    Objects,  \* the objects a program has room for
    Held,     \* the values an object can hold
    Absent,   \* no object has been constructed there
    Empty     \* the object holds nothing

VARIABLE content

Exists(h) == content[h] # Absent

Init == content = [h \in Objects |-> Absent]

Put(h, c) == content' = [content EXCEPT ![h] = c]

Hold(h) == \E v \in Held : Put(h, v)
Clear(h) == Put(h, Empty)
Drop(h) == Exists(h) /\ Put(h, Absent)
Move(h, o) == Exists(o) /\ content' = [content EXCEPT ![h] = content[o], ![o] = Empty]

Next ==
    \E h \in Objects :
        \/ Hold(h)
        \/ Clear(h)
        \/ Drop(h)
        \/ \E o \in Objects \ {h} : Move(h, o)

Spec == Init /\ [][Next]_content

=============================================================================
