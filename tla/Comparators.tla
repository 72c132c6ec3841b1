---------------------------- MODULE Comparators -----------------------------
(***************************************************************************)
(* comparators.h: the order of positions in a document, and the ranges     *)
(* that contain a position.  The operators have no state; what they        *)
(* promise is stated here of any positions and proved in Orders_proofs.    *)
(***************************************************************************)
EXTENDS Naturals

Position == [line : Nat, character : Nat]

(* A Range.  The name is that of an operator on functions. *)
RangeFrom(s, e) == [start |-> s, end |-> e]

-----------------------------------------------------------------------------

(* Compare(), whose results -1, 1 and 0 are named *)
Compare(a, b) ==
    CASE a.line < b.line -> "before"
      [] a.line > b.line -> "after"
      [] a.line = b.line /\ a.character < b.character -> "before"
      [] a.line = b.line /\ a.character > b.character -> "after"
      [] OTHER -> "equal"

Before(a, b) == Compare(a, b) = "before"
BeforeOrAt(a, b) == Compare(a, b) # "after"
After(a, b) == Compare(a, b) = "after"
AfterOrAt(a, b) == Compare(a, b) # "before"

ContainsExclusive(r, p) == AfterOrAt(p, r.start) /\ Before(p, r.end)

ContainsInclusive(r, p) == AfterOrAt(p, r.start) /\ BeforeOrAt(p, r.end)

-----------------------------------------------------------------------------
(* Properties of any positions a, b and c *)

(* Compare() is the order of a document: any two positions have one, it is *)
(* seen the same from both, it is transitive, and only equal positions     *)
(* compare equal.                                                          *)
TotalOrder(a, b, c) ==
    /\ Before(a, b) <=> After(b, a)
    /\ Compare(a, b) = "equal" <=> a = b
    /\ BeforeOrAt(a, b) /\ BeforeOrAt(b, c) => BeforeOrAt(a, c)

(* A range that is cut in two gives every position in it, the cut and the  *)
(* start among them, to exactly one half; its end is in neither.           *)
RangesSplit(a, b, c) ==
    BeforeOrAt(a, b) /\ BeforeOrAt(b, c) =>
        \A p \in Position :
            /\ ContainsExclusive(RangeFrom(a, c), p) <=>
                 (ContainsExclusive(RangeFrom(a, b), p) # ContainsExclusive(RangeFrom(b, c), p))
            /\ ~(ContainsExclusive(RangeFrom(a, b), p) /\ ContainsExclusive(RangeFrom(b, c), p))

(* Two ranges that touch both contain where they touch, when their ends    *)
(* are included, and no other position.                                    *)
RangesTouch(a, b, c) ==
    BeforeOrAt(a, b) /\ BeforeOrAt(b, c) =>
        \A p \in Position :
            p = b <=> ContainsInclusive(RangeFrom(a, b), p) /\ ContainsInclusive(RangeFrom(b, c), p)

=============================================================================
