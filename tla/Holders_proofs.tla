-------------------------- MODULE Holders_proofs ----------------------------
(* Proofs about OneOfHolders and OptionalHolders, for any objects, types,  *)
(* values and heap.  Those about Optional go as those about OneOf, without *)
(* the kinds, and their names begin with Opt.                              *)
EXTENDS OneOfHolders, OptionalHolders, TLAPS

-----------------------------------------------------------------------------
(* OneOf *)

(* The inductive invariant, of the objects L with the pointers P and kinds *)
(* K on the heap H: a pointer is to a value of its kind, no two pointers   *)
(* are to the same value, and no value is without a pointer.               *)
Typed(L, P, K, H) ==
    /\ L \subseteq Objects
    /\ P \in [Objects -> Cells \cup {Null}]
    /\ K \in [Objects -> Types \cup {NoKind}]
    /\ H \in [Cells -> Values \cup {Free}]

Pointing(L, P, K, H) ==
    \A h \in Objects : P[h] # Null => h \in L /\ H[P[h]] # Free /\ K[h] = H[P[h]].type

Apart(P) == \A g, h \in Objects : P[g] = P[h] => g = h \/ P[g] = Null

Covered(P, H) == \A x \in Cells : H[x] # Free => \E h \in Objects : P[h] = x

Owned(L, P, K, H) ==
    Typed(L, P, K, H) /\ Pointing(L, P, K, H) /\ Apart(P) /\ Covered(P, H)

IInv == Owned(live, ptr, kind, heap)

(* Reset() of h on the heap H, where P[h] is the pointer *)
Freed(P, H, h) == IF P[h] # Null THEN [H EXCEPT ![P[h]] = Free] ELSE H

-----------------------------------------------------------------------------
(* What each operation is made of preserves the invariant. *)

(* Without a pointer, h may have any kind. *)
LEMMA AnyKind ==
    ASSUME NEW L, NEW P, NEW K, NEW H, Owned(L, P, K, H),
           NEW h \in Objects, P[h] = Null, NEW k \in Types \cup {NoKind}
    PROVE  Owned(L, P, [K EXCEPT ![h] = k], H)
<1>1. Typed(L, P, [K EXCEPT ![h] = k], H)
    BY DEF Owned, Typed
<1>2. Pointing(L, P, [K EXCEPT ![h] = k], H)
    BY DEF Owned, Typed, Pointing
<1> QED BY <1>1, <1>2 DEF Owned

(* Reset() of h *)
LEMMA FreedOwned ==
    ASSUME NEW L, NEW P, NEW K, NEW H, Owned(L, P, K, H), NEW h \in Objects
    PROVE  Owned(L, [P EXCEPT ![h] = Null], K, Freed(P, H, h))
<1> DEFINE Q == [P EXCEPT ![h] = Null]
           F == Freed(P, H, h)
<1>1. /\ Typed(L, P, K, H) /\ Pointing(L, P, K, H) /\ Apart(P) /\ Covered(P, H)
      /\ P[h] \in Cells \cup {Null}
    BY DEF Owned, Typed
<1>2. /\ Q \in [Objects -> Cells \cup {Null}]
      /\ Q[h] = Null
      /\ \A g \in Objects : g # h => Q[g] = P[g]
    BY <1>1 DEF Typed
<1>3. /\ F \in [Cells -> Values \cup {Free}]
      /\ \A x \in Cells : F[x] = IF x = P[h] THEN Free ELSE H[x]
    BY <1>1, NullAssumption DEF Typed, Freed
<1>4. \A g \in Objects : g # h /\ P[g] # Null => P[g] \in Cells /\ F[P[g]] = H[P[g]]
    BY <1>1, <1>3 DEF Typed, Apart
<1>5. Typed(L, Q, K, F)
    BY <1>1, <1>2, <1>3 DEF Typed
<1>6. Pointing(L, Q, K, F)
    BY <1>1, <1>2, <1>4 DEF Pointing
<1>7. Apart(Q)
    BY <1>1, <1>2 DEF Apart
<1>8. Covered(Q, F)
    BY <1>1, <1>2, <1>3 DEF Covered
<1> QED BY <1>5, <1>6, <1>7, <1>8 DEF Owned

(* A new value in a free cell, for an object without one *)
LEMMA NewOwned ==
    ASSUME NEW L, NEW P, NEW K, NEW H, Owned(L, P, K, H),
           NEW h \in L, P[h] = Null, NEW v \in Values,
           NEW x \in Cells, H[x] = Free
    PROVE  Owned(L, [P EXCEPT ![h] = x], [K EXCEPT ![h] = v.type], [H EXCEPT ![x] = v])
<1> DEFINE Q == [P EXCEPT ![h] = x]
           J == [K EXCEPT ![h] = v.type]
           G == [H EXCEPT ![x] = v]
<1>1. /\ Typed(L, P, K, H) /\ Pointing(L, P, K, H) /\ Apart(P) /\ Covered(P, H)
      /\ h \in Objects /\ v.type \in Types
    BY DEF Owned, Typed, Values
<1>2. /\ Q \in [Objects -> Cells \cup {Null}]
      /\ Q[h] = x
      /\ \A g \in Objects : g # h => Q[g] = P[g]
    BY <1>1 DEF Typed
<1>3. /\ J \in [Objects -> Types \cup {NoKind}]
      /\ J[h] = v.type
      /\ \A g \in Objects : g # h => J[g] = K[g]
    BY <1>1 DEF Typed
<1>4. /\ G \in [Cells -> Values \cup {Free}]
      /\ G[x] = v
      /\ \A y \in Cells : y # x => G[y] = H[y]
    BY <1>1 DEF Typed
<1>5. \A g \in Objects : P[g] # Null => P[g] \in Cells /\ P[g] # x /\ G[P[g]] = H[P[g]]
    BY <1>1, <1>4 DEF Typed, Pointing
<1>6. Typed(L, Q, J, G)
    BY <1>1, <1>2, <1>3, <1>4 DEF Typed
<1>7. Pointing(L, Q, J, G)
    <2> SUFFICES ASSUME NEW g \in Objects, Q[g] # Null
                 PROVE  g \in L /\ G[Q[g]] # Free /\ J[g] = G[Q[g]].type
        BY DEF Pointing
    <2>1. CASE g = h
        BY <2>1, <1>2, <1>3, <1>4, FreeAssumption
    <2>2. CASE g # h
        <3>1. Q[g] = P[g] /\ J[g] = K[g] /\ G[P[g]] = H[P[g]]
            BY <2>2, <1>2, <1>3, <1>5
        <3> QED BY <3>1, <1>1 DEF Pointing
    <2> QED BY <2>1, <2>2
<1>8. Apart(Q)
    BY <1>1, <1>2, <1>5, NullAssumption DEF Apart
<1>9. Covered(Q, G)
    BY <1>1, <1>2, <1>4, NullAssumption DEF Covered
<1> QED BY <1>6, <1>7, <1>8, <1>9 DEF Owned

(* The pointer and the kind of o go to h, which has no value. *)
LEMMA MovedOwned ==
    ASSUME NEW L, NEW P, NEW K, NEW H, Owned(L, P, K, H),
           NEW h \in L, P[h] = Null, NEW o \in L, o # h
    PROVE  Owned(L, [P EXCEPT ![h] = P[o], ![o] = Null], [K EXCEPT ![h] = K[o]], H)
<1> DEFINE Q == [P EXCEPT ![h] = P[o], ![o] = Null]
           J == [K EXCEPT ![h] = K[o]]
<1>1. /\ Typed(L, P, K, H) /\ Pointing(L, P, K, H) /\ Apart(P) /\ Covered(P, H)
      /\ h \in Objects /\ o \in Objects
    BY DEF Owned, Typed
<1>2. /\ Q \in [Objects -> Cells \cup {Null}]
      /\ Q[h] = P[o] /\ Q[o] = Null
      /\ \A g \in Objects : g # h /\ g # o => Q[g] = P[g]
    BY <1>1 DEF Typed
<1>3. /\ J \in [Objects -> Types \cup {NoKind}]
      /\ J[h] = K[o]
      /\ \A g \in Objects : g # h => J[g] = K[g]
    BY <1>1 DEF Typed
<1>4. Typed(L, Q, J, H)
    BY <1>1, <1>2, <1>3 DEF Typed
<1>5. Pointing(L, Q, J, H)
    BY <1>1, <1>2, <1>3 DEF Pointing
<1>6. Apart(Q)
    BY <1>1, <1>2 DEF Apart
<1>7. Covered(Q, H)
    <2> SUFFICES ASSUME NEW x \in Cells, H[x] # Free
                 PROVE  \E g \in Objects : Q[g] = x
        BY DEF Covered
    <2>1. PICK g \in Objects : P[g] = x
        BY <1>1 DEF Covered
    <2>2. g # h
        BY <2>1, NullAssumption
    <2> QED BY <2>1, <2>2, <1>1, <1>2
<1> QED BY <1>4, <1>5, <1>6, <1>7 DEF Owned

(* Objects come, and go when they have no value. *)
LEMMA LiveOwned ==
    ASSUME NEW L, NEW P, NEW K, NEW H, Owned(L, P, K, H), NEW h \in Objects
    PROVE  /\ Owned(L \cup {h}, P, K, H)
           /\ P[h] = Null => Owned(L \ {h}, P, K, H)
<1>1. /\ Typed(L, P, K, H) /\ Pointing(L, P, K, H) /\ Apart(P) /\ Covered(P, H)
    BY DEF Owned
<1>2. Owned(L \cup {h}, P, K, H)
    BY <1>1 DEF Owned, Typed, Pointing
<1>3. P[h] = Null => Owned(L \ {h}, P, K, H)
    BY <1>1 DEF Owned, Typed, Pointing
<1> QED BY <1>2, <1>3

-----------------------------------------------------------------------------
(* What a program sees of objects L with pointers P on the heap H *)
Seen(L, P, H) ==
    [h \in Objects |-> IF h \notin L THEN Absent
                       ELSE IF P[h] = Null THEN Empty ELSE H[P[h]]]

(* ... with the object h showing c *)
With(S, h, c) == [S EXCEPT ![h] = c]

(* What h shows is not Absent if, and only if, it is live. *)
LEMMA SeenLive ==
    ASSUME NEW L, NEW P, NEW K, NEW H, Owned(L, P, K, H), NEW h \in L
    PROVE  Seen(L, P, H)[h] # Absent
<1>1. h \in Objects /\ (P[h] # Null => P[h] \in Cells /\ H[P[h]] \in Values)
    BY DEF Owned, Typed, Pointing
<1> QED BY <1>1, ContentAssumption DEF Seen

(* An object that is reset shows as empty, and the others as they were. *)
LEMMA EmptiedSeen ==
    ASSUME NEW L, NEW P, NEW K, NEW H, Owned(L, P, K, H), NEW h \in L
    PROVE  Seen(L, [P EXCEPT ![h] = Null], Freed(P, H, h)) = With(Seen(L, P, H), h, Empty)
<1> DEFINE Q == [P EXCEPT ![h] = Null]
           F == Freed(P, H, h)
           before == Seen(L, P, H)
           after == Seen(L, Q, F)
<1>1. h \in Objects /\ P \in [Objects -> Cells \cup {Null}] /\ H \in [Cells -> Values \cup {Free}] /\ Apart(P)
    BY DEF Owned, Typed
<1>2. \A x \in Cells : x # P[h] => F[x] = H[x]
    BY <1>1 DEF Freed
<1>3. ASSUME NEW g \in Objects, g # h
      PROVE  Q[g] = P[g] /\ (P[g] # Null => F[P[g]] = H[P[g]])
    <2>1. Q[g] = P[g]
        BY <1>1, <1>3
    <2>2. P[g] # Null => P[g] \in Cells /\ P[g] # P[h]
        BY <1>1, <1>3 DEF Apart
    <2> QED BY <2>1, <2>2, <1>2
<1>4. Q[h] = Null
    BY <1>1
<1> HIDE DEF Q, F
<1>5. ASSUME NEW g \in Objects, g # h
      PROVE  after[g] = before[g]
    BY <1>3, <1>5 DEF Seen
<1>6. after[h] = Empty
    BY <1>1, <1>4 DEF Seen, With
<1>7. after = [before EXCEPT ![h] = Empty]
    BY <1>1, <1>5, <1>6 DEF Seen
<1> QED BY <1>7 DEF Q, F, With

(* `new` for an object without a value *)
LEMMA NewSeen ==
    ASSUME NEW L, NEW P, NEW K, NEW H, Owned(L, P, K, H),
           NEW h \in L, P[h] = Null, NEW v \in Values,
           NEW x \in Cells, H[x] = Free
    PROVE  Seen(L, [P EXCEPT ![h] = x], [H EXCEPT ![x] = v]) = With(Seen(L, P, H), h, v)
<1> DEFINE Q == [P EXCEPT ![h] = x]
           G == [H EXCEPT ![x] = v]
           before == Seen(L, P, H)
           after == Seen(L, Q, G)
<1>1. /\ h \in Objects /\ P \in [Objects -> Cells \cup {Null}]
      /\ H \in [Cells -> Values \cup {Free}] /\ Pointing(L, P, K, H)
    BY DEF Owned, Typed
<1>2. Q[h] = x /\ G[x] = v /\ x # Null /\ \A y \in Cells : y # x => G[y] = H[y]
    BY <1>1, NullAssumption
<1>3. ASSUME NEW g \in Objects, g # h
      PROVE  Q[g] = P[g] /\ (P[g] # Null => G[P[g]] = H[P[g]])
    <2>1. Q[g] = P[g]
        BY <1>1, <1>3
    <2>2. P[g] # Null => P[g] \in Cells /\ P[g] # x
        BY <1>1 DEF Pointing
    <2> QED BY <2>1, <2>2, <1>2
<1> HIDE DEF Q, G
<1>5. ASSUME NEW g \in Objects, g # h
      PROVE  after[g] = before[g]
    BY <1>3, <1>5 DEF Seen
<1>6. after[h] = v
    BY <1>1, <1>2 DEF Seen
<1>7. after = [before EXCEPT ![h] = v]
    BY <1>1, <1>5, <1>6 DEF Seen
<1> QED BY <1>7 DEF Q, G, With

(* An object comes empty, and goes from the empty state. *)
LEMMA LiveSeen ==
    ASSUME NEW L, NEW P, NEW H, NEW h \in Objects, P[h] = Null
    PROVE  /\ Seen(L \cup {h}, P, H) = With(Seen(L, P, H), h, Empty)
           /\ Seen(L \ {h}, P, H) = With(Seen(L, P, H), h, Absent)
    BY DEF Seen, With

-----------------------------------------------------------------------------
(* The invariant, together with what the objects show *)
Shows(L, P, K, H, S) == Owned(L, P, K, H) /\ Seen(L, P, H) = S

LEMMA AnyKindShows ==
    ASSUME NEW L, NEW P, NEW K, NEW H, NEW S, Shows(L, P, K, H, S),
           NEW h \in Objects, P[h] = Null, NEW k \in Types \cup {NoKind}
    PROVE  Shows(L, P, [K EXCEPT ![h] = k], H, S)
    BY AnyKind DEF Shows

LEMMA FreedShows ==
    ASSUME NEW L, NEW P, NEW K, NEW H, NEW S, Shows(L, P, K, H, S), NEW h \in L
    PROVE  Shows(L, [P EXCEPT ![h] = Null], K, Freed(P, H, h), With(S, h, Empty))
<1>1. Owned(L, P, K, H) /\ h \in Objects
    BY DEF Shows, Owned, Typed
<1>2. Owned(L, [P EXCEPT ![h] = Null], K, Freed(P, H, h))
    BY <1>1, FreedOwned
<1>3. Seen(L, [P EXCEPT ![h] = Null], Freed(P, H, h)) = With(Seen(L, P, H), h, Empty)
    BY <1>1, EmptiedSeen
<1> QED BY <1>2, <1>3 DEF Shows

LEMMA NewShows ==
    ASSUME NEW L, NEW P, NEW K, NEW H, NEW S, Shows(L, P, K, H, S),
           NEW h \in L, P[h] = Null, NEW v \in Values,
           NEW x \in Cells, H[x] = Free
    PROVE  Shows(L, [P EXCEPT ![h] = x], [K EXCEPT ![h] = v.type], [H EXCEPT ![x] = v], With(S, h, v))
<1>1. Owned(L, P, K, H)
    BY DEF Shows
<1>2. Owned(L, [P EXCEPT ![h] = x], [K EXCEPT ![h] = v.type], [H EXCEPT ![x] = v])
    BY <1>1, NewOwned
<1>3. Seen(L, [P EXCEPT ![h] = x], [H EXCEPT ![x] = v]) = With(Seen(L, P, H), h, v)
    BY <1>1, NewSeen
<1> QED BY <1>2, <1>3 DEF Shows

LEMMA MovedShows ==
    ASSUME NEW L, NEW P, NEW K, NEW H, NEW S, Shows(L, P, K, H, S),
           NEW h \in L, P[h] = Null, NEW o \in L, o # h
    PROVE  Shows(L, [P EXCEPT ![h] = P[o], ![o] = Null], [K EXCEPT ![h] = K[o]], H,
                 With(With(S, h, S[o]), o, Empty))
<1>1. Owned(L, P, K, H)
    BY DEF Shows
<1>2. Owned(L, [P EXCEPT ![h] = P[o], ![o] = Null], [K EXCEPT ![h] = K[o]], H)
    BY <1>1, MovedOwned
<1>3. Seen(L, [P EXCEPT ![h] = P[o], ![o] = Null], H)
        = With(With(Seen(L, P, H), h, Seen(L, P, H)[o]), o, Empty)
    BY <1>1 DEF Owned, Typed, Seen, With
<1> QED BY <1>2, <1>3 DEF Shows

LEMMA LiveShows ==
    ASSUME NEW L, NEW P, NEW K, NEW H, NEW S, Shows(L, P, K, H, S), NEW h \in Objects, P[h] = Null
    PROVE  /\ Shows(L \cup {h}, P, K, H, With(S, h, Empty))
           /\ Shows(L \ {h}, P, K, H, With(S, h, Absent))
<1>1. Owned(L, P, K, H)
    BY DEF Shows
<1>2. Owned(L \cup {h}, P, K, H) /\ Owned(L \ {h}, P, K, H)
    BY <1>1, LiveOwned
<1>3. /\ Seen(L \cup {h}, P, H) = With(Seen(L, P, H), h, Empty)
      /\ Seen(L \ {h}, P, H) = With(Seen(L, P, H), h, Absent)
    BY LiveSeen
<1> QED BY <1>2, <1>3 DEF Shows

(* Changes to one object, one after the other *)
LEMMA Withs ==
    ASSUME NEW P, NEW H, NEW L, NEW h, NEW c, NEW d
    PROVE  With(With(Seen(L, P, H), h, c), h, d) = With(Seen(L, P, H), h, d)
    BY DEF Seen, With

-----------------------------------------------------------------------------
(* The steps of the program *)

Now(S) == Shows(live, ptr, kind, heap, S)

(* Released() and Content in the terms of the lemmas *)
LEMMA Readings ==
    ASSUME IInv
    PROVE  /\ Now(Content)
           /\ \A h, c, d : With(With(Content, h, c), h, d) = With(Content, h, d)
           /\ \A h \in Objects :
                /\ HasValue(h) <=> ptr[h] # Null
                /\ Released(h) = Freed(ptr, heap, h)
                /\ ptr[h] # Null => h \in live /\ heap[ptr[h]] \in Values /\ kind[h] = heap[ptr[h]].type
<1>1. Content = Seen(live, ptr, heap)
    BY DEF Content, Seen
<1>2. ASSUME NEW h \in Objects, ptr[h] # Null
      PROVE  h \in live /\ heap[ptr[h]] \in Values /\ kind[h] = heap[ptr[h]].type /\ kind[h] # NoKind
    BY <1>2, NoKindAssumption DEF IInv, Owned, Typed, Pointing, Values
<1>3. ASSUME NEW h \in Objects
      PROVE  HasValue(h) <=> ptr[h] # Null
    BY <1>2 DEF HasValue
<1>4. ASSUME NEW h \in Objects
      PROVE  Released(h) = Freed(ptr, heap, h)
    BY <1>3 DEF Released, Freed
<1>5. Now(Content)
    BY <1>1 DEF IInv, Now, Shows
<1>6. \A h, c, d : With(With(Content, h, c), h, d) = With(Content, h, d)
    BY <1>1, Withs
<1> QED BY <1>2, <1>3, <1>4, <1>5, <1>6

(* The invariant and Content after the step *)
LEMMA After ==
    ASSUME NEW S, Shows(live', ptr', kind', heap', S)
    PROVE  IInv' /\ Content' = S
    BY DEF Shows, IInv, Content, Seen

(* h gets the value v: by `new` after a reset. *)
LEMMA Gets ==
    ASSUME IInv, NEW h \in live, NEW v \in Values, live' = live,
           New(h, v, Released(h)), kind' = [kind EXCEPT ![h] = v.type]
    PROVE  IInv' /\ Content' = With(Content, h, v)
<1>1. h \in Objects /\ ptr \in [Objects -> Cells \cup {Null}]
    BY DEF IInv, Owned, Typed
<1>2. /\ Released(h) = Freed(ptr, heap, h)
      /\ Shows(live, ptr, kind, heap, Content)
      /\ With(With(Content, h, Empty), h, v) = With(Content, h, v)
    BY <1>1, Readings DEF Now
<1>3. PICK x \in Cells : /\ Freed(ptr, heap, h)[x] = Free
                         /\ heap' = [Freed(ptr, heap, h) EXCEPT ![x] = v]
                         /\ ptr' = [ptr EXCEPT ![h] = x]
    BY <1>2 DEF New
<1> DEFINE Q == [ptr EXCEPT ![h] = Null]
           F == Freed(ptr, heap, h)
<1>4. Shows(live, Q, kind, F, With(Content, h, Empty))
    BY <1>2, FreedShows
<1>5. Q[h] = Null /\ F[x] = Free /\ ptr' = [Q EXCEPT ![h] = x] /\ heap' = [F EXCEPT ![x] = v]
    BY <1>1, <1>3
<1> HIDE DEF Q, F
<1>6. Shows(live, [Q EXCEPT ![h] = x], [kind EXCEPT ![h] = v.type], [F EXCEPT ![x] = v],
            With(With(Content, h, Empty), h, v))
    BY <1>4, <1>5, NewShows
<1>7. Shows(live', ptr', kind', heap', With(Content, h, v))
    BY <1>2, <1>5, <1>6
<1> QED BY <1>7, After

(* h comes with the value v. *)
LEMMA ComesWith ==
    ASSUME IInv, NEW h \in Objects \ live, NEW v \in Values, live' = live \cup {h},
           New(h, v, heap), kind' = [kind EXCEPT ![h] = v.type]
    PROVE  IInv' /\ Content' = With(Content, h, v)
<1>1. /\ ptr[h] = Null /\ Shows(live, ptr, kind, heap, Content)
      /\ With(With(Content, h, Empty), h, v) = With(Content, h, v)
    BY Readings DEF Now
<1>2. PICK x \in Cells : heap[x] = Free /\ heap' = [heap EXCEPT ![x] = v] /\ ptr' = [ptr EXCEPT ![h] = x]
    BY DEF New
<1>3. Shows(live', ptr, kind, heap, With(Content, h, Empty)) /\ h \in live'
    BY <1>1, LiveShows
<1>4. Shows(live', [ptr EXCEPT ![h] = x], [kind EXCEPT ![h] = v.type], [heap EXCEPT ![x] = v],
            With(With(Content, h, Empty), h, v))
    BY <1>1, <1>2, <1>3, NewShows
<1>5. Shows(live', ptr', kind', heap', With(Content, h, v))
    BY <1>1, <1>2, <1>4
<1> QED BY <1>5, After

(* h comes without a value and with whatever kind. *)
LEMMA ComesEmpty ==
    ASSUME IInv, NEW h \in Objects \ live, NEW k \in Types \cup {NoKind}, live' = live \cup {h},
           UNCHANGED <<ptr, heap>>, kind' = [kind EXCEPT ![h] = k]
    PROVE  IInv' /\ Content' = With(Content, h, Empty)
<1>1. ptr[h] = Null /\ Shows(live, ptr, kind, heap, Content)
    BY Readings DEF Now
<1>2. Shows(live', ptr, kind, heap, With(Content, h, Empty))
    BY <1>1, LiveShows
<1>3. Shows(live', ptr, [kind EXCEPT ![h] = k], heap, With(Content, h, Empty))
    BY <1>1, <1>2, AnyKindShows
<1>4. Shows(live', ptr', kind', heap', With(Content, h, Empty))
    BY <1>3
<1> QED BY <1>4, After

(* h is left without a value and with whatever kind. *)
LEMMA Loses ==
    ASSUME IInv, NEW h \in live, NEW k \in Types \cup {NoKind}, live' = live,
           heap' = Released(h), ptr' = [ptr EXCEPT ![h] = Null], kind' = [kind EXCEPT ![h] = k]
    PROVE  IInv' /\ Content' = With(Content, h, Empty)
<1>1. h \in Objects /\ ptr \in [Objects -> Cells \cup {Null}]
    BY DEF IInv, Owned, Typed
<1>2. heap' = Freed(ptr, heap, h) /\ Shows(live, ptr, kind, heap, Content)
    BY <1>1, Readings DEF Now
<1> DEFINE Q == [ptr EXCEPT ![h] = Null]
<1>3. Shows(live, Q, kind, Freed(ptr, heap, h), With(Content, h, Empty))
    BY <1>2, FreedShows
<1>4. Q[h] = Null /\ ptr' = Q
    BY <1>1
<1> HIDE DEF Q
<1>5. Shows(live, Q, [kind EXCEPT ![h] = k], Freed(ptr, heap, h), With(Content, h, Empty))
    BY <1>1, <1>3, <1>4, AnyKindShows
<1>6. Shows(live', ptr', kind', heap', With(Content, h, Empty))
    BY <1>2, <1>4, <1>5
<1> QED BY <1>6, After

(* h goes. *)
LEMMA Goes ==
    ASSUME IInv, NEW h \in Objects, Destroy(h)
    PROVE  IInv' /\ Content' = With(Content, h, Absent)
<1>1. /\ h \in live /\ live' = live \ {h}
      /\ heap' = Freed(ptr, heap, h) /\ ptr' = [ptr EXCEPT ![h] = Null]
      /\ kind' = [kind EXCEPT ![h] = NoKind]
      /\ Shows(live, ptr, kind, heap, Content)
      /\ With(With(Content, h, Empty), h, Absent) = With(Content, h, Absent)
    BY Readings DEF Destroy, Now
<1> DEFINE Q == [ptr EXCEPT ![h] = Null]
           J == [kind EXCEPT ![h] = NoKind]
           F == Freed(ptr, heap, h)
<1>2. Shows(live, Q, kind, F, With(Content, h, Empty))
    BY <1>1, FreedShows
<1>3. Q[h] = Null /\ ptr' = Q /\ kind' = J /\ heap' = F
    BY <1>1 DEF IInv, Owned, Typed
<1> HIDE DEF Q, F
<1>4. Shows(live, Q, J, F, With(Content, h, Empty))
    BY <1>2, <1>3, AnyKindShows
<1> HIDE DEF J
<1>5. Shows(live \ {h}, Q, J, F, With(With(Content, h, Empty), h, Absent))
    BY <1>3, <1>4, LiveShows
<1>6. Shows(live', ptr', kind', heap', With(Content, h, Absent))
    BY <1>1, <1>3, <1>5
<1> QED BY <1>6, After

(* h comes with what o had. *)
LEMMA Takes ==
    ASSUME IInv, NEW h \in Objects, NEW o \in Objects, MoveConstruct(h, o)
    PROVE  /\ o # h
           /\ IInv'
           /\ Content' = With(With(Content, h, Content[o]), o, Empty)
<1>1. /\ h \notin live /\ o \in live /\ live' = live \cup {h} /\ heap' = heap
      /\ ptr' = [ptr EXCEPT ![h] = ptr[o], ![o] = Null] /\ kind' = [kind EXCEPT ![h] = kind[o]]
    BY DEF MoveConstruct
<1>2. /\ ptr[h] = Null /\ Shows(live, ptr, kind, heap, Content) /\ o # h
      /\ \A c : With(With(Content, h, Empty), h, c) = With(Content, h, c)
    BY <1>1, Readings DEF Now
<1>3. Shows(live', ptr, kind, heap, With(Content, h, Empty)) /\ h \in live' /\ o \in live'
    BY <1>1, <1>2, LiveShows
<1>4. With(Content, h, Empty)[o] = Content[o]
    BY <1>2 DEF With, Content
<1>5. Shows(live', [ptr EXCEPT ![h] = ptr[o], ![o] = Null], [kind EXCEPT ![h] = kind[o]], heap,
            With(With(With(Content, h, Empty), h, With(Content, h, Empty)[o]), o, Empty))
    BY <1>2, <1>3, MovedShows
<1>6. Shows(live', ptr', kind', heap', With(With(Content, h, Content[o]), o, Empty))
    BY <1>1, <1>2, <1>4, <1>5
<1> QED BY <1>2, <1>6, After

(* Every step keeps the invariant and is a step of Holders. *)
LEMMA Steps ==
    ASSUME IInv, Next
    PROVE  IInv' /\ Abstract!Next
<1>1. PICK h \in Objects :
        \/ Construct(h)
        \/ Reset(h)
        \/ Destroy(h)
        \/ SetOwn(h)
        \/ \E v \in Values : ConstructFrom(h, v) \/ Set(h, v) \/ SetThrows(h, v)
        \/ \E o \in Objects :
              CopyConstruct(h, o) \/ MoveConstruct(h, o) \/ CopyAssign(h, o) \/ CopyAssignThrows(h, o)
    BY DEF Next
<1>2. /\ live \subseteq Objects
      /\ kind \in [Objects -> Types \cup {NoKind}]
      /\ \A g \in Objects :
           /\ HasValue(g) <=> ptr[g] # Null
           /\ Released(g) = Freed(ptr, heap, g)
           /\ ptr[g] # Null => g \in live /\ heap[ptr[g]] \in Values /\ kind[g] = heap[ptr[g]].type
    BY Readings DEF IInv, Owned, Typed
<1>3. ASSUME NEW v \in Values, IInv', Content' = With(Content, h, v)
      PROVE  Abstract!Next
    BY <1>3 DEF Abstract!Next, Abstract!Hold, Abstract!Put, With
<1>4. ASSUME IInv', Content' = With(Content, h, Empty)
      PROVE  Abstract!Next
    BY <1>4 DEF Abstract!Next, Abstract!Clear, Abstract!Put, With
<1>5. CASE Construct(h)
    <2>1. kind' = [kind EXCEPT ![h] = kind[h]] /\ kind[h] \in Types \cup {NoKind}
        BY <1>2, <1>5 DEF Construct
    <2>2. IInv' /\ Content' = With(Content, h, Empty)
        BY <1>5, <2>1, ComesEmpty DEF Construct
    <2> QED BY <2>2, <1>4
<1>6. CASE Reset(h)
    <2>1. IInv' /\ Content' = With(Content, h, Empty)
        BY <1>6, Loses DEF Reset
    <2> QED BY <2>1, <1>4
<1>7. CASE Destroy(h)
    <2>1. IInv' /\ Content' = With(Content, h, Absent)
        BY <1>7, Goes
    <2>2. Content[h] # Absent
        BY <1>2, <1>7, ContentAssumption DEF Content, Destroy
    <2> QED BY <2>1, <2>2 DEF Abstract!Next, Abstract!Drop, Abstract!Exists, Abstract!Put, With
<1>8. CASE SetOwn(h)
    <2>1. PICK d \in Data : New(h, [type |-> kind[h], datum |-> d], Released(h))
        BY <1>8 DEF SetOwn
    <2> DEFINE v == [type |-> kind[h], datum |-> d]
    <2>2. h \in live /\ kind[h] \in Types /\ live' = live /\ kind' = [kind EXCEPT ![h] = kind[h]]
        BY <1>2, <1>8 DEF SetOwn, Values
    <2>3. v \in Values /\ v.type = kind[h]
        BY <2>2 DEF Values
    <2> HIDE DEF v
    <2>4. New(h, v, Released(h))
        BY <2>1 DEF v
    <2>5. IInv' /\ Content' = With(Content, h, v)
        BY <2>2, <2>3, <2>4, Gets
    <2> QED BY <2>3, <2>5, <1>3
<1>9. ASSUME NEW v \in Values, ConstructFrom(h, v)
      PROVE  IInv' /\ Abstract!Next
    <2>1. IInv' /\ Content' = With(Content, h, v)
        BY <1>9, ComesWith DEF ConstructFrom
    <2> QED BY <2>1, <1>3
<1>10. ASSUME NEW v \in Values, Set(h, v)
       PROVE  IInv' /\ Abstract!Next
    <2>1. IInv' /\ Content' = With(Content, h, v)
        BY <1>10, Gets DEF Set
    <2> QED BY <2>1, <1>3
<1>11. ASSUME NEW v \in Values, SetThrows(h, v)
       PROVE  IInv' /\ Abstract!Next
    <2>1. v.type \in Types
        BY DEF Values
    <2>2. IInv' /\ Content' = With(Content, h, Empty)
        BY <1>11, <2>1, Loses DEF SetThrows, Throws
    <2> QED BY <2>2, <1>4
<1>12. ASSUME NEW o \in Objects, CopyConstruct(h, o)
       PROVE  IInv' /\ Abstract!Next
    <2>1. CASE HasValue(o)
        <3>1. IInv' /\ Content' = With(Content, h, heap[ptr[o]])
            BY <1>2, <1>12, <2>1, ComesWith DEF CopyConstruct
        <3> QED BY <1>2, <2>1, <3>1, <1>3
    <2>2. CASE ~HasValue(o)
        <3>1. kind[o] \in Types \cup {NoKind}
            BY <1>2
        <3>2. IInv' /\ Content' = With(Content, h, Empty)
            BY <1>12, <2>2, <3>1, ComesEmpty DEF CopyConstruct
        <3> QED BY <3>2, <1>4
    <2> QED BY <2>1, <2>2
<1>13. ASSUME NEW o \in Objects, MoveConstruct(h, o)
       PROVE  IInv' /\ Abstract!Next
    <2>1. o # h /\ IInv' /\ Content' = With(With(Content, h, Content[o]), o, Empty)
        BY <1>13, Takes
    <2>2. Content[o] # Absent
        BY <1>2, <1>13, ContentAssumption DEF Content, MoveConstruct
    <2>3. Abstract!Move(h, o)
        BY <2>1, <2>2 DEF Abstract!Move, Abstract!Exists, With
    <2> QED BY <2>1, <2>3 DEF Abstract!Next
<1>14. ASSUME NEW o \in Objects, CopyAssign(h, o)
       PROVE  IInv' /\ Abstract!Next
    <2>1. CASE o # h /\ HasValue(o)
        <3>1. IInv' /\ Content' = With(Content, h, heap[ptr[o]])
            BY <1>2, <1>14, <2>1, Gets DEF CopyAssign
        <3> QED BY <1>2, <2>1, <3>1, <1>3
    <2>2. CASE ~(o # h /\ HasValue(o))
        <3> DEFINE k == IF o = h THEN NoKind ELSE kind[o]
        <3>1. k \in Types \cup {NoKind}
            BY <1>2
        <3>2. IInv' /\ Content' = With(Content, h, Empty)
            BY <1>14, <2>2, <3>1, Loses DEF CopyAssign
        <3> QED BY <3>2, <1>4
    <2> QED BY <2>1, <2>2
<1>15. ASSUME NEW o \in Objects, CopyAssignThrows(h, o)
       PROVE  IInv' /\ Abstract!Next
    <2>1. IInv' /\ Content' = With(Content, h, Empty)
        BY <1>15, Loses DEF CopyAssignThrows, Throws
    <2> QED BY <2>1, <1>4
<1> QED
    BY <1>1, <1>5, <1>6, <1>7, <1>8, <1>9, <1>10, <1>11, <1>12, <1>13, <1>14, <1>15

LEMMA Starts == Init => IInv /\ Abstract!Init
<1> SUFFICES ASSUME Init PROVE IInv /\ Abstract!Init
    OBVIOUS
<1>1. IInv
    BY NullAssumption DEF Init, IInv, Owned, Typed, Pointing, Apart, Covered
<1>2. Abstract!Init
    BY DEF Init, Content, Abstract!Init
<1> QED BY <1>1, <1>2

LEMMA Inductive == Spec => []IInv
<1>1. Init => IInv
    BY Starts
<1>2. IInv /\ [Next]_vars => IInv'
    <2>1. CASE Next
        BY <2>1, Steps
    <2>2. CASE UNCHANGED vars
        BY <2>2 DEF vars, IInv, Owned, Typed, Pointing, Apart, Covered
    <2> QED BY <2>1, <2>2
<1> QED BY <1>1, <1>2, PTL DEF Spec

(* The variables of one_of.h stay what their declarations say.             *)
THEOREM OneOfTypes == Spec => []OneOfTypeOK
<1>1. IInv => OneOfTypeOK
    BY DEF IInv, Owned, Typed, OneOfTypeOK
<1> QED BY <1>1, Inductive, PTL

(* No value of a OneOf leaks, is deleted twice or is used after that,      *)
(* however many objects and values there are.                              *)
THEOREM OneOfsSoleOwner == Spec => []SoleOwner
<1>1. IInv => SoleOwner
    <2> SUFFICES ASSUME IInv, NEW x \in Cells
                 PROVE  \/ heap[x] = Free /\ Owners(x) = {}
                        \/ \E h \in live : heap[x] # Free /\ Owners(x) = {h}
        BY DEF SoleOwner
    <2>1. /\ Typed(live, ptr, kind, heap) /\ Pointing(live, ptr, kind, heap)
          /\ Apart(ptr) /\ Covered(ptr, heap) /\ x # Null
        BY NullAssumption DEF IInv, Owned
    <2>2. CASE heap[x] = Free
        BY <2>1, <2>2 DEF Owners, Pointing, Typed
    <2>3. CASE heap[x] # Free
        <3>1. PICK h \in Objects : ptr[h] = x
            BY <2>1, <2>3 DEF Covered
        <3>2. h \in live /\ Owners(x) = {h}
            BY <2>1, <3>1 DEF Owners, Pointing, Apart, Typed
        <3> QED BY <2>3, <3>2
    <2> QED BY <2>2, <2>3
<1> QED BY <1>1, Inductive, PTL

(* A value of a OneOf is only ever read and deleted as the type it has.    *)
THEOREM OneOfsKindMatches == Spec => []KindMatches
<1>1. IInv => KindMatches
    BY DEF IInv, Owned, Typed, Pointing, KindMatches
<1> QED BY <1>1, Inductive, PTL

(* OneOf implements values: Holders.                                       *)
THEOREM OneOfsImplement == Spec => HoldsValues
<1>1. Init => Abstract!Init
    BY Starts
<1>2. IInv /\ [Next]_vars => [Abstract!Next]_Content
    <2>1. CASE Next
        BY <2>1, Steps
    <2>2. CASE UNCHANGED vars
        BY <2>2 DEF vars, Content
    <2> QED BY <2>1, <2>2
<1> QED BY <1>1, <1>2, Inductive, PTL DEF Spec, HoldsValues, Abstract!Spec

(* A copy of a OneOf holds what the source holds, and the source as well.  *)
THEOREM OneOfsCopiesEqual == Spec => CopiesEqual
<1> DEFINE Copying == \A h, o \in Objects : CopyConstruct(h, o) \/ (o # h /\ CopyAssign(h, o)) =>
                          Content' = [Content EXCEPT ![h] = Content[o]]
<1>1. ASSUME IInv
      PROVE  Copying
    <2> SUFFICES ASSUME NEW h \in Objects, NEW o \in Objects,
                        CopyConstruct(h, o) \/ (o # h /\ CopyAssign(h, o))
                 PROVE  Content' = With(Content, h, Content[o])
        BY DEF With
    <2>1. /\ o \in live /\ o # h
          /\ HasValue(o) <=> ptr[o] # Null
          /\ ptr[o] # Null => heap[ptr[o]] \in Values /\ kind[o] = heap[ptr[o]].type
          /\ kind[o] \in Types \cup {NoKind}
        BY <1>1, Readings DEF CopyConstruct, CopyAssign, IInv, Owned, Typed
    <2>2. Content[o] = IF HasValue(o) THEN heap[ptr[o]] ELSE Empty
        BY <2>1 DEF Content
    <2>3. CASE CopyConstruct(h, o)
        <3>1. CASE HasValue(o)
            <4>1. Content' = With(Content, h, heap[ptr[o]])
                BY <1>1, <2>1, <2>3, <3>1, ComesWith DEF CopyConstruct
            <4> QED BY <2>2, <3>1, <4>1
        <3>2. CASE ~HasValue(o)
            <4>1. Content' = With(Content, h, Empty)
                BY <1>1, <2>1, <2>3, <3>2, ComesEmpty DEF CopyConstruct
            <4> QED BY <2>2, <3>2, <4>1
        <3> QED BY <3>1, <3>2
    <2>4. CASE CopyAssign(h, o)
        <3>1. CASE HasValue(o)
            <4>1. Content' = With(Content, h, heap[ptr[o]])
                BY <1>1, <2>1, <2>4, <3>1, Gets DEF CopyAssign
            <4> QED BY <2>2, <3>1, <4>1
        <3>2. CASE ~HasValue(o)
            <4>1. Content' = With(Content, h, Empty)
                BY <1>1, <2>1, <2>4, <3>2, Loses DEF CopyAssign
            <4> QED BY <2>2, <3>2, <4>1
        <3> QED BY <3>1, <3>2
    <2> QED BY <2>3, <2>4
<1>2. IInv /\ [Next]_vars => [Copying]_vars
    BY <1>1
<1> QED BY <1>2, Inductive, PTL DEF Spec, CopiesEqual

-----------------------------------------------------------------------------
(* Optional *)

(* The inductive invariant, of the objects L with the pointers P on the    *)
(* heap H: objects that exist own their values, one each, and all values.  *)
OptOwned(L, P, H) ==
    /\ OptDistinct
    /\ L \subseteq Optionals
    /\ P \in [Optionals -> OptCells \cup {Null}]
    /\ H \in [OptCells -> OptValues \cup {Free}]
    /\ \A h \in Optionals : P[h] # Null => h \in L /\ H[P[h]] # Free
    /\ \A g, h \in Optionals : P[g] = P[h] => g = h \/ P[g] = Null
    /\ \A x \in OptCells : H[x] # Free => \E h \in Optionals : P[h] = x

OptIInv == OptOwned(optLive, optPtr, optHeap)

(* What a program sees *)
OptSeen(L, P, H) ==
    [h \in Optionals |-> IF h \notin L THEN Absent
                       ELSE IF P[h] = Null THEN Empty ELSE H[P[h]]]

(* The invariant, together with what the objects show *)
OptShows(L, P, H, S) == OptOwned(L, P, H) /\ OptSeen(L, P, H) = S

(* Reset() of h on the heap H *)
OptFreed(P, H, h) == IF P[h] # Null THEN [H EXCEPT ![P[h]] = Free] ELSE H

-----------------------------------------------------------------------------
(* What each operation is made of preserves the invariant and changes what *)
(* one object shows.                                                       *)

LEMMA OptFreedShows ==
    ASSUME NEW L, NEW P, NEW H, NEW S, OptShows(L, P, H, S), NEW h \in L
    PROVE  OptShows(L, [P EXCEPT ![h] = Null], OptFreed(P, H, h), With(S, h, Empty))
<1> DEFINE Q == [P EXCEPT ![h] = Null]
           F == OptFreed(P, H, h)
<1>1. /\ OptOwned(L, P, H)
      /\ OptSeen(L, P, H) = S
      /\ h \in Optionals
      /\ P[h] \in OptCells \cup {Null}
    BY DEF OptShows, OptOwned
<1>2. /\ Q \in [Optionals -> OptCells \cup {Null}]
      /\ Q[h] = Null
      /\ \A g \in Optionals : g # h => Q[g] = P[g]
    BY <1>1 DEF OptOwned
<1>3. /\ F \in [OptCells -> OptValues \cup {Free}]
      /\ \A x \in OptCells : F[x] = IF x = P[h] THEN Free ELSE H[x]
    BY <1>1 DEF OptOwned, OptDistinct, OptFreed
<1>4. \A g \in Optionals : g # h /\ P[g] # Null => P[g] \in OptCells /\ F[P[g]] = H[P[g]]
    BY <1>1, <1>3 DEF OptOwned
<1>5. OptOwned(L, Q, F)
    BY <1>1, <1>2, <1>3, <1>4 DEF OptOwned
<1> HIDE DEF Q, F
<1>6. ASSUME NEW g \in Optionals, g # h
      PROVE  OptSeen(L, Q, F)[g] = OptSeen(L, P, H)[g]
    BY <1>2, <1>4, <1>6 DEF OptSeen
<1>7. OptSeen(L, Q, F)[h] = Empty
    BY <1>1, <1>2 DEF OptSeen
<1>8. OptSeen(L, Q, F) = [OptSeen(L, P, H) EXCEPT ![h] = Empty]
    BY <1>1, <1>6, <1>7 DEF OptSeen
<1> QED BY <1>1, <1>5, <1>8 DEF OptShows, With, Q, F

LEMMA OptNewShows ==
    ASSUME NEW L, NEW P, NEW H, NEW S, OptShows(L, P, H, S),
           NEW h \in L, P[h] = Null, NEW v \in OptValues, NEW x \in OptCells, H[x] = Free
    PROVE  OptShows(L, [P EXCEPT ![h] = x], [H EXCEPT ![x] = v], With(S, h, v))
<1> DEFINE Q == [P EXCEPT ![h] = x]
           G == [H EXCEPT ![x] = v]
<1>1. OptOwned(L, P, H) /\ OptSeen(L, P, H) = S /\ h \in Optionals /\ x # Null /\ v # Free
    BY DEF OptShows, OptOwned, OptDistinct
<1>2. /\ Q \in [Optionals -> OptCells \cup {Null}]
      /\ Q[h] = x
      /\ \A g \in Optionals : g # h => Q[g] = P[g]
    BY <1>1 DEF OptOwned
<1>3. /\ G \in [OptCells -> OptValues \cup {Free}]
      /\ G[x] = v
      /\ \A y \in OptCells : y # x => G[y] = H[y]
    BY <1>1 DEF OptOwned
<1>4. \A g \in Optionals : P[g] # Null => P[g] \in OptCells /\ P[g] # x /\ G[P[g]] = H[P[g]]
    BY <1>1, <1>3 DEF OptOwned
<1>5. OptOwned(L, Q, G)
    <2>1. \A g \in Optionals : Q[g] # Null => g \in L /\ G[Q[g]] # Free
        BY <1>1, <1>2, <1>3, <1>4 DEF OptOwned
    <2>2. \A f, g \in Optionals : Q[f] = Q[g] => f = g \/ Q[f] = Null
        BY <1>1, <1>2, <1>4 DEF OptOwned
    <2>3. ASSUME NEW y \in OptCells, G[y] # Free
          PROVE  \E g \in Optionals : Q[g] = y
        <3>1. CASE y = x
            BY <3>1, <1>1, <1>2
        <3>2. CASE y # x
            <4>1. PICK g \in Optionals : P[g] = y
                BY <1>1, <1>3, <2>3, <3>2 DEF OptOwned
            <4>2. g # h
                BY <1>1, <4>1 DEF OptOwned, OptDistinct
            <4> QED BY <1>2, <4>1, <4>2
        <3> QED BY <3>1, <3>2
    <2> QED BY <1>1, <1>2, <1>3, <2>1, <2>2, <2>3 DEF OptOwned
<1> HIDE DEF Q, G
<1>6. ASSUME NEW g \in Optionals, g # h
      PROVE  OptSeen(L, Q, G)[g] = OptSeen(L, P, H)[g]
    BY <1>2, <1>4, <1>6 DEF OptSeen
<1>7. OptSeen(L, Q, G)[h] = v
    BY <1>1, <1>2, <1>3 DEF OptSeen
<1>8. OptSeen(L, Q, G) = [OptSeen(L, P, H) EXCEPT ![h] = v]
    BY <1>1, <1>6, <1>7 DEF OptSeen
<1> QED BY <1>1, <1>5, <1>8 DEF OptShows, With, Q, G

(* The pointer of o goes to h, which has no value. *)
LEMMA OptMovedShows ==
    ASSUME NEW L, NEW P, NEW H, NEW S, OptShows(L, P, H, S),
           NEW h \in L, P[h] = Null, NEW o \in L, o # h
    PROVE  OptShows(L, [P EXCEPT ![h] = P[o], ![o] = Null], H, With(With(S, h, S[o]), o, Empty))
<1> DEFINE Q == [P EXCEPT ![h] = P[o], ![o] = Null]
<1>1. OptOwned(L, P, H) /\ OptSeen(L, P, H) = S /\ h \in Optionals /\ o \in Optionals
    BY DEF OptShows, OptOwned
<1>2. /\ Q \in [Optionals -> OptCells \cup {Null}]
      /\ Q[h] = P[o] /\ Q[o] = Null
      /\ \A g \in Optionals : g # h /\ g # o => Q[g] = P[g]
    BY <1>1 DEF OptOwned
<1>3. \A y \in OptCells : H[y] # Free => \E g \in Optionals : Q[g] = y
    <2> SUFFICES ASSUME NEW y \in OptCells, H[y] # Free
                 PROVE  \E g \in Optionals : Q[g] = y
        OBVIOUS
    <2>1. PICK g \in Optionals : P[g] = y
        BY <1>1 DEF OptOwned
    <2>2. g # h
        BY <2>1, <1>1 DEF OptOwned, OptDistinct
    <2> QED BY <2>1, <2>2, <1>1, <1>2
<1>4. OptOwned(L, Q, H)
    BY <1>1, <1>2, <1>3 DEF OptOwned
<1>5. OptSeen(L, Q, H) = With(With(OptSeen(L, P, H), h, OptSeen(L, P, H)[o]), o, Empty)
    BY <1>1 DEF OptOwned, OptSeen, With
<1> QED BY <1>1, <1>4, <1>5 DEF OptShows

(* Objects come, and go when they have no value. *)
LEMMA OptLiveShows ==
    ASSUME NEW L, NEW P, NEW H, NEW S, OptShows(L, P, H, S), NEW h \in Optionals, P[h] = Null
    PROVE  /\ OptShows(L \cup {h}, P, H, With(S, h, Empty))
           /\ OptShows(L \ {h}, P, H, With(S, h, Absent))
<1>1. OptOwned(L \cup {h}, P, H) /\ OptOwned(L \ {h}, P, H)
    BY DEF OptShows, OptOwned
<1>2. /\ OptSeen(L \cup {h}, P, H) = With(OptSeen(L, P, H), h, Empty)
      /\ OptSeen(L \ {h}, P, H) = With(OptSeen(L, P, H), h, Absent)
    BY DEF OptSeen, With
<1> QED BY <1>1, <1>2 DEF OptShows

-----------------------------------------------------------------------------
(* The steps of the program *)

(* Released() and Content in the terms of the lemmas *)
LEMMA OptReadings ==
    ASSUME OptIInv
    PROVE  /\ OptShows(optLive, optPtr, optHeap, OptContent)
           /\ optLive \subseteq Optionals
           /\ optPtr \in [Optionals -> OptCells \cup {Null}]
           /\ Absent # Empty
           /\ \A h, c, d : With(With(OptContent, h, c), h, d) = With(OptContent, h, d)
           /\ \A h \in Optionals :
                /\ OptReleased(h) = OptFreed(optPtr, optHeap, h)
                /\ OptHasValue(h) <=> optPtr[h] # Null
                /\ optPtr[h] # Null =>
                      /\ h \in optLive
                      /\ optHeap[optPtr[h]] \in OptValues /\ optHeap[optPtr[h]] # Absent
                /\ h \in optLive =>
                      OptContent[h] = IF OptHasValue(h) THEN optHeap[optPtr[h]] ELSE Empty
<1>1. OptContent = OptSeen(optLive, optPtr, optHeap)
    BY DEF OptContent, OptSeen
<1>2. \A h, c, d : With(With(OptContent, h, c), h, d) = With(OptContent, h, d)
    BY DEF With, OptContent
<1>3. ASSUME NEW h \in Optionals, optPtr[h] # Null
      PROVE  h \in optLive /\ optHeap[optPtr[h]] \in OptValues /\ optHeap[optPtr[h]] # Absent
    <2>1. h \in optLive /\ optHeap[optPtr[h]] \in OptValues
        BY <1>3 DEF OptIInv, OptOwned
    <2>2. \A v \in OptValues : v # Absent
        BY DEF OptIInv, OptOwned, OptDistinct
    <2> QED BY <2>1, <2>2
<1>4. \A h \in Optionals :
          OptReleased(h) = OptFreed(optPtr, optHeap, h) /\ (OptHasValue(h) <=> optPtr[h] # Null)
    BY DEF OptReleased, OptHasValue, OptFreed
<1>5. \A h \in optLive :
          h \in Optionals => OptContent[h] = IF OptHasValue(h) THEN optHeap[optPtr[h]] ELSE Empty
    BY DEF OptContent, OptHasValue
<1>6. /\ optLive \subseteq Optionals
      /\ optPtr \in [Optionals -> OptCells \cup {Null}]
      /\ Absent # Empty
    BY DEF OptIInv, OptOwned, OptDistinct
<1> QED BY <1>1, <1>2, <1>3, <1>4, <1>5, <1>6 DEF OptIInv, OptShows

(* The invariant and Content after the step *)
LEMMA OptAfter ==
    ASSUME NEW S, OptShows(optLive', optPtr', optHeap', S)
    PROVE  OptIInv' /\ OptContent' = S
    BY DEF OptShows, OptIInv, OptContent, OptSeen

(* h gets the value v, by `new` after a reset. *)
LEMMA OptGets ==
    ASSUME OptIInv, NEW h \in optLive, NEW v \in OptValues, optLive' = optLive, OptNew(h, v,
           OptReleased(h))
    PROVE  OptIInv' /\ OptContent' = With(OptContent, h, v)
<1> DEFINE Q == [optPtr EXCEPT ![h] = Null]
           F == OptFreed(optPtr, optHeap, h)
<1>1. /\ OptReleased(h) = F
      /\ h \in Optionals
      /\ optPtr \in [Optionals -> OptCells \cup {Null}]
      /\ OptShows(optLive, optPtr, optHeap, OptContent)
      /\ With(With(OptContent, h, Empty), h, v) = With(OptContent, h, v)
    BY OptReadings
<1>2. PICK x \in OptCells : /\ F[x] = Free
                            /\ optHeap' = [F EXCEPT ![x] = v]
                            /\ optPtr' = [optPtr EXCEPT ![h] = x]
    BY <1>1 DEF OptNew
<1>3. OptShows(optLive, Q, F, With(OptContent, h, Empty))
    BY <1>1, OptFreedShows
<1>4. Q[h] = Null /\ optPtr' = [Q EXCEPT ![h] = x]
    BY <1>1, <1>2
<1> HIDE DEF Q, F
<1>5. OptShows(optLive, [Q EXCEPT ![h] = x], [F EXCEPT ![x] = v],
               With(With(OptContent, h, Empty), h, v))
    BY <1>2, <1>3, <1>4, OptNewShows
<1>6. OptShows(optLive', optPtr', optHeap', With(OptContent, h, v))
    BY <1>1, <1>2, <1>4, <1>5
<1> QED BY <1>6, OptAfter

(* h comes with the value v. *)
LEMMA OptComesWith ==
    ASSUME OptIInv, NEW h \in Optionals \ optLive, NEW v \in OptValues,
           optLive' = optLive \cup {h}, OptNew(h, v, optHeap)
    PROVE  OptIInv' /\ OptContent' = With(OptContent, h, v)
<1>1. /\ optPtr[h] = Null
      /\ OptShows(optLive, optPtr, optHeap, OptContent)
      /\ With(With(OptContent, h, Empty), h, v) = With(OptContent, h, v)
    BY OptReadings
<1>2. PICK x \in OptCells : /\ optHeap[x] = Free
                            /\ optHeap' = [optHeap EXCEPT ![x] = v]
                            /\ optPtr' = [optPtr EXCEPT ![h] = x]
    BY DEF OptNew
<1>3. OptShows(optLive', optPtr, optHeap, With(OptContent, h, Empty)) /\ h \in optLive'
    BY <1>1, OptLiveShows
<1>4. OptShows(optLive', [optPtr EXCEPT ![h] = x], [optHeap EXCEPT ![x] = v],
               With(With(OptContent, h, Empty), h, v))
    BY <1>1, <1>2, <1>3, OptNewShows
<1>5. OptShows(optLive', optPtr', optHeap', With(OptContent, h, v))
    BY <1>1, <1>2, <1>4
<1> QED BY <1>5, OptAfter

(* h comes without a value. *)
LEMMA OptComesEmpty ==
    ASSUME OptIInv, NEW h \in Optionals \ optLive, optLive' = optLive \cup {h},
           UNCHANGED <<optPtr, optHeap>>
    PROVE  OptIInv' /\ OptContent' = With(OptContent, h, Empty)
<1>1. optPtr[h] = Null /\ OptShows(optLive, optPtr, optHeap, OptContent)
    BY OptReadings
<1>2. OptShows(optLive', optPtr', optHeap', With(OptContent, h, Empty))
    BY <1>1, OptLiveShows
<1> QED BY <1>2, OptAfter

(* h loses its value. *)
LEMMA OptLoses ==
    ASSUME OptIInv, NEW h \in optLive, optLive' = optLive, OptEmptied(h)
    PROVE  OptIInv' /\ OptContent' = With(OptContent, h, Empty)
<1>1. /\ optHeap' = OptFreed(optPtr, optHeap, h)
      /\ optPtr' = [optPtr EXCEPT ![h] = Null]
      /\ OptShows(optLive, optPtr, optHeap, OptContent)
    BY OptReadings DEF OptEmptied
<1>2. OptShows(optLive', optPtr', optHeap', With(OptContent, h, Empty))
    BY <1>1, OptFreedShows
<1> QED BY <1>2, OptAfter

(* h goes. *)
LEMMA OptGoes ==
    ASSUME OptIInv, NEW h \in Optionals, OptDestroy(h)
    PROVE  OptIInv' /\ OptContent' = With(OptContent, h, Absent)
<1> DEFINE Q == [optPtr EXCEPT ![h] = Null]
           F == OptFreed(optPtr, optHeap, h)
<1>1. /\ h \in optLive /\ optLive' = optLive \ {h} /\ optHeap' = F /\ optPtr' = Q
      /\ Q[h] = Null
      /\ OptShows(optLive, optPtr, optHeap, OptContent)
      /\ With(With(OptContent, h, Empty), h, Absent) = With(OptContent, h, Absent)
    BY OptReadings DEF OptDestroy, OptEmptied
<1>2. OptShows(optLive, Q, F, With(OptContent, h, Empty))
    BY <1>1, OptFreedShows
<1> HIDE DEF Q, F
<1>3. OptShows(optLive \ {h}, Q, F, With(With(OptContent, h, Empty), h, Absent))
    BY <1>1, <1>2, OptLiveShows
<1>4. OptShows(optLive', optPtr', optHeap', With(OptContent, h, Absent))
    BY <1>1, <1>3
<1> QED BY <1>4, OptAfter

(* h comes with what o had. *)
LEMMA OptTakes ==
    ASSUME OptIInv, NEW h \in Optionals, NEW o \in Optionals, OptMoveConstruct(h, o)
    PROVE  o # h /\ OptIInv' /\ OptContent' = With(With(OptContent, h, OptContent[o]), o, Empty)
<1>1. /\ h \notin optLive /\ o \in optLive /\ optLive' = optLive \cup {h} /\ optHeap' = optHeap
      /\ optPtr' = [optPtr EXCEPT ![h] = optPtr[o], ![o] = Null]
    BY DEF OptMoveConstruct
<1>2. /\ optPtr[h] = Null /\ OptShows(optLive, optPtr, optHeap, OptContent) /\ o # h
      /\ \A c : With(With(OptContent, h, Empty), h, c) = With(OptContent, h, c)
    BY <1>1, OptReadings
<1>3. /\ OptShows(optLive', optPtr, optHeap, With(OptContent, h, Empty))
      /\ h \in optLive'
      /\ o \in optLive'
    BY <1>1, <1>2, OptLiveShows
<1>4. With(OptContent, h, Empty)[o] = OptContent[o]
    BY <1>2 DEF With, OptContent
<1>5. OptShows(optLive', [optPtr EXCEPT ![h] = optPtr[o], ![o] = Null], optHeap,
            With(With(With(OptContent, h, Empty), h, With(OptContent, h, Empty)[o]), o, Empty))
    BY <1>2, <1>3, OptMovedShows
<1>6. OptShows(optLive', optPtr', optHeap', With(With(OptContent, h, OptContent[o]), o, Empty))
    BY <1>1, <1>2, <1>4, <1>5
<1> QED BY <1>2, <1>6, OptAfter

(* h is given what o had, which is another object. *)
LEMMA OptGiven ==
    ASSUME OptIInv, NEW h \in Optionals, NEW o \in Optionals, o # h, OptMoveAssign(h, o)
    PROVE  OptIInv' /\ OptContent' = With(With(OptContent, h, OptContent[o]), o, Empty)
<1> DEFINE Q == [optPtr EXCEPT ![h] = Null]
           F == OptFreed(optPtr, optHeap, h)
<1>1. /\ h \in optLive /\ o \in optLive /\ optLive' = optLive /\ optHeap' = F
      /\ optPtr' = [optPtr EXCEPT ![h] = optPtr[o], ![o] = Null]
      /\ optPtr \in [Optionals -> OptCells \cup {Null}]
      /\ OptShows(optLive, optPtr, optHeap, OptContent)
      /\ \A c : With(With(OptContent, h, Empty), h, c) = With(OptContent, h, c)
    BY OptReadings DEF OptMoveAssign
<1>2. OptShows(optLive, Q, F, With(OptContent, h, Empty))
    BY <1>1, OptFreedShows
<1>3. Q[h] = Null /\ optPtr' = [Q EXCEPT ![h] = Q[o], ![o] = Null]
    BY <1>1
<1>4. With(OptContent, h, Empty)[o] = OptContent[o]
    BY DEF With, OptContent
<1> HIDE DEF Q, F
<1>5. OptShows(optLive, [Q EXCEPT ![h] = Q[o], ![o] = Null], F,
            With(With(With(OptContent, h, Empty), h, With(OptContent, h, Empty)[o]), o, Empty))
    BY <1>1, <1>2, <1>3, OptMovedShows
<1>6. OptShows(optLive', optPtr', optHeap', With(With(OptContent, h, OptContent[o]), o, Empty))
    BY <1>1, <1>3, <1>4, <1>5
<1> QED BY <1>6, OptAfter

(* Every step keeps the invariant and is a step of Holders. *)
LEMMA OptSteps ==
    ASSUME OptIInv, OptNext
    PROVE  OptIInv' /\ OptAbstract!Next
<1>1. PICK h \in Optionals :
        \/ OptConstruct(h)
        \/ OptReset(h)
        \/ OptDestroy(h)
        \/ OptAssignOwn(h)
        \/ OptAssignThrows(h)
        \/ \E v \in OptValues : OptConstructFrom(h, v) \/ OptAssign(h, v)
        \/ \E o \in Optionals :
              \/ OptCopyConstruct(h, o) \/ OptMoveConstruct(h, o)
              \/ OptCopyAssign(h, o) \/ OptCopyAssignThrows(h, o) \/ OptMoveAssign(h, o)
    BY DEF OptNext
<1>2. \A g \in Optionals :
        /\ OptHasValue(g) => optHeap[optPtr[g]] \in OptValues
        /\ g \in optLive => OptContent[g] # Absent
    BY OptReadings
<1>3. ASSUME NEW v \in OptValues, OptIInv', OptContent' = With(OptContent, h, v)
      PROVE  OptIInv' /\ OptAbstract!Next
    BY <1>3 DEF OptAbstract!Next, OptAbstract!Hold, OptAbstract!Put, With
<1>4. ASSUME OptIInv', OptContent' = With(OptContent, h, Empty)
      PROVE  OptIInv' /\ OptAbstract!Next
    BY <1>4 DEF OptAbstract!Next, OptAbstract!Clear, OptAbstract!Put, With
<1>5. ASSUME NEW o \in Optionals, o \in optLive, o # h, OptIInv',
             OptContent' = With(With(OptContent, h, OptContent[o]), o, Empty)
      PROVE  OptIInv' /\ OptAbstract!Next
    <2>1. OptAbstract!Move(h, o)
        BY <1>2, <1>5 DEF OptAbstract!Move, OptAbstract!Exists, With
    <2> QED BY <1>5, <2>1 DEF OptAbstract!Next
<1>6. CASE OptConstruct(h)
    BY <1>4, <1>6, OptComesEmpty DEF OptConstruct
<1>7. CASE OptReset(h) \/ OptAssignThrows(h)
    BY <1>4, <1>7, OptLoses DEF OptReset, OptAssignThrows
<1>8. CASE OptDestroy(h)
    <2>1. OptIInv' /\ OptContent' = With(OptContent, h, Absent) /\ OptContent[h] # Absent
        BY <1>2, <1>8, OptGoes DEF OptDestroy
    <2> QED BY <2>1 DEF OptAbstract!Next, OptAbstract!Drop, OptAbstract!Exists, OptAbstract!Put,
                With
<1>9. CASE OptAssignOwn(h)
    <2>1. PICK v \in OptValues : OptNew(h, v, OptReleased(h))
        BY <1>9 DEF OptAssignOwn
    <2>2. OptIInv' /\ OptContent' = With(OptContent, h, v)
        BY <1>9, <2>1, OptGets DEF OptAssignOwn
    <2> QED BY <1>3, <2>2
<1>10. ASSUME NEW v \in OptValues, OptConstructFrom(h, v) \/ OptAssign(h, v)
       PROVE  OptIInv' /\ OptAbstract!Next
    <2>1. OptIInv' /\ OptContent' = With(OptContent, h, v)
        BY <1>10, OptComesWith, OptGets DEF OptConstructFrom, OptAssign
    <2> QED BY <1>3, <2>1
<1>11. ASSUME NEW o \in Optionals, OptCopyConstruct(h, o)
       PROVE  OptIInv' /\ OptAbstract!Next
    <2>1. CASE OptHasValue(o)
        <3>1. OptIInv' /\ OptContent' = With(OptContent, h, optHeap[optPtr[o]])
            BY <1>2, <1>11, <2>1, OptComesWith DEF OptCopyConstruct
        <3> QED BY <1>2, <1>3, <2>1, <3>1
    <2>2. CASE ~OptHasValue(o)
        BY <1>4, <1>11, <2>2, OptComesEmpty DEF OptCopyConstruct
    <2> QED BY <2>1, <2>2
<1>12. ASSUME NEW o \in Optionals, OptMoveConstruct(h, o)
       PROVE  OptIInv' /\ OptAbstract!Next
    <2>1. /\ o \in optLive
          /\ o # h
          /\ OptIInv'
          /\ OptContent' = With(With(OptContent, h, OptContent[o]), o, Empty)
        BY <1>12, OptTakes DEF OptMoveConstruct
    <2> QED BY <1>5, <2>1
<1>13. ASSUME NEW o \in Optionals, OptCopyAssign(h, o)
       PROVE  OptIInv' /\ OptAbstract!Next
    <2>1. CASE o # h /\ OptHasValue(o)
        <3>1. OptIInv' /\ OptContent' = With(OptContent, h, optHeap[optPtr[o]])
            BY <1>2, <1>13, <2>1, OptGets DEF OptCopyAssign
        <3> QED BY <1>2, <1>3, <2>1, <3>1
    <2>2. CASE ~(o # h /\ OptHasValue(o))
        BY <1>4, <1>13, <2>2, OptLoses DEF OptCopyAssign
    <2> QED BY <2>1, <2>2
<1>14. ASSUME NEW o \in Optionals, OptCopyAssignThrows(h, o)
       PROVE  OptIInv' /\ OptAbstract!Next
    BY <1>4, <1>14, OptLoses DEF OptCopyAssignThrows
<1>15. ASSUME NEW o \in Optionals, OptMoveAssign(h, o)
       PROVE  OptIInv' /\ OptAbstract!Next
    <2>1. CASE o = h
        BY <1>4, <1>15, <2>1, OptLoses DEF OptMoveAssign
    <2>2. CASE o # h
        <3>1. /\ o \in optLive
              /\ OptIInv'
              /\ OptContent' = With(With(OptContent, h, OptContent[o]), o, Empty)
            BY <1>15, <2>2, OptGiven DEF OptMoveAssign
        <3> QED BY <1>5, <2>2, <3>1
    <2> QED BY <2>1, <2>2
<1> QED
    BY <1>1, <1>6, <1>7, <1>8, <1>9, <1>10, <1>11, <1>12, <1>13, <1>14, <1>15

LEMMA OptStarts == OptInit => OptIInv /\ OptAbstract!Init
    BY OptionalAssumption
       DEF OptDistinct, OptInit, OptIInv, OptOwned, OptContent, OptAbstract!Init

LEMMA OptInductive == OptSpec => []OptIInv
<1>1. OptInit => OptIInv
    BY OptStarts
<1>2. OptIInv /\ [OptNext]_optVars => OptIInv'
    <2>1. CASE OptNext
        BY <2>1, OptSteps
    <2>2. CASE UNCHANGED optVars
        BY <2>2 DEF optVars, OptIInv, OptOwned
    <2> QED BY <2>1, <2>2
<1> QED BY <1>1, <1>2, PTL DEF OptSpec

(* No value of an Optional leaks, is deleted twice or is used after that,  *)
(* however many objects and values there are.                              *)
THEOREM OptionalsSoleOwner == OptSpec => []OptionalSoleOwner
<1>1. OptIInv => OptionalSoleOwner
    <2> SUFFICES ASSUME OptIInv, NEW x \in OptCells
                 PROVE  \/ optHeap[x] = Free /\ OptOwners(x) = {}
                        \/ \E h \in optLive : optHeap[x] # Free /\ OptOwners(x) = {h}
        BY DEF OptionalSoleOwner
    <2>1. CASE optHeap[x] = Free
        BY <2>1 DEF OptOwners, OptIInv, OptOwned, OptDistinct
    <2>2. CASE optHeap[x] # Free
        <3>1. PICK h \in Optionals : optPtr[h] = x
            BY <2>2 DEF OptIInv, OptOwned
        <3>2. h \in optLive /\ OptOwners(x) = {h}
            BY <3>1 DEF OptOwners, OptIInv, OptOwned, OptDistinct
        <3> QED BY <2>2, <3>2
    <2> QED BY <2>1, <2>2
<1> QED BY <1>1, OptInductive, PTL

(* Optional implements values: Holders.                                    *)
THEOREM OptionalsImplement == OptSpec => OptionalHoldsValues
<1>1. OptInit => OptAbstract!Init
    BY OptStarts
<1>2. OptIInv /\ [OptNext]_optVars => [OptAbstract!Next]_OptContent
    <2>1. CASE OptNext
        BY <2>1, OptSteps
    <2>2. CASE UNCHANGED optVars
        BY <2>2 DEF optVars, OptContent
    <2> QED BY <2>1, <2>2
<1> QED BY <1>1, <1>2, OptInductive, PTL DEF OptSpec, OptionalHoldsValues, OptAbstract!Spec

(* A copy of an Optional holds what the source holds, and the source as    *)
(* well.                                                                   *)
THEOREM OptionalsCopiesEqual == OptSpec => OptCopiesEqual
<1> DEFINE Copying ==
              \A h, o \in Optionals : OptCopyConstruct(h, o) \/ (o # h /\ OptCopyAssign(h, o)) =>
                          OptContent' = [OptContent EXCEPT ![h] = OptContent[o]]
<1>1. ASSUME OptIInv
      PROVE  Copying
    <2> SUFFICES ASSUME NEW h \in Optionals, NEW o \in Optionals,
                        OptCopyConstruct(h, o) \/ (o # h /\ OptCopyAssign(h, o))
                 PROVE  OptContent' = With(OptContent, h, OptContent[o])
        BY DEF With
    <2>1. /\ o \in optLive /\ o # h
          /\ OptHasValue(o) => optHeap[optPtr[o]] \in OptValues
          /\ OptContent[o] = IF OptHasValue(o) THEN optHeap[optPtr[o]] ELSE Empty
        BY <1>1, OptReadings DEF OptCopyConstruct, OptCopyAssign
    <2>2. CASE OptCopyConstruct(h, o)
        BY <1>1, <2>1, <2>2, OptComesWith, OptComesEmpty DEF OptCopyConstruct
    <2>3. CASE OptCopyAssign(h, o)
        BY <1>1, <2>1, <2>3, OptGets, OptLoses DEF OptCopyAssign
    <2> QED BY <2>2, <2>3
<1>2. OptIInv /\ [OptNext]_optVars => [Copying]_optVars
    BY <1>1
<1> QED BY <1>2, OptInductive, PTL DEF OptSpec, OptCopiesEqual

=============================================================================
