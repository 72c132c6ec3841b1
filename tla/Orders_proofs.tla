--------------------------- MODULE Orders_proofs ----------------------------
(***************************************************************************)
(* Proofs about the two kinds of order that the code works with: the order *)
(* of positions (Comparators), and the order in which the generator        *)
(* declares the types of the protocol (Generator), for any meta model.     *)
(***************************************************************************)
EXTENDS Comparators, Generator, FiniteSetTheorems, SequenceTheorems, TLAPS

-----------------------------------------------------------------------------
(* Positions *)

(* Compare() of two positions is lexicographic. *)
LEMMA Lexicographic ==
    ASSUME NEW p \in Position, NEW q \in Position
    PROVE  /\ p.line \in Nat /\ q.line \in Nat /\ p.character \in Nat /\ q.character \in Nat
           /\ Before(p, q) <=> p.line < q.line \/ (p.line = q.line /\ p.character < q.character)
           /\ After(p, q) <=> p.line > q.line \/ (p.line = q.line /\ p.character > q.character)
           /\ Compare(p, q) = "equal" <=> (p.line = q.line /\ p.character = q.character)
<1>1. /\ p.line \in Nat /\ q.line \in Nat
      /\ p.character \in Nat /\ q.character \in Nat
    BY DEF Position
<1> QED BY <1>1 DEF Before, After, Compare

(* Positions with equal components are equal. *)
LEMMA Extensional ==
    ASSUME NEW p \in Position, NEW q \in Position
    PROVE  p = q <=> (p.line = q.line /\ p.character = q.character)
    BY DEF Position

(* The comparison operators in terms of Before *)
LEMMA Negations ==
    ASSUME NEW p \in Position, NEW q \in Position
    PROVE  /\ BeforeOrAt(p, q) <=> ~Before(q, p)
           /\ AfterOrAt(p, q) <=> ~Before(p, q)
           /\ After(p, q) <=> Before(q, p)
<1>1. BeforeOrAt(p, q) <=> ~After(p, q)
    BY DEF BeforeOrAt, After
<1>2. AfterOrAt(p, q) <=> ~Before(p, q)
    BY DEF AfterOrAt, Before
<1> QED BY <1>1, <1>2, Lexicographic

(* The order of Before *)
LEMMA Ordered ==
    ASSUME NEW p \in Position, NEW q \in Position, NEW r \in Position
    PROVE  /\ ~(Before(p, q) /\ Before(q, p))
           /\ ~Before(q, p) /\ ~Before(r, q) => ~Before(r, p)
           /\ p = q <=> (~Before(p, q) /\ ~Before(q, p))
    BY Lexicographic, Extensional

(* The comparators order all positions.                                    *)
THEOREM AlwaysTotalOrder ==
    ASSUME NEW a \in Position, NEW b \in Position, NEW c \in Position
    PROVE  TotalOrder(a, b, c)
<1>1. Before(a, b) <=> After(b, a)
    BY Negations
<1>2. Compare(a, b) = "equal" <=> a = b
    BY Lexicographic, Extensional
<1>3. BeforeOrAt(a, b) /\ BeforeOrAt(b, c) => BeforeOrAt(a, c)
    BY Negations, Ordered
<1> QED BY <1>1, <1>2, <1>3 DEF TotalOrder

(* What a half-open range contains, in terms of Before *)
LEMMA Exclusive ==
    ASSUME NEW s \in Position, NEW e \in Position, NEW p \in Position
    PROVE  ContainsExclusive(RangeFrom(s, e), p) <=> ~Before(p, s) /\ Before(p, e)
    BY Negations DEF ContainsExclusive, RangeFrom

(* What a closed range contains, in terms of Before *)
LEMMA Inclusive ==
    ASSUME NEW s \in Position, NEW e \in Position, NEW p \in Position
    PROVE  ContainsInclusive(RangeFrom(s, e), p) <=> ~Before(p, s) /\ ~Before(e, p)
    BY Negations DEF ContainsInclusive, RangeFrom

(* Ranges without their end split without a gap or an overlap.             *)
THEOREM AlwaysRangesSplit ==
    ASSUME NEW a \in Position, NEW b \in Position, NEW c \in Position
    PROVE  RangesSplit(a, b, c)
<1> SUFFICES ASSUME BeforeOrAt(a, b), BeforeOrAt(b, c), NEW p \in Position
             PROVE  /\ ContainsExclusive(RangeFrom(a, c), p) <=>
                         (ContainsExclusive(RangeFrom(a, b), p)
                             # ContainsExclusive(RangeFrom(b, c), p))
                    /\ ~(/\ ContainsExclusive(RangeFrom(a, b), p)
                         /\ ContainsExclusive(RangeFrom(b, c), p))
    BY DEF RangesSplit
<1>1. ~Before(b, a) /\ ~Before(c, b)
    BY Negations
<1>2. Before(p, b) => Before(p, c)
    BY <1>1, Ordered
<1>3. Before(p, a) => Before(p, b)
    BY <1>1, Ordered
<1>4. ContainsExclusive(RangeFrom(a, b), p) <=> ~Before(p, a) /\ Before(p, b)
    BY Exclusive
<1>5. ContainsExclusive(RangeFrom(b, c), p) <=> ~Before(p, b) /\ Before(p, c)
    BY Exclusive
<1>6. ContainsExclusive(RangeFrom(a, c), p) <=> ~Before(p, a) /\ Before(p, c)
    BY Exclusive
<1> QED BY <1>2, <1>3, <1>4, <1>5, <1>6 DEF ContainsExclusive

(* Ranges with their end share where they touch and nothing else.          *)
THEOREM AlwaysRangesTouch ==
    ASSUME NEW a \in Position, NEW b \in Position, NEW c \in Position
    PROVE  RangesTouch(a, b, c)
<1> SUFFICES ASSUME BeforeOrAt(a, b), BeforeOrAt(b, c), NEW p \in Position
             PROVE  p = b <=> /\ ContainsInclusive(RangeFrom(a, b), p)
                              /\ ContainsInclusive(RangeFrom(b, c), p)
    BY DEF RangesTouch
<1>1. ~Before(b, a) /\ ~Before(c, b)
    BY Negations
<1>2. ContainsInclusive(RangeFrom(a, b), p) <=> ~Before(p, a) /\ ~Before(b, p)
    BY Inclusive
<1>3. ContainsInclusive(RangeFrom(b, c), p) <=> ~Before(p, b) /\ ~Before(c, p)
    BY Inclusive
<1>4. p = b <=> (~Before(p, b) /\ ~Before(b, p))
    BY Ordered
<1>5. ~Before(p, b) /\ ~Before(b, p) => ~Before(p, a) /\ ~Before(c, p)
    BY <1>1, <1>4
<1> QED BY <1>2, <1>3, <1>4, <1>5

-----------------------------------------------------------------------------
(* Declarations *)

(***************************************************************************)
(* The inductive invariant.                                                *)
(***************************************************************************)
NoneTwice(q) == \A i, j \in 1..Len(q) : q[i] = q[j] => i = j

Holds(q, x) == \E i \in 1..Len(q) : q[i] = x

(* y comes before the i-th of q. *)
Precedes(y, i, q) == \E j \in 1..Len(q) : j < i /\ q[j] = y

(* The first n aliases of the model are at the bottom of the stack, those  *)
(* after have been taken, and what the next one led to is on top.          *)
Unwound(n) ==
    /\ n <= Len(stack) /\ n <= Len(declared)
    /\ \A i \in 1..n : stack[i] = declared[i]
    /\ \A i \in (n + 1)..Len(declared) : declared[i] \in seen
    /\ \A j \in (n + 1)..Len(stack) :
           n < Len(declared) /\ Leads(uses, declared[n + 1], stack[j])

(* What the i-th of the sorted aliases uses is before it, or the model has *)
(* it before something that leads there.                                   *)
Reversed(i) ==
    \A d \in uses[aliases[i]] \ {aliases[i]} :
        \/ Precedes(d, i, aliases)
        \/ \E k \in 1..Len(declared) :
               /\ declared[k] = aliases[i] \/ Leads(uses, declared[k], aliases[i])
               /\ Precedes(d, k, declared)

AliasInv ==
    /\ NoneTwice(declared) /\ \A a \in Aliases : Holds(declared, a)
    /\ NoneTwice(aliases) /\ \A i \in 1..Len(aliases) : Reversed(i)
    /\ phase = "aliases" =>
          /\ \A a \in Aliases : a \in seen <=> Holds(aliases, a)
          /\ \E n \in Nat : Unwound(n)
    /\ phase # "aliases" => \A a \in Aliases : Holds(aliases, a)

(* The structures whose visit() has not returned lead from one to another. *)
Nested ==
    \A i, j \in 1..Len(visiting) : i < j => Leads(follows, visiting[i], visiting[j])

Sorted(i) ==
    \A d \in Follows(structures[i]) :
        Precedes(d, i, structures) \/ Leads(follows, d, structures[i])

StructureInv ==
    /\ NoneTwice(structures) /\ NoneTwice(visiting)
    /\ \A i \in 1..Len(visiting) : ~Holds(structures, visiting[i])
    /\ Nested /\ \A i \in 1..Len(structures) : Sorted(i)
    /\ phase = "aliases" => structures = <<>>
    /\ phase # "structures" => visiting = <<>>
    /\ phase = "structures" =>
          \A s \in Structures : s \in seen <=> Holds(structures, s) \/ Holds(visiting, s)
    /\ phase = "done" => \A s \in Structures : Holds(structures, s)

GeneratorInv == GeneratorTypeOK /\ AliasInv /\ StructureInv

-----------------------------------------------------------------------------
(* References *)

LEMMA LeadsOne ==
    ASSUME NEW S, NEW R \in [S -> SUBSET S], NEW x \in S, NEW y \in R[x]
    PROVE  Leads(R, x, y)
  BY DEF Leads

LEMMA LeadsOn ==
    ASSUME NEW S, NEW R \in [S -> SUBSET S], NEW x \in S, NEW y \in S, NEW z \in R[y],
           Leads(R, x, y)
    PROVE  Leads(R, x, z)
  BY DEF Leads

(* Sequences *)

LEMMA Popped ==
    ASSUME NEW S, NEW q \in Seq(S), q # <<>>
    PROVE  /\ Len(q) \in Nat /\ Len(q) >= 1 /\ Last(q) \in S /\ Last(q) = q[Len(q)]
           /\ Front(q) \in Seq(S) /\ Len(Front(q)) = Len(q) - 1
           /\ \A i \in 1..(Len(q) - 1) : Front(q)[i] = q[i]
  <1>1. Len(q) \in Nat /\ Len(q) >= 1 /\ q[Len(q)] \in S
    OBVIOUS
  <1>2. PICK n \in Nat : n = Len(q) - 1
    BY <1>1
  <1>3. /\ SubSeq(q, 1, n) \in Seq(S) /\ Len(SubSeq(q, 1, n)) = n
        /\ \A i \in 1..n : SubSeq(q, 1, n)[i] = q[i]
    BY <1>1, <1>2
  <1> QED
    BY <1>1, <1>2, <1>3 DEF Last, Front

LEMMA Pushed ==
    ASSUME NEW S, NEW q \in Seq(S), NEW x \in S
    PROVE  /\ Append(q, x) \in Seq(S) /\ Len(q) \in Nat /\ Len(Append(q, x)) = Len(q) + 1
           /\ Append(q, x)[Len(q) + 1] = x
           /\ \A i \in 1..Len(q) : Append(q, x)[i] = q[i]
  OBVIOUS

LEMMA Concatenated ==
    ASSUME NEW S, NEW q \in Seq(S), NEW r \in Seq(S)
    PROVE  /\ q \o r \in Seq(S) /\ Len(q) \in Nat /\ Len(r) \in Nat
           /\ Len(q \o r) = Len(q) + Len(r)
           /\ \A i \in 1..Len(q) : (q \o r)[i] = q[i]
           /\ \A i \in (Len(q) + 1)..Len(q \o r) : (q \o r)[i] = r[i - Len(q)]
  OBVIOUS

(* What becomes of a sequence without duplicates when a new x is appended *)
Grown(q, p, x) ==
    /\ NoneTwice(p)
    /\ \A y : Holds(p, y) <=> Holds(q, y) \/ y = x
    /\ \A y : \A i \in 1..Len(q) : Precedes(y, i, q) => Precedes(y, i, p)
    /\ \A y : Holds(q, y) => Precedes(y, Len(q) + 1, p)

LEMMA Grows ==
    ASSUME NEW S, NEW q \in Seq(S), NEW x \in S, NoneTwice(q), ~Holds(q, x)
    PROVE  Grown(q, Append(q, x), x)
  <1> DEFINE p == Append(q, x)
  <1>1. /\ p \in Seq(S) /\ Len(q) \in Nat /\ Len(p) = Len(q) + 1 /\ p[Len(q) + 1] = x
        /\ \A i \in 1..Len(q) : p[i] = q[i]
    BY Pushed
  <1> HIDE DEF p
  <1>2. NoneTwice(p)
    BY <1>1 DEF NoneTwice, Holds
  <1>3. \A y : Holds(p, y) <=> Holds(q, y) \/ y = x
    BY <1>1 DEF Holds
  <1>4. \A y : \A i \in 1..Len(q) : Precedes(y, i, q) => Precedes(y, i, p)
    BY <1>1 DEF Precedes
  <1>5. \A y : Holds(q, y) => Precedes(y, Len(q) + 1, p)
    BY <1>1 DEF Precedes, Holds
  <1> QED
    BY <1>2, <1>3, <1>4, <1>5 DEF Grown, p

(* An order of a finite set lists each of its elements once. *)
LEMMA OrderLists ==
    ASSUME NEW S, IsFiniteSet(S), NEW q \in Orders(S)
    PROVE  q \in Seq(S) /\ NoneTwice(q) /\ \A x \in S : Holds(q, x)
  <1> DEFINE D == 1..Cardinality(S)
  <1>1. Cardinality(S) \in Nat /\ IsFiniteSet(D) /\ Cardinality(D) = Cardinality(S)
    BY FS_CardinalityType, FS_Interval
  <1>2. q \in [D -> S] /\ \A i, j \in D : i # j => q[i] # q[j]
    BY DEF Orders, SetToSeqs
  <1>3. q \in Seq(S) /\ Len(q) = Cardinality(S)
    BY <1>1, <1>2
  <1>4. NoneTwice(q)
    BY <1>2, <1>3 DEF NoneTwice
  <1>5. q \in Injection(D, S)
    BY <1>2 DEF Injection, IsInjective
  <1>6. q \in Surjection(D, S)
    BY <1>1, <1>5, FS_Injection
  <1>7. \A x \in S : Holds(q, x)
    BY <1>3, <1>6 DEF Surjection, Holds
  <1> QED
    BY <1>3, <1>4, <1>7

(* A sequence that lists each element of a set once is as long as it.      *)
LEMMA ListsOnce ==
    ASSUME NEW S, NEW q \in Seq(S), NoneTwice(q), \A x \in S : Holds(q, x)
    PROVE  ToSet(q) = S /\ Len(q) = Cardinality(S)
  <1>1. Len(q) \in Nat /\ q \in [1..Len(q) -> S] /\ DOMAIN q = 1..Len(q)
    OBVIOUS
  <1>2. ToSet(q) = S
    BY <1>1 DEF ToSet, Holds
  <1>3. q \in Bijection(1..Len(q), S)
    BY <1>1 DEF Bijection, Injection, Surjection, IsInjective, NoneTwice, Holds
  <1>4. ExistsBijection(1..Len(q), S)
    BY <1>3 DEF ExistsBijection
  <1> QED
    BY <1>1, <1>2, <1>4, FS_CountingElements

(* What is before the i-th has the earlier place. *)
LEMMA PrecedesEarlier ==
    ASSUME NEW S, NEW q \in Seq(S), NoneTwice(q), NEW i \in 1..Len(q), NEW y \in S,
           Precedes(y, i, q)
    PROVE  Earlier(y, q[i], q)
  <1>1. Len(q) \in Nat /\ DOMAIN q = 1..Len(q)
    OBVIOUS
  <1>2. PICK j \in 1..Len(q) : j < i /\ q[j] = y
    BY DEF Precedes
  <1>3. Place(q[i], q) = i
    BY <1>1 DEF Place, NoneTwice
  <1>4. Place(y, q) = j
    BY <1>1, <1>2 DEF Place, NoneTwice
  <1>5. y \in ToSet(q)
    BY <1>1, <1>2 DEF ToSet
  <1> QED
    BY <1>1, <1>2, <1>3, <1>4, <1>5 DEF Earlier

-----------------------------------------------------------------------------
(* The aliases *)

LEMMA GeneratorInvInit == Init => GeneratorInv
  <1> SUFFICES ASSUME Init PROVE GeneratorInv
    OBVIOUS
  <1>1. declared \in Seq(Aliases) /\ NoneTwice(declared) /\ \A a \in Aliases : Holds(declared, a)
    BY OrderLists, NamesAssumption DEF Init
  <1>2. GeneratorTypeOK
    BY <1>1 DEF Init, GeneratorTypeOK
  <1>3. Len(declared) \in Nat /\ Unwound(Len(declared))
    BY <1>1 DEF Init, Unwound
  <1>4. NoneTwice(<<>>) /\ \A x : ~Holds(<<>>, x)
    BY DEF NoneTwice, Holds
  <1>5. AliasInv
    BY <1>1, <1>3, <1>4 DEF Init, AliasInv
  <1>6. StructureInv
    BY <1>4 DEF Init, StructureInv, Nested
  <1> QED
    BY <1>2, <1>5, <1>6 DEF GeneratorInv

(* The m-th alias of the model is or led to the one on top of the stack.   *)
Root(m) ==
    /\ m <= Len(declared) /\ m <= Len(stack)
    /\ \/ declared[m] = Last(stack)
       \/ Leads(uses, declared[m], Last(stack)) /\ declared[m] \in seen
    /\ \A i \in (m + 1)..Len(declared) : declared[i] \in seen
    /\ \A i \in 1..(m - 1) : stack[i] = declared[i]
    /\ \A j \in m..(Len(stack) - 1) : Leads(uses, declared[m], stack[j])

LEMMA RootIs ==
    ASSUME GeneratorTypeOK, stack # <<>>, NEW n \in Nat, Unwound(n)
    PROVE  \E m \in Nat : m >= 1 /\ Root(m)
  <1>1. /\ Len(stack) \in Nat /\ Len(stack) >= 1 /\ Last(stack) = stack[Len(stack)]
        /\ Len(declared) \in Nat
    <2>1. stack \in Seq(Aliases) /\ declared \in Seq(Aliases)
      BY DEF GeneratorTypeOK
    <2>2. Len(stack) \in Nat /\ Len(stack) >= 1 /\ Len(declared) \in Nat
      BY <2>1
    <2> QED
      BY <2>2 DEF Last
  <1>2. CASE n = Len(stack)
    <2>1. n >= 1 /\ Root(n)
      BY <1>1, <1>2 DEF Unwound, Root
    <2> QED
      BY <2>1
  <1>3. CASE n # Len(stack)
    <2>1. n + 1 \in Nat /\ n + 1 >= 1 /\ n + 1 <= Len(declared) /\ n + 1 <= Len(stack)
      BY <1>1, <1>3 DEF Unwound
    <2>2. Root(n + 1)
      BY <1>1, <2>1 DEF Unwound, Root
    <2> QED
      BY <2>1, <2>2
  <1> QED
    BY <1>2, <1>3

(* A new alias is in order: what it uses was taken, or is in the model     *)
(* before its root.                                                        *)
LEMMA TakenReversed ==
    ASSUME GeneratorTypeOK, AliasInv, GeneratorTypeOK', stack # <<>>, phase = "aliases",
           Last(stack) \notin seen, UNCHANGED model,
           aliases' = Append(aliases, Last(stack)),
           NEW m \in Nat, m >= 1, Root(m)
    PROVE  NoneTwice(aliases') /\ \A i \in 1..Len(aliases') : Reversed(i)'
  <1>1. /\ aliases \in Seq(Aliases) /\ declared \in Seq(Aliases)
        /\ Last(stack) \in Aliases /\ Len(aliases) \in Nat /\ Len(declared) \in Nat
    BY Popped DEF GeneratorTypeOK
  <1>2. PICK a \in Aliases : a = Last(stack)
    BY <1>1
  <1>3. NoneTwice(aliases) /\ \A x \in Aliases : x \in seen <=> Holds(aliases, x)
    BY DEF AliasInv
  <1>4. ~Holds(aliases, a)
    BY <1>2, <1>3
  <1>5. Grown(aliases, aliases', a)
    BY <1>1, <1>2, <1>3, <1>4, Grows
  <1>6. /\ Len(aliases') = Len(aliases) + 1 /\ aliases'[Len(aliases) + 1] = a
        /\ \A i \in 1..Len(aliases) : aliases'[i] = aliases[i]
    BY <1>1, <1>2, Pushed
  <1>7. declared' = declared /\ uses' = uses
    BY DEF model
  <1>8. ASSUME NEW i \in 1..Len(aliases)
        PROVE  Reversed(i)'
    <2>1. Reversed(i)
      BY DEF AliasInv
    <2>2. SUFFICES ASSUME NEW d \in uses[aliases[i]] \ {aliases[i]}
                   PROVE  \/ Precedes(d, i, aliases')
                          \/ \E k \in 1..Len(declared) :
                                 /\ \/ declared[k] = aliases[i]
                                    \/ Leads(uses, declared[k], aliases[i])
                                 /\ Precedes(d, k, declared)
      BY <1>6, <1>7 DEF Reversed
    <2> QED
      BY <1>5, <2>1 DEF Reversed, Grown
  <1>9. ASSUME NEW d \in uses[a] \ {a}
        PROVE  \/ Precedes(d, Len(aliases) + 1, aliases')
               \/ \E k \in 1..Len(declared) :
                      /\ declared[k] = a \/ Leads(uses, declared[k], a)
                      /\ Precedes(d, k, declared)
    <2>1. d \in Aliases
      BY DEF GeneratorTypeOK
    <2>2. PICK j \in 1..Len(declared) : declared[j] = d
      BY <2>1 DEF AliasInv, Holds
    <2>3. m \in 1..Len(declared) /\ (declared[m] = a \/ Leads(uses, declared[m], a))
      BY <1>1, <1>2 DEF Root
    <2>4. CASE j < m
      BY <2>2, <2>3, <2>4 DEF Precedes
    <2>5. CASE j >= m
      <3>1. d \in seen
        BY <1>1, <1>2, <2>2, <2>5 DEF Root
      <3>2. Holds(aliases, d)
        BY <1>3, <2>1, <3>1
      <3> QED
        BY <1>5, <3>2 DEF Grown
    <2> QED
      BY <2>4, <2>5
  <1>10. ASSUME NEW i \in 1..Len(aliases'), i \notin 1..Len(aliases)
         PROVE  Reversed(i)'
    <2>1. i = Len(aliases) + 1
      BY <1>1, <1>6, <1>10
    <2>2. aliases'[i] = a
      BY <1>6, <2>1
    <2> QED
      BY <1>7, <1>9, <2>1, <2>2 DEF Reversed
  <1> QED
    BY <1>5, <1>8, <1>10 DEF Grown

(* The root of the alias that is taken stays the root of what is left. *)
LEMMA RootStays ==
    ASSUME GeneratorTypeOK, stack # <<>>, UNCHANGED model,
           NEW m \in Nat, m >= 1, Root(m),
           NEW deps \in Seq(Aliases),
           stack' = Front(stack) \o deps, declared[m] \in seen',
           \A d \in Aliases : d \in seen => d \in seen',
           \A j \in 1..Len(deps) : Leads(uses, declared[m], deps[j])
    PROVE  \E n \in Nat : Unwound(n)'
  <1>1. stack \in Seq(Aliases) /\ declared \in Seq(Aliases) /\ Len(declared) \in Nat
    BY DEF GeneratorTypeOK
  <1>2. PICK f \in Seq(Aliases) : f = Front(stack)
    BY <1>1, Popped
  <1>3. /\ Len(stack) \in Nat /\ Len(f) = Len(stack) - 1
        /\ \A i \in 1..(Len(stack) - 1) : f[i] = stack[i]
    BY <1>1, <1>2, Popped
  <1>4. /\ Len(f) \in Nat /\ Len(deps) \in Nat /\ Len(stack') = Len(f) + Len(deps)
        /\ \A i \in 1..Len(f) : stack'[i] = f[i]
        /\ \A i \in (Len(f) + 1)..Len(stack') : stack'[i] = deps[i - Len(f)]
    BY <1>2, Concatenated
  <1>5. PICK n \in Nat : n = m - 1
    OBVIOUS
  <1>6. declared' = declared /\ uses' = uses
    BY DEF model
  <1>7. n <= Len(stack') /\ n <= Len(declared)
    BY <1>1, <1>3, <1>4, <1>5 DEF Root
  <1>8. ASSUME NEW i \in 1..n
        PROVE  stack'[i] = declared[i]
    <2>1. m <= Len(stack)
      BY DEF Root
    <2>2. i \in 1..(m - 1) /\ i \in 1..Len(f) /\ i \in 1..(Len(stack) - 1)
      BY <1>3, <1>4, <1>5, <2>1
    <2>3. stack'[i] = f[i] /\ f[i] = stack[i]
      BY <1>3, <1>4, <2>2
    <2> QED
      BY <2>2, <2>3 DEF Root
  <1>9. \A i \in (n + 1)..Len(declared) : declared[i] \in seen'
    <2>1. \A i \in 1..Len(declared) : declared[i] \in Aliases
      BY <1>1
    <2> QED
      BY <1>1, <1>5, <2>1 DEF Root
  <1>10. \A j \in (n + 1)..Len(stack') : Leads(uses, declared[m], stack'[j])
    <2>1. ASSUME NEW j \in (n + 1)..Len(stack'), j <= Len(f)
          PROVE  Leads(uses, declared[m], stack'[j])
      BY <1>3, <1>4, <1>5, <2>1 DEF Root
    <2>2. ASSUME NEW j \in (n + 1)..Len(stack'), j > Len(f)
          PROVE  Leads(uses, declared[m], stack'[j])
      <3>1. PICK i \in 1..Len(deps) : i = j - Len(f)
        BY <1>4, <1>5, <2>2
      <3>2. stack'[j] = deps[i]
        BY <1>4, <2>2, <3>1
      <3> QED
        BY <3>2
    <2> QED
      BY <1>4, <1>5, <2>1, <2>2
  <1>11. n < Len(declared) /\ n + 1 = m
    BY <1>1, <1>5 DEF Root
  <1>12. Unwound(n)'
    BY <1>6, <1>7, <1>8, <1>9, <1>10, <1>11 DEF Unwound
  <1> QED
    BY <1>12

LEMMA InvSortAlias ==
    ASSUME GeneratorInv, SortAlias
    PROVE  GeneratorInv'
  <1>1. /\ phase = "aliases" /\ phase' = "aliases" /\ stack # <<>>
        /\ UNCHANGED model /\ UNCHANGED <<visiting, structures>>
    BY DEF SortAlias
  <1>2. GeneratorTypeOK /\ AliasInv /\ StructureInv
    BY DEF GeneratorInv
  <1>3. stack \in Seq(Aliases) /\ declared \in Seq(Aliases) /\ uses \in [Aliases -> SUBSET Aliases]
    BY <1>2 DEF GeneratorTypeOK
  <1>4. PICK a \in Aliases, f \in Seq(Aliases) : a = Last(stack) /\ f = Front(stack)
    BY <1>1, <1>3, Popped
  <1>5. PICK n \in Nat : Unwound(n)
    BY <1>1, <1>2 DEF AliasInv
  <1>6. PICK m \in Nat : m >= 1 /\ Root(m)
    BY <1>1, <1>2, <1>5, RootIs
  <1>7. declared' = declared /\ uses' = uses /\ refers' = refers
    BY <1>1 DEF model
  <1>8. StructureInv'
    BY <1>1, <1>2, <1>7 DEF StructureInv, Nested, Sorted, follows, Follows, By
  <1>9. CASE a \in seen
    <2>1. stack' = f /\ UNCHANGED <<seen, aliases>>
      BY <1>4, <1>9 DEF SortAlias
    <2>2. GeneratorTypeOK'
      BY <1>1, <1>2, <1>7, <2>1 DEF GeneratorTypeOK
    <2>3. stack' = Front(stack) \o <<>> /\ <<>> \in Seq(Aliases) /\ Len(<<>>) = 0
      BY <1>4, <2>1
    <2>4. declared[m] \in seen'
      BY <1>4, <1>6, <1>9, <2>1 DEF Root
    <2>5. \A j \in 1..Len(<<>>) : Leads(uses, declared[m], <<>>[j])
      BY <2>3
    <2>6. \E k \in Nat : Unwound(k)'
      BY <1>1, <1>2, <1>6, <2>1, <2>3, <2>4, <2>5, RootStays
    <2>7. AliasInv'
      BY <1>1, <1>2, <1>7, <2>1, <2>6 DEF AliasInv, Reversed
    <2> QED
      BY <1>8, <2>2, <2>7 DEF GeneratorInv
  <1>10. CASE a \notin seen
    <2>1. PICK deps \in Orders(uses[a]) :
              /\ stack' = Front(stack) \o deps
              /\ seen' = seen \cup {a} /\ aliases' = Append(aliases, a)
      BY <1>4, <1>10 DEF SortAlias
    <2>2. uses[a] \subseteq Aliases /\ IsFiniteSet(uses[a])
      BY <1>3, NamesAssumption, FS_Subset
    <2>3. deps \in Seq(uses[a])
      BY <2>2, OrderLists
    <2>4. deps \in Seq(Aliases) /\ \A j \in 1..Len(deps) : deps[j] \in uses[a]
      BY <2>2, <2>3
    <2>5. GeneratorTypeOK'
      <3>1. f \o deps \in Seq(Aliases) /\ aliases \in Seq(Aliases)
        BY <1>2, <2>4, Concatenated DEF GeneratorTypeOK
      <3>2. Append(aliases, a) \in Seq(Aliases)
        BY <3>1, Pushed
      <3> QED
        BY <1>1, <1>2, <1>4, <1>7, <2>1, <3>1, <3>2 DEF GeneratorTypeOK
    <2>6. declared[m] \in Aliases
      BY <1>3, <1>6 DEF Root
    <2>7. declared[m] \in seen'
      BY <1>4, <1>6, <2>1 DEF Root
    <2>8. \A j \in 1..Len(deps) : Leads(uses, declared[m], deps[j])
      BY <1>3, <1>4, <1>6, <2>4, <2>6, LeadsOne, LeadsOn DEF Root
    <2>9. \E k \in Nat : Unwound(k)'
      BY <1>1, <1>2, <1>6, <2>1, <2>4, <2>7, <2>8, RootStays
    <2>10. NoneTwice(aliases') /\ \A i \in 1..Len(aliases') : Reversed(i)'
      BY <1>1, <1>2, <1>4, <1>6, <1>10, <2>1, <2>5, TakenReversed
    <2>11. \A x \in Aliases : x \in seen' <=> Holds(aliases', x)
      <3>1. NoneTwice(aliases) /\ aliases \in Seq(Aliases) /\ ~Holds(aliases, a)
        BY <1>1, <1>2, <1>10 DEF AliasInv, GeneratorTypeOK
      <3>2. Grown(aliases, aliases', a)
        BY <2>1, <3>1, Grows
      <3> QED
        BY <1>1, <1>2, <2>1, <3>2 DEF AliasInv, Grown
    <2>12. NoneTwice(declared) /\ \A x \in Aliases : Holds(declared, x)
      BY <1>2 DEF AliasInv
    <2>13. AliasInv'
      BY <1>1, <1>7, <2>9, <2>10, <2>11, <2>12 DEF AliasInv
    <2> QED
      BY <1>8, <2>5, <2>13 DEF GeneratorInv
  <1> QED
    BY <1>9, <1>10

LEMMA InvAliasesSorted ==
    ASSUME GeneratorInv, AliasesSorted
    PROVE  GeneratorInv'
  <1>1. /\ phase = "aliases" /\ phase' = "structures" /\ stack = <<>> /\ seen' = {}
        /\ UNCHANGED model /\ UNCHANGED <<stack, aliases, visiting, structures>>
    BY DEF AliasesSorted
  <1>2. GeneratorTypeOK /\ AliasInv /\ StructureInv
    BY DEF GeneratorInv
  <1>3. declared' = declared /\ uses' = uses /\ refers' = refers
    BY <1>1 DEF model
  <1>4. GeneratorTypeOK'
    BY <1>1, <1>2, <1>3 DEF GeneratorTypeOK
  <1>5. PICK n \in Nat : Unwound(n)
    BY <1>1, <1>2 DEF AliasInv
  <1>6. n = 0
    BY <1>1, <1>5 DEF Unwound
  <1>7. \A a \in Aliases : Holds(aliases, a)
    <2>1. \A a \in Aliases : \E i \in 1..Len(declared) : declared[i] = a
      BY <1>2 DEF AliasInv, Holds
    <2>2. \A a \in Aliases : a \in seen
      BY <1>5, <1>6, <2>1 DEF Unwound
    <2> QED
      BY <1>1, <1>2, <2>2 DEF AliasInv
  <1>8. AliasInv'
    BY <1>1, <1>2, <1>3, <1>7 DEF AliasInv, Reversed
  <1>9. structures = <<>> /\ visiting = <<>> /\ \A x : ~Holds(<<>>, x)
    BY <1>1, <1>2 DEF StructureInv, Holds
  <1>10. StructureInv'
    BY <1>1, <1>2, <1>3, <1>9 DEF StructureInv, Nested, Sorted, follows, Follows, By
  <1> QED
    BY <1>4, <1>8, <1>10 DEF GeneratorInv

-----------------------------------------------------------------------------
(* The structures *)

LEMMA FollowsIs ==
    /\ follows \in [Structures -> SUBSET Structures]
    /\ \A s \in Structures : follows[s] = Follows(s)
  BY DEF follows, Follows, By

(* visit() called for s, from the loop or from the visit() it is nested in *)
LEMMA InvEnter ==
    ASSUME GeneratorInv, NEW s \in Structures, Enter(s),
           phase = "structures", UNCHANGED <<model, phase, stack, aliases, structures>>,
           visiting = <<>> \/ s \in Follows(Last(visiting))
    PROVE  GeneratorInv'
  <1>1. GeneratorTypeOK /\ AliasInv /\ StructureInv
    BY DEF GeneratorInv
  <1>2. /\ s \notin seen /\ seen' = seen \cup {s} /\ visiting' = Append(visiting, s)
        /\ declared' = declared /\ uses' = uses /\ refers' = refers
        /\ phase' = phase /\ stack' = stack /\ aliases' = aliases /\ structures' = structures
    BY DEF Enter, model
  <1>3. visiting \in Seq(Structures) /\ Len(visiting) \in Nat
    BY <1>1 DEF GeneratorTypeOK
  <1>4. \A x \in Structures : x \in seen <=> Holds(structures, x) \/ Holds(visiting, x)
    BY <1>1 DEF StructureInv
  <1>5. ~Holds(visiting, s) /\ ~Holds(structures, s) /\ NoneTwice(visiting)
    BY <1>1, <1>2, <1>4 DEF StructureInv
  <1>6. Grown(visiting, visiting', s)
    BY <1>2, <1>3, <1>5, Grows
  <1>7. /\ visiting' \in Seq(Structures) /\ Len(visiting') = Len(visiting) + 1
        /\ visiting'[Len(visiting) + 1] = s
        /\ \A i \in 1..Len(visiting) : visiting'[i] = visiting[i]
    BY <1>2, <1>3, Pushed
  <1>8. GeneratorTypeOK'
    BY <1>1, <1>2, <1>7 DEF GeneratorTypeOK
  <1>9. AliasInv'
    BY <1>1, <1>2 DEF AliasInv, Reversed
  <1>10. follows' = follows
    BY <1>2 DEF follows, Follows, By
  <1>11. ASSUME NEW i \in 1..Len(visiting)
         PROVE  Leads(follows, visiting[i], s)
    <2>1. visiting # <<>> /\ s \in Follows(Last(visiting))
      BY <1>3, <1>11
    <2>2. PICK t \in Structures : t = Last(visiting) /\ t = visiting[Len(visiting)]
      BY <1>3, <2>1, Popped
    <2>3. s \in follows[t]
      BY <2>1, <2>2, FollowsIs
    <2>4. CASE i = Len(visiting)
      BY <2>2, <2>3, <2>4, FollowsIs, LeadsOne
    <2>5. CASE i < Len(visiting)
      <3>1. Leads(follows, visiting[i], t) /\ visiting[i] \in Structures
        BY <1>1, <1>3, <1>11, <2>2, <2>5 DEF StructureInv, Nested
      <3> QED
        BY <2>3, <3>1, FollowsIs, LeadsOn
    <2> QED
      BY <1>3, <2>4, <2>5
  <1>12. Nested'
    <2>1. SUFFICES ASSUME NEW i \in 1..Len(visiting'), NEW j \in 1..Len(visiting'), i < j
                   PROVE  Leads(follows, visiting'[i], visiting'[j])
      BY <1>10 DEF Nested
    <2>2. i \in 1..Len(visiting) /\ visiting'[i] = visiting[i]
      BY <1>3, <1>7, <2>1
    <2>3. CASE j = Len(visiting) + 1
      BY <1>7, <1>11, <2>2, <2>3
    <2>4. CASE j # Len(visiting) + 1
      <3>1. j \in 1..Len(visiting) /\ visiting'[j] = visiting[j]
        BY <1>3, <1>7, <2>4
      <3> QED
        BY <1>1, <2>1, <2>2, <3>1 DEF StructureInv, Nested
    <2> QED
      BY <2>3, <2>4
  <1>13. \A i \in 1..Len(structures) : Sorted(i)'
    BY <1>1, <1>2, <1>10 DEF StructureInv, Sorted, Follows, By
  <1>14. \A i \in 1..Len(visiting') : ~Holds(structures, visiting'[i])
    BY <1>1, <1>3, <1>5, <1>7 DEF StructureInv
  <1>15. \A x \in Structures : x \in seen' <=> Holds(structures, x) \/ Holds(visiting', x)
    BY <1>2, <1>4, <1>6 DEF Grown
  <1>16. StructureInv'
    BY <1>1, <1>2, <1>6, <1>12, <1>13, <1>14, <1>15 DEF StructureInv, Grown
  <1> QED
    BY <1>8, <1>9, <1>16 DEF GeneratorInv

LEMMA InvVisited ==
    ASSUME GeneratorInv, Visited
    PROVE  GeneratorInv'
  <1>1. GeneratorTypeOK /\ AliasInv /\ StructureInv
    BY DEF GeneratorInv
  <1>2. /\ phase = "structures" /\ visiting # <<>> /\ Follows(Last(visiting)) \subseteq seen
        /\ structures' = Append(structures, Last(visiting)) /\ visiting' = Front(visiting)
        /\ declared' = declared /\ uses' = uses /\ refers' = refers
        /\ phase' = phase /\ stack' = stack /\ aliases' = aliases /\ seen' = seen
    BY DEF Visited, model
  <1>3. visiting \in Seq(Structures) /\ structures \in Seq(Structures) /\ Len(structures) \in Nat
    BY <1>1 DEF GeneratorTypeOK
  <1>4. PICK s \in Structures, f \in Seq(Structures) : s = Last(visiting) /\ f = Front(visiting)
    BY <1>2, <1>3, Popped
  <1>5. PICK m \in Nat : m = Len(visiting) /\ m >= 1
    BY <1>2, <1>3
  <1>6. /\ s = visiting[m] /\ Len(f) = m - 1 /\ \A i \in 1..(m - 1) : f[i] = visiting[i]
    BY <1>2, <1>3, <1>4, <1>5, Popped
  <1>7. /\ NoneTwice(structures) /\ NoneTwice(visiting)
        /\ \A i \in 1..m : ~Holds(structures, visiting[i])
        /\ \A x \in Structures : x \in seen <=> Holds(structures, x) \/ Holds(visiting, x)
    BY <1>1, <1>2, <1>5 DEF StructureInv
  <1>8. ~Holds(structures, s)
    BY <1>5, <1>6, <1>7
  <1>9. structures' = Append(structures, s) /\ visiting' = f
    BY <1>2, <1>4
  <1>10. Grown(structures, structures', s)
    BY <1>3, <1>7, <1>8, <1>9, Grows
  <1>11. /\ structures' \in Seq(Structures) /\ Len(structures') = Len(structures) + 1
         /\ structures'[Len(structures) + 1] = s
         /\ \A i \in 1..Len(structures) : structures'[i] = structures[i]
    BY <1>3, <1>9, Pushed
  <1>12. GeneratorTypeOK'
    BY <1>1, <1>2, <1>9, <1>11 DEF GeneratorTypeOK
  <1>13. AliasInv'
    BY <1>1, <1>2 DEF AliasInv, Reversed
  <1>14. follows' = follows /\ \A t : Follows(t)' = Follows(t)
    BY <1>2 DEF follows, Follows, By
  <1>15. NoneTwice(f) /\ \A x : Holds(visiting, x) <=> Holds(f, x) \/ x = s
    BY <1>5, <1>6, <1>7 DEF NoneTwice, Holds
  <1>16. \A i \in 1..Len(f) : ~Holds(structures', f[i])
    <2>1. \A i \in 1..Len(f) : i \in 1..m /\ f[i] = visiting[i] /\ f[i] # s
      BY <1>5, <1>6, <1>7 DEF NoneTwice
    <2> QED
      BY <1>7, <1>10, <2>1 DEF Grown
  <1>17. Nested'
    <2>1. \A i \in 1..Len(f) : i \in 1..Len(visiting) /\ f[i] = visiting[i]
      BY <1>5, <1>6
    <2> QED
      BY <1>1, <1>9, <1>14, <2>1 DEF StructureInv, Nested
  <1>18. ASSUME NEW i \in 1..Len(structures)
         PROVE  Sorted(i)'
    <2>1. Sorted(i)
      BY <1>1 DEF StructureInv
    <2>2. SUFFICES ASSUME NEW d \in Follows(structures[i])
                   PROVE  Precedes(d, i, structures') \/ Leads(follows, d, structures[i])
      BY <1>11, <1>14 DEF Sorted
    <2> QED
      BY <1>10, <2>1 DEF Sorted, Grown
  <1>19. ASSUME NEW d \in Follows(s)
         PROVE  Precedes(d, Len(structures) + 1, structures') \/ Leads(follows, d, s)
    <2>1. d \in Structures /\ d \in follows[s]
      BY FollowsIs DEF Follows, By
    <2>2. Holds(structures, d) \/ Holds(visiting, d)
      BY <1>2, <1>4, <1>7, <2>1
    <2>3. CASE Holds(structures, d)
      BY <1>10, <2>3 DEF Grown
    <2>4. CASE Holds(visiting, d)
      <3>1. PICK i \in 1..m : visiting[i] = d
        BY <1>5, <2>4 DEF Holds
      <3>2. CASE i < m
        BY <1>1, <1>5, <1>6, <3>1, <3>2 DEF StructureInv, Nested
      <3>3. CASE i = m
        BY <1>6, <2>1, <3>1, <3>3, FollowsIs, LeadsOne
      <3> QED
        BY <1>5, <3>2, <3>3
    <2> QED
      BY <2>2, <2>3, <2>4
  <1>20. ASSUME NEW i \in 1..Len(structures'), i \notin 1..Len(structures)
         PROVE  Sorted(i)'
    <2>1. i = Len(structures) + 1
      BY <1>3, <1>11, <1>20
    <2>2. structures'[i] = s
      BY <1>11, <2>1
    <2> QED
      BY <1>14, <1>19, <2>1, <2>2 DEF Sorted
  <1>21. \A x \in Structures : x \in seen' <=> Holds(structures', x) \/ Holds(visiting', x)
    BY <1>2, <1>7, <1>9, <1>10, <1>15 DEF Grown
  <1>22. StructureInv'
    BY <1>2, <1>9, <1>10, <1>15, <1>16, <1>17, <1>18, <1>20, <1>21 DEF StructureInv, Grown
  <1> QED
    BY <1>12, <1>13, <1>22 DEF GeneratorInv

LEMMA InvStructuresSorted ==
    ASSUME GeneratorInv, StructuresSorted
    PROVE  GeneratorInv'
  <1>1. GeneratorTypeOK /\ AliasInv /\ StructureInv
    BY DEF GeneratorInv
  <1>2. /\ phase = "structures" /\ phase' = "done" /\ visiting = <<>> /\ Structures \subseteq seen
        /\ declared' = declared /\ uses' = uses /\ refers' = refers /\ stack' = stack
        /\ seen' = seen /\ aliases' = aliases /\ visiting' = visiting /\ structures' = structures
    BY DEF StructuresSorted, model
  <1>3. \A x \in Structures : Holds(structures, x)
    BY <1>1, <1>2 DEF StructureInv, Holds
  <1>4. GeneratorTypeOK'
    BY <1>1, <1>2 DEF GeneratorTypeOK
  <1>5. AliasInv'
    BY <1>1, <1>2 DEF AliasInv, Reversed
  <1>6. StructureInv'
    BY <1>1, <1>2, <1>3 DEF StructureInv, Nested, Sorted, follows, Follows, By
  <1> QED
    BY <1>4, <1>5, <1>6 DEF GeneratorInv

LEMMA GeneratorInvStep == GeneratorInv /\ [Next]_vars => GeneratorInv'
  <1> SUFFICES ASSUME GeneratorInv, [Next]_vars
               PROVE  GeneratorInv'
    OBVIOUS
  <1>1. CASE VisitNext
    <2>1. PICK s \in Structures : Enter(s)
      BY <1>1 DEF VisitNext
    <2> QED
      BY <1>1, <2>1, InvEnter DEF VisitNext
  <1>2. CASE VisitReference
    <2>1. PICK s \in Follows(Last(visiting)) : Enter(s)
      BY <1>2 DEF VisitReference
    <2>2. s \in Structures
      BY DEF Follows, By
    <2> QED
      BY <1>2, <2>1, <2>2, InvEnter DEF VisitReference
  <1>3. CASE UNCHANGED vars
    BY <1>3 DEF vars, model, GeneratorInv, GeneratorTypeOK, AliasInv, Unwound, Reversed,
                StructureInv, Nested, Sorted, follows, Follows, By
  <1> QED
    BY <1>1, <1>2, <1>3, InvSortAlias, InvAliasesSorted, InvVisited, InvStructuresSorted
    DEF Next

LEMMA AlwaysGeneratorInv == Spec => []GeneratorInv
  BY GeneratorInvInit, GeneratorInvStep, PTL DEF Spec

(* Whatever cycles the references of the meta model make, the generator    *)
(* declares every alias and every structure, and none twice                *)
(* (resolve.go:403, :431).                                                 *)
THEOREM EachDeclaredOnce == Spec => []EachOnce
  <1>1. GeneratorInv => EachOnce
    <2> SUFFICES ASSUME GeneratorInv, phase = "done"
                 PROVE  /\ ToSet(aliases) = Aliases /\ Len(aliases) = Cardinality(Aliases)
                        /\ ToSet(structures) = Structures
                        /\ Len(structures) = Cardinality(Structures)
      BY DEF EachOnce
    <2>1. aliases \in Seq(Aliases) /\ structures \in Seq(Structures)
      BY DEF GeneratorInv, GeneratorTypeOK
    <2>2. NoneTwice(aliases) /\ \A a \in Aliases : Holds(aliases, a)
      BY DEF GeneratorInv, AliasInv
    <2>3. NoneTwice(structures) /\ \A s \in Structures : Holds(structures, s)
      BY DEF GeneratorInv, StructureInv
    <2> QED
      BY <2>1, <2>2, <2>3, ListsOnce
  <1> QED
    BY <1>1, AlwaysGeneratorInv, PTL

(* sortTypeAliases() declares an alias after those it uses, for every meta *)
(* model that has those after the alias and everything that leads to it:   *)
(* for such models the reversal is sound (resolve.go:400-416).             *)
THEOREM AliasesComeInOrder == Spec => []AliasesInOrder
  <1>1. GeneratorInv => AliasesInOrder
    <2> SUFFICES ASSUME GeneratorInv, NEW a \in ToSet(aliases), NEW d \in uses[a] \ {a}
                 PROVE  \/ Earlier(d, a, aliases)
                        \/ \E r \in Aliases : /\ r = a \/ Leads(uses, r, a)
                                              /\ Earlier(d, r, declared)
      BY DEF AliasesInOrder
    <2>1. /\ aliases \in Seq(Aliases) /\ declared \in Seq(Aliases)
          /\ uses \in [Aliases -> SUBSET Aliases]
      BY DEF GeneratorInv, GeneratorTypeOK
    <2>2. /\ NoneTwice(aliases) /\ NoneTwice(declared)
          /\ \A i \in 1..Len(aliases) : Reversed(i)
      BY DEF GeneratorInv, AliasInv
    <2>3. PICK i \in 1..Len(aliases) : aliases[i] = a
      BY <2>1 DEF ToSet
    <2>4. a \in Aliases
      BY <2>1, <2>3
    <2>5. d \in Aliases
      BY <2>1, <2>4
    <2>6. \/ Precedes(d, i, aliases)
          \/ \E k \in 1..Len(declared) :
                 /\ declared[k] = a \/ Leads(uses, declared[k], a)
                 /\ Precedes(d, k, declared)
      BY <2>2, <2>3 DEF Reversed
    <2>7. CASE Precedes(d, i, aliases)
      BY <2>1, <2>2, <2>3, <2>5, <2>7, PrecedesEarlier
    <2>8. ASSUME NEW k \in 1..Len(declared),
                 declared[k] = a \/ Leads(uses, declared[k], a),
                 Precedes(d, k, declared)
          PROVE  \E r \in Aliases : (r = a \/ Leads(uses, r, a)) /\ Earlier(d, r, declared)
      <3>1. Earlier(d, declared[k], declared)
        BY <2>1, <2>2, <2>5, <2>8, PrecedesEarlier
      <3>2. declared[k] \in Aliases
        BY <2>1
      <3> QED
        BY <2>8, <3>1, <3>2
    <2> QED
      BY <2>6, <2>7, <2>8
  <1> QED
    BY <1>1, AlwaysGeneratorInv, PTL

(* sortStructures() declares a structure after its bases and the types of  *)
(* its members, unless one of those leads back to it (resolve.go:429-452). *)
THEOREM StructuresComeInOrder == Spec => []StructuresInOrder
  <1>1. GeneratorInv => StructuresInOrder
    <2> SUFFICES ASSUME GeneratorInv, NEW s \in ToSet(structures),
                        NEW d \in Needs(s) \cap Follows(s)
                 PROVE  Earlier(d, s, structures) \/ Leads(follows, d, s)
      BY DEF StructuresInOrder
    <2>1. structures \in Seq(Structures) /\ d \in Structures
      BY DEF GeneratorInv, GeneratorTypeOK, Follows, By
    <2>2. NoneTwice(structures) /\ \A i \in 1..Len(structures) : Sorted(i)
      BY DEF GeneratorInv, StructureInv
    <2>3. PICK i \in 1..Len(structures) : structures[i] = s
      BY <2>1 DEF ToSet
    <2>4. Precedes(d, i, structures) \/ Leads(follows, d, s)
      BY <2>2, <2>3 DEF Sorted
    <2> QED
      BY <2>1, <2>2, <2>3, <2>4, PrecedesEarlier
  <1> QED
    BY <1>1, AlwaysGeneratorInv, PTL

=============================================================================
