---------------------------- MODULE Codec_proofs ----------------------------
(***************************************************************************)
(* Proofs about Codec, for every set of types.                             *)
(***************************************************************************)
EXTENDS Codec, FiniteSetTheorems, SequenceTheorems, WellFoundedInduction, TLAPS

-----------------------------------------------------------------------------
(* A set of numbers has a least one. *)
LEMMA Smallest ==
    ASSUME NEW T \in SUBSET Nat, T # {}
    PROVE  \E m \in T : \A k \in T : m <= k
  <1>1. IsWellFoundedOn(OpToRel(<, Nat), Nat)
    BY NatLessThanWellFounded, Zenon
  <1> DEFINE R == OpToRel(<, Nat)
  <1>2. \A y, x \in Nat : y < x => <<y, x>> \in R
    BY DEF OpToRel
  <1> HIDE DEF R
  <1>3. \E x \in T : \A y \in T : ~(<<y, x>> \in R)
    BY <1>1, WFMin, Zenon DEF R
  <1>4. PICK x \in T : \A y \in T : ~(<<y, x>> \in R)
    BY <1>3
  <1>5. \A y \in T : ~(y < x) /\ y \in Nat /\ x \in Nat
    BY <1>2, <1>4
  <1> QED
    BY <1>5

-----------------------------------------------------------------------------
(* Depths: the recursion has a solution. *)

Start(t, v) == [at |-> {<<t, v>>}, all |-> {<<t, v>>}]

NestTo(k, t, v, f) ==
    f = [n \in 0..k |-> IF n = 0 THEN Start(t, v) ELSE Deeper(f[n - 1])]

LEMMA NestExists ==
    ASSUME NEW t, NEW v
    PROVE  \A k \in Nat : \E f : NestTo(k, t, v, f)
  <1> DEFINE T == {k \in Nat : ~ \E f : NestTo(k, t, v, f)}
  <1>1. ASSUME T # {}
        PROVE  FALSE
    <2>1. T \in SUBSET Nat
      OBVIOUS
    <2>2. PICK k \in T : \A m \in T : k <= m
      BY <1>1, <2>1, Smallest, Zenon
    <2>3. CASE k = 0
      <3> DEFINE f == [n \in 0..0 |-> Start(t, v)]
      <3>1. f = [n \in 0..0 |-> IF n = 0 THEN Start(t, v) ELSE Deeper(f[n - 1])]
        OBVIOUS
      <3> QED
        BY <2>3, <3>1, Zenon DEF NestTo
    <2>4. CASE k # 0
      <3>1. k - 1 \in Nat /\ ~(k <= k - 1)
        BY <2>4
      <3>2. PICK f : NestTo(k - 1, t, v, f)
        BY <2>2, <3>1
      <3>3. \A n \in 0..(k - 1) : f[n] = IF n = 0 THEN Start(t, v) ELSE Deeper(f[n - 1])
        BY <3>2, Zenon DEF NestTo
      <3> DEFINE g == [n \in 0..k |-> IF n = k THEN Deeper(f[k - 1]) ELSE f[n]]
      <3>4. \A n \in 0..k : g[n] = IF n = 0 THEN Start(t, v) ELSE Deeper(g[n - 1])
        <4> SUFFICES ASSUME NEW n \in 0..k
                     PROVE  g[n] = IF n = 0 THEN Start(t, v) ELSE Deeper(g[n - 1])
          OBVIOUS
        <4>1. CASE n = k
          <5>1. g[n - 1] = f[k - 1]
            BY <2>4, <4>1
          <5> QED
            BY <2>4, <4>1, <5>1
        <4>2. CASE n = 0
          BY <2>4, <3>3, <4>2
        <4>3. CASE n # k /\ n # 0
          <5>1. n \in 0..(k - 1) /\ n - 1 \in 0..k /\ n - 1 # k
            BY <4>3
          <5>2. g[n - 1] = f[n - 1] /\ g[n] = f[n]
            BY <4>3, <5>1
          <5> HIDE DEF g
          <5> QED
            BY <3>3, <4>3, <5>1, <5>2
        <4> QED
          BY <4>1, <4>2, <4>3
      <3>5. g = [n \in 0..k |-> g[n]]
        OBVIOUS
      <3> HIDE DEF g
      <3>6. NestTo(k, t, v, g)
        BY <3>4, <3>5 DEF NestTo
      <3> QED
        BY <3>6
    <2> QED
      BY <2>3, <2>4
  <1> QED
    BY <1>1

LEMMA NestUnique ==
    ASSUME NEW t, NEW v, NEW m \in Nat, NEW k \in Nat, NEW f, NEW g,
           NestTo(m, t, v, f), NestTo(k, t, v, g)
    PROVE  \A n \in Nat : n <= m /\ n <= k => f[n] = g[n]
  <1> DEFINE T == {n \in Nat : n <= m /\ n <= k /\ f[n] # g[n]}
  <1>1. /\ \A n \in 0..m : f[n] = IF n = 0 THEN Start(t, v) ELSE Deeper(f[n - 1])
        /\ \A n \in 0..k : g[n] = IF n = 0 THEN Start(t, v) ELSE Deeper(g[n - 1])
    BY Zenon DEF NestTo
  <1>2. ASSUME T # {}
        PROVE  FALSE
    <2>1. T \in SUBSET Nat
      OBVIOUS
    <2>2. PICK n \in T : \A l \in T : n <= l
      BY <1>2, <2>1, Smallest, Zenon
    <2>3. n \in 0..m /\ n \in 0..k
      OBVIOUS
    <2>4. n # 0
      BY <1>1, <2>2, <2>3
    <2>5. n - 1 \in Nat /\ n - 1 <= m /\ n - 1 <= k /\ ~(n <= n - 1)
      BY <2>4
    <2>6. f[n - 1] = g[n - 1]
      BY <2>2, <2>5
    <2> QED
      BY <1>1, <2>2, <2>3, <2>4, <2>6
  <1> QED
    BY <1>2

LEMMA DepthsIs ==
    ASSUME NEW t, NEW v
    PROVE  /\ Depths(t, v)[0] = Start(t, v)
           /\ \A n \in Nat : Depths(t, v)[n + 1] = Deeper(Depths(t, v)[n])
  <1> DEFINE F(n) == CHOOSE f : NestTo(n, t, v, f)
             g == [n \in Nat |-> F(n)[n]]
  <1>1. \A n \in Nat : NestTo(n, t, v, F(n))
    BY NestExists, Zenon
  <1> HIDE DEF F
  <1>2. \A n \in Nat : g[n] = IF n = 0 THEN Start(t, v) ELSE Deeper(g[n - 1])
    <2> SUFFICES ASSUME NEW n \in Nat
                 PROVE  g[n] = IF n = 0 THEN Start(t, v) ELSE Deeper(g[n - 1])
      OBVIOUS
    <2>1. n \in 0..n
      OBVIOUS
    <2>2. NestTo(n, t, v, F(n))
      BY <1>1
    <2>3. F(n)[n] = IF n = 0 THEN Start(t, v) ELSE Deeper(F(n)[n - 1])
      BY <2>1, <2>2, Zenon DEF NestTo
    <2>4. CASE n = 0
      BY <2>3, <2>4
    <2>5. CASE n # 0
      <3>1. n - 1 \in Nat /\ n - 1 <= n /\ n - 1 <= n - 1
        BY <2>5
      <3>2. NestTo(n - 1, t, v, F(n - 1))
        BY <1>1, <3>1
      <3>3. F(n)[n - 1] = F(n - 1)[n - 1]
        BY <2>2, <3>1, <3>2, NestUnique
      <3> QED
        BY <2>3, <2>5, <3>1, <3>3
    <2> QED
      BY <2>4, <2>5
  <1>3. g = [n \in Nat |-> IF n = 0 THEN Start(t, v) ELSE Deeper(g[n - 1])]
    BY <1>2
  <1> HIDE DEF g
  <1> DEFINE Is(h) == h = [n \in Nat |-> IF n = 0 THEN Start(t, v) ELSE Deeper(h[n - 1])]
  <1>4. Is(g)
    BY <1>3
  <1>5. Depths(t, v) = CHOOSE h : Is(h)
    BY DEF Depths, Start
  <1> HIDE DEF Is
  <1>6. Is(Depths(t, v))
    BY <1>4, <1>5, Zenon
  <1>7. \A n \in Nat :
            Depths(t, v)[n] = IF n = 0 THEN Start(t, v) ELSE Deeper(Depths(t, v)[n - 1])
    <2> DEFINE h == Depths(t, v)
    <2>1. h = [n \in Nat |-> IF n = 0 THEN Start(t, v) ELSE Deeper(h[n - 1])]
      BY <1>6 DEF Is
    <2> HIDE DEF h
    <2>2. \A n \in Nat : h[n] = IF n = 0 THEN Start(t, v) ELSE Deeper(h[n - 1])
      BY <2>1, Zenon
    <2> QED
      BY <2>2 DEF h
  <1>8. \A n \in Nat : n + 1 \in Nat /\ n + 1 # 0 /\ (n + 1) - 1 = n
    OBVIOUS
  <1> QED
    BY <1>7, <1>8

(* The values n deep inside v *)
L(t, v, n) == Depths(t, v)[n].at

LEMMA InsideIs ==
    ASSUME NEW t, NEW v
    PROVE  /\ t[1] \in {"vector", "map"} => Inside(t, v) = {<<t[2], v[i]>> : i \in DOMAIN v}
           /\ t[1] = "tuple" => Inside(t, v) = {<<t[2][i], v[i]>> : i \in DOMAIN t[2] \cap DOMAIN v}
           /\ t[1] = "oneof" => Inside(t, v) = IF v = <<>> THEN {} ELSE {<<t[2][v[1]], v[2]>>}
           /\ t[1] = "struct" => Inside(t, v) =
                 {<<Property(t[2], n).type, v.own[n]>> : n \in Names(t[2]) \cap DOMAIN v.own}
                 \cup {<<Ref(t[2].bases[i]), v.bases[i]>> : i \in DOMAIN t[2].bases}
           /\ t[1] = "ref" => Inside(t, v) = {<<Resolve(t[2]), v>>}
           /\ t[1] = "json" =>
                 Inside(t, v) = IF Container(v) THEN {<<Json, v[2][i]>> : i \in DOMAIN v[2]} ELSE {}
           /\ t[1] = "within" =>
                 Inside(t, v) = IF Container(v)
                                THEN {<<Below(t[2], t[3], i), v[2][i]>> : i \in DOMAIN v[2]} ELSE {}
           /\ t[1] \notin {"vector", "map", "tuple", "oneof", "struct", "ref", "json", "within"}
              => Inside(t, v) = {}
  BY DEF Inside

LEMMA InsidePairs ==
    ASSUME NEW t, NEW v, NEW p \in Inside(t, v)
    PROVE  p = <<p[1], p[2]>>
  <1> USE InsideIs
  <1>1. CASE t[1] \in {"vector", "map"}
    BY <1>1
  <1>2. CASE t[1] = "tuple"
    BY <1>2
  <1>3. CASE t[1] = "oneof"
    BY <1>3
  <1>4. CASE t[1] = "struct"
    BY <1>4
  <1>5. CASE t[1] = "ref"
    BY <1>5
  <1>6. CASE t[1] = "json"
    BY <1>6
  <1>7. CASE t[1] = "within"
    BY <1>7
  <1> QED
    BY <1>1, <1>2, <1>3, <1>4, <1>5, <1>6, <1>7

LEMMA LevelIs ==
    ASSUME NEW t, NEW v
    PROVE  /\ L(t, v, 0) = {<<t, v>>}
           /\ \A n \in Nat : L(t, v, n + 1) = UNION {Inside(p[1], p[2]) : p \in L(t, v, n)}
  <1>1. Depths(t, v)[0].at = Start(t, v).at
    BY DepthsIs
  <1>2. Start(t, v).at = {<<t, v>>}
    BY DEF Start
  <1>3. \A n \in Nat : Depths(t, v)[n + 1].at = Deeper(Depths(t, v)[n]).at
    BY DepthsIs
  <1>4. \A r : Deeper(r).at = UNION {Inside(p[1], p[2]) : p \in r.at}
    BY DEF Deeper
  <1> QED
    BY <1>1, <1>2, <1>3, <1>4 DEF L

LEMMA AllIs ==
    ASSUME NEW t, NEW v
    PROVE  \A n \in Nat : \A p : p \in Depths(t, v)[n].all <=> \E k \in 0..n : p \in L(t, v, k)
  <1> DEFINE Good(n) == \A p : p \in Depths(t, v)[n].all <=> \E k \in 0..n : p \in L(t, v, k)
             T == {n \in Nat : ~Good(n)}
  <1>1. Good(0)
    <2>0. Start(t, v).all = {<<t, v>>}
      BY DEF Start
    <2>1. Depths(t, v)[0].all = {<<t, v>>}
      BY <2>0, DepthsIs
    <2>2. L(t, v, 0) = {<<t, v>>}
      BY LevelIs
    <2>3. \A k \in 0..0 : k = 0
      OBVIOUS
    <2>4. 0 \in 0..0
      OBVIOUS
    <2> QED
      BY <2>1, <2>2, <2>3, <2>4, Zenon
  <1>2. ASSUME NEW n \in Nat, Good(n)
        PROVE  Good(n + 1)
    <2>1. Depths(t, v)[n + 1].all = Depths(t, v)[n].all \cup L(t, v, n + 1)
      <3>1. Depths(t, v)[n + 1] = Deeper(Depths(t, v)[n])
        BY DepthsIs
      <3>2. \A r : Deeper(r).all = r.all \cup Deeper(r).at
        BY DEF Deeper
      <3> QED
        BY <3>1, <3>2 DEF L
    <2>2. 0..(n + 1) = (0..n) \cup {n + 1}
      OBVIOUS
    <2> QED
      BY <1>2, <2>1, <2>2
  <1> HIDE DEF Good
  <1>3. ASSUME T # {}
        PROVE  FALSE
    <2>1. T \in SUBSET Nat
      OBVIOUS
    <2>2. PICK n \in T : \A m \in T : n <= m
      BY <1>3, <2>1, Smallest, Zenon
    <2>3. n # 0
      BY <1>1
    <2>4. n - 1 \in Nat /\ ~(n <= n - 1) /\ (n - 1) + 1 = n
      BY <2>3
    <2> QED
      BY <1>2, <2>2, <2>4
  <1> QED
    BY <1>3 DEF Good

LEMMA LevelInside ==
    ASSUME NEW t, NEW v
    PROVE  \A n \in Nat : \A q : q \in L(t, v, n + 1) <=> \E p \in Inside(t, v) : q \in L(p[1], p[2], n)
  <1> DEFINE Good(n) == \A q : q \in L(t, v, n + 1) <=> \E p \in Inside(t, v) : q \in L(p[1], p[2], n)
             T == {n \in Nat : ~Good(n)}
  <1>1. Good(0)
    <2>1. L(t, v, 0 + 1) = UNION {Inside(p[1], p[2]) : p \in {<<t, v>>}}
      BY LevelIs
    <2>2. \A p : L(p[1], p[2], 0) = {<<p[1], p[2]>>}
      BY LevelIs
    <2>3. \A p \in Inside(t, v) : p = <<p[1], p[2]>>
      BY InsidePairs
    <2> QED
      BY <2>1, <2>2, <2>3
  <1>2. ASSUME NEW n \in Nat, Good(n)
        PROVE  Good(n + 1)
    <2>1. n + 1 \in Nat
      OBVIOUS
    <2>2. L(t, v, (n + 1) + 1) = UNION {Inside(p[1], p[2]) : p \in L(t, v, n + 1)}
      BY <2>1, LevelIs
    <2>3. \A p : L(p[1], p[2], n + 1) = UNION {Inside(q[1], q[2]) : q \in L(p[1], p[2], n)}
      BY LevelIs
    <2>4. \A x : x \in L(t, v, (n + 1) + 1) <=> \E q \in L(t, v, n + 1) : x \in Inside(q[1], q[2])
      BY <2>2
    <2>5. \A x, p : x \in L(p[1], p[2], n + 1) <=> \E q \in L(p[1], p[2], n) : x \in Inside(q[1], q[2])
      BY <2>3
    <2> QED
      BY <1>2, <2>4, <2>5, Zenon
  <1> HIDE DEF Good
  <1>3. ASSUME T # {}
        PROVE  FALSE
    <2>1. T \in SUBSET Nat
      OBVIOUS
    <2>2. PICK n \in T : \A m \in T : n <= m
      BY <1>3, <2>1, Smallest, Zenon
    <2>3. n # 0
      BY <1>1
    <2>4. n - 1 \in Nat /\ ~(n <= n - 1) /\ (n - 1) + 1 = n
      BY <2>3
    <2> QED
      BY <1>2, <2>2, <2>4
  <1> QED
    BY <1>3 DEF Good

-----------------------------------------------------------------------------
(* What holds of all that is inside a value, at any depth.  Each of the    *)
(* three is a fact about the value itself and about what is directly       *)
(* inside it.                                                              *)

Sound(t, v) == \A n \in Nat : \A p \in L(t, v, n) : WellTyped(p[1], p[2])

(* Nothing is n deep inside v. *)
Shallow(n, t, v) == L(t, v, n) = {}

Holds(t, v, p) == \E n \in Nat : p \in L(t, v, n)

LEMMA SoundIs ==
    ASSUME NEW t, NEW v
    PROVE  Sound(t, v) <=> /\ WellTyped(t, v)
                           /\ \A p \in Inside(t, v) : Sound(p[1], p[2])
  <1>1. L(t, v, 0) = {<<t, v>>} /\ <<t, v>>[1] = t /\ <<t, v>>[2] = v
    BY LevelIs
  <1>2. \A n \in Nat : \A q : q \in L(t, v, n + 1) <=> \E p \in Inside(t, v) : q \in L(p[1], p[2], n)
    BY LevelInside
  <1>3. \A n \in Nat : n + 1 \in Nat /\ (n = 0 \/ n - 1 \in Nat) /\ (n - 1) + 1 = n
    OBVIOUS
  <1>4. ASSUME Sound(t, v)
        PROVE  WellTyped(t, v) /\ \A p \in Inside(t, v) : Sound(p[1], p[2])
    <2>1. <<t, v>> \in L(t, v, 0)
      BY <1>1
    <2>2. WellTyped(t, v)
      BY <1>1, <1>4, <2>1 DEF Sound
    <2>3. ASSUME NEW p \in Inside(t, v), NEW n \in Nat, NEW q \in L(p[1], p[2], n)
          PROVE  WellTyped(q[1], q[2])
      <3>1. q \in L(t, v, n + 1) /\ n + 1 \in Nat
        BY <1>2, <2>3
      <3> QED
        BY <1>4, <3>1 DEF Sound
    <2> QED
      BY <2>2, <2>3 DEF Sound
  <1>5. ASSUME WellTyped(t, v), \A p \in Inside(t, v) : Sound(p[1], p[2])
        PROVE  Sound(t, v)
    <2> SUFFICES ASSUME NEW n \in Nat, NEW q \in L(t, v, n)
                 PROVE  WellTyped(q[1], q[2])
      BY DEF Sound
    <2>1. CASE n = 0
      BY <1>1, <1>5, <2>1
    <2>2. CASE n # 0
      <3>1. n - 1 \in Nat /\ (n - 1) + 1 = n
        BY <2>2
      <3>2. PICK p \in Inside(t, v) : q \in L(p[1], p[2], n - 1)
        BY <1>2, <3>1
      <3> QED
        BY <1>5, <3>1, <3>2 DEF Sound
    <2> QED
      BY <2>1, <2>2
  <1> QED
    BY <1>4, <1>5

LEMMA HoldsIs ==
    ASSUME NEW t, NEW v, NEW q
    PROVE  Holds(t, v, q) <=> q = <<t, v>> \/ \E p \in Inside(t, v) : Holds(p[1], p[2], q)
  <1>1. L(t, v, 0) = {<<t, v>>}
    BY LevelIs
  <1>2. \A n \in Nat : q \in L(t, v, n + 1) <=> \E p \in Inside(t, v) : q \in L(p[1], p[2], n)
    BY LevelInside
  <1>4. ASSUME NEW n \in Nat, q \in L(t, v, n), q # <<t, v>>
        PROVE  \E p \in Inside(t, v) : Holds(p[1], p[2], q)
    <2>1. n - 1 \in Nat /\ (n - 1) + 1 = n
      BY <1>1, <1>4
    <2> QED
      BY <1>2, <1>4, <2>1 DEF Holds
  <1>5. ASSUME NEW p \in Inside(t, v), Holds(p[1], p[2], q)
        PROVE  Holds(t, v, q)
    <2>1. PICK n \in Nat : q \in L(p[1], p[2], n)
      BY <1>5 DEF Holds
    <2>2. n + 1 \in Nat /\ q \in L(t, v, n + 1)
      BY <1>2, <2>1
    <2> QED
      BY <2>2 DEF Holds
  <1> QED
    BY <1>1, <1>4, <1>5 DEF Holds

LEMMA ShallowIs ==
    ASSUME NEW t, NEW v
    PROVE  /\ ~Shallow(0, t, v)
           /\ \A n \in Nat : Shallow(n + 1, t, v) <=>
                  \A p \in Inside(t, v) : Shallow(n, p[1], p[2])
  <1>1. L(t, v, 0) = {<<t, v>>}
    BY LevelIs
  <1>2. \A n \in Nat : \A q : q \in L(t, v, n + 1) <=> \E p \in Inside(t, v) : q \in L(p[1], p[2], n)
    BY LevelInside
  <1> QED
    BY <1>1, <1>2 DEF Shallow

(* What nothing is n deep inside is known from what is at most n deep. *)
LEMMA DeepEnough ==
    ASSUME NEW t, NEW v, NEW n \in Nat, Shallow(n, t, v)
    PROVE  \A k \in Nat : k >= n => L(t, v, k) = {}
  <1> DEFINE T == {k \in Nat : k >= n /\ L(t, v, k) # {}}
  <1>1. ASSUME T # {}
        PROVE  FALSE
    <2>1. T \in SUBSET Nat
      OBVIOUS
    <2>2. PICK k \in T : \A m \in T : k <= m
      BY <1>1, <2>1, Smallest, Zenon
    <2>3. k # n
      BY DEF Shallow
    <2>4. k - 1 \in Nat /\ ~(k <= k - 1) /\ (k - 1) + 1 = k /\ k - 1 >= n
      BY <2>3
    <2>5. L(t, v, k - 1) = {}
      BY <2>2, <2>4
    <2>6. L(t, v, (k - 1) + 1) = UNION {Inside(p[1], p[2]) : p \in L(t, v, k - 1)}
      BY <2>4, LevelIs
    <2> QED
      BY <2>2, <2>4, <2>5, <2>6
  <1> QED
    BY <1>1

LEMMA TypedIs ==
    ASSUME NEW t, NEW v
    PROVE  /\ Nested(t, v) <=> Shallow(MaxNesting, t, v)
           /\ Sound(t, v) => Typed(t, v)
           /\ Nested(t, v) /\ Typed(t, v) => Sound(t, v)
           /\ Nested(t, v) => \A p : p \in Parts(t, v) <=> Holds(t, v, p)
  <1> USE NestingAssumption
  <1>1. \A p : p \in Parts(t, v) <=> \E k \in 0..MaxNesting : p \in L(t, v, k)
    BY AllIs DEF Parts
  <1>2. Nested(t, v) <=> Shallow(MaxNesting, t, v)
    BY DEF Nested, Shallow, L
  <1>3. \A k \in 0..MaxNesting : k \in Nat
    OBVIOUS
  <1>4. ASSUME Nested(t, v), NEW k \in Nat, NEW p \in L(t, v, k)
        PROVE  k \in 0..MaxNesting
    <2>1. k >= MaxNesting => L(t, v, k) = {}
      BY <1>2, <1>4, DeepEnough
    <2> QED
      BY <1>4, <2>1
  <1> QED
    BY <1>1, <1>2, <1>3, <1>4, Zenon DEF Sound, Typed, Holds

-----------------------------------------------------------------------------
(* DecodeParts.  Since the places of the parts are distinct, each is       *)
(* decoded as if it were the only one.                                     *)

After(n, parts, container, f) ==
    f = [k \in 0..n |-> IF k = 0 THEN Decoded(container) ELSE Continue(f[k - 1], parts[k])]

LEMMA AfterExists ==
    ASSUME NEW parts, NEW container
    PROVE  \A n \in Nat : \E f : After(n, parts, container, f)
  <1> DEFINE T == {n \in Nat : ~ \E f : After(n, parts, container, f)}
  <1>1. ASSUME T # {}
        PROVE  FALSE
    <2>1. T \in SUBSET Nat
      OBVIOUS
    <2>2. PICK n \in T : \A m \in T : n <= m
      BY <1>1, <2>1, Smallest, Zenon
    <2>3. CASE n = 0
      <3> DEFINE f == [k \in 0..0 |-> Decoded(container)]
      <3>1. f = [k \in 0..0 |-> IF k = 0 THEN Decoded(container) ELSE Continue(f[k - 1], parts[k])]
        OBVIOUS
      <3> QED
        BY <2>3, <3>1, Zenon DEF After
    <2>4. CASE n # 0
      <3>1. n - 1 \in Nat /\ ~(n <= n - 1)
        BY <2>4
      <3>2. PICK f : After(n - 1, parts, container, f)
        BY <2>2, <3>1
      <3>3. \A k \in 0..(n - 1) :
                f[k] = IF k = 0 THEN Decoded(container) ELSE Continue(f[k - 1], parts[k])
        BY <3>2, Zenon DEF After
      <3> DEFINE g == [k \in 0..n |-> IF k = n THEN Continue(f[n - 1], parts[n]) ELSE f[k]]
      <3>4. \A k \in 0..n :
                g[k] = IF k = 0 THEN Decoded(container) ELSE Continue(g[k - 1], parts[k])
        <4> SUFFICES ASSUME NEW k \in 0..n
                     PROVE  g[k] = IF k = 0 THEN Decoded(container) ELSE Continue(g[k - 1], parts[k])
          OBVIOUS
        <4>1. CASE k = n
          <5>1. g[k - 1] = f[n - 1]
            BY <2>4, <4>1
          <5> QED
            BY <2>4, <4>1, <5>1
        <4>2. CASE k = 0
          BY <2>4, <3>3, <4>2
        <4>3. CASE k # n /\ k # 0
          <5>1. k \in 0..(n - 1) /\ k - 1 \in 0..n /\ k - 1 # n
            BY <4>3
          <5>2. g[k - 1] = f[k - 1] /\ g[k] = f[k]
            BY <4>3, <5>1
          <5> HIDE DEF g
          <5> QED
            BY <3>3, <4>3, <5>1, <5>2
        <4> QED
          BY <4>1, <4>2, <4>3
      <3>5. g = [k \in 0..n |-> g[k]]
        OBVIOUS
      <3> HIDE DEF g
      <3>6. After(n, parts, container, g)
        BY <3>4, <3>5 DEF After
      <3> QED
        BY <3>6
    <2> QED
      BY <2>3, <2>4
  <1> QED
    BY <1>1

Attempt(container, p) == Decode(p.type, Get(p.got), Into(container, p))

(* r is what is left of container by parts, the first k of them at most. *)
Kept(k, parts, container, r) ==
    /\ r.out = [x \in DOMAIN r.out |-> r.out[x]]
    /\ DOMAIN container \subseteq DOMAIN r.out
    /\ \A x \in DOMAIN r.out :
          \/ x \in DOMAIN container /\ r.out[x] = container[x]
          \/ \E i \in 1..k : /\ x = parts[i].place
                             /\ IsOk(parts[i].got)
                             /\ r.out[x] = Attempt(container, parts[i]).out
                             /\ parts[i].optional => Attempt(container, parts[i]).ok

Accepts(container, p) ==
    IF IsOk(p.got) THEN Attempt(container, p).ok ELSE p.optional

AllAccepted(k, parts, container, r) ==
    \A i \in 1..k :
        /\ Accepts(container, parts[i])
        /\ IsOk(parts[i].got) => /\ parts[i].place \in DOMAIN r.out
                                 /\ r.out[parts[i].place] = Attempt(container, parts[i]).out

Apart(parts) == \A i, k \in 1..Len(parts) : parts[i].place = parts[k].place => i = k

LEMMA OnePart ==
    ASSUME NEW parts, NEW container, Len(parts) \in Nat, Apart(parts),
           NEW k \in 1..Len(parts), NEW r, r.ok,
           Kept(k - 1, parts, container, r), AllAccepted(k - 1, parts, container, r)
    PROVE  LET d == DecodePart(r.out, parts[k])
           IN  /\ Kept(k, parts, container, d)
               /\ d.ok <=> Accepts(container, parts[k])
               /\ d.ok => AllAccepted(k, parts, container, d)
  <1> DEFINE p == parts[k]
             d == DecodePart(r.out, p)
  <1>1. \A i \in 1..(k - 1) : i \in 1..k /\ i \in 1..Len(parts) /\ parts[i].place # p.place
    BY DEF Apart
  <1>2. /\ p.place \in DOMAIN r.out <=> p.place \in DOMAIN container
        /\ p.place \in DOMAIN container => r.out[p.place] = container[p.place]
    BY <1>1 DEF Kept
  <1>3. Decode(p.type, Get(p.got), Into(r.out, p)) = Attempt(container, p)
    BY <1>2 DEF Into, Attempt
  <1> HIDE DEF p
  <1>4. CASE ~IsOk(p.got)
    <2>1. d.ok = p.optional /\ d.out = r.out
      BY <1>4 DEF DecodePart
    <2>2. Accepts(container, p) = p.optional
      BY <1>4 DEF Accepts
    <2> HIDE DEF d
    <2>3. Kept(k, parts, container, d)
      BY <1>1, <2>1 DEF Kept
    <2>4. ASSUME d.ok
          PROVE  AllAccepted(k, parts, container, d)
      <3> SUFFICES ASSUME NEW i \in 1..k
                   PROVE  /\ Accepts(container, parts[i])
                          /\ IsOk(parts[i].got) =>
                                 /\ parts[i].place \in DOMAIN d.out
                                 /\ d.out[parts[i].place] = Attempt(container, parts[i]).out
        BY DEF AllAccepted
      <3>1. CASE i = k
        BY <1>4, <2>1, <2>2, <2>4, <3>1 DEF p
      <3>2. CASE i # k
        <4>1. i \in 1..(k - 1)
          BY <3>2
        <4> QED
          BY <2>1, <4>1 DEF AllAccepted
      <3> QED
        BY <3>1, <3>2
    <2> QED
      BY <2>1, <2>2, <2>3, <2>4 DEF d, p
  <1>5. CASE IsOk(p.got)
    <2> DEFINE a == Attempt(container, p)
               c == r.out
    <2>1. d = [ok |-> a.ok, out |-> IF p.optional /\ ~a.ok THEN c ELSE Put(c, p.place, a.out)]
      BY <1>3, <1>5 DEF DecodePart
    <2>2. d.ok = a.ok /\ d.out = IF p.optional /\ ~a.ok THEN c ELSE Put(c, p.place, a.out)
      BY <2>1
    <2>3. c = [x \in DOMAIN c |-> c[x]]
      BY DEF Kept
    <2> HIDE DEF d, a
    <2>4. Accepts(container, p) = a.ok
      BY <1>5 DEF Accepts, a
    <2>5. CASE p.optional /\ ~a.ok
      <3>1. d.out = r.out
        BY <2>2, <2>5
      <3>2. Kept(k, parts, container, d)
        BY <1>1, <3>1 DEF Kept
      <3> QED
        BY <2>2, <2>4, <2>5, <3>2 DEF d, p
    <2>6. CASE ~(p.optional /\ ~a.ok)
      <3> HIDE DEF c
      <3>1. /\ d.out = [y \in DOMAIN d.out |-> d.out[y]]
            /\ DOMAIN d.out = DOMAIN c \cup {p.place}
            /\ d.out[p.place] = a.out
            /\ \A y \in DOMAIN c : y # p.place => d.out[y] = c[y]
        <4>1. d.out = Put(c, p.place, a.out)
          BY <2>2, <2>6
        <4> HIDE DEF p
        <4> DEFINE o == Put(c, p.place, a.out)
        <4>2. /\ o = [y \in DOMAIN o |-> o[y]]
              /\ DOMAIN o = DOMAIN c \cup {p.place}
              /\ o[p.place] = a.out
              /\ \A y \in DOMAIN c : y # p.place => o[y] = c[y]
          BY DEF Put
        <4> HIDE DEF o
        <4>3. d.out = o
          BY <4>1 DEF o
        <4> QED
          BY <4>2, <4>3
      <3>2. Kept(k, parts, container, d)
        <4>1. ASSUME NEW x \in DOMAIN d.out
              PROVE  \/ x \in DOMAIN container /\ d.out[x] = container[x]
                     \/ \E i \in 1..k : /\ x = parts[i].place
                                        /\ IsOk(parts[i].got)
                                        /\ d.out[x] = Attempt(container, parts[i]).out
                                        /\ parts[i].optional => Attempt(container, parts[i]).ok
          <5>1. CASE x = p.place
            <6>1. k \in 1..k
              OBVIOUS
            <6> QED
              BY <1>5, <2>6, <3>1, <5>1, <6>1 DEF a, p
          <5>2. CASE x # p.place
            <6>1. x \in DOMAIN c /\ d.out[x] = c[x]
              BY <3>1, <5>2
            <6> QED
              BY <1>1, <6>1 DEF Kept, c
          <5> QED
            BY <5>1, <5>2
        <4>2. DOMAIN container \subseteq DOMAIN d.out
          BY <3>1 DEF Kept, c
        <4> QED
          BY <3>1, <4>1, <4>2 DEF Kept
      <3>3. ASSUME d.ok
            PROVE  AllAccepted(k, parts, container, d)
        <4> SUFFICES ASSUME NEW i \in 1..k
                     PROVE  /\ Accepts(container, parts[i])
                            /\ IsOk(parts[i].got) =>
                                   /\ parts[i].place \in DOMAIN d.out
                                   /\ d.out[parts[i].place] = Attempt(container, parts[i]).out
          BY DEF AllAccepted
        <4>1. CASE i = k
          BY <2>2, <2>4, <3>1, <3>3, <4>1 DEF a, p
        <4>2. CASE i # k
          <5>1. i \in 1..(k - 1)
            BY <4>2
          <5>2. parts[i].place # p.place
            BY <1>1, <5>1
          <5>3. /\ Accepts(container, parts[i])
                /\ IsOk(parts[i].got) => /\ parts[i].place \in DOMAIN c
                                         /\ c[parts[i].place] = Attempt(container, parts[i]).out
            BY <5>1 DEF AllAccepted, c
          <5> QED
            BY <3>1, <5>2, <5>3
        <4> QED
          BY <4>1, <4>2
      <3> QED
        BY <2>2, <2>4, <3>2, <3>3 DEF d, p
    <2> QED
      BY <2>5, <2>6
  <1> QED
    BY <1>4, <1>5

(* What is known of decoding parts apart from each other *)
Assembles(parts, container, r) ==
    /\ Kept(Len(parts), parts, container, r)
    /\ r.ok <=> \A i \in 1..Len(parts) : Accepts(container, parts[i])
    /\ r.ok => AllAccepted(Len(parts), parts, container, r)

LEMMA PartsAssemble ==
    ASSUME NEW parts, NEW container, Len(parts) \in Nat, Apart(parts),
           container = [x \in DOMAIN container |-> container[x]]
    PROVE  Assembles(parts, container, DecodeParts(parts, container))
  <1> DEFINE N == Len(parts)
             Is(h) == After(N, parts, container, h)
             f == CHOOSE h : Is(h)
  <1>1. DecodeParts(parts, container) = f[N]
    BY DEF DecodeParts, After
  <1>2. Is(f)
    <2>1. \E h : Is(h)
      BY AfterExists
    <2> HIDE DEF Is
    <2> QED
      BY <2>1, Zenon
  <1> HIDE DEF f
  <1>3. \A k \in 0..N :
            f[k] = IF k = 0 THEN Decoded(container) ELSE Continue(f[k - 1], parts[k])
    BY <1>2, Zenon DEF After
  <1> HIDE DEF Is
  <1> DEFINE Good(k) ==
                 /\ Kept(k, parts, container, f[k])
                 /\ f[k].ok <=> \A i \in 1..k : Accepts(container, parts[i])
                 /\ f[k].ok => AllAccepted(k, parts, container, f[k])
             T == {k \in 0..N : ~Good(k)}
  <1>4. Good(0)
    <2>1. f[0] = Decoded(container)
      BY <1>3
    <2>2. f[0].ok /\ f[0].out = container
      BY <2>1 DEF Decoded
    <2> QED
      BY <2>2 DEF Kept, AllAccepted
  <1>5. ASSUME NEW k \in 1..N, Good(k - 1)
        PROVE  Good(k)
    <2>1. k \in 0..N /\ k - 1 \in 0..N /\ k # 0
      OBVIOUS
    <2>2. f[k] = Continue(f[k - 1], parts[k])
      BY <1>3, <2>1
    <2> DEFINE r == f[k - 1]
    <2>3. /\ Kept(k - 1, parts, container, r)
          /\ r.ok <=> \A i \in 1..(k - 1) : Accepts(container, parts[i])
          /\ r.ok => AllAccepted(k - 1, parts, container, r)
      BY <1>5
    <2>4. \A i : i \in 1..k <=> i \in 1..(k - 1) \/ i = k
      OBVIOUS
    <2>5. CASE r.ok
      <3> DEFINE d == DecodePart(r.out, parts[k])
      <3>1. f[k] = d
        BY <2>2, <2>5 DEF Continue
      <3>2. /\ Kept(k, parts, container, d)
            /\ d.ok <=> Accepts(container, parts[k])
            /\ d.ok => AllAccepted(k, parts, container, d)
        <4> HIDE DEF r
        <4> QED
          BY <2>3, <2>5, OnePart
      <3> HIDE DEF d, r
      <3> QED
        BY <2>3, <2>4, <2>5, <3>1, <3>2
    <2>6. CASE ~r.ok
      <3>1. f[k] = r
        BY <2>2, <2>6 DEF Continue
      <3> HIDE DEF r
      <3>2. Kept(k, parts, container, r)
        BY <2>3, <2>4 DEF Kept
      <3> QED
        BY <2>3, <2>4, <2>6, <3>1, <3>2
    <2> QED
      BY <2>5, <2>6
  <1> HIDE DEF Good
  <1>6. ASSUME T # {}
        PROVE  FALSE
    <2>1. T \in SUBSET Nat
      OBVIOUS
    <2>2. PICK k \in T : \A m \in T : k <= m
      BY <1>6, <2>1, Smallest, Zenon
    <2>3. k \in 1..N /\ k - 1 \in 0..N /\ ~(k <= k - 1)
      BY <1>4, <2>2
    <2> QED
      BY <1>5, <2>2, <2>3
  <1>7. Good(N)
    BY <1>6
  <1> QED
    BY <1>1, <1>7 DEF Good, Assembles

-----------------------------------------------------------------------------
(* The types and their ranks *)

LEMMA SequenceIs ==
    ASSUME NEW s, IsSequence(s)
    PROVE  Len(s) \in Nat /\ DOMAIN s = 1..Len(s)
  <1> DEFINE n == Len(s)
  <1>1. n \in Nat /\ s = [i \in 1..n |-> s[i]]
    BY DEF IsSequence
  <1> HIDE DEF n
  <1>2. DOMAIN s = 1..n
    BY <1>1, Zenon
  <1> QED
    BY <1>1, <1>2 DEF n

LEMMA MakeSequence ==
    ASSUME NEW s, NEW n \in Nat, s = [i \in DOMAIN s |-> s[i]], DOMAIN s = 1..n
    PROVE  IsSequence(s) /\ Len(s) = n
  <1>1. s = [i \in 1..n |-> s[i]]
    BY Zenon
  <1>2. Len(s) = n
    BY <1>1
  <1> QED
    BY <1>1, <1>2 DEF IsSequence

LEMMA TypeIs ==
    ASSUME NEW t \in AllTypes
    PROVE  /\ t[1] \in {"null", "boolean", "integer", "uinteger", "decimal", "string", "vector",
                        "map", "tuple", "oneof", "enum", "struct", "ref"}
           /\ t[1] \in {"vector", "map"} => t[2] \in AllTypes
           /\ t[1] \in {"tuple", "oneof"} =>
                 /\ IsSequence(t[2])
                 /\ \A i \in DOMAIN t[2] : t[2][i] \in AllTypes /\ Rank(t[2][i]) < Rank(t)
           /\ t[1] = "enum" =>
                 /\ t[2] \in AllTypes /\ t[2] \in {Integer, Uinteger, String} /\ Rank(t[2]) < Rank(t)
                 /\ IsSequence(t[3]) /\ 1 \in DOMAIN t[3]
                 /\ \A i \in DOMAIN t[3] : WellTyped(t[2], t[3][i])
           /\ t[1] = "struct" => StructOf(t[2])
           /\ t[1] = "ref" => Resolve(t[2]) \in AllTypes /\ Rank(Resolve(t[2])) < Rank(t)
  <1>1. IsType(t)
    BY TypesAssumption
  <1>2. \A u \in Needs(t) : Rank(u) < Rank(t)
    BY RankAssumption
  <1>3. t[1] \in {"tuple", "oneof"} => Needs(t) = {t[2][i] : i \in DOMAIN t[2]}
    BY DEF Needs
  <1>4. t[1] = "ref" => Needs(t) = {Resolve(t[2])}
    BY DEF Needs
  <1>5. t[1] = "enum" => Needs(t) = {t[2]}
    BY DEF Needs
  <1> QED
    BY <1>1, <1>2, <1>3, <1>4, <1>5 DEF IsType

LEMMA PropsAre ==
    ASSUME NEW t \in AllTypes, t[1] = "struct", NEW s, s = t[2]
    PROVE  /\ IsSequence(s.props) /\ s.kind \in STRING
           /\ \A i \in DOMAIN s.props :
                 /\ s.props[i].name \in Names(s) /\ s.props[i].type \in AllTypes
                 /\ Property(s, s.props[i].name) = s.props[i]
                 /\ \A k \in DOMAIN s.props : s.props[i].name = s.props[k].name => i = k
  <1>1. StructOf(s)
    BY TypeIs
  <1>2. ASSUME NEW i \in DOMAIN s.props
        PROVE  Property(s, s.props[i].name) = s.props[i]
    <2> DEFINE P == {s.props[k] : k \in DOMAIN s.props}
    <2>1. s.props[i] \in P /\ \A p \in P : p.name = s.props[i].name => p = s.props[i]
      BY <1>1 DEF StructOf
    <2> HIDE DEF P
    <2>2. (CHOOSE p \in P : p.name = s.props[i].name) = s.props[i]
      BY <2>1
    <2> QED
      BY <2>2 DEF Property, P
  <1>3. \A i \in DOMAIN s.props : s.props[i].name \in Names(s)
    BY DEF Names
  <1> QED
    BY <1>1, <1>2, <1>3 DEF StructOf

LEMMA NamesAre ==
    ASSUME NEW t \in AllTypes, t[1] = "struct", NEW s, s = t[2]
    PROVE  /\ \A n \in Names(s) :
                 \E i \in DOMAIN s.props : n = s.props[i].name /\ Property(s, n) = s.props[i]
           /\ \A n \in Names(s) : /\ Property(s, n).type \in AllTypes
                                  /\ n \in Required(s) <=> ~Property(s, n).optional
           /\ \A n \in Required(s) : Rank(Property(s, n).type) < Rank(t)
           /\ Required(s) \subseteq Names(s) /\ Names(s) \subseteq STRING /\ IsFiniteSet(Names(s))
  <1>1. StructOf(s)
    BY TypeIs
  <1>2. \A i \in DOMAIN s.props : /\ Property(s, s.props[i].name) = s.props[i]
                                 /\ s.props[i].type \in AllTypes
    BY PropsAre
  <1>3. \A n \in Names(s) :
            \E i \in DOMAIN s.props : n = s.props[i].name /\ Property(s, n) = s.props[i]
    BY <1>2 DEF Names
  <1>4. \A n \in Names(s) : Property(s, n).type \in AllTypes
    BY <1>2, <1>3
  <1>5. \A n \in Names(s) : n \in Required(s) <=> ~Property(s, n).optional
    <2>1. \A i, k \in DOMAIN s.props : s.props[i].name = s.props[k].name => i = k
      BY <1>1 DEF StructOf
    <2> QED
      BY <1>3, <2>1 DEF Required
  <1>6. Required(s) \subseteq Names(s) /\ Names(s) \subseteq STRING
    BY <1>1 DEF Required, Names, StructOf
  <1>7. IsFiniteSet(Names(s))
    <2>1. IsSequence(s.props)
      BY <1>1 DEF StructOf
    <2>2. DOMAIN s.props = 1..Len(s.props) /\ Len(s.props) \in Nat
      BY <2>1, SequenceIs
    <2>3. IsFiniteSet(DOMAIN s.props)
      <3>1. Len(s.props) \in Int /\ 1 \in Int
        BY <2>2
      <3>2. IsFiniteSet(1..Len(s.props))
        BY <3>1, FS_Interval, Zenon
      <3> QED
        BY <2>2, <3>2, Zenon
    <2> DEFINE D == DOMAIN s.props
               f == [i \in D |-> s.props[i].name]
    <2>4. f \in Surjection(D, Names(s))
      BY DEF Surjection, Names
    <2> QED
      BY <2>3, <2>4, FS_Surjection
  <1>8. \A n \in Required(s) : Rank(Property(s, n).type) < Rank(t)
    BY RankAssumption DEF Needs
  <1> QED
    BY <1>3, <1>4, <1>5, <1>6, <1>7, <1>8

LEMMA BasesAre ==
    ASSUME NEW t \in AllTypes, t[1] = "struct", NEW s, s = t[2]
    PROVE  /\ IsSequence(s.bases)
           /\ \A i \in DOMAIN s.bases :
                 /\ Ref(s.bases[i]) \in AllTypes /\ Rank(Ref(s.bases[i])) < Rank(t)
                 /\ Resolve(s.bases[i])[1] = "struct"
  <1>1. StructOf(s)
    BY TypeIs
  <1>2. \A i \in DOMAIN s.bases : Rank(Ref(s.bases[i])) < Rank(t)
    BY RankAssumption DEF Needs
  <1> QED
    BY <1>1, <1>2 DEF StructOf

LEMMA FormIs ==
    ASSUME Overloads, NEW t \in AllTypes, NEW j, NEW out, NEW v
    PROVE  /\ Default(t) = Initial(t)
           /\ Decode(t, j, out) = DecodeOverload(t, j, out)
           /\ Encode(t, v) = EncodeOverload(t, v)
  BY DEF Overloads

LEMMA WellTypedIs ==
    ASSUME NEW t, NEW v
    PROVE  /\ t[1] = "null" => (WellTyped(t, v) <=> v = "null")
           /\ t[1] = "boolean" => (WellTyped(t, v) <=> v \in BOOLEAN)
           /\ t[1] = "integer" => (WellTyped(t, v) <=> v \in -MaxI64 - 1 .. MaxI64)
           /\ t[1] = "uinteger" => (WellTyped(t, v) <=> v \in 0..MaxU64)
           /\ t[1] = "decimal" => (WellTyped(t, v) <=> v \in Int)
           /\ t[1] = "string" => (WellTyped(t, v) <=> v \in STRING)
           /\ t[1] = "vector" => (WellTyped(t, v) <=> IsSequence(v))
           /\ t[1] = "map" => (WellTyped(t, v) <=> IsMap(v))
           /\ t[1] = "tuple" => (WellTyped(t, v) <=> IsSequence(v) /\ Len(v) = Len(t[2]))
           /\ t[1] = "oneof" =>
                 (WellTyped(t, v) <=> v = <<>> \/ (v[1] \in DOMAIN t[2] /\ v = <<v[1], v[2]>>))
           /\ t[1] = "enum" => (WellTyped(t, v) <=> v \in DOMAIN t[3])
           /\ t[1] = "struct" =>
                 (WellTyped(t, v) <=>
                    /\ v = [own |-> v.own, bases |-> v.bases]
                    /\ IsMap(v.own) /\ Required(t[2]) \subseteq DOMAIN v.own
                    /\ DOMAIN v.own \subseteq Names(t[2])
                    /\ IsSequence(v.bases) /\ Len(v.bases) = Len(t[2].bases))
           /\ t[1] = "ref" => WellTyped(t, v)
           /\ t[1] = "json" => (WellTyped(t, v) <=> IsJson(v))
  BY DEF WellTyped

(* By rank: numbers of pairs have a least one, the first number first. *)
LEMMA LeastPair ==
    ASSUME NEW Bad \in SUBSET (Nat \X Nat), Bad # {}
    PROVE  \E m \in Bad : \A k \in Bad : m[1] <= k[1] /\ (m[1] = k[1] => m[2] <= k[2])
  <1> DEFINE A == {p[1] : p \in Bad}
  <1>1. A \in SUBSET Nat /\ A # {}
    OBVIOUS
  <1>2. PICK a \in A : \A x \in A : a <= x
    BY <1>1, Smallest, Zenon
  <1> DEFINE B == {p[2] : p \in {q \in Bad : q[1] = a}}
  <1>3. B \in SUBSET Nat /\ B # {}
    OBVIOUS
  <1>4. PICK b \in B : \A x \in B : b <= x
    BY <1>3, Smallest, Zenon
  <1>5. PICK m \in Bad : m[1] = a /\ m[2] = b
    OBVIOUS
  <1>6. \A k \in Bad : k[1] \in A /\ (k[1] = a => k[2] \in B)
    OBVIOUS
  <1> QED
    BY <1>2, <1>4, <1>5, <1>6

-----------------------------------------------------------------------------
(* What C++ values are default constructed to *)

LEMMA EmptyIs ==
    /\ IsSequence(<<>>) /\ IsMap(<<>>) /\ DOMAIN <<>> = {}
  <1>1. DOMAIN <<>> = {} /\ Len(<<>>) = 0
    OBVIOUS
  <1>2. IsSequence(<<>>)
    BY <1>1 DEF IsSequence
  <1>3. <<>> = [n \in {} |-> <<>>[n]]
    OBVIOUS
  <1>4. IsFiniteSet({})
    BY FS_EmptySet
  <1> QED
    BY <1>1, <1>2, <1>3, <1>4 DEF IsMap

LEMMA InitialIs ==
    ASSUME NEW t
    PROVE  /\ t[1] = "null" => Initial(t) = "null"
           /\ t[1] = "boolean" => Initial(t) = FALSE
           /\ t[1] \in {"integer", "uinteger", "decimal"} => Initial(t) = 0
           /\ t[1] = "string" => Initial(t) = ""
           /\ t[1] = "enum" => Initial(t) = 1
  BY DEF Initial

LEMMA DefaultStep ==
    ASSUME Overloads, NEW t \in AllTypes,
           \A u \in AllTypes : Rank(u) < Rank(t) => Sound(u, Default(u))
    PROVE  Sound(t, Default(t))
  <1> DEFINE d == Default(t)
  <1>1. d = Initial(t)
    BY FormIs
  <1> HIDE DEF d
  <1> SUFFICES WellTyped(t, d) /\ \A p \in Inside(t, d) : Sound(p[1], p[2])
    BY SoundIs DEF d
  <1>2. CASE t[1] \in {"null", "boolean", "integer", "uinteger", "decimal", "string", "enum"}
    <2>1. Inside(t, d) = {}
      BY <1>2, InsideIs
    <2>2. 0 \in -MaxI64 - 1 .. MaxI64 /\ 0 \in 0..MaxU64
      BY DEF MaxI64, MaxU64
    <2>3. WellTyped(t, d)
      <3>1. CASE t[1] = "null"
        <4>1. d = "null"
          BY <1>1, <3>1, InitialIs
        <4> QED
          BY <3>1, <4>1, Zenon DEF WellTyped
      <3>2. CASE t[1] = "boolean"
        <4>1. d = FALSE
          BY <1>1, <3>2, InitialIs
        <4> QED
          BY <3>2, <4>1, Zenon DEF WellTyped
      <3>3. CASE t[1] \in {"integer", "uinteger", "decimal"}
        <4>1. d = 0
          BY <1>1, <3>3, InitialIs
        <4> QED
          <5>1. CASE t[1] = "integer"
            BY <2>2, <4>1, <5>1 DEF WellTyped
          <5>2. CASE t[1] = "uinteger"
            BY <2>2, <4>1, <5>2 DEF WellTyped
          <5>3. CASE t[1] = "decimal"
            BY <4>1, <5>3 DEF WellTyped
          <5> QED
            BY <3>3, <5>1, <5>2, <5>3
      <3>4. CASE t[1] = "string"
        <4>1. d = ""
          BY <1>1, <3>4, InitialIs
        <4> QED
          BY <3>4, <4>1, StringsAssumption DEF WellTyped
      <3>5. CASE t[1] = "enum"
        <4>1. d = 1
          BY <1>1, <3>5, InitialIs
        <4>2. 1 \in DOMAIN t[3]
          BY <3>5, TypeIs
        <4> QED
          BY <3>5, <4>1, <4>2 DEF WellTyped
      <3> QED
        BY <1>2, <3>1, <3>2, <3>3, <3>4, <3>5
    <2> QED
      BY <2>1, <2>3
  <1>3. CASE t[1] \in {"vector", "map", "oneof"}
    <2>1. d = <<>>
      BY <1>1, <1>3 DEF Initial
    <2> QED
      BY <1>3, <2>1, EmptyIs, InsideIs, WellTypedIs
  <1>4. CASE t[1] = "tuple"
    <2> DEFINE n == Len(t[2])
    <2>1. n \in Nat /\ DOMAIN t[2] = 1..n
      BY <1>4, TypeIs, SequenceIs
    <2>2. d = [i \in 1..n |-> Default(t[2][i])]
      BY <1>1, <1>4, <2>1 DEF Initial
    <2>3. IsSequence(d) /\ Len(d) = n
      BY <2>1, <2>2, MakeSequence
    <2>4. \A i \in 1..n : Sound(t[2][i], d[i])
      BY <1>4, <2>1, <2>2, TypeIs
    <2>5. WellTyped(t, d)
      BY <1>4, <2>3, WellTypedIs
    <2>6. \A p \in Inside(t, d) : \E i \in 1..n : p = <<t[2][i], d[i]>>
      BY <1>4, <2>1, InsideIs
    <2> HIDE DEF n
    <2> QED
      BY <2>4, <2>5, <2>6
  <1>5. CASE t[1] = "struct"
    <2> DEFINE s == t[2]
               own == [n \in Required(s) |-> Default(Property(s, n).type)]
               bases == [i \in DOMAIN s.bases |-> Default(Ref(s.bases[i]))]
    <2>1. d = [own |-> own, bases |-> bases]
      BY <1>1, <1>5 DEF Initial
    <2>2. d.own = own /\ d.bases = bases
      BY <2>1
    <2>3. /\ IsSequence(s.bases) /\ Required(s) \subseteq Names(s) /\ Names(s) \subseteq STRING
          /\ IsFiniteSet(Names(s))
          /\ \A n \in Names(s) : Property(s, n).type \in AllTypes
          /\ \A n \in Required(s) : Rank(Property(s, n).type) < Rank(t)
          /\ \A i \in DOMAIN s.bases : Ref(s.bases[i]) \in AllTypes /\ Rank(Ref(s.bases[i])) < Rank(t)
      BY <1>5, NamesAre, BasesAre
    <2>4. IsFiniteSet(Required(s))
      BY <2>3, FS_Subset
    <2>5. IsMap(own)
      <3>1. DOMAIN own = Required(s) /\ own = [n \in DOMAIN own |-> own[n]]
        OBVIOUS
      <3> HIDE DEF own
      <3> QED
        BY <2>3, <2>4, <3>1 DEF IsMap
    <2>6. IsSequence(bases) /\ Len(bases) = Len(s.bases)
      BY <2>3, SequenceIs, MakeSequence
    <2>7. WellTyped(t, d)
      BY <1>5, <2>1, <2>2, <2>3, <2>5, <2>6, WellTypedIs
    <2>8. \A n \in Names(s) \cap DOMAIN d.own : Sound(Property(s, n).type, d.own[n])
      BY <2>2, <2>3
    <2>9. \A i \in DOMAIN s.bases : Sound(Ref(s.bases[i]), d.bases[i])
      BY <2>2, <2>3
    <2>10. Inside(t, d) = {<<Property(t[2], n).type, d.own[n]>> : n \in Names(t[2]) \cap DOMAIN d.own}
                 \cup {<<Ref(t[2].bases[i]), d.bases[i]>> : i \in DOMAIN t[2].bases}
      BY <1>5, InsideIs
    <2>11. ASSUME NEW p \in Inside(t, d)
           PROVE  Sound(p[1], p[2])
      <3>1. CASE \E n \in Names(s) \cap DOMAIN d.own : p = <<Property(s, n).type, d.own[n]>>
        BY <2>8, <3>1
      <3>2. CASE \E i \in DOMAIN s.bases : p = <<Ref(s.bases[i]), d.bases[i]>>
        BY <2>9, <3>2
      <3> QED
        BY <2>10, <3>1, <3>2
    <2> QED
      BY <2>7, <2>11
  <1>6. CASE t[1] = "ref"
    <2>1. d = Default(Resolve(t[2]))
      BY <1>1, <1>6 DEF Initial
    <2>2. Sound(Resolve(t[2]), d)
      BY <1>6, <2>1, TypeIs
    <2> QED
      BY <1>6, <2>2, InsideIs, WellTypedIs
  <1> QED
    BY <1>2, <1>3, <1>4, <1>5, <1>6, TypeIs

LEMMA DefaultSound ==
    ASSUME Overloads
    PROVE  \A t \in AllTypes : Sound(t, Default(t))
  <1> DEFINE T == {Rank(t) : t \in {u \in AllTypes : ~Sound(u, Default(u))}}
  <1>1. ASSUME T # {}
        PROVE  FALSE
    <2>1. T \in SUBSET Nat
      BY RankAssumption
    <2>2. PICK r \in T : \A m \in T : r <= m
      BY <1>1, <2>1, Smallest, Zenon
    <2>3. PICK t \in AllTypes : r = Rank(t) /\ ~Sound(t, Default(t))
      BY <2>2
    <2>4. \A u \in AllTypes : Rank(u) < Rank(t) => Sound(u, Default(u))
      BY <2>2, <2>3, RankAssumption
    <2> QED
      BY <2>3, <2>4, DefaultStep
  <1> QED
    BY <1>1

-----------------------------------------------------------------------------
(* JSON values *)

GoodJson(n, j) == Shallow(n, Json, j) /\ Sound(Json, j)

LEMMA GoodJsonIs ==
    ASSUME NEW n \in Nat, NEW j
    PROVE  GoodJson(n, j) <=>
              /\ n # 0 /\ IsJson(j)
              /\ Container(j) => \A i \in DOMAIN j[2] : GoodJson(n - 1, j[2][i])
  <1>1. Inside(Json, j) = IF Container(j) THEN {<<Json, j[2][i]>> : i \in DOMAIN j[2]} ELSE {}
    BY DEF Inside, Json
  <1>2. WellTyped(Json, j) <=> IsJson(j)
    BY DEF WellTyped, Json
  <1>3. Sound(Json, j) <=> IsJson(j) /\ \A p \in Inside(Json, j) : Sound(p[1], p[2])
    BY <1>2, SoundIs
  <1>4. CASE n = 0
    BY <1>4, ShallowIs DEF GoodJson
  <1>5. CASE n # 0
    <2>1. n - 1 \in Nat /\ (n - 1) + 1 = n
      BY <1>5
    <2>2. Shallow(n, Json, j) <=> \A p \in Inside(Json, j) : Shallow(n - 1, p[1], p[2])
      BY <2>1, ShallowIs
    <2>3. CASE Container(j)
      <3>1. \A p : p \in Inside(Json, j) <=> \E i \in DOMAIN j[2] : p = <<Json, j[2][i]>>
        BY <1>1, <2>3
      <3>0. /\ \A i \in DOMAIN j[2] :
                   \E p \in Inside(Json, j) : p[1] = Json /\ p[2] = j[2][i]
            /\ \A p \in Inside(Json, j) :
                   \E i \in DOMAIN j[2] : p[1] = Json /\ p[2] = j[2][i]
        <4>1. ASSUME NEW i \in DOMAIN j[2]
              PROVE  \E p \in Inside(Json, j) : p[1] = Json /\ p[2] = j[2][i]
          <5>1. <<Json, j[2][i]>> \in Inside(Json, j)
            BY <3>1, Zenon
          <5> QED
            BY <5>1
        <4>2. ASSUME NEW p \in Inside(Json, j)
              PROVE  \E i \in DOMAIN j[2] : p[1] = Json /\ p[2] = j[2][i]
          <5>1. PICK i \in DOMAIN j[2] : p = <<Json, j[2][i]>>
            BY <3>1, Zenon
          <5> QED
            BY <5>1
        <4> QED
          BY <4>1, <4>2
      <3>2. Sound(Json, j) <=> IsJson(j) /\ \A i \in DOMAIN j[2] : Sound(Json, j[2][i])
        BY <1>3, <3>0
      <3>3. Shallow(n, Json, j) <=> \A i \in DOMAIN j[2] : Shallow(n - 1, Json, j[2][i])
        BY <2>2, <3>0
      <3> QED
        BY <1>5, <2>3, <3>2, <3>3, Zenon DEF GoodJson
    <2>4. CASE ~Container(j)
      BY <1>1, <1>3, <1>5, <2>2, <2>4 DEF GoodJson
    <2> QED
      BY <2>3, <2>4
  <1> QED
    BY <1>4, <1>5

LEMMA JsonIs ==
    ASSUME NEW j, IsJson(j)
    PROVE  /\ Kind(j) \in {"null", "bool", "int", "uint", "real", "string", "array", "object"}
           /\ Kind(j) = "bool" => j[2] \in BOOLEAN
           /\ Kind(j) = "int" => j[2] \in -MaxI64 - 1 .. MaxI64
           /\ Kind(j) = "uint" => j[2] \in 0..MaxU64
           /\ Kind(j) = "real" => j[2] \in Int
           /\ Kind(j) = "string" => j[2] \in STRING
           /\ Kind(j) = "array" => /\ Container(j) /\ IsSequence(j[2]) /\ Count(j) = Len(j[2])
                                   /\ Count(j) \in Nat /\ DOMAIN j[2] = 1..Count(j)
           /\ Kind(j) = "object" => /\ Container(j) /\ IsMap(j[2])
                                    /\ \A n : Has(j, n) <=> n \in DOMAIN j[2]
                                    /\ \A n \in DOMAIN j[2] : Member(j, n) = Ok(j[2][n])
  <1>1. /\ Kind(j) \in {"null", "bool", "int", "uint", "real", "string", "array", "object"}
        /\ Kind(j) = "bool" => j[2] \in BOOLEAN
        /\ Kind(j) = "int" => j[2] \in -MaxI64 - 1 .. MaxI64
        /\ Kind(j) = "uint" => j[2] \in 0..MaxU64
        /\ Kind(j) = "real" => j[2] \in Int
        /\ Kind(j) = "string" => j[2] \in STRING
        /\ Kind(j) = "array" => IsSequence(j[2])
        /\ Kind(j) = "object" => IsMap(j[2])
    BY DEF IsJson
  <1>2. Kind(j) = "array" => /\ Container(j) /\ Count(j) = Len(j[2])
                             /\ Count(j) \in Nat /\ DOMAIN j[2] = 1..Count(j)
    BY <1>1, SequenceIs DEF Container, Count
  <1>3. Kind(j) = "object" => /\ Container(j)
                              /\ \A n : Has(j, n) <=> n \in DOMAIN j[2]
                              /\ \A n \in DOMAIN j[2] : Member(j, n) = Ok(j[2][n])
    BY DEF Container, Has, Member
  <1> QED
    BY <1>1, <1>2, <1>3

LEMMA OkIs ==
    /\ \A x : IsOk(Ok(x)) /\ Get(Ok(x)) = x
    /\ ~IsOk(Fail)
  BY DEF Ok, Fail, IsOk, Get

(* The names of a map, in some order *)
LEMMA SetToSeqIs ==
    ASSUME NEW S, IsFiniteSet(S), NEW f, f = Seqs!SetToSeq(S)
    PROVE  /\ Len(f) \in Nat
           /\ \A i \in 1..Len(f) : f[i] \in S
           /\ \A i, k \in 1..Len(f) : f[i] = f[k] => i = k
           /\ \A x \in S : \E i \in 1..Len(f) : f[i] = x
  <1> DEFINE n == Cardinality(S)
             Is(g) == g \in [1..n -> S] /\ \A a, b \in DOMAIN g : g[a] = g[b] => a = b
  <1>1. n \in Nat /\ ExistsBijection(1..n, S)
    BY FS_CardinalityType
  <1>2. f = CHOOSE g \in [1..n -> S] : \A a, b \in DOMAIN g : g[a] = g[b] => a = b
    <2>1. Seqs!Cardinality(S) = n
      BY Zenon DEF Seqs!Cardinality, Cardinality
    <2> HIDE DEF n
    <2>2. f = CHOOSE g \in [1..n -> S] : Seqs!IsInjective(g)
      BY <2>1, Zenon DEF Seqs!SetToSeq
    <2> QED
      BY <2>2, Zenon DEF Seqs!IsInjective
  <1>3. \E g : Is(g)
    <2>1. PICK g : g \in Bijection(1..n, S)
      BY <1>1 DEF ExistsBijection
    <2>2. Is(g)
      BY <2>1 DEF Bijection, Injection, IsInjective
    <2> QED
      BY <2>2
  <1> HIDE DEF n
  <1>4. Is(f)
    BY <1>2, <1>3
  <1>5. Len(f) = n
    BY <1>1, <1>4
  <1>6. f \in Injection(1..n, S)
    BY <1>4 DEF Injection, IsInjective
  <1>7. IsFiniteSet(1..n) /\ Cardinality(1..n) = n
    BY <1>1, FS_Interval
  <1>8. Cardinality(1..n) = Cardinality(S)
    BY <1>7 DEF n
  <1>9. f \in Surjection(1..n, S)
    BY <1>6, <1>8, FS_Injection
  <1>10. \A x \in S : \E i \in 1..n : f[i] = x
    BY <1>9 DEF Surjection
  <1> QED
    BY <1>1, <1>4, <1>5, <1>10

-----------------------------------------------------------------------------
(* Soundness, type by type *)

LEMMA SoundPlain ==
    ASSUME NEW t, NEW v,
           t[1] \in {"null", "boolean", "integer", "uinteger", "decimal", "string", "enum"}
    PROVE  Sound(t, v) <=> WellTyped(t, v)
  <1>1. Inside(t, v) = {}
    BY InsideIs
  <1> QED
    BY <1>1, SoundIs

LEMMA SoundVector ==
    ASSUME NEW t, NEW v, t[1] = "vector"
    PROVE  Sound(t, v) <=> IsSequence(v) /\ \A i \in DOMAIN v : Sound(t[2], v[i])
  <1>1. \A p : p \in Inside(t, v) <=> \E i \in DOMAIN v : p = <<t[2], v[i]>>
    BY InsideIs
  <1>2. \A i \in DOMAIN v : <<t[2], v[i]>> \in Inside(t, v)
    BY <1>1, Zenon
  <1>3. WellTyped(t, v) <=> IsSequence(v)
    BY WellTypedIs
  <1>4. (\A p \in Inside(t, v) : Sound(p[1], p[2])) <=> \A i \in DOMAIN v : Sound(t[2], v[i])
    <2>1. ASSUME \A p \in Inside(t, v) : Sound(p[1], p[2]), NEW i \in DOMAIN v
          PROVE  Sound(t[2], v[i])
      BY <1>2, <2>1
    <2>2. ASSUME \A i \in DOMAIN v : Sound(t[2], v[i]), NEW p \in Inside(t, v)
          PROVE  Sound(p[1], p[2])
      <3>1. PICK i \in DOMAIN v : p = <<t[2], v[i]>>
        BY <1>1, Zenon
      <3> QED
        BY <2>2, <3>1
    <2> QED
      BY <2>1, <2>2
  <1> QED
    BY <1>3, <1>4, SoundIs

LEMMA SoundMap ==
    ASSUME NEW t, NEW v, t[1] = "map"
    PROVE  Sound(t, v) <=> IsMap(v) /\ \A i \in DOMAIN v : Sound(t[2], v[i])
  <1>1. \A p : p \in Inside(t, v) <=> \E i \in DOMAIN v : p = <<t[2], v[i]>>
    BY InsideIs
  <1>2. \A i \in DOMAIN v : <<t[2], v[i]>> \in Inside(t, v)
    BY <1>1, Zenon
  <1>3. WellTyped(t, v) <=> IsMap(v)
    BY WellTypedIs
  <1>4. (\A p \in Inside(t, v) : Sound(p[1], p[2])) <=> \A i \in DOMAIN v : Sound(t[2], v[i])
    <2>1. ASSUME \A p \in Inside(t, v) : Sound(p[1], p[2]), NEW i \in DOMAIN v
          PROVE  Sound(t[2], v[i])
      BY <1>2, <2>1
    <2>2. ASSUME \A i \in DOMAIN v : Sound(t[2], v[i]), NEW p \in Inside(t, v)
          PROVE  Sound(p[1], p[2])
      <3>1. PICK i \in DOMAIN v : p = <<t[2], v[i]>>
        BY <1>1, Zenon
      <3> QED
        BY <2>2, <3>1
    <2> QED
      BY <2>1, <2>2
  <1> QED
    BY <1>3, <1>4, SoundIs

LEMMA SoundTuple ==
    ASSUME NEW t, NEW v, t[1] = "tuple"
    PROVE  Sound(t, v) <=> /\ IsSequence(v) /\ Len(v) = Len(t[2])
                           /\ \A i \in DOMAIN v \cap DOMAIN t[2] : Sound(t[2][i], v[i])
  <1>1. \A p : p \in Inside(t, v) <=> \E i \in DOMAIN v \cap DOMAIN t[2] : p = <<t[2][i], v[i]>>
    BY InsideIs
  <1>2. \A i \in DOMAIN v \cap DOMAIN t[2] : <<t[2][i], v[i]>> \in Inside(t, v)
    BY <1>1, Zenon
  <1>3. WellTyped(t, v) <=> IsSequence(v) /\ Len(v) = Len(t[2])
    BY WellTypedIs
  <1>4. (\A p \in Inside(t, v) : Sound(p[1], p[2])) <=> \A i \in DOMAIN v \cap DOMAIN t[2] : Sound(t[2][i], v[i])
    <2>1. ASSUME \A p \in Inside(t, v) : Sound(p[1], p[2]), NEW i \in DOMAIN v \cap DOMAIN t[2]
          PROVE  Sound(t[2][i], v[i])
      BY <1>2, <2>1
    <2>2. ASSUME \A i \in DOMAIN v \cap DOMAIN t[2] : Sound(t[2][i], v[i]), NEW p \in Inside(t, v)
          PROVE  Sound(p[1], p[2])
      <3>1. PICK i \in DOMAIN v \cap DOMAIN t[2] : p = <<t[2][i], v[i]>>
        BY <1>1, Zenon
      <3> QED
        BY <2>2, <3>1
    <2> QED
      BY <2>1, <2>2
  <1> QED
    BY <1>3, <1>4, SoundIs

LEMMA SoundOneOf ==
    ASSUME NEW t, NEW v, t[1] = "oneof"
    PROVE  Sound(t, v) <=> \/ v = <<>>
                           \/ /\ v[1] \in DOMAIN t[2] /\ v = <<v[1], v[2]>>
                              /\ Sound(t[2][v[1]], v[2])
  <1>1. WellTyped(t, v) <=> v = <<>> \/ (v[1] \in DOMAIN t[2] /\ v = <<v[1], v[2]>>)
    BY WellTypedIs
  <1>2. CASE v = <<>>
    <2>1. Inside(t, v) = {}
      BY <1>2, InsideIs
    <2> QED
      BY <1>1, <1>2, <2>1, SoundIs
  <1>3. CASE v # <<>>
    <2>1. Inside(t, v) = {<<t[2][v[1]], v[2]>>}
      BY <1>3, InsideIs
    <2>2. (\A p \in Inside(t, v) : Sound(p[1], p[2])) <=> Sound(t[2][v[1]], v[2])
      BY <2>1
    <2> QED
      BY <1>1, <1>3, <2>2, SoundIs
  <1> QED
    BY <1>2, <1>3

LEMMA SoundStruct ==
    ASSUME NEW t, NEW v, t[1] = "struct", NEW s, s = t[2]
    PROVE  Sound(t, v) <=>
              /\ v = [own |-> v.own, bases |-> v.bases]
              /\ IsMap(v.own) /\ Required(s) \subseteq DOMAIN v.own /\ DOMAIN v.own \subseteq Names(s)
              /\ IsSequence(v.bases) /\ Len(v.bases) = Len(s.bases)
              /\ \A n \in DOMAIN v.own \cap Names(s) : Sound(Property(s, n).type, v.own[n])
              /\ \A i \in DOMAIN s.bases : Sound(Ref(s.bases[i]), v.bases[i])
  <1>1. \A p : p \in Inside(t, v) <=>
            \/ \E n \in Names(s) \cap DOMAIN v.own : p = <<Property(s, n).type, v.own[n]>>
            \/ \E i \in DOMAIN s.bases : p = <<Ref(s.bases[i]), v.bases[i]>>
    BY InsideIs
  <1>2. /\ \A n \in Names(s) \cap DOMAIN v.own :
               <<Property(s, n).type, v.own[n]>> \in Inside(t, v)
        /\ \A i \in DOMAIN s.bases :
               <<Ref(s.bases[i]), v.bases[i]>> \in Inside(t, v)
    BY <1>1, Zenon
  <1>3. (\A p \in Inside(t, v) : Sound(p[1], p[2])) <=>
            /\ \A n \in DOMAIN v.own \cap Names(s) : Sound(Property(s, n).type, v.own[n])
            /\ \A i \in DOMAIN s.bases : Sound(Ref(s.bases[i]), v.bases[i])
    <2>1. ASSUME \A p \in Inside(t, v) : Sound(p[1], p[2])
          PROVE  /\ \A n \in DOMAIN v.own \cap Names(s) : Sound(Property(s, n).type, v.own[n])
                 /\ \A i \in DOMAIN s.bases : Sound(Ref(s.bases[i]), v.bases[i])
      <3>1. ASSUME NEW n \in DOMAIN v.own \cap Names(s)
            PROVE  Sound(Property(s, n).type, v.own[n])
        <4>1. <<Property(s, n).type, v.own[n]>> \in Inside(t, v)
          BY <1>2, Zenon
        <4> QED
          BY <2>1, <4>1
      <3>2. ASSUME NEW i \in DOMAIN s.bases
            PROVE  Sound(Ref(s.bases[i]), v.bases[i])
        <4>1. <<Ref(s.bases[i]), v.bases[i]>> \in Inside(t, v)
          BY <1>2, Zenon
        <4> QED
          BY <2>1, <4>1
      <3> QED
        BY <3>1, <3>2
    <2>2. ASSUME \A n \in DOMAIN v.own \cap Names(s) : Sound(Property(s, n).type, v.own[n]),
                 \A i \in DOMAIN s.bases : Sound(Ref(s.bases[i]), v.bases[i]),
                 NEW p \in Inside(t, v)
          PROVE  Sound(p[1], p[2])
      <3>1. CASE \E n \in Names(s) \cap DOMAIN v.own : p = <<Property(s, n).type, v.own[n]>>
        BY <2>2, <3>1
      <3>2. CASE \E i \in DOMAIN s.bases : p = <<Ref(s.bases[i]), v.bases[i]>>
        BY <2>2, <3>2
      <3> QED
        BY <1>1, <3>1, <3>2, Zenon
    <2> QED
      BY <2>1, <2>2
  <1>4. WellTyped(t, v) <=>
            /\ v = [own |-> v.own, bases |-> v.bases]
            /\ IsMap(v.own) /\ Required(s) \subseteq DOMAIN v.own /\ DOMAIN v.own \subseteq Names(s)
            /\ IsSequence(v.bases) /\ Len(v.bases) = Len(s.bases)
    BY WellTypedIs
  <1> QED
    BY <1>3, <1>4, SoundIs

LEMMA SoundRef ==
    ASSUME NEW t, NEW v, t[1] = "ref"
    PROVE  Sound(t, v) <=> Sound(Resolve(t[2]), v)
  <1>1. Inside(t, v) = {<<Resolve(t[2]), v>>} /\ WellTyped(t, v)
    BY InsideIs, WellTypedIs
  <1>2. (\A p \in Inside(t, v) : Sound(p[1], p[2])) <=> Sound(Resolve(t[2]), v)
    BY <1>1
  <1> QED
    BY <1>1, <1>2, SoundIs

-----------------------------------------------------------------------------
(* What Decode() leaves in its output is of its type. *)

DecodesSound(n, t) ==
    \A j, out : GoodJson(n, j) /\ Sound(t, out) => Sound(t, Decode(t, j, out).out)

LEMMA DecodeIs ==
    ASSUME Overloads, NEW t \in AllTypes, NEW j, NEW out
    PROVE  /\ t[1] = "null" => Decode(t, j, out) = FromResult(GetNull(j), out)
           /\ t[1] = "boolean" => Decode(t, j, out) = FromResult(GetBool(j), out)
           /\ t[1] = "integer" => Decode(t, j, out) = FromResult(GetI64(j), out)
           /\ t[1] = "uinteger" => Decode(t, j, out) = FromResult(GetU64(j), out)
           /\ t[1] = "decimal" => Decode(t, j, out) = FromResult(GetF64(j), out)
           /\ t[1] = "string" => Decode(t, j, out) = FromResult(GetString(j), out)
           /\ t[1] = "vector" => Decode(t, j, out) = DecodeVector(t[2], j, out)
           /\ t[1] = "map" => Decode(t, j, out) = DecodeMap(t[2], j, out)
           /\ t[1] = "tuple" => Decode(t, j, out) = DecodeTuple(t[2], j, out)
           /\ t[1] = "oneof" => Decode(t, j, out) = DecodeOneOf(t[2], j, out)
           /\ t[1] = "enum" => Decode(t, j, out) = DecodeEnum(t, j, out)
           /\ t[1] = "struct" => Decode(t, j, out) = DecodeStruct(t[2], j, out)
           /\ t[1] = "ref" => Decode(t, j, out) = Decode(Resolve(t[2]), j, out)
  <1>1. Decode(t, j, out) = DecodeOverload(t, j, out)
    BY FormIs
  <1> QED
    BY <1>1 DEF DecodeOverload

LEMMA OutIs ==
    \A x : Decoded(x).ok /\ ~Refused(x).ok /\ Decoded(x).out = x /\ Refused(x).out = x
  BY DEF Decoded, Refused

(* The type F[x] belongs in the place x, and p stays within it. *)
Suits(F, p) ==
    /\ p.place \in DOMAIN F /\ F[p.place] = p.type
    /\ Sound(p.type, Default(p.type))
    /\ IsOk(p.got) => \A out : Sound(p.type, out) => Sound(p.type, Decode(p.type, Get(p.got), out).out)

LEMMA LoopSound ==
    ASSUME NEW parts, NEW c, Len(parts) \in Nat, Apart(parts), c = [x \in DOMAIN c |-> c[x]],
           NEW F, \A x \in DOMAIN c : x \in DOMAIN F /\ Sound(F[x], c[x]),
           \A i \in 1..Len(parts) : Suits(F, parts[i]),
           NEW r, r = DecodeParts(parts, c)
    PROVE  /\ r.out = [x \in DOMAIN r.out |-> r.out[x]]
           /\ DOMAIN c \subseteq DOMAIN r.out
           /\ \A x \in DOMAIN r.out :
                 /\ x \in DOMAIN c \/ \E i \in 1..Len(parts) : x = parts[i].place
                 /\ x \in DOMAIN F /\ Sound(F[x], r.out[x])
  <1>1. Kept(Len(parts), parts, c, r)
    BY PartsAssemble DEF Assembles
  <1>2. ASSUME NEW i \in 1..Len(parts), IsOk(parts[i].got)
        PROVE  Sound(parts[i].type, Attempt(c, parts[i]).out)
    <2> DEFINE p == parts[i]
    <2>1. Suits(F, p) /\ IsOk(p.got)
      BY <1>2
    <2> HIDE DEF p
    <2>2. p.place \in DOMAIN c => Sound(p.type, c[p.place])
      BY <2>1 DEF Suits
    <2>3. \/ p.place \in DOMAIN c /\ Into(c, p) = c[p.place]
          \/ Into(c, p) = Default(p.type)
      BY DEF Into
    <2>4. Sound(p.type, Into(c, p))
      BY <2>1, <2>2, <2>3 DEF Suits
    <2>5. Sound(p.type, Attempt(c, p).out)
      BY <2>1, <2>4 DEF Attempt, Suits
    <2> QED
      BY <2>5 DEF p
  <1>3. ASSUME NEW x \in DOMAIN r.out
        PROVE  /\ x \in DOMAIN c \/ \E i \in 1..Len(parts) : x = parts[i].place
               /\ x \in DOMAIN F /\ Sound(F[x], r.out[x])
    <2>1. CASE x \in DOMAIN c /\ r.out[x] = c[x]
      BY <2>1
    <2>2. CASE \E i \in 1..Len(parts) : /\ x = parts[i].place
                                        /\ IsOk(parts[i].got)
                                        /\ r.out[x] = Attempt(c, parts[i]).out
      <3>1. PICK i \in 1..Len(parts) : /\ x = parts[i].place
                                       /\ IsOk(parts[i].got)
                                       /\ r.out[x] = Attempt(c, parts[i]).out
        BY <2>2
      <3> DEFINE p == parts[i]
      <3>2. Suits(F, p) /\ x = p.place /\ Sound(p.type, r.out[x])
        BY <1>2, <3>1
      <3> HIDE DEF p
      <3>3. x \in DOMAIN F /\ Sound(F[x], r.out[x])
        BY <3>2 DEF Suits
      <3> QED
        BY <3>1, <3>3
    <2> QED
      BY <1>1, <2>1, <2>2 DEF Kept
  <1> QED
    BY <1>1, <1>3 DEF Kept

LEMMA PrimitiveSound ==
    ASSUME Overloads, NEW t \in AllTypes, NEW n \in Nat,
           t[1] \in {"null", "boolean", "integer", "uinteger", "decimal", "string"}
    PROVE  DecodesSound(n, t)
  <1> SUFFICES ASSUME NEW j, NEW out, GoodJson(n, j), Sound(t, out)
               PROVE  Sound(t, Decode(t, j, out).out)
    BY DEF DecodesSound
  <1>1. IsJson(j)
    BY GoodJsonIs
  <1>2. \A r : FromResult(r, out).out = IF IsOk(r) THEN Get(r) ELSE out
    BY DEF FromResult, Decoded, Refused
  <1>3. WellTyped(t, out)
    BY SoundIs
  <1> SUFFICES WellTyped(t, Decode(t, j, out).out)
    BY SoundPlain
  <1>4. CASE t[1] = "null"
    <2>1. Decode(t, j, out).out = IF IsOk(GetNull(j)) THEN Get(GetNull(j)) ELSE out
      BY <1>2, <1>4, DecodeIs
    <2>2. IsOk(GetNull(j)) => Get(GetNull(j)) = "null"
      BY OkIs DEF GetNull
    <2> QED
      BY <1>3, <1>4, <2>1, <2>2, WellTypedIs
  <1>5. CASE t[1] = "boolean"
    <2>1. Decode(t, j, out).out = IF IsOk(GetBool(j)) THEN Get(GetBool(j)) ELSE out
      BY <1>2, <1>5, DecodeIs
    <2>2. IsOk(GetBool(j)) => Get(GetBool(j)) \in BOOLEAN
      BY <1>1, JsonIs, OkIs DEF GetBool
    <2> QED
      BY <1>3, <1>5, <2>1, <2>2, WellTypedIs
  <1>6. CASE t[1] = "integer"
    <2>1. Decode(t, j, out).out = IF IsOk(GetI64(j)) THEN Get(GetI64(j)) ELSE out
      BY <1>2, <1>6, DecodeIs
    <2>2. IsOk(GetI64(j)) => Get(GetI64(j)) \in -MaxI64 - 1 .. MaxI64
      BY OkIs DEF GetI64
    <2> QED
      BY <1>3, <1>6, <2>1, <2>2, WellTypedIs
  <1>7. CASE t[1] = "uinteger"
    <2>1. Decode(t, j, out).out = IF IsOk(GetU64(j)) THEN Get(GetU64(j)) ELSE out
      BY <1>2, <1>7, DecodeIs
    <2>2. IsOk(GetU64(j)) => Get(GetU64(j)) \in 0..MaxU64
      BY OkIs DEF GetU64
    <2> QED
      BY <1>3, <1>7, <2>1, <2>2, WellTypedIs
  <1>8. CASE t[1] = "decimal"
    <2>1. Decode(t, j, out).out = IF IsOk(GetF64(j)) THEN Get(GetF64(j)) ELSE out
      BY <1>2, <1>8, DecodeIs
    <2>2. IsOk(GetF64(j)) => Get(GetF64(j)) \in Int
      <3>1. CASE Kind(j) = "real"
        BY <1>1, <3>1, JsonIs, OkIs DEF GetF64
      <3>2. CASE Kind(j) \in {"int", "uint"}
        <4>1. j[2] \in Int
          BY <1>1, <3>2, JsonIs
        <4>2. GetF64(j) = Ok(2 * j[2])
          BY <3>2 DEF GetF64
        <4> QED
          BY <4>1, <4>2, OkIs
      <3>3. CASE Kind(j) \notin {"real", "int", "uint"}
        BY <3>3, OkIs DEF GetF64
      <3> QED
        BY <3>1, <3>2, <3>3
    <2> QED
      BY <1>3, <1>8, <2>1, <2>2, WellTypedIs
  <1>9. CASE t[1] = "string"
    <2>1. Decode(t, j, out).out = IF IsOk(GetString(j)) THEN Get(GetString(j)) ELSE out
      BY <1>2, <1>9, DecodeIs
    <2>2. IsOk(GetString(j)) => Get(GetString(j)) \in STRING
      BY <1>1, JsonIs, OkIs DEF GetString
    <2> QED
      BY <1>3, <1>9, <2>1, <2>2, WellTypedIs
  <1> QED
    BY <1>4, <1>5, <1>6, <1>7, <1>8, <1>9

LEMMA VectorDecodesSound ==
    ASSUME Overloads, NEW t \in AllTypes, t[1] = "vector", NEW n \in Nat,
           \A m \in Nat : m < n => DecodesSound(m, t[2])
    PROVE  DecodesSound(n, t)
  <1> SUFFICES ASSUME NEW j, NEW out, GoodJson(n, j), Sound(t, out)
               PROVE  Sound(t, Decode(t, j, out).out)
    BY DEF DecodesSound
  <1> DEFINE u == t[2]
             N == Count(j)
             parts == [i \in 1..N |-> Part(i, u, FALSE, Ok(Element(j, i)))]
             c == [i \in 1..N |-> IF i <= Len(out) THEN out[i] ELSE Default(u)]
             F == [i \in 1..N |-> u]
             r == DecodeParts(parts, c)
  <1>1. u \in AllTypes /\ Decode(t, j, out) = DecodeVector(u, j, out)
    BY TypeIs, DecodeIs
  <1>2. CASE Kind(j) # "array"
    <2>1. Decode(t, j, out) = Refused(out)
      BY <1>1, <1>2 DEF DecodeVector
    <2> QED
      BY <2>1, OutIs
  <1>3. CASE Kind(j) = "array"
    <2>1. Decode(t, j, out) = r
      BY <1>1, <1>3 DEF DecodeVector
    <2>2. IsJson(j) /\ n # 0 /\ (Container(j) => \A i \in DOMAIN j[2] : GoodJson(n - 1, j[2][i]))
      BY GoodJsonIs
    <2>3. N \in Nat /\ DOMAIN j[2] = 1..N /\ Container(j)
      BY <1>3, <2>2, JsonIs
    <2> HIDE DEF N
    <2>4. Len(parts) = N /\ DOMAIN c = 1..N /\ DOMAIN F = 1..N /\ c = [x \in DOMAIN c |-> c[x]]
      BY <2>3
    <2>5. \A i \in 1..N : /\ parts[i].place = i /\ parts[i].type = u
                          /\ parts[i].got = Ok(j[2][i])
      BY DEF Part, Element
    <2> HIDE DEF parts
    <2>6. Apart(parts)
      BY <2>4, <2>5 DEF Apart
    <2>7. IsSequence(out) /\ \A i \in DOMAIN out : Sound(u, out[i])
      BY SoundVector
    <2>8. \A x \in DOMAIN c : x \in DOMAIN F /\ Sound(F[x], c[x])
      <3> SUFFICES ASSUME NEW x \in 1..N
                   PROVE  Sound(u, c[x])
        BY <2>4
      <3>1. DOMAIN out = 1..Len(out) /\ Len(out) \in Nat
        BY <2>7, SequenceIs
      <3>2. x <= Len(out) => Sound(u, out[x])
        BY <2>3, <2>7, <3>1
      <3> QED
        BY <1>1, <3>2, DefaultSound
    <2>9. n - 1 \in Nat /\ n - 1 < n
      BY <2>2
    <2>10. DecodesSound(n - 1, u)
      BY <2>9
    <2>11. \A i \in 1..N : /\ Sound(u, Default(u))
                           /\ \A o : Sound(u, o) => Sound(u, Decode(u, j[2][i], o).out)
      BY <1>1, <2>2, <2>3, <2>10, DefaultSound DEF DecodesSound
    <2>a. \A i \in 1..N : i \in DOMAIN F /\ F[i] = u
      OBVIOUS
    <2> HIDE DEF F
    <2>12. ASSUME NEW i \in 1..Len(parts)
           PROVE  Suits(F, parts[i])
      <3>1. i \in 1..N
        BY <2>4
      <3> DEFINE p == parts[i]
      <3>2. /\ p.place \in DOMAIN F /\ F[p.place] = p.type
            /\ p.type = u /\ p.got = Ok(j[2][i])
        BY <3>1, <2>5, <2>a
      <3>3. Sound(u, Default(u)) /\ \A o : Sound(u, o) => Sound(u, Decode(u, j[2][i], o).out)
        BY <3>1, <2>11
      <3> HIDE DEF p
      <3>4. Suits(F, p)
        BY <3>2, <3>3, OkIs DEF Suits
      <3> QED
        BY <3>4 DEF p
    <2>13. Len(parts) \in Nat
      BY <2>3, <2>4
    <2> HIDE DEF c
    <2>14. /\ r.out = [x \in DOMAIN r.out |-> r.out[x]]
           /\ DOMAIN c \subseteq DOMAIN r.out
           /\ \A x \in DOMAIN r.out :
                 /\ x \in DOMAIN c \/ \E i \in 1..Len(parts) : x = parts[i].place
                 /\ x \in DOMAIN F /\ Sound(F[x], r.out[x])
      BY <2>4, <2>6, <2>8, <2>12, <2>13, LoopSound
    <2> HIDE DEF r
    <2>15. DOMAIN r.out = 1..N /\ \A x \in DOMAIN r.out : Sound(u, r.out[x])
      BY <2>4, <2>14 DEF F
    <2>16. IsSequence(r.out)
      BY <2>3, <2>14, <2>15, MakeSequence
    <2> QED
      BY <2>1, <2>15, <2>16, SoundVector
  <1> QED
    BY <1>2, <1>3

LEMMA MapDecodesSound ==
    ASSUME Overloads, NEW t \in AllTypes, t[1] = "map", NEW n \in Nat,
           \A m \in Nat : m < n => DecodesSound(m, t[2])
    PROVE  DecodesSound(n, t)
  <1> SUFFICES ASSUME NEW j, NEW out, GoodJson(n, j), Sound(t, out)
               PROVE  Sound(t, Decode(t, j, out).out)
    BY DEF DecodesSound
  <1> DEFINE u == t[2]
             names == Seqs!SetToSeq(MemberNames(j))
             N == Len(names)
             parts == [i \in 1..N |-> Part(names[i], u, FALSE, Member(j, names[i]))]
             D == DOMAIN out \cup DOMAIN j[2]
             F == [x \in D |-> u]
             r == DecodeParts(parts, out)
  <1>1. u \in AllTypes /\ Decode(t, j, out) = DecodeMap(u, j, out)
    BY TypeIs, DecodeIs
  <1>2. CASE Kind(j) # "object"
    <2>1. Decode(t, j, out) = Refused(out)
      BY <1>1, <1>2 DEF DecodeMap
    <2> QED
      BY <2>1, OutIs
  <1>3. CASE Kind(j) = "object"
    <2>1. Decode(t, j, out) = r
      BY <1>1, <1>3 DEF DecodeMap
    <2>2. IsJson(j) /\ n # 0 /\ (Container(j) => \A i \in DOMAIN j[2] : GoodJson(n - 1, j[2][i]))
      BY GoodJsonIs
    <2>3. /\ Container(j) /\ IsMap(j[2]) /\ MemberNames(j) = DOMAIN j[2]
          /\ \A x \in DOMAIN j[2] : Member(j, x) = Ok(j[2][x])
      BY <1>3, <2>2, JsonIs DEF MemberNames
    <2>4. /\ N \in Nat
          /\ \A i \in 1..N : names[i] \in DOMAIN j[2]
          /\ \A i, k \in 1..N : names[i] = names[k] => i = k
      <3>1. IsFiniteSet(MemberNames(j))
        BY <2>3 DEF IsMap
      <3> QED
        BY <2>3, <3>1, SetToSeqIs
    <2> HIDE DEF names, N
    <2>5. Len(parts) = N /\ DOMAIN F = D
      BY <2>4
    <2>6. \A i \in 1..N : /\ parts[i].place = names[i] /\ parts[i].type = u
                          /\ parts[i].got = Ok(j[2][names[i]])
      BY <2>3, <2>4 DEF Part
    <2>7. \A x \in D : F[x] = u
      OBVIOUS
    <2> HIDE DEF parts, F
    <2>8. Apart(parts)
      BY <2>4, <2>5, <2>6 DEF Apart
    <2>9. IsMap(out) /\ \A x \in DOMAIN out : Sound(u, out[x])
      BY SoundMap
    <2>10. \A x \in DOMAIN out : x \in DOMAIN F /\ Sound(F[x], out[x])
      BY <2>5, <2>7, <2>9
    <2>11. DecodesSound(n - 1, u)
      BY <2>2
    <2>12. \A i \in 1..N : /\ Sound(u, Default(u))
                           /\ \A o : Sound(u, o) => Sound(u, Decode(u, j[2][names[i]], o).out)
      BY <1>1, <2>2, <2>3, <2>4, <2>11, DefaultSound DEF DecodesSound
    <2>13. ASSUME NEW i \in 1..Len(parts)
           PROVE  Suits(F, parts[i])
      <3>1. i \in 1..N
        BY <2>5
      <3> DEFINE p == parts[i]
      <3>2. /\ p.place \in DOMAIN F /\ F[p.place] = p.type
            /\ p.type = u /\ p.got = Ok(j[2][names[i]])
        BY <3>1, <2>4, <2>5, <2>6, <2>7
      <3>3. Sound(u, Default(u)) /\ \A o : Sound(u, o) => Sound(u, Decode(u, j[2][names[i]], o).out)
        BY <3>1, <2>12
      <3> HIDE DEF p
      <3>4. Suits(F, p)
        BY <3>2, <3>3, OkIs DEF Suits
      <3> QED
        BY <3>4 DEF p
    <2>14. Len(parts) \in Nat /\ out = [x \in DOMAIN out |-> out[x]]
      BY <2>4, <2>5, <2>9 DEF IsMap
    <2>15. /\ r.out = [x \in DOMAIN r.out |-> r.out[x]]
           /\ DOMAIN out \subseteq DOMAIN r.out
           /\ \A x \in DOMAIN r.out :
                 /\ x \in DOMAIN out \/ \E i \in 1..Len(parts) : x = parts[i].place
                 /\ x \in DOMAIN F /\ Sound(F[x], r.out[x])
      BY <2>8, <2>10, <2>13, <2>14, LoopSound
    <2> HIDE DEF r
    <2>16. DOMAIN r.out \subseteq D /\ \A x \in DOMAIN r.out : Sound(u, r.out[x])
      BY <2>5, <2>7, <2>15
    <2>17. IsFiniteSet(D) /\ D \subseteq STRING
      BY <2>3, <2>9, FS_Union DEF IsMap
    <2> HIDE DEF D
    <2>18. IsFiniteSet(DOMAIN r.out)
      BY <2>16, <2>17, FS_Subset
    <2>19. IsMap(r.out)
      BY <2>15, <2>16, <2>17, <2>18 DEF IsMap
    <2> QED
      BY <2>1, <2>16, <2>19, SoundMap
  <1> QED
    BY <1>2, <1>3

LEMMA TupleDecodesSound ==
    ASSUME Overloads, NEW t \in AllTypes, t[1] = "tuple", NEW n \in Nat,
           \A m \in Nat : m < n => \A u \in AllTypes : DecodesSound(m, u)
    PROVE  DecodesSound(n, t)
  <1> SUFFICES ASSUME NEW j, NEW out, GoodJson(n, j), Sound(t, out)
               PROVE  Sound(t, Decode(t, j, out).out)
    BY DEF DecodesSound
  <1> DEFINE ts == t[2]
             N == Len(ts)
             parts == [i \in 1..N |-> Part(i, ts[i], FALSE, Ok(Element(j, i)))]
             r == DecodeParts(parts, out)
  <1>1. Decode(t, j, out) = DecodeTuple(ts, j, out)
    BY DecodeIs
  <1>2. CASE Count(j) # Len(ts) \/ Kind(j) # "array"
    <2>1. Decode(t, j, out) = Refused(out)
      BY <1>1, <1>2 DEF DecodeTuple
    <2> QED
      BY <2>1, OutIs
  <1>3. CASE Count(j) = Len(ts) /\ Kind(j) = "array"
    <2>1. Decode(t, j, out) = r
      BY <1>1, <1>3 DEF DecodeTuple
    <2>2. IsJson(j) /\ n # 0 /\ (Container(j) => \A i \in DOMAIN j[2] : GoodJson(n - 1, j[2][i]))
      BY GoodJsonIs
    <2>3. N \in Nat /\ DOMAIN j[2] = 1..N /\ Container(j)
      BY <1>3, <2>2, JsonIs
    <2>4. DOMAIN ts = 1..N /\ \A i \in 1..N : ts[i] \in AllTypes
      BY TypeIs, SequenceIs
    <2>5. IsSequence(out) /\ Len(out) = N /\ \A i \in DOMAIN out \cap DOMAIN ts : Sound(ts[i], out[i])
      BY SoundTuple
    <2>6. DOMAIN out = 1..N /\ out = [x \in DOMAIN out |-> out[x]]
      <3>1. DOMAIN out = 1..N
        BY <2>5, SequenceIs
      <3> HIDE DEF N
      <3> QED
        BY <2>5, <3>1 DEF IsSequence
    <2> HIDE DEF N
    <2>7. Len(parts) = N
      BY <2>3
    <2>8. \A i \in 1..N : /\ parts[i].place = i /\ parts[i].type = ts[i]
                          /\ parts[i].got = Ok(j[2][i])
      BY DEF Part, Element
    <2> HIDE DEF parts
    <2>9. Apart(parts)
      BY <2>7, <2>8 DEF Apart
    <2>10. \A x \in DOMAIN out : x \in DOMAIN ts /\ Sound(ts[x], out[x])
      BY <2>4, <2>5, <2>6
    <2>11. n - 1 \in Nat /\ n - 1 < n
      BY <2>2
    <2>12. \A i \in 1..N : /\ Sound(ts[i], Default(ts[i]))
                           /\ \A o : Sound(ts[i], o) => Sound(ts[i], Decode(ts[i], j[2][i], o).out)
      BY <2>2, <2>3, <2>4, <2>11, DefaultSound DEF DecodesSound
    <2>13. ASSUME NEW i \in 1..Len(parts)
           PROVE  Suits(ts, parts[i])
      <3>1. i \in 1..N
        BY <2>7
      <3> DEFINE p == parts[i]
      <3>2. /\ p.place \in DOMAIN ts /\ ts[p.place] = p.type
            /\ p.type = ts[i] /\ p.got = Ok(j[2][i])
        BY <3>1, <2>4, <2>8
      <3>3. Sound(ts[i], Default(ts[i])) /\ \A o : Sound(ts[i], o) => Sound(ts[i], Decode(ts[i], j[2][i], o).out)
        BY <3>1, <2>12
      <3> HIDE DEF p
      <3>4. Suits(ts, p)
        BY <3>2, <3>3, OkIs DEF Suits
      <3> QED
        BY <3>4 DEF p
    <2>14. Len(parts) \in Nat
      BY <2>3, <2>7
    <2> HIDE DEF ts
    <2>15. /\ r.out = [x \in DOMAIN r.out |-> r.out[x]]
           /\ DOMAIN out \subseteq DOMAIN r.out
           /\ \A x \in DOMAIN r.out :
                 /\ x \in DOMAIN out \/ \E i \in 1..Len(parts) : x = parts[i].place
                 /\ x \in DOMAIN ts /\ Sound(ts[x], r.out[x])
      BY <2>6, <2>9, <2>10, <2>13, <2>14, LoopSound
    <2> HIDE DEF r
    <2>16. DOMAIN r.out = 1..N
      BY <2>4, <2>6, <2>15
    <2>17. IsSequence(r.out) /\ Len(r.out) = N
      BY <2>3, <2>15, <2>16, MakeSequence
    <2> QED
      BY <2>1, <2>15, <2>17, SoundTuple DEF ts, N
  <1> QED
    BY <1>2, <1>3

(* The alternative that is kept *)
LEMMA FirstOfIs ==
    ASSUME NEW attempts, NEW N \in Nat, DOMAIN attempts = 1..N, NEW out
    PROVE  \/ /\ \A i \in 1..N : ~attempts[i].ok
              /\ FirstOf(attempts, out) = Refused(out)
           \/ \E i \in 1..N : /\ attempts[i].ok /\ \A m \in 1..(i - 1) : ~attempts[m].ok
                              /\ FirstOf(attempts, out) = Decoded(<<i, attempts[i].out>>)
  <1>1. CASE \A i \in 1..N : ~attempts[i].ok
    BY <1>1 DEF FirstOf
  <1>2. CASE ~ \A i \in 1..N : ~attempts[i].ok
    <2> DEFINE T == {i \in 1..N : attempts[i].ok}
               Is(k) == k \in 1..N /\ attempts[k].ok /\ \A m \in 1..(k - 1) : ~attempts[m].ok
    <2>1. T \in SUBSET Nat /\ T # {}
      BY <1>2
    <2>2. PICK k \in T : \A m \in T : k <= m
      BY <2>1, Smallest, Zenon
    <2>3. Is(k)
      BY <2>2
    <2> DEFINE i == CHOOSE x \in 1..N : attempts[x].ok /\ \A m \in 1..(x - 1) : ~attempts[m].ok
    <2>4. Is(i)
      BY <2>3
    <2>5. FirstOf(attempts, out) = Decoded(<<i, attempts[i].out>>)
      BY <1>2 DEF FirstOf
    <2> HIDE DEF i
    <2> QED
      BY <2>4, <2>5
  <1> QED
    BY <1>1, <1>2

LEMMA OneOfDecodesSound ==
    ASSUME Overloads, NEW t \in AllTypes, t[1] = "oneof", NEW n \in Nat,
           \A u \in AllTypes : Rank(u) < Rank(t) => DecodesSound(n, u)
    PROVE  DecodesSound(n, t)
  <1> SUFFICES ASSUME NEW j, NEW out, GoodJson(n, j), Sound(t, out)
               PROVE  Sound(t, Decode(t, j, out).out)
    BY DEF DecodesSound
  <1> DEFINE ts == t[2]
             N == Len(ts)
             attempts == [i \in 1..N |-> Decode(ts[i], j, Default(ts[i]))]
  <1>1. Decode(t, j, out) = FirstOf(attempts, out)
    BY DecodeIs DEF DecodeOneOf
  <1>2. /\ N \in Nat /\ DOMAIN ts = 1..N
        /\ \A i \in 1..N : ts[i] \in AllTypes /\ Rank(ts[i]) < Rank(t)
    BY TypeIs, SequenceIs
  <1> HIDE DEF N
  <1>3. DOMAIN attempts = 1..N /\ \A i \in 1..N : attempts[i] = Decode(ts[i], j, Default(ts[i]))
    OBVIOUS
  <1>4. \A i \in 1..N : Sound(ts[i], attempts[i].out)
    BY <1>2, <1>3, DefaultSound DEF DecodesSound
  <1> HIDE DEF attempts
  <1>5. CASE FirstOf(attempts, out) = Refused(out)
    BY <1>1, <1>5, OutIs
  <1>6. ASSUME NEW i \in 1..N, FirstOf(attempts, out) = Decoded(<<i, attempts[i].out>>)
        PROVE  Sound(t, Decode(t, j, out).out)
    <2> DEFINE v == <<i, attempts[i].out>>
    <2>1. Decode(t, j, out).out = v
      BY <1>1, <1>6, OutIs
    <2>2. v[1] = i /\ v[2] = attempts[i].out
      OBVIOUS
    <2> HIDE DEF v
    <2>3. v[1] \in DOMAIN ts /\ v = <<v[1], v[2]>> /\ Sound(ts[v[1]], v[2])
      BY <1>2, <1>4, <2>2 DEF v
    <2> QED
      BY <2>1, <2>3, SoundOneOf
  <1> QED
    BY <1>2, <1>3, <1>5, <1>6, FirstOfIs

LEMMA EnumDecodesSound ==
    ASSUME Overloads, NEW t \in AllTypes, t[1] = "enum", NEW n \in Nat
    PROVE  DecodesSound(n, t)
  <1> SUFFICES ASSUME NEW j, NEW out, GoodJson(n, j), Sound(t, out)
               PROVE  Sound(t, Decode(t, j, out).out)
    BY DEF DecodesSound
  <1> DEFINE r == Decode(t[2], j, Default(t[2]))
             hit == r.ok /\ \E i \in DOMAIN t[3] : t[3][i] = r.out
             k == CHOOSE i \in DOMAIN t[3] : t[3][i] = r.out
  <1>1. Decode(t, j, out) = IF hit THEN Decoded(k) ELSE Refused(out)
    BY DecodeIs DEF DecodeEnum, Enumerator
  <1>2. hit => k \in DOMAIN t[3]
    OBVIOUS
  <1>3. WellTyped(t, out)
    BY SoundIs
  <1> HIDE DEF hit, k
  <1>4. Decode(t, j, out).out = IF hit THEN k ELSE out
    BY <1>1, OutIs
  <1>5. WellTyped(t, Decode(t, j, out).out)
    BY <1>2, <1>3, <1>4, WellTypedIs
  <1> QED
    BY <1>5, SoundPlain

LEMMA RefDecodesSound ==
    ASSUME Overloads, NEW t \in AllTypes, t[1] = "ref", NEW n \in Nat,
           \A u \in AllTypes : Rank(u) < Rank(t) => DecodesSound(n, u)
    PROVE  DecodesSound(n, t)
  <1> SUFFICES ASSUME NEW j, NEW out, GoodJson(n, j), Sound(t, out)
               PROVE  Sound(t, Decode(t, j, out).out)
    BY DEF DecodesSound
  <1>1. Decode(t, j, out) = Decode(Resolve(t[2]), j, out)
    BY DecodeIs
  <1>2. DecodesSound(n, Resolve(t[2])) /\ Sound(Resolve(t[2]), out)
    BY TypeIs, SoundRef
  <1>3. Sound(Resolve(t[2]), Decode(t, j, out).out)
    BY <1>1, <1>2 DEF DecodesSound
  <1> QED
    BY <1>3, SoundRef

LEMMA MembersDecodeSound ==
    ASSUME Overloads, NEW t \in AllTypes, t[1] = "struct", NEW n \in Nat,
           \A m \in Nat : m < n => \A u \in AllTypes : DecodesSound(m, u),
           NEW j, GoodJson(n, j), Kind(j) = "object", NEW s, s = t[2],
           NEW own, IsMap(own), Required(s) \subseteq DOMAIN own, DOMAIN own \subseteq Names(s),
           \A x \in DOMAIN own : Sound(Property(s, x).type, own[x]),
           NEW r, r = DecodeMembers(s, j, own)
    PROVE  /\ IsMap(r.out) /\ Required(s) \subseteq DOMAIN r.out /\ DOMAIN r.out \subseteq Names(s)
           /\ \A x \in DOMAIN r.out : Sound(Property(s, x).type, r.out[x])
  <1> DEFINE N == Len(s.props)
             parts == [i \in 1..N |-> Part(s.props[i].name, s.props[i].type, s.props[i].optional,
                                           Member(j, s.props[i].name))]
             F == [x \in Names(s) |-> Property(s, x).type]
  <1>1. r = DecodeParts(parts, own)
    BY DEF DecodeMembers
  <1>2. /\ IsSequence(s.props)
        /\ \A i \in DOMAIN s.props :
              /\ s.props[i].type \in AllTypes
              /\ Property(s, s.props[i].name) = s.props[i]
              /\ \A k \in DOMAIN s.props : s.props[i].name = s.props[k].name => i = k
        /\ Required(s) \subseteq Names(s) /\ Names(s) \subseteq STRING /\ IsFiniteSet(Names(s))
    BY PropsAre, NamesAre
  <1>3. N \in Nat /\ DOMAIN s.props = 1..N
    BY <1>2, SequenceIs
  <1>4. \A i \in 1..N : s.props[i].name \in Names(s)
    BY <1>3 DEF Names
  <1>5. IsJson(j) /\ n # 0 /\ (Container(j) => \A i \in DOMAIN j[2] : GoodJson(n - 1, j[2][i]))
    BY GoodJsonIs
  <1>6. Container(j)
    BY <1>5, JsonIs
  <1>7. \A x : IsOk(Member(j, x)) => x \in DOMAIN j[2] /\ Get(Member(j, x)) = j[2][x]
    BY OkIs DEF Member, Has
  <1>8. n - 1 \in Nat /\ n - 1 < n
    BY <1>5
  <1> HIDE DEF N
  <1>9. Len(parts) = N
    BY <1>3
  <1>10. \A i \in 1..N : /\ parts[i].place = s.props[i].name /\ parts[i].type = s.props[i].type
                         /\ parts[i].got = Member(j, s.props[i].name)
    BY DEF Part
  <1>11. DOMAIN F = Names(s) /\ \A x \in Names(s) : F[x] = Property(s, x).type
    OBVIOUS
  <1> HIDE DEF parts, F
  <1>12. Apart(parts)
    BY <1>2, <1>3, <1>9, <1>10 DEF Apart
  <1>13. \A x \in DOMAIN own : x \in DOMAIN F /\ Sound(F[x], own[x])
    BY <1>11
  <1>14. \A u \in AllTypes : Sound(u, Default(u))
    BY DefaultSound
  <1>15. ASSUME NEW i \in 1..N, IsOk(Member(j, s.props[i].name)), NEW o, Sound(s.props[i].type, o)
         PROVE  Sound(s.props[i].type,
                      Decode(s.props[i].type, Get(Member(j, s.props[i].name)), o).out)
    <2>1. GoodJson(n - 1, Get(Member(j, s.props[i].name)))
      BY <1>5, <1>6, <1>7, <1>15
    <2>2. DecodesSound(n - 1, s.props[i].type)
      BY <1>2, <1>3, <1>8
    <2> QED
      BY <1>15, <2>1, <2>2 DEF DecodesSound
  <1>16. ASSUME NEW i \in 1..Len(parts)
         PROVE  Suits(F, parts[i])
    <2>0. i \in 1..N
      BY <1>9
    <2> DEFINE p == s.props[i]
    <2>1. p.type \in AllTypes /\ Property(s, p.name) = p /\ p.name \in Names(s)
      BY <1>2, <1>3, <1>4, <2>0
    <2>2. IsOk(Member(j, p.name)) => \A o : Sound(p.type, o) =>
              Sound(p.type, Decode(p.type, Get(Member(j, p.name)), o).out)
      BY <1>15, <2>0
    <2>3. parts[i].place = p.name /\ parts[i].type = p.type /\ parts[i].got = Member(j, p.name)
      BY <1>10, <2>0
    <2> HIDE DEF p
    <2> QED
      BY <1>11, <1>14, <2>1, <2>2, <2>3 DEF Suits
  <1>17. Len(parts) \in Nat /\ own = [x \in DOMAIN own |-> own[x]]
    BY <1>3, <1>9 DEF IsMap
  <1>18. /\ r.out = [x \in DOMAIN r.out |-> r.out[x]]
         /\ DOMAIN own \subseteq DOMAIN r.out
         /\ \A x \in DOMAIN r.out :
               /\ x \in DOMAIN own \/ \E i \in 1..Len(parts) : x = parts[i].place
               /\ x \in DOMAIN F /\ Sound(F[x], r.out[x])
    <2> DEFINE d == DecodeParts(parts, own)
    <2>1. /\ d.out = [x \in DOMAIN d.out |-> d.out[x]]
          /\ DOMAIN own \subseteq DOMAIN d.out
          /\ \A x \in DOMAIN d.out :
                /\ x \in DOMAIN own \/ \E i \in 1..Len(parts) : x = parts[i].place
                /\ x \in DOMAIN F /\ Sound(F[x], d.out[x])
      BY <1>12, <1>13, <1>16, <1>17, LoopSound
    <2> HIDE DEF d
    <2>2. r = d
      BY <1>1 DEF d
    <2> QED
      BY <2>1, <2>2
  <1>19. DOMAIN r.out \subseteq Names(s)
    BY <1>11, <1>18
  <1>20. IsFiniteSet(DOMAIN r.out)
    BY <1>2, <1>19, FS_Subset
  <1> QED
    BY <1>2, <1>11, <1>18, <1>19, <1>20 DEF IsMap

LEMMA BasesDecodeSound ==
    ASSUME Overloads, NEW t \in AllTypes, t[1] = "struct", NEW n \in Nat,
           \A u \in AllTypes : Rank(u) < Rank(t) => DecodesSound(n, u),
           NEW j, GoodJson(n, j), NEW s, s = t[2],
           NEW bases, IsSequence(bases), Len(bases) = Len(s.bases),
           \A i \in DOMAIN s.bases : Sound(Ref(s.bases[i]), bases[i]),
           NEW r, r = DecodeBases(s, j, bases)
    PROVE  /\ IsSequence(r.out) /\ Len(r.out) = Len(s.bases)
           /\ \A i \in DOMAIN s.bases : Sound(Ref(s.bases[i]), r.out[i])
  <1> DEFINE N == Len(s.bases)
             parts == [i \in 1..N |-> Part(i, Ref(s.bases[i]), FALSE, Ok(j))]
             F == [i \in 1..N |-> Ref(s.bases[i])]
  <1>1. r = DecodeParts(parts, bases)
    BY DEF DecodeBases
  <1>2. /\ IsSequence(s.bases)
        /\ \A i \in DOMAIN s.bases :
              Ref(s.bases[i]) \in AllTypes /\ Rank(Ref(s.bases[i])) < Rank(t)
    BY BasesAre
  <1>3. N \in Nat /\ DOMAIN s.bases = 1..N
    BY <1>2, SequenceIs
  <1>4. DOMAIN bases = 1..N
    BY SequenceIs
  <1> HIDE DEF N
  <1>5. Len(parts) = N /\ DOMAIN F = 1..N
    BY <1>3
  <1>6. \A i \in 1..N : /\ parts[i].place = i /\ parts[i].type = Ref(s.bases[i])
                        /\ parts[i].got = Ok(j)
    BY DEF Part
  <1>7. \A i \in 1..N : F[i] = Ref(s.bases[i])
    OBVIOUS
  <1> HIDE DEF parts, F
  <1>8. Apart(parts)
    BY <1>5, <1>6 DEF Apart
  <1>9. \A x \in DOMAIN bases : x \in DOMAIN F /\ Sound(F[x], bases[x])
    BY <1>3, <1>4, <1>5, <1>7
  <1>10. \A u \in AllTypes : Sound(u, Default(u))
    BY DefaultSound
  <1>11. \A i \in 1..N : \A o : Sound(Ref(s.bases[i]), o) =>
                                Sound(Ref(s.bases[i]), Decode(Ref(s.bases[i]), j, o).out)
    BY <1>2, <1>3 DEF DecodesSound
  <1>12. ASSUME NEW i \in 1..Len(parts)
         PROVE  Suits(F, parts[i])
    <2>1. i \in 1..N /\ Sound(Ref(s.bases[i]), Default(Ref(s.bases[i])))
      BY <1>2, <1>3, <1>5, <1>10
    <2> DEFINE p == parts[i]
    <2>2. /\ p.place \in DOMAIN F /\ F[p.place] = p.type
          /\ p.type = Ref(s.bases[i]) /\ p.got = Ok(j)
      BY <2>1, <1>5, <1>6, <1>7
    <2>3. Sound(Ref(s.bases[i]), Default(Ref(s.bases[i]))) /\ \A o : Sound(Ref(s.bases[i]), o) => Sound(Ref(s.bases[i]), Decode(Ref(s.bases[i]), j, o).out)
      BY <2>1, <2>1, <1>11
    <2> HIDE DEF p
    <2>4. Suits(F, p)
      BY <2>2, <2>3, OkIs DEF Suits
    <2> QED
      BY <2>4 DEF p
  <1>13. Len(parts) \in Nat /\ bases = [x \in DOMAIN bases |-> bases[x]]
    <2>1. bases = [x \in 1..N |-> bases[x]]
      BY DEF IsSequence, N
    <2> QED
      BY <1>3, <1>4, <1>5, <2>1
  <1>14. /\ r.out = [x \in DOMAIN r.out |-> r.out[x]]
         /\ DOMAIN bases \subseteq DOMAIN r.out
         /\ \A x \in DOMAIN r.out :
               /\ x \in DOMAIN bases \/ \E i \in 1..Len(parts) : x = parts[i].place
               /\ x \in DOMAIN F /\ Sound(F[x], r.out[x])
    <2> DEFINE d == DecodeParts(parts, bases)
    <2>1. /\ d.out = [x \in DOMAIN d.out |-> d.out[x]]
          /\ DOMAIN bases \subseteq DOMAIN d.out
          /\ \A x \in DOMAIN d.out :
                /\ x \in DOMAIN bases \/ \E i \in 1..Len(parts) : x = parts[i].place
                /\ x \in DOMAIN F /\ Sound(F[x], d.out[x])
      BY <1>8, <1>9, <1>12, <1>13, LoopSound
    <2> HIDE DEF d
    <2>2. r = d
      BY <1>1 DEF d
    <2> QED
      BY <2>1, <2>2
  <1>15. DOMAIN r.out = 1..N
    BY <1>4, <1>5, <1>14
  <1>16. IsSequence(r.out) /\ Len(r.out) = N
    BY <1>3, <1>14, <1>15, MakeSequence
  <1> QED
    BY <1>3, <1>7, <1>14, <1>15, <1>16 DEF N

(* What DecodeStruct does, from its parts *)
LEMMA StructDecodes ==
    ASSUME NEW s, NEW j, NEW out
    PROVE  \/ /\ Kind(j) # "object" \/ ~MatchKind(j, s.kind)
              /\ DecodeStruct(s, j, out) = Refused(out)
           \/ /\ Kind(j) = "object" /\ MatchKind(j, s.kind)
              /\ DecodeStruct(s, j, out).out.own = DecodeMembers(s, j, out.own).out
              /\ DecodeStruct(s, j, out).out.bases \in {out.bases, DecodeBases(s, j, out.bases).out}
              /\ DecodeStruct(s, j, out).out =
                    [own |-> DecodeStruct(s, j, out).out.own, bases |-> DecodeStruct(s, j, out).out.bases]
              /\ DecodeStruct(s, j, out).ok => /\ DecodeMembers(s, j, out.own).ok
                                               /\ DecodeBases(s, j, out.bases).ok
                                               /\ DecodeStruct(s, j, out).out.bases
                                                     = DecodeBases(s, j, out.bases).out
              /\ DecodeMembers(s, j, out.own).ok /\ DecodeBases(s, j, out.bases).ok
                    => DecodeStruct(s, j, out).ok
  <1> DEFINE mine == DecodeMembers(s, j, out.own)
             theirs == IF mine.ok THEN DecodeBases(s, j, out.bases) ELSE Refused(out.bases)
             bad == Kind(j) # "object" \/ ~MatchKind(j, s.kind)
  <1>1. DecodeStruct(s, j, out) = IF bad THEN Refused(out) ELSE Assembled(mine, theirs)
    BY DEF DecodeStruct
  <1>2. CASE bad
    BY <1>1, <1>2
  <1>3. CASE ~bad
    <2>1. DecodeStruct(s, j, out) = Assembled(mine, theirs)
      BY <1>1, <1>3
    <2> HIDE DEF mine, theirs
    <2>2. \A a, b : /\ Assembled(a, b).ok = (a.ok /\ b.ok)
                    /\ Assembled(a, b).out = [own |-> a.out, bases |-> b.out]
                    /\ Assembled(a, b).out.own = a.out /\ Assembled(a, b).out.bases = b.out
      BY DEF Assembled
    <2>3. /\ DecodeStruct(s, j, out).ok = (mine.ok /\ theirs.ok)
          /\ DecodeStruct(s, j, out).out = [own |-> mine.out, bases |-> theirs.out]
          /\ DecodeStruct(s, j, out).out.own = mine.out
          /\ DecodeStruct(s, j, out).out.bases = theirs.out
      BY <2>1, <2>2
    <2>4. CASE mine.ok
      <3>1. theirs = DecodeBases(s, j, out.bases)
        BY <2>4 DEF theirs
      <3> QED
        BY <1>3, <2>3, <2>4, <3>1 DEF mine
    <2>5. CASE ~mine.ok
      <3>1. theirs.out = out.bases
        BY <2>5, OutIs DEF theirs
      <3> QED
        BY <1>3, <2>3, <2>5, <3>1 DEF mine
    <2> QED
      BY <2>4, <2>5
  <1> QED
    BY <1>2, <1>3

LEMMA StructDecodesSound ==
    ASSUME Overloads, NEW t \in AllTypes, t[1] = "struct", NEW n \in Nat,
           \A m \in Nat : m < n => \A u \in AllTypes : DecodesSound(m, u),
           \A u \in AllTypes : Rank(u) < Rank(t) => DecodesSound(n, u)
    PROVE  DecodesSound(n, t)
  <1> SUFFICES ASSUME NEW j, NEW out, GoodJson(n, j), Sound(t, out)
               PROVE  Sound(t, Decode(t, j, out).out)
    BY DEF DecodesSound
  <1> DEFINE s == t[2]
             d == DecodeStruct(s, j, out)
  <1>1. Decode(t, j, out) = d
    BY DecodeIs
  <1>2. /\ out = [own |-> out.own, bases |-> out.bases]
        /\ IsMap(out.own) /\ Required(s) \subseteq DOMAIN out.own /\ DOMAIN out.own \subseteq Names(s)
        /\ IsSequence(out.bases) /\ Len(out.bases) = Len(s.bases)
        /\ \A x \in DOMAIN out.own \cap Names(s) : Sound(Property(s, x).type, out.own[x])
        /\ \A i \in DOMAIN s.bases : Sound(Ref(s.bases[i]), out.bases[i])
    BY SoundStruct
  <1>3. CASE d = Refused(out)
    BY <1>1, <1>3, OutIs
  <1>4. CASE /\ Kind(j) = "object"
             /\ d.out.own = DecodeMembers(s, j, out.own).out
             /\ d.out.bases \in {out.bases, DecodeBases(s, j, out.bases).out}
             /\ d.out = [own |-> d.out.own, bases |-> d.out.bases]
    <2>1. \A x \in DOMAIN out.own : Sound(Property(s, x).type, out.own[x])
      BY <1>2
    <2> DEFINE m == DecodeMembers(s, j, out.own)
               b == DecodeBases(s, j, out.bases)
    <2>2. /\ IsMap(m.out) /\ Required(s) \subseteq DOMAIN m.out /\ DOMAIN m.out \subseteq Names(s)
          /\ \A x \in DOMAIN m.out : Sound(Property(s, x).type, m.out[x])
      BY <1>2, <1>4, <2>1, MembersDecodeSound
    <2>3. /\ IsSequence(b.out) /\ Len(b.out) = Len(s.bases)
          /\ \A i \in DOMAIN s.bases : Sound(Ref(s.bases[i]), b.out[i])
      BY <1>2, BasesDecodeSound
    <2> HIDE DEF m, b
    <2>4. d.out.own = m.out /\ d.out.bases \in {out.bases, b.out}
      BY <1>4 DEF m, b
    <2> HIDE DEF d
    <2>5. Sound(t, d.out)
      BY <1>2, <1>4, <2>2, <2>3, <2>4, SoundStruct
    <2> QED
      BY <1>1, <2>5
  <1>5. \/ d = Refused(out)
        \/ /\ Kind(j) = "object"
           /\ d.out.own = DecodeMembers(s, j, out.own).out
           /\ d.out.bases \in {out.bases, DecodeBases(s, j, out.bases).out}
           /\ d.out = [own |-> d.out.own, bases |-> d.out.bases]
    BY StructDecodes
  <1> QED
    BY <1>3, <1>4, <1>5

LEMMA DecodeSound ==
    ASSUME Overloads
    PROVE  \A n \in Nat : \A t \in AllTypes : DecodesSound(n, t)
  <1> DEFINE Wrong(n, r) == \E t \in AllTypes : Rank(t) = r /\ ~DecodesSound(n, t)
             Bad == {p \in Nat \X Nat : Wrong(p[1], p[2])}
  <1>1. ASSUME Bad # {}
        PROVE  FALSE
    <2>1. Bad \in SUBSET (Nat \X Nat)
      OBVIOUS
    <2>2. PICK m \in Bad : \A k \in Bad : m[1] <= k[1] /\ (m[1] = k[1] => m[2] <= k[2])
      BY <1>1, <2>1, LeastPair
    <2> DEFINE n == m[1]
    <2>3. n \in Nat
      BY <2>2
    <2>4. PICK t \in AllTypes : Rank(t) = m[2] /\ ~DecodesSound(n, t)
      BY <2>2
    <2>5. ASSUME NEW a \in Nat, NEW u \in AllTypes, a < n \/ (a = n /\ Rank(u) < Rank(t))
          PROVE  DecodesSound(a, u)
      <3>1. SUFFICES ASSUME ~DecodesSound(a, u)
                     PROVE  FALSE
        OBVIOUS
      <3>2. Rank(u) \in Nat /\ Rank(t) \in Nat
        BY RankAssumption
      <3> DEFINE q == <<a, Rank(u)>>
      <3>3. q \in Bad /\ q[1] = a /\ q[2] = Rank(u)
        BY <3>1, <3>2
      <3> HIDE DEF q, Bad
      <3>4. n <= a /\ (n = a => Rank(t) <= Rank(u))
        BY <2>2, <2>4, <3>3
      <3> QED
        BY <2>3, <2>5, <3>2, <3>4
    <2> HIDE DEF n, Bad
    <2>6. \A a \in Nat : a < n => \A u \in AllTypes : DecodesSound(a, u)
      BY <2>5
    <2>7. \A u \in AllTypes : Rank(u) < Rank(t) => DecodesSound(n, u)
      BY <2>3, <2>5
    <2>8. CASE t[1] \in {"null", "boolean", "integer", "uinteger", "decimal", "string"}
      BY <2>3, <2>4, <2>8, PrimitiveSound
    <2>9. CASE t[1] \in {"vector", "map"}
      <3>1. t[2] \in AllTypes
        BY <2>9, TypeIs
      <3> QED
        BY <2>3, <2>4, <2>6, <2>9, <3>1, VectorDecodesSound, MapDecodesSound
    <2>10. CASE t[1] = "tuple"
      BY <2>3, <2>4, <2>6, <2>10, TupleDecodesSound
    <2>11. CASE t[1] = "oneof"
      BY <2>3, <2>4, <2>7, <2>11, OneOfDecodesSound
    <2>12. CASE t[1] = "enum"
      BY <2>3, <2>4, <2>12, EnumDecodesSound
    <2>13. CASE t[1] = "struct"
      BY <2>3, <2>4, <2>6, <2>7, <2>13, StructDecodesSound
    <2>14. CASE t[1] = "ref"
      BY <2>3, <2>4, <2>7, <2>14, RefDecodesSound
    <2> QED
      BY <2>8, <2>9, <2>10, <2>11, <2>12, <2>13, <2>14, TypeIs
  <1>2. ASSUME NEW n \in Nat, NEW t \in AllTypes, ~DecodesSound(n, t)
        PROVE  FALSE
    <2>1. Rank(t) \in Nat
      BY RankAssumption
    <2>2. <<n, Rank(t)>> \in Bad
      BY <1>2, <2>1
    <2> QED
      BY <1>1, <2>2
  <1> QED
    BY <1>2

-----------------------------------------------------------------------------
(* Encode() of a value of its type is JSON, or aborts on an empty OneOf. *)

LEMMA Deepen ==
    ASSUME NEW n \in Nat, NEW j, GoodJson(n, j)
    PROVE  GoodJson(n + 1, j)
  <1>1. n + 1 \in Nat /\ n + 1 >= n
    OBVIOUS
  <1>2. L(Json, j, n + 1) = {}
    BY <1>1, DeepEnough DEF GoodJson
  <1> QED
    BY <1>2 DEF GoodJson, Shallow

Hollow(t, v) == \E p : Holds(t, v, p) /\ p[1][1] = "oneof" /\ p[2] = <<>>

LEMMA HollowIs ==
    ASSUME NEW t, NEW v
    PROVE  Hollow(t, v) <=> \/ t[1] = "oneof" /\ v = <<>>
                            \/ \E p \in Inside(t, v) : Hollow(p[1], p[2])
  <1>1. \A q : Holds(t, v, q) <=> q = <<t, v>> \/ \E p \in Inside(t, v) : Holds(p[1], p[2], q)
    BY HoldsIs
  <1>2. <<t, v>>[1] = t /\ <<t, v>>[2] = v
    OBVIOUS
  <1> QED
    BY <1>1, <1>2, Zenon DEF Hollow

(* The values inside, by the form of the type *)
LEMMA InsideVector ==
    ASSUME NEW t, NEW v, t[1] \in {"vector", "map"}
    PROVE  \A p : p \in Inside(t, v) <=> \E i \in DOMAIN v : p = <<t[2], v[i]>>
  BY InsideIs

LEMMA InsideTuple ==
    ASSUME NEW t, NEW v, t[1] = "tuple"
    PROVE  \A p : p \in Inside(t, v) <=> \E i \in DOMAIN t[2] \cap DOMAIN v : p = <<t[2][i], v[i]>>
  BY InsideIs

LEMMA InsideOneOf ==
    ASSUME NEW t, NEW v, t[1] = "oneof", v # <<>>
    PROVE  \A p : p \in Inside(t, v) <=> p = <<t[2][v[1]], v[2]>>
  BY InsideIs

LEMMA InsideStruct ==
    ASSUME NEW t, NEW v, t[1] = "struct", NEW s, s = t[2]
    PROVE  \A p : p \in Inside(t, v) <=>
              \/ \E n \in Names(s) \cap DOMAIN v.own : p = <<Property(s, n).type, v.own[n]>>
              \/ \E i \in DOMAIN s.bases : p = <<Ref(s.bases[i]), v.bases[i]>>
  BY InsideIs

LEMMA InsideRef ==
    ASSUME NEW t, NEW v, t[1] = "ref"
    PROVE  \A p : p \in Inside(t, v) <=> p = <<Resolve(t[2]), v>>
  BY InsideIs

LEMMA InsideTypes ==
    ASSUME NEW t \in AllTypes, NEW v, Sound(t, v)
    PROVE  \A p \in Inside(t, v) : p[1] \in AllTypes
  <1> SUFFICES ASSUME NEW p \in Inside(t, v)
               PROVE  p[1] \in AllTypes
    OBVIOUS
  <1>1. CASE t[1] \in {"vector", "map"}
    <2>1. PICK i \in DOMAIN v : p = <<t[2], v[i]>>
      BY <1>1, InsideVector
    <2> QED
      BY <1>1, <2>1, TypeIs
  <1>2. CASE t[1] = "tuple"
    <2>1. PICK i \in DOMAIN t[2] \cap DOMAIN v : p = <<t[2][i], v[i]>>
      BY <1>2, InsideTuple
    <2> QED
      BY <1>2, <2>1, TypeIs
  <1>3. CASE t[1] = "oneof"
    <2>1. v # <<>>
      BY <1>3, InsideIs
    <2>2. p = <<t[2][v[1]], v[2]>>
      BY <1>3, <2>1, InsideOneOf
    <2>3. v[1] \in DOMAIN t[2]
      BY <1>3, <2>1, SoundOneOf
    <2> QED
      BY <1>3, <2>2, <2>3, TypeIs
  <1>4. CASE t[1] = "struct"
    <2> DEFINE s == t[2]
    <2>1. CASE \E n \in Names(s) \cap DOMAIN v.own : p = <<Property(s, n).type, v.own[n]>>
      <3>1. PICK n \in Names(s) \cap DOMAIN v.own : p = <<Property(s, n).type, v.own[n]>>
        BY <2>1
      <3> QED
        BY <1>4, <3>1, NamesAre
    <2>2. CASE \E i \in DOMAIN s.bases : p = <<Ref(s.bases[i]), v.bases[i]>>
      BY <1>4, <2>2, BasesAre
    <2> QED
      BY <1>4, <2>1, <2>2, InsideStruct
  <1>5. CASE t[1] = "ref"
    <2>1. p = <<Resolve(t[2]), v>>
      BY <1>5, InsideRef
    <2> QED
      BY <1>5, <2>1, TypeIs
  <1> QED
    BY <1>1, <1>2, <1>3, <1>4, <1>5, InsideIs, TypeIs

EncodesGood(n, t, v) ==
    IF Hollow(t, v) THEN Encode(t, v) = Aborted ELSE GoodJson(n + 1, Encode(t, v))

(* What is JSON is not taken for Aborted. *)
LEMMA JsonNotAborted ==
    ASSUME NEW n \in Nat, NEW j, GoodJson(n, j)
    PROVE  j # Aborted
  <1>1. IsJson(j)
    BY GoodJsonIs
  <1>2. Kind(j) # "aborted"
    BY <1>1, JsonIs
  <1> QED
    BY <1>2 DEF Kind, Aborted

LEMMA EncodeIs ==
    ASSUME Overloads, NEW t \in AllTypes, NEW v
    PROVE  /\ t[1] = "null" => Encode(t, v) = JNull
           /\ t[1] = "boolean" => Encode(t, v) = JBool(v)
           /\ t[1] = "integer" => Encode(t, v) = JI64(v)
           /\ t[1] = "uinteger" => Encode(t, v) = JU64(v)
           /\ t[1] = "decimal" => Encode(t, v) = JF64(v)
           /\ t[1] = "string" => Encode(t, v) = JString(v)
           /\ t[1] = "vector" => Encode(t, v) = Elements([i \in 1..Len(v) |-> Encode(t[2], v[i])])
           /\ t[1] = "map" => Encode(t, v) = EncodeMap(t[2], v)
           /\ t[1] = "tuple" => Encode(t, v) = Elements([i \in 1..Len(t[2]) |-> Encode(t[2][i], v[i])])
           /\ t[1] = "oneof" => Encode(t, v) = Visit(t[2], v)
           /\ t[1] = "enum" => Encode(t, v) = Encode(t[2], t[3][v])
           /\ t[1] = "struct" => Encode(t, v) = EncodeStruct(t[2], v)
           /\ t[1] = "ref" => Encode(t, v) = Encode(Resolve(t[2]), v)
  <1>1. Encode(t, v) = EncodeOverload(t, v)
    BY FormIs
  <1> QED
    BY <1>1 DEF EncodeOverload

LEMMA PrimitiveEncodes ==
    ASSUME Overloads, NEW t \in AllTypes, NEW v, NEW n \in Nat, WellTyped(t, v),
           t[1] \in {"null", "boolean", "integer", "uinteger", "decimal", "string"}
    PROVE  GoodJson(n + 1, Encode(t, v)) /\ ~Container(Encode(t, v))
  <1> DEFINE j == Encode(t, v)
  <1>1. IsJson(j) /\ ~Container(j)
    <2>1. CASE t[1] = "null"
      <3>1. j = JNull
        BY <2>1, EncodeIs
      <3> HIDE DEF j
      <3> QED
        BY <3>1 DEF JNull, IsJson, Container, Kind
    <2>2. CASE t[1] = "boolean"
      <3>1. j = JBool(v)
        BY <2>2, EncodeIs
      <3>2. v \in BOOLEAN
        BY <2>2, WellTypedIs, Zenon
      <3> HIDE DEF j
      <3>3. Kind(j) = "bool" /\ j[2] \in BOOLEAN /\ j = JBool(j[2])
        BY <3>1, <3>2 DEF JBool, Kind
      <3> QED
        BY <3>3 DEF IsJson, Container
    <2>3. CASE t[1] = "integer"
      <3>1. j = JI64(v)
        BY <2>3, EncodeIs
      <3>2. v \in -MaxI64 - 1 .. MaxI64
        BY <2>3, WellTypedIs
      <3> HIDE DEF j
      <3>3. Kind(j) = "int" /\ j[2] \in -MaxI64 - 1 .. MaxI64 /\ j = JI64(j[2])
        BY <3>1, <3>2 DEF JI64, Kind
      <3> QED
        BY <3>3 DEF IsJson, Container
    <2>4. CASE t[1] = "uinteger"
      <3>1. j = JU64(v)
        BY <2>4, EncodeIs
      <3>2. v \in 0..MaxU64
        BY <2>4, WellTypedIs
      <3> HIDE DEF j
      <3>3. Kind(j) = "uint" /\ j[2] \in 0..MaxU64 /\ j = JU64(j[2])
        BY <3>1, <3>2 DEF JU64, Kind
      <3> QED
        BY <3>3 DEF IsJson, Container
    <2>5. CASE t[1] = "decimal"
      <3>1. j = JF64(v)
        BY <2>5, EncodeIs
      <3>2. v \in Int
        BY <2>5, WellTypedIs
      <3> HIDE DEF j
      <3>3. Kind(j) = "real" /\ j[2] \in Int /\ j = JF64(j[2])
        BY <3>1, <3>2 DEF JF64, Kind
      <3> QED
        BY <3>3 DEF IsJson, Container
    <2>6. CASE t[1] = "string"
      <3>1. j = JString(v)
        BY <2>6, EncodeIs
      <3>2. v \in STRING
        BY <2>6, WellTypedIs
      <3> HIDE DEF j
      <3>3. Kind(j) = "string" /\ j[2] \in STRING /\ j = JString(j[2])
        BY <3>1, <3>2 DEF JString, Kind
      <3> QED
        BY <3>3 DEF IsJson, Container
    <2> QED
      BY <2>1, <2>2, <2>3, <2>4, <2>5, <2>6
  <1>2. n + 1 \in Nat /\ n + 1 # 0
    OBVIOUS
  <1> HIDE DEF j
  <1>3. GoodJson(n + 1, j)
    BY <1>1, <1>2, GoodJsonIs
  <1> QED
    BY <1>1, <1>3 DEF j

(* What a container of encoded values is *)
LEMMA ElementsIs ==
    ASSUME NEW N \in Nat, NEW e, e = [i \in 1..N |-> e[i]]
    PROVE  /\ (\E i \in 1..N : e[i] = Aborted) => Elements(e) = Aborted
           /\ (\A i \in 1..N : e[i] # Aborted) =>
                 /\ Elements(e) = <<"array", e>> /\ IsJson(Elements(e)) /\ Container(Elements(e))
                 /\ Kind(Elements(e)) = "array" /\ Count(Elements(e)) = N
                 /\ Elements(e)[2] = e /\ DOMAIN e = 1..N
  <1>1. DOMAIN e = 1..N
    BY Zenon
  <1>2. Elements(e) = IF \E i \in 1..N : e[i] = Aborted THEN Aborted ELSE <<"array", e>>
    BY <1>1 DEF Elements, Array
  <1>3. IsSequence(e) /\ Len(e) = N
    BY <1>1, MakeSequence
  <1> DEFINE j == <<"array", e>>
  <1>4. j[1] = "array" /\ j[2] = e /\ j = Array(j[2])
    BY DEF Array
  <1> HIDE DEF j
  <1>5. Kind(j) = "array" /\ Container(j) /\ Count(j) = N /\ IsJson(j)
    BY <1>3, <1>4 DEF Kind, Container, Count, IsJson
  <1> QED
    BY <1>1, <1>2, <1>4, <1>5 DEF j

LEMMA VectorEncodes ==
    ASSUME Overloads, NEW t \in AllTypes, t[1] = "vector", NEW v, Sound(t, v), NEW n \in Nat, n # 0,
           \A p \in Inside(t, v) : EncodesGood(n - 1, p[1], p[2])
    PROVE  EncodesGood(n, t, v)
  <1> DEFINE u == t[2]
             N == Len(v)
             e == [i \in 1..N |-> Encode(u, v[i])]
  <1>1. N \in Nat /\ DOMAIN v = 1..N
    BY SoundVector, SequenceIs
  <1>2. Encode(t, v) = Elements(e)
    BY EncodeIs
  <1>3. \A i \in 1..N : <<u, v[i]>> \in Inside(t, v)
    BY <1>1, InsideVector
  <1>4. \A i \in 1..N : EncodesGood(n - 1, u, v[i])
    BY <1>3
  <1>5. (n - 1) + 1 = n /\ n + 1 \in Nat /\ n + 1 # 0 /\ (n + 1) - 1 = n
    OBVIOUS
  <1>6. Hollow(t, v) <=> \E i \in 1..N : Hollow(u, v[i])
    <2>1. Hollow(t, v) <=> \E p \in Inside(t, v) : Hollow(p[1], p[2])
      BY HollowIs
    <2>2. \A p \in Inside(t, v) : \E i \in 1..N : p = <<u, v[i]>>
      BY <1>1, InsideVector
    <2> HIDE DEF N
    <2>3. ASSUME NEW i \in 1..N, Hollow(u, v[i])
          PROVE  \E p \in Inside(t, v) : Hollow(p[1], p[2])
      <3> DEFINE p == <<u, v[i]>>
      <3>1. p \in Inside(t, v) /\ p[1] = u /\ p[2] = v[i]
        BY <1>3
      <3> HIDE DEF p
      <3> QED
        BY <2>3, <3>1
    <2>4. ASSUME NEW p \in Inside(t, v), Hollow(p[1], p[2])
          PROVE  \E i \in 1..N : Hollow(u, v[i])
      <3>1. PICK i \in 1..N : p = <<u, v[i]>>
        BY <2>2
      <3> QED
        BY <2>4, <3>1
    <2> QED
      BY <2>1, <2>3, <2>4
  <1>7. \A i \in 1..N : e[i] = Encode(u, v[i])
    OBVIOUS
  <1>8. e = [i \in 1..N |-> e[i]]
    OBVIOUS
  <1> HIDE DEF N, e
  <1>9. CASE Hollow(t, v)
    <2>1. PICK i \in 1..N : Hollow(u, v[i])
      BY <1>6, <1>9
    <2>2. e[i] = Aborted
      BY <1>4, <1>7, <2>1 DEF EncodesGood
    <2>3. Elements(e) = Aborted
      BY <1>1, <1>8, <2>2, ElementsIs
    <2> QED
      BY <1>2, <1>9, <2>3 DEF EncodesGood
  <1>10. CASE ~Hollow(t, v)
    <2>1. \A i \in 1..N : GoodJson(n, e[i])
      BY <1>4, <1>5, <1>6, <1>7, <1>10 DEF EncodesGood
    <2>2. \A i \in 1..N : e[i] # Aborted
      BY <2>1, JsonNotAborted
    <2>3. /\ IsJson(Elements(e)) /\ Elements(e)[2] = e /\ DOMAIN e = 1..N
      BY <1>1, <1>8, <2>2, ElementsIs
    <2> DEFINE j == Elements(e)
    <2>4. GoodJson(n + 1, j)
      <3>1. \A i \in DOMAIN j[2] : GoodJson((n + 1) - 1, j[2][i])
        BY <1>5, <2>1, <2>3
      <3> HIDE DEF j
      <3> QED
        BY <1>5, <2>3, <3>1, GoodJsonIs DEF j
    <2> QED
      BY <1>2, <1>10, <2>4 DEF EncodesGood
  <1> QED
    BY <1>9, <1>10

LEMMA TupleEncodes ==
    ASSUME Overloads, NEW t \in AllTypes, t[1] = "tuple", NEW v, Sound(t, v), NEW n \in Nat, n # 0,
           \A p \in Inside(t, v) : EncodesGood(n - 1, p[1], p[2])
    PROVE  EncodesGood(n, t, v)
  <1> DEFINE ts == t[2]
             N == Len(ts)
             e == [i \in 1..N |-> Encode(ts[i], v[i])]
  <1>1. N \in Nat /\ DOMAIN ts = 1..N /\ DOMAIN v = 1..N
    <2>1. N \in Nat /\ DOMAIN ts = 1..N
      BY TypeIs, SequenceIs
    <2>2. IsSequence(v) /\ Len(v) = N
      BY SoundTuple
    <2> QED
      BY <2>1, <2>2, SequenceIs
  <1>2. Encode(t, v) = Elements(e)
    BY EncodeIs
  <1>3. \A i \in 1..N : <<ts[i], v[i]>> \in Inside(t, v)
    <2>1. DOMAIN ts \cap DOMAIN v = 1..N
      BY <1>1
    <2> QED
      BY <2>1, InsideTuple
  <1>4. \A i \in 1..N : EncodesGood(n - 1, ts[i], v[i])
    BY <1>3
  <1>5. (n - 1) + 1 = n /\ n + 1 \in Nat /\ n + 1 # 0 /\ (n + 1) - 1 = n
    OBVIOUS
  <1>6. Hollow(t, v) <=> \E i \in 1..N : Hollow(ts[i], v[i])
    <2>1. Hollow(t, v) <=> \E p \in Inside(t, v) : Hollow(p[1], p[2])
      BY HollowIs
    <2>2. \A p \in Inside(t, v) : \E i \in 1..N : p = <<ts[i], v[i]>>
      <3>1. DOMAIN ts \cap DOMAIN v = 1..N
        BY <1>1
      <3> QED
        BY <3>1, InsideTuple
    <2> HIDE DEF N
    <2>3. ASSUME NEW i \in 1..N, Hollow(ts[i], v[i])
          PROVE  \E p \in Inside(t, v) : Hollow(p[1], p[2])
      <3> DEFINE p == <<ts[i], v[i]>>
      <3>1. p \in Inside(t, v) /\ p[1] = ts[i] /\ p[2] = v[i]
        BY <1>3
      <3> HIDE DEF p
      <3> QED
        BY <2>3, <3>1
    <2>4. ASSUME NEW p \in Inside(t, v), Hollow(p[1], p[2])
          PROVE  \E i \in 1..N : Hollow(ts[i], v[i])
      <3>1. PICK i \in 1..N : p = <<ts[i], v[i]>>
        BY <2>2
      <3> QED
        BY <2>4, <3>1
    <2> QED
      BY <2>1, <2>3, <2>4
  <1>7. \A i \in 1..N : e[i] = Encode(ts[i], v[i])
    OBVIOUS
  <1>8. e = [i \in 1..N |-> e[i]]
    OBVIOUS
  <1> HIDE DEF N, e
  <1>9. CASE Hollow(t, v)
    <2>1. PICK i \in 1..N : Hollow(ts[i], v[i])
      BY <1>6, <1>9
    <2>2. e[i] = Aborted
      BY <1>4, <1>7, <2>1 DEF EncodesGood
    <2>3. Elements(e) = Aborted
      BY <1>1, <1>8, <2>2, ElementsIs
    <2> QED
      BY <1>2, <1>9, <2>3 DEF EncodesGood
  <1>10. CASE ~Hollow(t, v)
    <2>1. \A i \in 1..N : GoodJson(n, e[i])
      BY <1>4, <1>5, <1>6, <1>7, <1>10 DEF EncodesGood
    <2>2. \A i \in 1..N : e[i] # Aborted
      BY <2>1, JsonNotAborted
    <2>3. /\ IsJson(Elements(e)) /\ Elements(e)[2] = e /\ DOMAIN e = 1..N
      BY <1>1, <1>8, <2>2, ElementsIs
    <2> DEFINE j == Elements(e)
    <2>4. GoodJson(n + 1, j)
      <3>1. \A i \in DOMAIN j[2] : GoodJson((n + 1) - 1, j[2][i])
        BY <1>5, <2>1, <2>3
      <3> HIDE DEF j
      <3> QED
        BY <1>5, <2>3, <3>1, GoodJsonIs DEF j
    <2> QED
      BY <1>2, <1>10, <2>4 DEF EncodesGood
  <1> QED
    BY <1>9, <1>10

LEMMA OneOfEncodes ==
    ASSUME Overloads, NEW t \in AllTypes, t[1] = "oneof", NEW v, Sound(t, v), NEW n \in Nat, n # 0,
           \A p \in Inside(t, v) : EncodesGood(n - 1, p[1], p[2])
    PROVE  EncodesGood(n, t, v)
  <1>1. Encode(t, v) = Visit(t[2], v)
    BY EncodeIs
  <1>2. Hollow(t, v) <=> v = <<>> \/ \E p \in Inside(t, v) : Hollow(p[1], p[2])
    BY HollowIs
  <1>3. CASE v = <<>>
    BY <1>1, <1>2, <1>3 DEF Visit, EncodesGood
  <1>4. CASE v # <<>>
    <2> DEFINE u == t[2][v[1]]
               p == <<u, v[2]>>
    <2>1. Encode(t, v) = Encode(u, v[2])
      BY <1>1, <1>4 DEF Visit
    <2>2. \A q : q \in Inside(t, v) <=> q = p
      BY <1>4, InsideOneOf
    <2>3. p \in Inside(t, v) /\ p[1] = u /\ p[2] = v[2]
      BY <2>2
    <2> HIDE DEF p
    <2>4. Hollow(t, v) <=> Hollow(u, v[2])
      BY <1>2, <1>4, <2>2, <2>3
    <2>5. EncodesGood(n - 1, u, v[2])
      BY <2>3
    <2> HIDE DEF u
    <2>6. (n - 1) + 1 = n
      OBVIOUS
    <2>7. GoodJson(n, Encode(u, v[2])) => GoodJson(n + 1, Encode(u, v[2]))
      BY Deepen
    <2> QED
      BY <2>1, <2>4, <2>5, <2>6, <2>7 DEF EncodesGood
  <1> QED
    BY <1>3, <1>4

LEMMA RefEncodes ==
    ASSUME Overloads, NEW t \in AllTypes, t[1] = "ref", NEW v, NEW n \in Nat, n # 0,
           \A p \in Inside(t, v) : EncodesGood(n - 1, p[1], p[2])
    PROVE  EncodesGood(n, t, v)
  <1> DEFINE u == Resolve(t[2])
             p == <<u, v>>
  <1>1. Encode(t, v) = Encode(u, v)
    BY EncodeIs
  <1>2. \A q : q \in Inside(t, v) <=> q = p
    BY InsideRef
  <1>3. p \in Inside(t, v) /\ p[1] = u /\ p[2] = v
    BY <1>2
  <1> HIDE DEF p
  <1>4. Hollow(t, v) <=> Hollow(u, v)
    <2>1. Hollow(t, v) <=> \E q \in Inside(t, v) : Hollow(q[1], q[2])
      BY HollowIs
    <2> QED
      BY <1>2, <1>3, <2>1
  <1>5. EncodesGood(n - 1, u, v)
    BY <1>3
  <1> HIDE DEF u
  <1>6. (n - 1) + 1 = n
    OBVIOUS
  <1>7. GoodJson(n, Encode(u, v)) => GoodJson(n + 1, Encode(u, v))
    BY Deepen
  <1> QED
    BY <1>1, <1>4, <1>5, <1>6, <1>7 DEF EncodesGood

LEMMA EnumEncodes ==
    ASSUME Overloads, NEW t \in AllTypes, t[1] = "enum", NEW v, Sound(t, v), NEW n \in Nat
    PROVE  EncodesGood(n, t, v)
  <1>1. Encode(t, v) = Encode(t[2], t[3][v])
    BY EncodeIs
  <1>2. v \in DOMAIN t[3]
    <2>1. WellTyped(t, v)
      BY SoundIs
    <2> QED
      BY <2>1, WellTypedIs
  <1>3. /\ t[2] \in AllTypes /\ t[2] \in {Integer, Uinteger, String}
        /\ WellTyped(t[2], t[3][v])
    BY <1>2, TypeIs
  <1>4. t[2][1] \in {"integer", "uinteger", "string"}
    BY <1>3 DEF Integer, Uinteger, String
  <1>5. ~Hollow(t, v)
    <2>1. Inside(t, v) = {}
      BY InsideIs
    <2> QED
      BY <2>1, HollowIs
  <1>6. GoodJson(n + 1, Encode(t[2], t[3][v]))
    BY <1>3, <1>4, PrimitiveEncodes
  <1> QED
    BY <1>1, <1>5, <1>6 DEF EncodesGood

(* An object built from groups of members *)
Group(g) == IsFiniteSet(DOMAIN g) /\ DOMAIN g \subseteq STRING

LEMMA ObjectIs ==
    ASSUME NEW groups, NEW N \in Nat, DOMAIN groups = 1..N, \A i \in 1..N : Group(groups[i]),
           NEW j, j = Object(groups)
    PROVE  /\ j = <<"object", j[2]>> /\ Kind(j) = "object" /\ Container(j) /\ IsJson(j)
           /\ \A x : x \in DOMAIN j[2] <=> \E i \in 1..N : x \in DOMAIN groups[i]
           /\ \A x \in DOMAIN j[2] : \E i \in 1..N :
                 /\ x \in DOMAIN groups[i] /\ j[2][x] = groups[i][x]
                 /\ \A k \in 1..N : x \in DOMAIN groups[k] => k <= i
  <1> DEFINE D == UNION {DOMAIN groups[i] : i \in DOMAIN groups}
             Last(x) == CHOOSE i \in DOMAIN groups :
                 x \in DOMAIN groups[i] /\ \A k \in DOMAIN groups : x \in DOMAIN groups[k] => k <= i
             Is(x, i) == /\ i \in DOMAIN groups /\ x \in DOMAIN groups[i]
                         /\ \A k \in DOMAIN groups : x \in DOMAIN groups[k] => k <= i
             f == [x \in D |-> groups[Last(x)][x]]
  <1>1. j = <<"object", f>>
    BY DEF Object
  <1>2. ASSUME NEW x \in D
        PROVE  Is(x, Last(x))
    <2> DEFINE T == {N - i : i \in {k \in 1..N : x \in DOMAIN groups[k]}}
    <2>1. T \in SUBSET Nat
      OBVIOUS
    <2>2. T # {}
      OBVIOUS
    <2>3. PICK m \in T : \A k \in T : m <= k
      BY <2>1, <2>2, Smallest, Zenon
    <2>4. PICK i \in 1..N : x \in DOMAIN groups[i] /\ m = N - i
      OBVIOUS
    <2>5. ASSUME NEW k \in 1..N, x \in DOMAIN groups[k]
          PROVE  k <= i
      <3>1. N - k \in T
        BY <2>5
      <3>2. N - i <= N - k
        BY <2>3, <2>4, <3>1
      <3> QED
        BY <3>2
    <2>6. Is(x, i)
      BY <2>4, <2>5
    <2> HIDE DEF T
    <2> QED
      BY <2>6, Zenon
  <1>3. j[1] = "object" /\ j[2] = f
    BY <1>1
  <1>4. DOMAIN f = D /\ f = [x \in DOMAIN f |-> f[x]]
    OBVIOUS
  <1>5. \A x \in D : f[x] = groups[Last(x)][x]
    OBVIOUS
  <1> HIDE DEF f, Last
  <1>6. IsFiniteSet(D)
    <2> DEFINE P == {DOMAIN groups[i] : i \in 1..N}
               g == [i \in 1..N |-> DOMAIN groups[i]]
    <2>1. IsFiniteSet(1..N)
      BY FS_Interval
    <2>2. g \in Surjection(1..N, P)
      BY DEF Surjection
    <2>3. IsFiniteSet(P)
      BY <2>1, <2>2, FS_Surjection
    <2>4. \A T \in P : IsFiniteSet(T)
      BY DEF Group
    <2> HIDE DEF P
    <2>5. IsFiniteSet(UNION P)
      BY <2>3, <2>4, FS_UNION
    <2> QED
      BY <2>5 DEF P
  <1>7. D \subseteq STRING
    BY DEF Group
  <1>8. \A x : x \in D <=> \E i \in 1..N : x \in DOMAIN groups[i]
    OBVIOUS
  <1> HIDE DEF D
  <1>9. IsMap(j[2])
    BY <1>3, <1>4, <1>6, <1>7 DEF IsMap
  <1>10. j = <<"object", j[2]>> /\ Kind(j) = "object"
    BY <1>1, <1>3 DEF Kind
  <1>11. Container(j) /\ IsJson(j)
    BY <1>9, <1>10 DEF Container, IsJson
  <1> QED
    BY <1>2, <1>3, <1>4, <1>5, <1>8, <1>10, <1>11

LEMMA MapEncodes ==
    ASSUME Overloads, NEW t \in AllTypes, t[1] = "map", NEW v, Sound(t, v), NEW n \in Nat, n # 0,
           \A p \in Inside(t, v) : EncodesGood(n - 1, p[1], p[2])
    PROVE  EncodesGood(n, t, v)
  <1> DEFINE u == t[2]
             e == [x \in DOMAIN v |-> Encode(u, v[x])]
             groups == <<e>>
             j == Object(groups)
             N == 1
  <1>1. IsMap(v)
    BY SoundMap
  <1>2. Encode(t, v) = IF \E x \in DOMAIN v : e[x] = Aborted THEN Aborted ELSE j
    BY EncodeIs DEF EncodeMap
  <1>3. \A x \in DOMAIN v : <<u, v[x]>> \in Inside(t, v)
    BY InsideVector
  <1>4. \A x \in DOMAIN v : EncodesGood(n - 1, u, v[x])
    BY <1>3
  <1>5. (n - 1) + 1 = n /\ n + 1 \in Nat /\ n + 1 # 0 /\ (n + 1) - 1 = n
    OBVIOUS
  <1>6. Hollow(t, v) <=> \E x \in DOMAIN v : Hollow(u, v[x])
    <2>1. Hollow(t, v) <=> \E p \in Inside(t, v) : Hollow(p[1], p[2])
      BY HollowIs
    <2>2. \A p \in Inside(t, v) : \E x \in DOMAIN v : p = <<u, v[x]>>
      BY InsideVector
    <2>3. ASSUME NEW x \in DOMAIN v, Hollow(u, v[x])
          PROVE  \E p \in Inside(t, v) : Hollow(p[1], p[2])
      <3> DEFINE p == <<u, v[x]>>
      <3>1. p \in Inside(t, v) /\ p[1] = u /\ p[2] = v[x]
        BY <1>3
      <3> HIDE DEF p
      <3> QED
        BY <2>3, <3>1
    <2>4. ASSUME NEW p \in Inside(t, v), Hollow(p[1], p[2])
          PROVE  \E x \in DOMAIN v : Hollow(u, v[x])
      <3>1. PICK x \in DOMAIN v : p = <<u, v[x]>>
        BY <2>2
      <3> QED
        BY <2>4, <3>1
    <2> QED
      BY <2>1, <2>3, <2>4
  <1>7. DOMAIN e = DOMAIN v /\ \A x \in DOMAIN v : e[x] = Encode(u, v[x])
    OBVIOUS
  <1>8. N \in Nat /\ DOMAIN groups = 1..N /\ groups[1] = e /\ \A i \in 1..N : i = 1
    OBVIOUS
  <1>11. j = Object(groups)
    OBVIOUS
  <1> HIDE DEF e, groups, j, N
  <1>9. CASE Hollow(t, v)
    BY <1>2, <1>4, <1>6, <1>7, <1>9 DEF EncodesGood
  <1>10. CASE ~Hollow(t, v)
    <2>1. \A x \in DOMAIN v : GoodJson(n, e[x])
      BY <1>4, <1>5, <1>6, <1>7, <1>10 DEF EncodesGood
    <2>2. \A x \in DOMAIN v : e[x] # Aborted
      BY <2>1, JsonNotAborted
    <2>3. \A i \in 1..N : Group(groups[i])
      BY <1>1, <1>7, <1>8 DEF Group, IsMap
    <2>4. /\ IsJson(j)
          /\ \A x \in DOMAIN j[2] : \E i \in 1..N : x \in DOMAIN groups[i] /\ j[2][x] = groups[i][x]
      BY <1>8, <1>11, <2>3, ObjectIs
    <2>5. \A x \in DOMAIN j[2] : GoodJson(n, j[2][x])
      BY <1>7, <1>8, <2>1, <2>4
    <2>6. GoodJson(n + 1, j)
      BY <1>5, <2>4, <2>5, GoodJsonIs
    <2> QED
      BY <1>2, <1>10, <2>2, <2>6 DEF EncodesGood
  <1> QED
    BY <1>9, <1>10

Groups(s, v, N, g) ==
    /\ DOMAIN g = 1..(2 + N) /\ g[1] = KindMember(s) /\ g[2] = OwnMembers(s, v)
    /\ \A i \in 1..N : 2 + i \in DOMAIN g /\ g[2 + i] = EncodedBases(s, v)[i][2]
    /\ \A k \in DOMAIN g : k = 1 \/ k = 2 \/ \E i \in 1..N : k = 2 + i

LEMMA GroupsAre ==
    ASSUME NEW s, NEW v, Len(s.bases) \in Nat
    PROVE  Groups(s, v, Len(s.bases), EncodeMembers(s, v))
  <1> DEFINE N == Len(s.bases)
             g == EncodeMembers(s, v)
             a == <<KindMember(s), OwnMembers(s, v)>>
             b == [i \in 1..N |-> EncodedBases(s, v)[i][2]]
             S == {KindMember(s), OwnMembers(s, v)} \cup {b[i] : i \in 1..N}
  <1>1. g = a \o b
    BY DEF EncodeMembers
  <1>0. N \in Nat
    OBVIOUS
  <1> HIDE DEF g, N
  <1>2. Len(a) = 2 /\ Len(b) = N /\ a \in Seq(S) /\ b \in Seq(S)
    BY <1>0
  <1>3. a[1] = KindMember(s) /\ a[2] = OwnMembers(s, v)
    OBVIOUS
  <1>4. \A i \in 1..N : b[i] = EncodedBases(s, v)[i][2]
    OBVIOUS
  <1> HIDE DEF a, b, S
  <1>5. /\ DOMAIN (a \o b) = 1..(2 + N)
        /\ \A k \in 1..(2 + N) : (a \o b)[k] = IF k <= 2 THEN a[k] ELSE b[k - 2]
    <2>1. /\ Len(a \o b) = Len(a) + Len(b) /\ a \o b \in Seq(S)
          /\ \A k \in 1..(Len(a) + Len(b)) : (a \o b)[k] = IF k <= Len(a) THEN a[k] ELSE b[k - Len(a)]
      BY <1>2, ConcatProperties
    <2>2. DOMAIN (a \o b) = 1..(2 + N)
      BY <1>2, <2>1
    <2> QED
      BY <1>2, <2>1, <2>2
  <1>6. \A i \in 1..N : 2 + i \in 1..(2 + N) /\ ~(2 + i <= 2) /\ (2 + i) - 2 = i
    BY <1>0
  <1>7. \A k \in 1..(2 + N) : k = 1 \/ k = 2 \/ \E i \in 1..N : k = 2 + i
    <2> SUFFICES ASSUME NEW k \in 1..(2 + N), k # 1, k # 2
                 PROVE  \E i \in 1..N : k = 2 + i
      OBVIOUS
    <2>1. k - 2 \in 1..N /\ k = 2 + (k - 2)
      BY <1>0
    <2> QED
      BY <2>1
  <1>8. 1 \in 1..(2 + N) /\ 2 \in 1..(2 + N)
    BY <1>0
  <1>9. Groups(s, v, N, g)
    <2>1. DOMAIN g = 1..(2 + N) /\ \A k \in 1..(2 + N) : g[k] = IF k <= 2 THEN a[k] ELSE b[k - 2]
      BY <1>1, <1>5
    <2>2. g[1] = a[1] /\ g[2] = a[2]
      BY <1>8, <2>1
    <2>3. \A i \in 1..N : 2 + i \in DOMAIN g /\ g[2 + i] = b[i]
      <3> SUFFICES ASSUME NEW i \in 1..N
                   PROVE  2 + i \in DOMAIN g /\ g[2 + i] = b[i]
        OBVIOUS
      <3>1. g[2 + i] = IF 2 + i <= 2 THEN a[2 + i] ELSE b[(2 + i) - 2]
        BY <1>6, <2>1
      <3> QED
        BY <1>6, <2>1, <3>1
    <2> QED
      BY <1>3, <1>4, <1>7, <2>1, <2>2, <2>3, Zenon DEF Groups
  <1> QED
    BY <1>9 DEF N, g

(* The encoding of base i *)
EncodedBase(s, v, i) == Encode(Ref(s.bases[i]), v.bases[i])

LEMMA BaseObject ==
    ASSUME Overloads, NEW t \in AllTypes, t[1] = "struct", NEW s, s = t[2], NEW v,
           NEW i \in DOMAIN s.bases, EncodedBase(s, v, i) # Aborted
    PROVE  Kind(EncodedBase(s, v, i)) = "object"
  <1> DEFINE b == Ref(s.bases[i])
             u == Resolve(s.bases[i])
             w == v.bases[i]
  <1>1. b \in AllTypes /\ u[1] = "struct"
    BY BasesAre
  <1>2. b[1] = "ref" /\ Resolve(b[2]) = u
    BY DEF Ref
  <1> HIDE DEF b, u
  <1>3. u \in AllTypes
    BY <1>1, <1>2, TypeIs
  <1>4. Encode(b, w) = EncodeStruct(u[2], w)
    <2>1. Encode(b, w) = Encode(Resolve(b[2]), w)
      BY <1>1, <1>2, EncodeIs
    <2>2. Encode(u, w) = EncodeStruct(u[2], w)
      BY <1>1, <1>3, EncodeIs
    <2> QED
      BY <1>2, <2>1, <2>2
  <1>5. \A x, y : EncodeStruct(x, y) = Aborted \/ EncodeStruct(x, y) = Object(EncodeMembers(x, y))
    BY DEF EncodeStruct
  <1>6. \A g : Kind(Object(g)) = "object"
    BY DEF Object, Kind
  <1>7. EncodedBase(s, v, i) = Encode(b, w)
    BY DEF EncodedBase, b
  <1> QED
    BY <1>4, <1>5, <1>6, <1>7

(* What the encoding of a structure holds *)
StructEncoding(s, v, e) ==
    /\ e = <<"object", e[2]>> /\ Kind(e) = "object" /\ Container(e) /\ IsJson(e)
    /\ \A n \in DOMAIN v.own : /\ n \in DOMAIN e[2]
                               /\ Encode(Property(s, n).type, v.own[n]) # Aborted
    /\ \A i \in DOMAIN s.bases : /\ EncodedBase(s, v, i) # Aborted
                                 /\ Kind(EncodedBase(s, v, i)) = "object"
                                 /\ DOMAIN EncodedBase(s, v, i)[2] \subseteq DOMAIN e[2]
    /\ s.kind # NoKind => "kind" \in DOMAIN e[2]
    /\ \A x \in DOMAIN e[2] :
          \/ /\ x = "kind" /\ s.kind # NoKind /\ e[2][x] = JString(s.kind)
             /\ \A i \in DOMAIN s.bases : x \notin DOMAIN EncodedBase(s, v, i)[2]
          \/ /\ x \in DOMAIN v.own /\ e[2][x] = Encode(Property(s, x).type, v.own[x])
             /\ \A i \in DOMAIN s.bases : x \notin DOMAIN EncodedBase(s, v, i)[2]
          \/ \E i \in DOMAIN s.bases : /\ x \in DOMAIN EncodedBase(s, v, i)[2]
                                       /\ e[2][x] = EncodedBase(s, v, i)[2][x]

LEMMA StructEncodes ==
    ASSUME Overloads, NEW t \in AllTypes, t[1] = "struct", NEW s, s = t[2], NEW v, Sound(t, v),
           \A i \in DOMAIN s.bases :
               EncodedBase(s, v, i) = Aborted \/ IsJson(EncodedBase(s, v, i)),
           NEW e, e = Encode(t, v)
    PROVE  /\ e = Aborted <=> \/ \E n \in DOMAIN v.own : Encode(Property(s, n).type, v.own[n]) = Aborted
                              \/ \E i \in DOMAIN s.bases : EncodedBase(s, v, i) = Aborted
           /\ e # Aborted => StructEncoding(s, v, e)
  <1> DEFINE N == Len(s.bases)
             g == EncodeMembers(s, v)
             j == Object(g)
             bad == \/ \E n \in DOMAIN v.own : Encode(Property(s, n).type, v.own[n]) = Aborted
                    \/ \E i \in DOMAIN s.bases : EncodedBase(s, v, i) = Aborted
  <1>1. N \in Nat /\ DOMAIN s.bases = 1..N
    BY BasesAre, SequenceIs
  <1>2. \A i \in 1..N : EncodedBases(s, v)[i] = EncodedBase(s, v, i)
    BY DEF EncodedBases, EncodedBase
  <1>3. /\ DOMAIN OwnMembers(s, v) = DOMAIN v.own
        /\ \A n \in DOMAIN v.own : OwnMembers(s, v)[n] = Encode(Property(s, n).type, v.own[n])
    BY DEF OwnMembers
  <1>4. e = IF bad THEN Aborted ELSE j
    <2>1. e = EncodeStruct(s, v)
      BY EncodeIs
    <2> HIDE DEF N
    <2> QED
      BY <1>1, <1>2, <1>3, <2>1 DEF EncodeStruct
  <1>5. Kind(j) = "object"
    BY DEF Object, Kind
  <1>6. j # Aborted
    <2> HIDE DEF j
    <2> QED
      BY <1>5 DEF Kind, Aborted
  <1>7. ASSUME ~bad
        PROVE  StructEncoding(s, v, j)
    <2>1. /\ \A n \in DOMAIN v.own : Encode(Property(s, n).type, v.own[n]) # Aborted
          /\ \A i \in DOMAIN s.bases : EncodedBase(s, v, i) # Aborted /\ IsJson(EncodedBase(s, v, i))
      BY <1>7
    <2>2. \A i \in DOMAIN s.bases : Kind(EncodedBase(s, v, i)) = "object"
      BY <2>1, BaseObject
    <2>3. \A i \in DOMAIN s.bases : Group(EncodedBase(s, v, i)[2])
      <3> SUFFICES ASSUME NEW i \in DOMAIN s.bases
                   PROVE  Group(EncodedBase(s, v, i)[2])
        OBVIOUS
      <3>1. IsMap(EncodedBase(s, v, i)[2])
        BY <2>1, <2>2, JsonIs
      <3> QED
        BY <3>1 DEF IsMap, Group
    <2>4. Group(OwnMembers(s, v))
      <3>1. IsMap(v.own)
        BY SoundStruct
      <3> QED
        BY <1>3, <3>1 DEF IsMap, Group
    <2>5. /\ Group(KindMember(s))
          /\ \A x \in DOMAIN KindMember(s) :
                 x = "kind" /\ s.kind # NoKind /\ KindMember(s)[x] = JString(s.kind)
          /\ s.kind # NoKind => "kind" \in DOMAIN KindMember(s)
      <3> DEFINE D == IF s.kind = NoKind THEN {} ELSE {"kind"}
      <3>1. KindMember(s) = [x \in D |-> JString(s.kind)]
        BY DEF KindMember
      <3>2. IsFiniteSet(D) /\ D \subseteq STRING
        BY StringsAssumption, FS_EmptySet, FS_Singleton
      <3>3. (s.kind # NoKind => "kind" \in D) /\ \A x \in D : x = "kind" /\ s.kind # NoKind
        OBVIOUS
      <3> HIDE DEF D
      <3> QED
        BY <3>1, <3>2, <3>3 DEF Group
    <2> DEFINE M == 2 + N
    <2>6. /\ DOMAIN g = 1..M /\ g[1] = KindMember(s) /\ g[2] = OwnMembers(s, v)
          /\ \A i \in 1..N : 2 + i \in 1..M /\ g[2 + i] = EncodedBase(s, v, i)[2]
          /\ \A k \in 1..M : k = 1 \/ k = 2 \/ \E i \in 1..N : k = 2 + i
      <3>1. Groups(s, v, N, g)
        BY <1>1, GroupsAre
      <3> HIDE DEF g, N
      <3> QED
        BY <1>2, <3>1 DEF Groups
    <2>7. M \in Nat /\ 1 \in 1..M /\ 2 \in 1..M
      BY <1>1
    <2> HIDE DEF g, M, N
    <2>8. \A k \in 1..M : Group(g[k])
      BY <1>1, <2>3, <2>4, <2>5, <2>6
    <2>9. /\ j = <<"object", j[2]>> /\ Kind(j) = "object" /\ Container(j) /\ IsJson(j)
          /\ \A x : x \in DOMAIN j[2] <=> \E i \in 1..M : x \in DOMAIN g[i]
          /\ \A x \in DOMAIN j[2] : \E i \in 1..M :
                /\ x \in DOMAIN g[i] /\ j[2][x] = g[i][x]
                /\ \A k \in 1..M : x \in DOMAIN g[k] => k <= i
      BY <2>6, <2>7, <2>8, ObjectIs
    <2> HIDE DEF j
    <2>10. \A n \in DOMAIN v.own : n \in DOMAIN j[2]
      BY <1>3, <2>6, <2>7, <2>9
    <2>11. \A i \in DOMAIN s.bases : DOMAIN EncodedBase(s, v, i)[2] \subseteq DOMAIN j[2]
      BY <1>1, <2>6, <2>9
    <2>12. s.kind # NoKind => "kind" \in DOMAIN j[2]
      BY <2>5, <2>6, <2>7, <2>9
    <2>13. ASSUME NEW x \in DOMAIN j[2]
           PROVE  \/ /\ x = "kind" /\ s.kind # NoKind /\ j[2][x] = JString(s.kind)
                     /\ \A i \in DOMAIN s.bases : x \notin DOMAIN EncodedBase(s, v, i)[2]
                  \/ /\ x \in DOMAIN v.own /\ j[2][x] = Encode(Property(s, x).type, v.own[x])
                     /\ \A i \in DOMAIN s.bases : x \notin DOMAIN EncodedBase(s, v, i)[2]
                  \/ \E i \in DOMAIN s.bases : /\ x \in DOMAIN EncodedBase(s, v, i)[2]
                                               /\ j[2][x] = EncodedBase(s, v, i)[2][x]
      <3>1. PICK k \in 1..M : /\ x \in DOMAIN g[k] /\ j[2][x] = g[k][x]
                              /\ \A l \in 1..M : x \in DOMAIN g[l] => l <= k
        BY <2>9, <2>13
      <3>2. CASE \E i \in 1..N : k = 2 + i
        BY <1>1, <2>6, <3>1, <3>2
      <3>3. CASE k = 1 \/ k = 2
        <4>1. \A i \in DOMAIN s.bases : x \notin DOMAIN EncodedBase(s, v, i)[2]
          <5> SUFFICES ASSUME NEW i \in 1..N, x \in DOMAIN EncodedBase(s, v, i)[2]
                       PROVE  FALSE
            BY <1>1
          <5>1. 2 + i \in 1..M /\ x \in DOMAIN g[2 + i]
            BY <2>6
          <5>2. 2 + i <= k
            BY <3>1, <5>1
          <5> QED
            BY <3>3, <5>2
        <4> QED
          BY <1>3, <2>5, <2>6, <3>1, <3>3, <4>1
      <3> QED
        BY <2>6, <3>2, <3>3
    <2> QED
      BY <2>1, <2>2, <2>9, <2>10, <2>11, <2>12, <2>13 DEF StructEncoding
  <1> HIDE DEF j, bad
  <1>8. e = Aborted <=> bad
    BY <1>4, <1>6
  <1>9. e # Aborted => StructEncoding(s, v, e)
    BY <1>4, <1>7
  <1> QED
    BY <1>8, <1>9 DEF bad

LEMMA StringIsJson ==
    ASSUME NEW n \in Nat, n # 0, NEW x \in STRING
    PROVE  GoodJson(n, JString(x))
  <1> DEFINE j == JString(x)
  <1>1. Kind(j) = "string" /\ j[2] = x /\ j = JString(j[2])
    BY DEF JString, Kind
  <1> HIDE DEF j
  <1>2. IsJson(j) /\ ~Container(j)
    BY <1>1 DEF IsJson, Container
  <1>3. GoodJson(n, j)
    BY <1>2, GoodJsonIs
  <1> QED
    BY <1>3 DEF j

LEMMA StructEncodesGood ==
    ASSUME Overloads, NEW t \in AllTypes, t[1] = "struct", NEW v, Sound(t, v), NEW n \in Nat, n # 0,
           \A p \in Inside(t, v) : EncodesGood(n - 1, p[1], p[2])
    PROVE  EncodesGood(n, t, v)
  <1> DEFINE s == t[2]
             e == Encode(t, v)
             T(x) == Property(s, x).type
  <1>1. DOMAIN v.own \subseteq Names(s)
    BY SoundStruct
  <1>2. \A p : p \in Inside(t, v) <=>
            \/ \E x \in Names(s) \cap DOMAIN v.own : p = <<T(x), v.own[x]>>
            \/ \E i \in DOMAIN s.bases : p = <<Ref(s.bases[i]), v.bases[i]>>
    BY InsideStruct
  <1>3. \A x \in DOMAIN v.own : <<T(x), v.own[x]>> \in Inside(t, v)
    <2> SUFFICES ASSUME NEW x \in DOMAIN v.own
                 PROVE  <<T(x), v.own[x]>> \in Inside(t, v)
      OBVIOUS
    <2>1. x \in Names(s) \cap DOMAIN v.own
      BY <1>1
    <2> QED
      BY <1>2, <2>1, Zenon
  <1>4. \A i \in DOMAIN s.bases : <<Ref(s.bases[i]), v.bases[i]>> \in Inside(t, v)
    BY <1>2, Zenon
  <1>5. \A x \in DOMAIN v.own : EncodesGood(n - 1, T(x), v.own[x])
    BY <1>3
  <1>6. \A i \in DOMAIN s.bases : EncodesGood(n - 1, Ref(s.bases[i]), v.bases[i])
    BY <1>4
  <1>7. Hollow(t, v) <=> \/ \E x \in DOMAIN v.own : Hollow(T(x), v.own[x])
                         \/ \E i \in DOMAIN s.bases : Hollow(Ref(s.bases[i]), v.bases[i])
    <2>1. Hollow(t, v) <=> \E p \in Inside(t, v) : Hollow(p[1], p[2])
      BY HollowIs
    <2>2. ASSUME NEW x \in DOMAIN v.own, Hollow(T(x), v.own[x])
          PROVE  \E p \in Inside(t, v) : Hollow(p[1], p[2])
      <3> DEFINE p == <<T(x), v.own[x]>>
      <3>1. p \in Inside(t, v) /\ p[1] = T(x) /\ p[2] = v.own[x]
        BY <1>3
      <3> HIDE DEF p, T
      <3> QED
        BY <2>2, <3>1
    <2>3. ASSUME NEW i \in DOMAIN s.bases, Hollow(Ref(s.bases[i]), v.bases[i])
          PROVE  \E p \in Inside(t, v) : Hollow(p[1], p[2])
      <3> DEFINE b == Ref(s.bases[i])
                 p == <<b, v.bases[i]>>
      <3>1. p \in Inside(t, v) /\ p[1] = b /\ p[2] = v.bases[i]
        BY <1>4
      <3> HIDE DEF p, b
      <3>2. Hollow(b, v.bases[i])
        BY <2>3 DEF b
      <3> QED
        BY <3>1, <3>2
    <2>4. ASSUME NEW p \in Inside(t, v), Hollow(p[1], p[2])
          PROVE  \/ \E x \in DOMAIN v.own : Hollow(T(x), v.own[x])
                 \/ \E i \in DOMAIN s.bases : Hollow(Ref(s.bases[i]), v.bases[i])
      <3>1. CASE \E x \in Names(s) \cap DOMAIN v.own : p = <<T(x), v.own[x]>>
        BY <2>4, <3>1
      <3>2. CASE \E i \in DOMAIN s.bases : p = <<Ref(s.bases[i]), v.bases[i]>>
        BY <2>4, <3>2
      <3> QED
        BY <1>2, <3>1, <3>2, Zenon
    <2> QED
      BY <2>1, <2>2, <2>3, <2>4
  <1>8. (n - 1) + 1 = n /\ n - 1 \in Nat /\ n + 1 \in Nat /\ n + 1 # 0 /\ (n + 1) - 1 = n
    OBVIOUS
  <1> DEFINE B(i) == EncodedBase(s, v, i)
  <1>9. \A x \in DOMAIN v.own : LET c == Encode(T(x), v.own[x])
                                IN  /\ Hollow(T(x), v.own[x]) => c = Aborted
                                    /\ ~Hollow(T(x), v.own[x]) => GoodJson(n, c) /\ c # Aborted
    BY <1>5, <1>8, JsonNotAborted DEF EncodesGood
  <1>10. \A i \in DOMAIN s.bases : /\ Hollow(Ref(s.bases[i]), v.bases[i]) => B(i) = Aborted
                                   /\ ~Hollow(Ref(s.bases[i]), v.bases[i]) =>
                                         GoodJson(n, B(i)) /\ B(i) # Aborted
    BY <1>6, <1>8, JsonNotAborted DEF EncodesGood, EncodedBase
  <1>11. \A i \in DOMAIN s.bases : B(i) = Aborted \/ IsJson(B(i))
    BY <1>10, GoodJsonIs
  <1>12. /\ e = Aborted <=> \/ \E x \in DOMAIN v.own : Encode(Property(s, x).type, v.own[x]) = Aborted
                            \/ \E i \in DOMAIN s.bases : EncodedBase(s, v, i) = Aborted
         /\ e # Aborted => StructEncoding(s, v, e)
    BY <1>11, StructEncodes
  <1> HIDE DEF e
  <1>13. CASE Hollow(t, v)
    <2>1. e = Aborted
      BY <1>7, <1>9, <1>10, <1>12, <1>13
    <2> QED
      BY <1>13, <2>1 DEF EncodesGood, e
  <1>14. CASE ~Hollow(t, v)
    <2>1. /\ \A x \in DOMAIN v.own : /\ GoodJson(n, Encode(T(x), v.own[x]))
                                     /\ Encode(T(x), v.own[x]) # Aborted
          /\ \A i \in DOMAIN s.bases : GoodJson(n, B(i)) /\ B(i) # Aborted
      BY <1>7, <1>9, <1>10, <1>14
    <2>2. StructEncoding(s, v, e)
      BY <1>12, <2>1
    <2>3. ASSUME NEW x \in DOMAIN e[2]
          PROVE  GoodJson(n, e[2][x])
      <3>1. CASE x = "kind" /\ e[2][x] = JString(s.kind)
        <4>1. s.kind \in STRING
          BY PropsAre
        <4> QED
          BY <3>1, <4>1, StringIsJson
      <3>2. CASE x \in DOMAIN v.own /\ e[2][x] = Encode(T(x), v.own[x])
        BY <2>1, <3>2
      <3>3. CASE \E i \in DOMAIN s.bases : x \in DOMAIN B(i)[2] /\ e[2][x] = B(i)[2][x]
        <4>1. PICK i \in DOMAIN s.bases : x \in DOMAIN B(i)[2] /\ e[2][x] = B(i)[2][x]
          BY <3>3
        <4>2. GoodJson(n, B(i)) /\ Kind(B(i)) = "object"
          BY <2>1, <2>2 DEF StructEncoding
        <4>3. Container(B(i))
          BY <4>2 DEF Container
        <4>4. GoodJson(n - 1, B(i)[2][x])
          BY <4>1, <4>2, <4>3, GoodJsonIs
        <4>5. GoodJson((n - 1) + 1, B(i)[2][x])
          BY <1>8, <4>4, Deepen
        <4> QED
          BY <1>8, <4>1, <4>5
      <3> QED
        BY <2>2, <3>1, <3>2, <3>3 DEF StructEncoding
    <2>4. IsJson(e)
      BY <2>2 DEF StructEncoding
    <2>5. \A i \in DOMAIN e[2] : GoodJson((n + 1) - 1, e[2][i])
      BY <1>8, <2>3
    <2>6. GoodJson(n + 1, e)
      BY <1>8, <2>4, <2>5, GoodJsonIs
    <2> QED
      BY <1>14, <2>6 DEF EncodesGood, e
  <1> QED
    BY <1>13, <1>14

EncodesSound(n, t) ==
    \A v : Sound(t, v) /\ Shallow(n, t, v) => EncodesGood(n, t, v)

LEMMA EncodeSound ==
    ASSUME Overloads
    PROVE  \A n \in Nat : \A t \in AllTypes : EncodesSound(n, t)
  <1> DEFINE Bad == {n \in Nat : \E t \in AllTypes : ~EncodesSound(n, t)}
  <1>1. ASSUME Bad # {}
        PROVE  FALSE
    <2>1. Bad \in SUBSET Nat
      OBVIOUS
    <2>2. PICK n \in Bad : \A m \in Bad : n <= m
      BY <1>1, <2>1, Smallest, Zenon
    <2>3. PICK t \in AllTypes : ~EncodesSound(n, t)
      OBVIOUS
    <2>4. PICK v : Sound(t, v) /\ Shallow(n, t, v) /\ ~EncodesGood(n, t, v)
      BY <2>3 DEF EncodesSound
    <2>5. n \in Nat /\ n # 0
      BY <2>4, ShallowIs
    <2>6. n - 1 \in Nat /\ (n - 1) + 1 = n /\ ~(n <= n - 1)
      BY <2>5
    <2>7. \A u \in AllTypes : EncodesSound(n - 1, u)
      BY <2>2, <2>6
    <2>8. \A p \in Inside(t, v) : EncodesGood(n - 1, p[1], p[2])
      <3> SUFFICES ASSUME NEW p \in Inside(t, v)
                   PROVE  EncodesGood(n - 1, p[1], p[2])
        OBVIOUS
      <3>1. p[1] \in AllTypes
        BY <2>4, InsideTypes
      <3>2. Sound(p[1], p[2])
        BY <2>4, SoundIs
      <3>3. Shallow(n - 1, p[1], p[2])
        BY <2>4, <2>6, ShallowIs
      <3> QED
        BY <2>7, <3>1, <3>2, <3>3 DEF EncodesSound
    <2> HIDE DEF Bad
    <2>9. CASE t[1] \in {"null", "boolean", "integer", "uinteger", "decimal", "string"}
      <3>1. WellTyped(t, v)
        BY <2>4, SoundIs
      <3>2. GoodJson(n + 1, Encode(t, v))
        BY <2>5, <2>9, <3>1, PrimitiveEncodes
      <3>3. Inside(t, v) = {}
        BY <2>9, InsideIs
      <3>4. ~Hollow(t, v)
        BY <2>9, <3>3, HollowIs
      <3> QED
        BY <2>4, <3>2, <3>4 DEF EncodesGood
    <2>10. CASE t[1] = "vector"
      BY <2>4, <2>5, <2>8, <2>10, VectorEncodes
    <2>11. CASE t[1] = "map"
      BY <2>4, <2>5, <2>8, <2>11, MapEncodes
    <2>12. CASE t[1] = "tuple"
      BY <2>4, <2>5, <2>8, <2>12, TupleEncodes
    <2>13. CASE t[1] = "oneof"
      BY <2>4, <2>5, <2>8, <2>13, OneOfEncodes
    <2>14. CASE t[1] = "enum"
      BY <2>4, <2>5, <2>14, EnumEncodes
    <2>15. CASE t[1] = "struct"
      BY <2>4, <2>5, <2>8, <2>15, StructEncodesGood
    <2>16. CASE t[1] = "ref"
      BY <2>4, <2>5, <2>8, <2>16, RefEncodes
    <2> QED
      BY <2>9, <2>10, <2>11, <2>12, <2>13, <2>14, <2>15, <2>16, TypeIs
  <1> QED
    BY <1>1

(* What the peer reads *)
LEMMA RereadGood ==
    ASSUME Overloads
    PROVE  \A n \in Nat : \A j : GoodJson(n, j) => GoodJson(n, Reparsed(j))
  <1> DEFINE Bad == {n \in Nat : \E j : GoodJson(n, j) /\ ~GoodJson(n, Reparsed(j))}
  <1>1. ASSUME Bad # {}
        PROVE  FALSE
    <2>1. Bad \in SUBSET Nat
      OBVIOUS
    <2>2. PICK n \in Bad : \A m \in Bad : n <= m
      BY <1>1, <2>1, Smallest, Zenon
    <2>3. PICK j : GoodJson(n, j) /\ ~GoodJson(n, Reparsed(j))
      OBVIOUS
    <2>4. /\ n # 0 /\ n \in Nat /\ IsJson(j)
          /\ Container(j) => \A i \in DOMAIN j[2] : GoodJson(n - 1, j[2][i])
      BY <2>3, GoodJsonIs
    <2>5. n - 1 \in Nat /\ ~(n <= n - 1)
      BY <2>4
    <2>6. \A k : GoodJson(n - 1, k) => GoodJson(n - 1, Reparsed(k))
      BY <2>2, <2>5
    <2>7. Reparsed(j) = Reread(j)
      BY DEF Overloads
    <2> HIDE DEF Bad
    <2>8. CASE Kind(j) = "uint" /\ j[2] <= MaxI64
      <3> DEFINE k == JI64(j[2])
      <3>1. Reread(j) = k
        BY <2>8 DEF Reread
      <3>2. j[2] \in 0..MaxU64
        BY <2>4, <2>8, JsonIs
      <3>3. j[2] \in -MaxI64 - 1 .. MaxI64
        BY <2>8, <3>2 DEF MaxI64, MaxU64
      <3>4. k[1] = "int" /\ k[2] = j[2] /\ k = JI64(k[2])
        BY DEF JI64
      <3> HIDE DEF k
      <3>5. IsJson(k) /\ ~Container(k)
        BY <3>3, <3>4 DEF IsJson, Container, Kind
      <3> QED
        BY <2>3, <2>4, <2>7, <3>1, <3>5, GoodJsonIs
    <2>9. CASE Kind(j) = "array"
      <3> DEFINE f == [i \in DOMAIN j[2] |-> Reparsed(j[2][i])]
                 k == Array(f)
      <3>1. Reread(j) = k
        BY <2>9 DEF Reread
      <3>2. k[1] = "array" /\ k[2] = f /\ k = Array(k[2])
        BY DEF Array
      <3>3. IsSequence(j[2]) /\ Container(j) /\ Count(j) \in Nat /\ DOMAIN j[2] = 1..Count(j)
        BY <2>4, <2>9, JsonIs
      <3>4. IsSequence(f)
        BY <3>3, MakeSequence
      <3>5. DOMAIN f = DOMAIN j[2] /\ \A i \in DOMAIN f : GoodJson(n - 1, f[i])
        BY <2>4, <2>6, <3>3
      <3> HIDE DEF k, f
      <3>6. IsJson(k)
        BY <3>2, <3>4 DEF IsJson, Kind
      <3> QED
        BY <2>3, <2>4, <2>7, <3>1, <3>2, <3>5, <3>6, GoodJsonIs
    <2>10. CASE Kind(j) = "object"
      <3> DEFINE f == [i \in DOMAIN j[2] |-> Reparsed(j[2][i])]
                 k == <<"object", f>>
      <3>1. Reread(j) = k
        BY <2>10 DEF Reread
      <3>2. k[1] = "object" /\ k[2] = f /\ k = <<"object", k[2]>>
        OBVIOUS
      <3>3. IsMap(j[2]) /\ Container(j)
        BY <2>4, <2>10, JsonIs
      <3>4. DOMAIN f = DOMAIN j[2] /\ \A i \in DOMAIN f : GoodJson(n - 1, f[i])
        BY <2>4, <2>6, <3>3
      <3>5. f = [i \in DOMAIN f |-> f[i]]
        OBVIOUS
      <3> HIDE DEF k, f
      <3>6. IsMap(f)
        BY <3>3, <3>4, <3>5 DEF IsMap
      <3>7. IsJson(k)
        BY <3>2, <3>6 DEF IsJson, Kind
      <3> QED
        BY <2>3, <2>4, <2>7, <3>1, <3>2, <3>4, <3>7, GoodJsonIs
    <2>11. CASE ~(Kind(j) = "uint" /\ j[2] <= MaxI64) /\ Kind(j) # "array" /\ Kind(j) # "object"
      <3>1. Reread(j) = j
        BY <2>11 DEF Reread
      <3> QED
        BY <2>3, <2>7, <3>1
    <2> QED
      BY <2>8, <2>9, <2>10, <2>11
  <1> QED
    BY <1>1

-----------------------------------------------------------------------------
(* The life of a message *)

Sent(ty, val) == ty \in TypesUsed /\ \E v \in Values(ty) : val = <<v>>

Arrived(ty, val, j) ==
    /\ ty \in TypesUsed
    /\ \/ val = <<>> /\ j \in PeerJson(ty)
       \/ /\ Sent(ty, val) /\ Encode(ty, val[1]) # Aborted
          /\ j = Reparsed(Encode(ty, val[1]))

Life ==
    /\ stage \in {"idle", "built", "encoded", "received", "decoded", "aborted"}
    /\ stage = "idle" => value = <<>>
    /\ stage \in {"built", "encoded", "aborted"} => Sent(type, value)
    /\ stage \in {"encoded", "aborted"} => json = Encode(type, value[1])
    /\ stage = "encoded" => json # Aborted
    /\ stage = "aborted" => json = Aborted
    /\ stage \in {"received", "decoded"} => Arrived(type, value, json)
    /\ stage = "decoded" => /\ target \in {Default(type)} \cup Used(type)
                            /\ result = Decode(type, json, target)

(* Every stage of a message is what the stages before made of it: what was *)
(* sent is a value built, what is decoded is what was sent or came from a  *)
(* peer.                                                                   *)
LEMMA MessagesLive == Spec => []Life
  <1>1. Init => Life
    BY DEF Init, Life
  <1>2. Life /\ [Next]_vars => Life'
    <2> SUFFICES ASSUME Life, [Next]_vars
                 PROVE  Life'
      OBVIOUS
    <2>1. CASE Build
      BY <2>1 DEF Build, Life, Sent
    <2>2. CASE ReceiveFromPeer
      <3>1. value' = <<>>
        BY <2>2 DEF ReceiveFromPeer, Life
      <3> QED
        BY <2>2, <3>1 DEF ReceiveFromPeer, Life, Arrived
    <2>3. CASE EncodeValue
      BY <2>3 DEF EncodeValue, Life
    <2>4. CASE Receive
      BY <2>4 DEF Receive, Life, Arrived, Sent
    <2>5. CASE DecodeValue
      BY <2>5 DEF DecodeValue, Life
    <2>6. CASE NextMessage
      BY <2>6 DEF NextMessage, Life
    <2>7. CASE UNCHANGED vars
      BY <2>7 DEF vars, Life
    <2> QED
      BY <2>1, <2>2, <2>3, <2>4, <2>5, <2>6, <2>7 DEF Next
  <1> QED
    BY <1>1, <1>2, PTL DEF Spec

LEMMA SentGood ==
    ASSUME Overloads, NEW ty, NEW val, Sent(ty, val), NEW n, n = MaxNesting
    PROVE  /\ ty \in AllTypes /\ Sound(ty, val[1]) /\ Nested(ty, val[1])
           /\ EncodesGood(n, ty, val[1])
           /\ Encode(ty, val[1]) # Aborted => GoodJson(n + 1, Encode(ty, val[1]))
  <1> USE NestingAssumption
  <1>1. PICK v \in Values(ty) : val = <<v>>
    BY DEF Sent
  <1>2. val[1] = v
    BY <1>1
  <1>3. ty \in TypesUsed
    BY DEF Sent
  <1>4. Nested(ty, v) /\ Typed(ty, v)
    BY <1>3, ValuesAssumption
  <1>5. Sound(ty, v) /\ Shallow(n, ty, v)
    BY <1>4, TypedIs
  <1>6. ty \in AllTypes
    BY <1>3, TypesAssumption
  <1>7. EncodesSound(n, ty)
    BY <1>6, EncodeSound
  <1>8. EncodesGood(n, ty, v)
    BY <1>5, <1>7 DEF EncodesSound
  <1> QED
    BY <1>2, <1>4, <1>5, <1>6, <1>8 DEF EncodesGood

LEMMA ArrivedGood ==
    ASSUME Overloads, NEW ty, NEW val, NEW j, Arrived(ty, val, j), NEW n, n = MaxNesting + 1
    PROVE  ty \in AllTypes /\ n \in Nat /\ GoodJson(n, j)
  <1> USE NestingAssumption
  <1>1. ty \in TypesUsed /\ ty \in AllTypes /\ n \in Nat
    BY TypesAssumption DEF Arrived
  <1>2. CASE j \in PeerJson(ty)
    <2>1. Nested(Json, j) /\ Typed(Json, j)
      BY <1>1, <1>2, PeerAssumption
    <2>2. GoodJson(MaxNesting, j)
      BY <2>1, TypedIs DEF GoodJson
    <2> QED
      BY <1>1, <2>2, Deepen
  <1>3. CASE Sent(ty, val) /\ Encode(ty, val[1]) # Aborted /\ j = Reparsed(Encode(ty, val[1]))
    <2>1. GoodJson(n, Encode(ty, val[1]))
      BY <1>3, SentGood
    <2> QED
      BY <1>1, <1>3, <2>1, RereadGood
  <1> QED
    BY <1>1, <1>2, <1>3 DEF Arrived

LEMMA UsedSound ==
    ASSUME Overloads, NEW ty \in TypesUsed, NEW o \in {Default(ty)} \cup Used(ty)
    PROVE  Sound(ty, o)
  <1>1. CASE o = Default(ty)
    BY <1>1, TypesAssumption, DefaultSound
  <1>2. CASE o \in Used(ty)
    <2>1. Nested(ty, o) /\ Typed(ty, o)
      BY <1>2, ValuesAssumption
    <2> QED
      BY <2>1, TypedIs
  <1> QED
    BY <1>1, <1>2

(* Whatever JSON arrives for whatever type, what Decode() leaves in its    *)
(* output, fresh or used, accepted or not, is a value of its type.         *)
THEOREM CodecTypes == ASSUME Overloads PROVE Spec => []CodecTypeOK
  <1>1. Life => CodecTypeOK
    <2> SUFFICES ASSUME Life, stage = "decoded"
                 PROVE  Typed(type, result.out)
      BY DEF Life, CodecTypeOK
    <2> DEFINE n == MaxNesting + 1
    <2>1. /\ Arrived(type, value, json) /\ result = Decode(type, json, target)
          /\ target \in {Default(type)} \cup Used(type)
      BY DEF Life
    <2>2. type \in AllTypes /\ n \in Nat /\ GoodJson(n, json)
      BY <2>1, ArrivedGood
    <2>3. type \in TypesUsed
      BY <2>1 DEF Arrived
    <2>4. Sound(type, target)
      BY <2>1, <2>3, UsedSound
    <2> HIDE DEF n
    <2>5. DecodesSound(n, type)
      BY <2>2, DecodeSound
    <2>6. Sound(type, result.out)
      BY <2>1, <2>2, <2>4, <2>5 DEF DecodesSound
    <2> QED
      BY <2>6, TypedIs
  <1> QED
    BY <1>1, MessagesLive, PTL

(* Encode() of a value dies exactly when the value has, however deep, a    *)
(* OneOf that holds nothing.                                               *)
THEOREM EncodeAborts == ASSUME Overloads PROVE Spec => []AbortsOnEmptyOneOf
  <1>1. Life => AbortsOnEmptyOneOf
    <2> SUFFICES ASSUME Life, stage \in {"encoded", "aborted"}
                 PROVE  stage = "aborted" <=>
                            \E p \in Parts(type, value[1]) : p[1][1] = "oneof" /\ p[2] = <<>>
      BY DEF AbortsOnEmptyOneOf
    <2>1. Sent(type, value) /\ json = Encode(type, value[1])
      BY DEF Life
    <2> DEFINE n == MaxNesting
    <2>2. /\ Nested(type, value[1]) /\ EncodesGood(n, type, value[1])
          /\ Encode(type, value[1]) # Aborted => GoodJson(n + 1, Encode(type, value[1]))
      BY <2>1, SentGood
    <2>3. n + 1 \in Nat
      BY NestingAssumption
    <2> HIDE DEF n
    <2>4. json = Aborted <=> Hollow(type, value[1])
      BY <2>1, <2>2, <2>3, JsonNotAborted DEF EncodesGood
    <2>5. Hollow(type, value[1]) <=>
              \E p \in Parts(type, value[1]) : p[1][1] = "oneof" /\ p[2] = <<>>
      BY <2>2, TypedIs DEF Hollow
    <2>6. stage = "aborted" <=> json = Aborted
      BY DEF Life
    <2> QED
      BY <2>4, <2>5, <2>6
  <1> QED
    BY <1>1, MessagesLive, PTL

-----------------------------------------------------------------------------
(* What Decode() makes of its output when it accepts.  P is the set of the *)
(* places of the parts, and for each, T is its type, G what Get() returned *)
(* for it, and May those that may be missing.                              *)
Slot(p, P, T, G, May) ==
    p.place \in P /\ p.type = T[p.place] /\ p.got = G[p.place] /\ (p.optional <=> p.place \in May)

Decoding(T, G, May, c, x) ==
    Decode(T[x], Get(G[x]), IF x \notin May /\ x \in DOMAIN c THEN c[x] ELSE Default(T[x]))

Gives(P, T, G, May, c, r) ==
    /\ r.ok <=> \A x \in P : IF IsOk(G[x]) THEN Decoding(T, G, May, c, x).ok ELSE x \in May
    /\ r.ok => /\ r.out = [x \in DOMAIN r.out |-> r.out[x]]
               /\ DOMAIN r.out = DOMAIN c \cup {x \in P : IsOk(G[x])}
               /\ \A x \in P : IsOk(G[x]) => r.out[x] = Decoding(T, G, May, c, x).out
               /\ \A x \in DOMAIN c : ~(x \in P /\ IsOk(G[x])) => r.out[x] = c[x]

LEMMA LoopGives ==
    ASSUME NEW parts, NEW c, Len(parts) \in Nat, Apart(parts), c = [x \in DOMAIN c |-> c[x]],
           NEW P, NEW T, NEW G, NEW May,
           \A i \in 1..Len(parts) : Slot(parts[i], P, T, G, May),
           \A x \in P : \E i \in 1..Len(parts) : x = parts[i].place,
           NEW r, r = DecodeParts(parts, c)
    PROVE  Gives(P, T, G, May, c, r)
  <1>1. Assembles(parts, c, r)
    BY PartsAssemble
  <1> DEFINE N == Len(parts)
  <1>2. ASSUME NEW p, Slot(p, P, T, G, May)
        PROVE  /\ Attempt(c, p) = Decoding(T, G, May, c, p.place)
               /\ IsOk(p.got) <=> IsOk(G[p.place])
               /\ Accepts(c, p) <=> IF IsOk(G[p.place]) THEN Decoding(T, G, May, c, p.place).ok
                                    ELSE p.place \in May
    <2>1. /\ p.type = T[p.place] /\ p.got = G[p.place]
          /\ Into(c, p) = IF p.place \notin May /\ p.place \in DOMAIN c THEN c[p.place]
                          ELSE Default(T[p.place])
      BY <1>2 DEF Slot, Into
    <2>2. Attempt(c, p) = Decoding(T, G, May, c, p.place)
      BY <2>1 DEF Attempt, Decoding
    <2> QED
      BY <1>2, <2>1, <2>2 DEF Slot, Accepts
  <1>3. \A i \in 1..N : /\ parts[i].place \in P
                        /\ Attempt(c, parts[i]) = Decoding(T, G, May, c, parts[i].place)
                        /\ IsOk(parts[i].got) <=> IsOk(G[parts[i].place])
                        /\ Accepts(c, parts[i]) <=>
                              IF IsOk(G[parts[i].place]) THEN Decoding(T, G, May, c, parts[i].place).ok
                              ELSE parts[i].place \in May
    <2> SUFFICES ASSUME NEW i \in 1..N
                 PROVE  /\ parts[i].place \in P
                        /\ Attempt(c, parts[i]) = Decoding(T, G, May, c, parts[i].place)
                        /\ IsOk(parts[i].got) <=> IsOk(G[parts[i].place])
                        /\ Accepts(c, parts[i]) <=>
                              IF IsOk(G[parts[i].place]) THEN Decoding(T, G, May, c, parts[i].place).ok
                              ELSE parts[i].place \in May
      OBVIOUS
    <2> DEFINE p == parts[i]
    <2>1. Slot(p, P, T, G, May)
      OBVIOUS
    <2>2. p.place \in P
      BY <2>1 DEF Slot
    <2> HIDE DEF p
    <2>3. /\ Attempt(c, p) = Decoding(T, G, May, c, p.place)
          /\ IsOk(p.got) <=> IsOk(G[p.place])
          /\ Accepts(c, p) <=> IF IsOk(G[p.place]) THEN Decoding(T, G, May, c, p.place).ok
                               ELSE p.place \in May
      BY <1>2, <2>1
    <2> QED
      BY <2>2, <2>3, Zenon DEF p
  <1> DEFINE A(x) == IF IsOk(G[x]) THEN Decoding(T, G, May, c, x).ok ELSE x \in May
  <1>4. \A i \in 1..N : Accepts(c, parts[i]) <=> A(parts[i].place)
    BY <1>3
  <1>5. (\A i \in 1..N : Accepts(c, parts[i])) <=> \A x \in P : A(x)
    <2> HIDE DEF A
    <2> QED
      BY <1>3, <1>4
  <1>6. r.ok <=> \A x \in P : A(x)
    BY <1>1, <1>5 DEF Assembles
  <1>7. ASSUME r.ok
        PROVE  /\ r.out = [x \in DOMAIN r.out |-> r.out[x]]
               /\ DOMAIN r.out = DOMAIN c \cup {x \in P : IsOk(G[x])}
               /\ \A x \in P : IsOk(G[x]) => r.out[x] = Decoding(T, G, May, c, x).out
               /\ \A x \in DOMAIN c : ~(x \in P /\ IsOk(G[x])) => r.out[x] = c[x]
    <2>1. Kept(N, parts, c, r) /\ AllAccepted(N, parts, c, r)
      BY <1>1, <1>7 DEF Assembles
    <2>2. \A x \in P : IsOk(G[x]) => /\ x \in DOMAIN r.out
                                     /\ r.out[x] = Decoding(T, G, May, c, x).out
      BY <1>3, <2>1 DEF AllAccepted
    <2>3. \A x \in DOMAIN r.out : \/ x \in DOMAIN c /\ r.out[x] = c[x]
                                  \/ x \in P /\ IsOk(G[x])
      BY <1>3, <2>1 DEF Kept
    <2>4. DOMAIN c \subseteq DOMAIN r.out /\ r.out = [x \in DOMAIN r.out |-> r.out[x]]
      BY <2>1 DEF Kept
    <2> QED
      BY <2>2, <2>3, <2>4
  <1> QED
    BY <1>6, <1>7 DEF Gives

-----------------------------------------------------------------------------
(* Decode() of each kind of container, by what it decodes its parts into *)

Held(c, x, u) == IF x \in DOMAIN c THEN c[x] ELSE Default(u)

LEMMA VectorDecodes ==
    ASSUME Overloads, NEW t \in AllTypes, t[1] = "vector", NEW u, u = t[2], NEW j, IsJson(j),
           NEW o, IsSequence(o), NEW N, N = Count(j), NEW r, r = Decode(t, j, o)
    PROVE  /\ r.ok <=> /\ Kind(j) = "array"
                       /\ \A i \in 1..N : Decode(u, j[2][i], Held(o, i, u)).ok
           /\ r.ok => /\ IsSequence(r.out) /\ Len(r.out) = N /\ DOMAIN r.out = 1..N
                      /\ \A i \in 1..N : r.out[i] = Decode(u, j[2][i], Held(o, i, u)).out
  <1>1. r = DecodeVector(u, j, o)
    BY DecodeIs
  <1>2. CASE Kind(j) # "array"
    BY <1>1, <1>2, OutIs DEF DecodeVector
  <1>3. CASE Kind(j) = "array"
    <2> DEFINE c == [i \in 1..N |-> IF i <= Len(o) THEN o[i] ELSE Default(u)]
               parts == [i \in 1..N |-> Part(i, u, FALSE, Ok(Element(j, i)))]
               P == 1..N
               T == [i \in P |-> u]
               G == [i \in P |-> Ok(j[2][i])]
               d == DecodeParts(parts, c)
    <2>1. r = d
      BY <1>1, <1>3 DEF DecodeVector
    <2>2. N \in Nat
      BY <1>3, JsonIs
    <2>3. Len(o) \in Nat /\ DOMAIN o = 1..Len(o)
      BY SequenceIs
    <2>4. DOMAIN c = 1..N /\ c = [i \in DOMAIN c |-> c[i]]
      OBVIOUS
    <2>5. \A i \in 1..N : c[i] = Held(o, i, u)
      <3> SUFFICES ASSUME NEW i \in 1..N
                   PROVE  c[i] = Held(o, i, u)
        OBVIOUS
      <3>1. i <= Len(o) <=> i \in DOMAIN o
        BY <2>2, <2>3
      <3>2. c[i] = IF i <= Len(o) THEN o[i] ELSE Default(u)
        OBVIOUS
      <3> HIDE DEF c
      <3> QED
        BY <3>1, <3>2 DEF Held
    <2>6. Len(parts) = N
      BY <2>2
    <2>7. \A i \in 1..N : /\ parts[i].place = i /\ parts[i].type = u /\ parts[i].optional = FALSE
                          /\ parts[i].got = Ok(j[2][i])
      BY DEF Part, Element
    <2>8. \A i \in 1..N : T[i] = u /\ G[i] = Ok(j[2][i])
      OBVIOUS
    <2> HIDE DEF c, parts, P, T, G
    <2>9. Apart(parts)
      BY <2>6, <2>7 DEF Apart
    <2>10. \A i \in 1..Len(parts) : Slot(parts[i], P, T, G, {})
      BY <2>6, <2>7, <2>8 DEF Slot, P
    <2>11. \A x \in P : \E i \in 1..Len(parts) : x = parts[i].place
      BY <2>6, <2>7 DEF P
    <2>12. Gives(P, T, G, {}, c, d)
      BY <2>2, <2>4, <2>6, <2>9, <2>10, <2>11, LoopGives
    <2> HIDE DEF d
    <2>13. \A i \in P : IsOk(G[i]) /\ Decoding(T, G, {}, c, i) = Decode(u, j[2][i], Held(o, i, u))
      BY <2>4, <2>5, <2>8, OkIs DEF Decoding, P
    <2>14. /\ r.ok <=> \A i \in P : Decode(u, j[2][i], Held(o, i, u)).ok
           /\ r.ok => /\ r.out = [x \in DOMAIN r.out |-> r.out[x]]
                      /\ DOMAIN r.out = P
                      /\ \A i \in P : r.out[i] = Decode(u, j[2][i], Held(o, i, u)).out
      BY <2>1, <2>4, <2>12, <2>13 DEF Gives, P
    <2>15. r.ok => IsSequence(r.out) /\ Len(r.out) = N
      BY <2>2, <2>14, MakeSequence DEF P
    <2> QED
      BY <1>3, <2>14, <2>15 DEF P
  <1> QED
    BY <1>2, <1>3

LEMMA MapDecodes ==
    ASSUME Overloads, NEW t \in AllTypes, t[1] = "map", NEW u, u = t[2], NEW j, IsJson(j),
           NEW o, IsMap(o), NEW r, r = Decode(t, j, o)
    PROVE  /\ r.ok <=> /\ Kind(j) = "object"
                       /\ \A x \in DOMAIN j[2] : Decode(u, j[2][x], Held(o, x, u)).ok
           /\ r.ok => /\ r.out = [x \in DOMAIN r.out |-> r.out[x]]
                      /\ DOMAIN r.out = DOMAIN o \cup DOMAIN j[2]
                      /\ \A x \in DOMAIN j[2] : r.out[x] = Decode(u, j[2][x], Held(o, x, u)).out
                      /\ \A x \in DOMAIN o : x \notin DOMAIN j[2] => r.out[x] = o[x]
  <1>1. r = DecodeMap(u, j, o)
    BY DecodeIs
  <1>2. CASE Kind(j) # "object"
    BY <1>1, <1>2, OutIs DEF DecodeMap
  <1>3. CASE Kind(j) = "object"
    <2> DEFINE names == Seqs!SetToSeq(MemberNames(j))
               N == Len(names)
               parts == [i \in 1..N |-> Part(names[i], u, FALSE, Member(j, names[i]))]
               P == DOMAIN j[2]
               T == [x \in P |-> u]
               G == [x \in P |-> Ok(j[2][x])]
               d == DecodeParts(parts, o)
    <2>1. r = d
      BY <1>1, <1>3 DEF DecodeMap
    <2>2. /\ IsMap(j[2]) /\ MemberNames(j) = P
          /\ \A x \in P : Member(j, x) = Ok(j[2][x])
      BY <1>3, JsonIs DEF MemberNames
    <2>3. /\ N \in Nat
          /\ \A i \in 1..N : names[i] \in P
          /\ \A i, k \in 1..N : names[i] = names[k] => i = k
          /\ \A x \in P : \E i \in 1..N : names[i] = x
      <3> DEFINE S == MemberNames(j)
                 f == Seqs!SetToSeq(S)
      <3>1. IsFiniteSet(S) /\ S = P
        BY <2>2 DEF IsMap
      <3> HIDE DEF S, P
      <3>2. /\ Len(f) \in Nat
            /\ \A i \in 1..Len(f) : f[i] \in S
            /\ \A i, k \in 1..Len(f) : f[i] = f[k] => i = k
            /\ \A x \in S : \E i \in 1..Len(f) : f[i] = x
        BY <3>1, SetToSeqIs
      <3>3. f = names
        BY DEF S
      <3> HIDE DEF f, names
      <3> QED
        BY <3>1, <3>2, <3>3
    <2>4. o = [x \in DOMAIN o |-> o[x]]
      BY DEF IsMap
    <2> HIDE DEF names, N
    <2>5. Len(parts) = N
      BY <2>3
    <2>6. \A i \in 1..N : /\ parts[i].place = names[i] /\ parts[i].type = u
                          /\ parts[i].optional = FALSE /\ parts[i].got = Ok(j[2][names[i]])
      BY <2>2, <2>3 DEF Part
    <2>7. \A x \in P : T[x] = u /\ G[x] = Ok(j[2][x])
      OBVIOUS
    <2> HIDE DEF parts, T, G, P
    <2>8. Apart(parts)
      BY <2>3, <2>5, <2>6 DEF Apart
    <2>9. \A i \in 1..Len(parts) : Slot(parts[i], P, T, G, {})
      BY <2>3, <2>5, <2>6, <2>7 DEF Slot
    <2>10. \A x \in P : \E i \in 1..Len(parts) : x = parts[i].place
      BY <2>3, <2>5, <2>6
    <2>11. Gives(P, T, G, {}, o, d)
      BY <2>3, <2>4, <2>5, <2>8, <2>9, <2>10, LoopGives
    <2> HIDE DEF d
    <2>12. \A x \in P : IsOk(G[x]) /\ Decoding(T, G, {}, o, x) = Decode(u, j[2][x], Held(o, x, u))
      BY <2>7, OkIs DEF Decoding, Held
    <2>13. /\ r.ok <=> \A x \in P : Decode(u, j[2][x], Held(o, x, u)).ok
           /\ r.ok => /\ r.out = [x \in DOMAIN r.out |-> r.out[x]]
                      /\ DOMAIN r.out = DOMAIN o \cup P
                      /\ \A x \in P : r.out[x] = Decode(u, j[2][x], Held(o, x, u)).out
                      /\ \A x \in DOMAIN o : x \notin P => r.out[x] = o[x]
      BY <2>1, <2>11, <2>12 DEF Gives
    <2> QED
      BY <1>3, <2>13 DEF P
  <1> QED
    BY <1>2, <1>3

LEMMA TupleDecodes ==
    ASSUME Overloads, NEW t \in AllTypes, t[1] = "tuple", NEW ts, ts = t[2], NEW j, IsJson(j),
           NEW N, N = Len(ts), NEW o, IsSequence(o), Len(o) = N, NEW r, r = Decode(t, j, o)
    PROVE  /\ r.ok <=> /\ Kind(j) = "array" /\ Count(j) = N
                       /\ \A i \in 1..N : Decode(ts[i], j[2][i], o[i]).ok
           /\ r.ok => /\ IsSequence(r.out) /\ Len(r.out) = N /\ DOMAIN r.out = 1..N
                      /\ \A i \in 1..N : r.out[i] = Decode(ts[i], j[2][i], o[i]).out
  <1>1. r = DecodeTuple(ts, j, o)
    BY DecodeIs
  <1>2. CASE Count(j) # N \/ Kind(j) # "array"
    BY <1>1, <1>2, OutIs DEF DecodeTuple
  <1>3. CASE Count(j) = N /\ Kind(j) = "array"
    <2> DEFINE parts == [i \in 1..N |-> Part(i, ts[i], FALSE, Ok(Element(j, i)))]
               P == 1..N
               T == [i \in P |-> ts[i]]
               G == [i \in P |-> Ok(j[2][i])]
               d == DecodeParts(parts, o)
    <2>1. r = d
      BY <1>1, <1>3 DEF DecodeTuple
    <2>2. N \in Nat
      BY <1>3, JsonIs
    <2>3. DOMAIN o = P
      BY SequenceIs
    <2>4. o = [i \in DOMAIN o |-> o[i]]
      <3>1. o = [i \in 1..N |-> o[i]]
        BY DEF IsSequence
      <3> QED
        BY <2>3, <3>1
    <2>5. Len(parts) = N
      BY <2>2
    <2>6. \A i \in 1..N : /\ parts[i].place = i /\ parts[i].type = ts[i]
                          /\ parts[i].optional = FALSE /\ parts[i].got = Ok(j[2][i])
      BY DEF Part, Element
    <2>7. \A i \in P : T[i] = ts[i] /\ G[i] = Ok(j[2][i])
      OBVIOUS
    <2> HIDE DEF parts, P, T, G
    <2>8. Apart(parts)
      BY <2>5, <2>6 DEF Apart
    <2>9. \A i \in 1..Len(parts) : Slot(parts[i], P, T, G, {})
      BY <2>5, <2>6, <2>7 DEF Slot, P
    <2>10. \A x \in P : \E i \in 1..Len(parts) : x = parts[i].place
      BY <2>5, <2>6 DEF P
    <2>11. Gives(P, T, G, {}, o, d)
      BY <2>2, <2>4, <2>5, <2>8, <2>9, <2>10, LoopGives
    <2> HIDE DEF d
    <2>12. \A i \in P : IsOk(G[i]) /\ Decoding(T, G, {}, o, i) = Decode(ts[i], j[2][i], o[i])
      BY <2>3, <2>7, OkIs DEF Decoding
    <2>13. /\ r.ok <=> \A i \in P : Decode(ts[i], j[2][i], o[i]).ok
           /\ r.ok => /\ r.out = [x \in DOMAIN r.out |-> r.out[x]]
                      /\ DOMAIN r.out = P
                      /\ \A i \in P : r.out[i] = Decode(ts[i], j[2][i], o[i]).out
      BY <2>1, <2>3, <2>11, <2>12 DEF Gives
    <2>14. r.ok => IsSequence(r.out) /\ Len(r.out) = N
      BY <2>2, <2>13, MakeSequence DEF P
    <2> QED
      BY <1>3, <2>13, <2>14 DEF P
  <1> QED
    BY <1>2, <1>3

(* What a property is decoded into: one that may be missing, always into a *)
(* fresh object.                                                           *)
Target(s, own, x) == IF x \in Required(s) THEN own[x] ELSE Default(Property(s, x).type)

LEMMA MembersDecode ==
    ASSUME Overloads, NEW t \in AllTypes, t[1] = "struct", NEW s, s = t[2],
           NEW j, IsJson(j), Kind(j) = "object",
           NEW own, IsMap(own), Required(s) \subseteq DOMAIN own,
           NEW r, r = DecodeMembers(s, j, own)
    PROVE  /\ r.ok <=> \A x \in Names(s) :
                           IF x \in DOMAIN j[2]
                           THEN Decode(Property(s, x).type, j[2][x], Target(s, own, x)).ok
                           ELSE x \notin Required(s)
           /\ r.ok => /\ r.out = [x \in DOMAIN r.out |-> r.out[x]]
                      /\ DOMAIN r.out = DOMAIN own \cup (Names(s) \cap DOMAIN j[2])
                      /\ \A x \in Names(s) \cap DOMAIN j[2] :
                            r.out[x] = Decode(Property(s, x).type, j[2][x], Target(s, own, x)).out
                      /\ \A x \in DOMAIN own :
                            x \notin Names(s) \cap DOMAIN j[2] => r.out[x] = own[x]
  <1> DEFINE N == Len(s.props)
             parts == [i \in 1..N |-> Part(s.props[i].name, s.props[i].type, s.props[i].optional,
                                           Member(j, s.props[i].name))]
             P == Names(s)
             T == [x \in P |-> Property(s, x).type]
             G == [x \in P |-> Member(j, x)]
             May == P \ Required(s)
             d == DecodeParts(parts, own)
  <1>1. r = d
    BY DEF DecodeMembers
  <1>2. /\ IsSequence(s.props)
        /\ \A i \in DOMAIN s.props :
              /\ s.props[i].name \in Names(s)
              /\ Property(s, s.props[i].name) = s.props[i]
              /\ \A k \in DOMAIN s.props : s.props[i].name = s.props[k].name => i = k
    BY PropsAre
  <1>3. /\ \A x \in Names(s) :
              \E i \in DOMAIN s.props : x = s.props[i].name /\ Property(s, x) = s.props[i]
        /\ \A x \in Names(s) : x \in Required(s) <=> ~Property(s, x).optional
        /\ Required(s) \subseteq Names(s)
    BY NamesAre
  <1>4. N \in Nat /\ DOMAIN s.props = 1..N
    BY <1>2, SequenceIs
  <1>5. own = [x \in DOMAIN own |-> own[x]]
    BY DEF IsMap
  <1>6. \A x : /\ x \in DOMAIN j[2] => Member(j, x) = Ok(j[2][x])
               /\ x \notin DOMAIN j[2] => Member(j, x) = Fail
    BY JsonIs DEF Member
  <1> HIDE DEF N
  <1>7. Len(parts) = N
    BY <1>4
  <1>8. \A i \in 1..N : /\ parts[i].place = s.props[i].name /\ parts[i].type = s.props[i].type
                        /\ parts[i].optional = s.props[i].optional
                        /\ parts[i].got = Member(j, s.props[i].name)
    BY DEF Part
  <1>9. \A x \in P : T[x] = Property(s, x).type /\ G[x] = Member(j, x)
    OBVIOUS
  <1> HIDE DEF parts, T, G
  <1>10. Apart(parts)
    BY <1>2, <1>4, <1>7, <1>8 DEF Apart
  <1>11. ASSUME NEW i \in 1..Len(parts)
         PROVE  Slot(parts[i], P, T, G, May)
    <2> DEFINE q == s.props[i]
               p == parts[i]
    <2>1. i \in 1..N
      BY <1>7
    <2>2. q.name \in P /\ Property(s, q.name) = q
      BY <1>2, <1>4, <2>1
    <2>3. /\ p.place = q.name /\ p.type = q.type /\ p.optional = q.optional
          /\ p.got = Member(j, q.name)
      BY <1>8, <2>1
    <2> HIDE DEF q, p, P
    <2>4. q.name \in Required(s) <=> ~q.optional
      BY <1>3, <2>2 DEF P
    <2>5. Slot(p, P, T, G, May)
      BY <1>9, <2>2, <2>3, <2>4 DEF Slot
    <2> QED
      BY <2>5 DEF p
  <1>12. \A x \in P : \E i \in 1..Len(parts) : x = parts[i].place
    BY <1>3, <1>4, <1>7, <1>8
  <1> HIDE DEF May
  <1>13. Gives(P, T, G, May, own, d)
    BY <1>4, <1>5, <1>7, <1>10, <1>11, <1>12, LoopGives
  <1> HIDE DEF d
  <1>14. \A x \in P : IF x \in DOMAIN own /\ x \notin May THEN x \in Required(s) ELSE x \notin Required(s)
    BY <1>3 DEF May
  <1>15. \A x \in P : IsOk(G[x]) <=> x \in DOMAIN j[2]
    BY <1>6, <1>9, OkIs
  <1>16. \A x \in P : x \in DOMAIN j[2] =>
             Decoding(T, G, May, own, x) = Decode(Property(s, x).type, j[2][x], Target(s, own, x))
    BY <1>6, <1>9, <1>14, OkIs DEF Decoding, Target
  <1>17. \A x \in P : x \in May <=> x \notin Required(s)
    BY DEF May
  <1> HIDE DEF P
  <1>18. /\ r.ok <=> \A x \in P :
                         IF x \in DOMAIN j[2]
                         THEN Decode(Property(s, x).type, j[2][x], Target(s, own, x)).ok
                         ELSE x \notin Required(s)
         /\ r.ok => /\ r.out = [x \in DOMAIN r.out |-> r.out[x]]
                    /\ DOMAIN r.out = DOMAIN own \cup {x \in P : IsOk(G[x])}
                    /\ \A x \in P : x \in DOMAIN j[2] =>
                          r.out[x] = Decode(Property(s, x).type, j[2][x], Target(s, own, x)).out
                    /\ \A x \in DOMAIN own : ~(x \in P /\ x \in DOMAIN j[2]) => r.out[x] = own[x]
    BY <1>1, <1>13, <1>15, <1>16, <1>17 DEF Gives
  <1>19. {x \in P : IsOk(G[x])} = P \cap DOMAIN j[2]
    BY <1>15
  <1> QED
    BY <1>18, <1>19 DEF P

(* The bases, each decoded from the whole object *)
BasesMade(s, j, bases, r) ==
    /\ r.ok <=> \A i \in DOMAIN s.bases : Decode(Ref(s.bases[i]), j, bases[i]).ok
    /\ r.ok => /\ IsSequence(r.out) /\ Len(r.out) = Len(s.bases)
               /\ \A i \in DOMAIN s.bases : r.out[i] = Decode(Ref(s.bases[i]), j, bases[i]).out

LEMMA BasesDecode ==
    ASSUME Overloads, NEW t \in AllTypes, t[1] = "struct", NEW s, s = t[2], NEW j,
           NEW bases, IsSequence(bases), Len(bases) = Len(s.bases),
           NEW r, r = DecodeBases(s, j, bases)
    PROVE  BasesMade(s, j, bases, r)
  <1> DEFINE N == Len(s.bases)
             parts == [i \in 1..N |-> Part(i, Ref(s.bases[i]), FALSE, Ok(j))]
             P == 1..N
             T == [i \in P |-> Ref(s.bases[i])]
             G == [i \in P |-> Ok(j)]
             d == DecodeParts(parts, bases)
  <1>1. r = d
    BY DEF DecodeBases
  <1>2. N \in Nat /\ DOMAIN s.bases = P
    BY BasesAre, SequenceIs
  <1>3. DOMAIN bases = P
    BY SequenceIs
  <1>4. bases = [i \in DOMAIN bases |-> bases[i]]
    <2>1. bases = [i \in 1..N |-> bases[i]]
      BY DEF IsSequence
    <2> QED
      BY <1>3, <2>1
  <1> HIDE DEF N
  <1>5. Len(parts) = N
    BY <1>2
  <1>6. \A i \in 1..N : /\ parts[i].place = i /\ parts[i].type = Ref(s.bases[i])
                        /\ parts[i].optional = FALSE /\ parts[i].got = Ok(j)
    BY DEF Part
  <1>7. \A i \in P : T[i] = Ref(s.bases[i]) /\ G[i] = Ok(j)
    OBVIOUS
  <1> HIDE DEF parts, P, T, G
  <1>8. Apart(parts)
    BY <1>5, <1>6 DEF Apart
  <1>9. \A i \in 1..Len(parts) : Slot(parts[i], P, T, G, {})
    BY <1>5, <1>6, <1>7 DEF Slot, P
  <1>10. \A x \in P : \E i \in 1..Len(parts) : x = parts[i].place
    BY <1>5, <1>6 DEF P
  <1>11. Gives(P, T, G, {}, bases, d)
    BY <1>2, <1>4, <1>5, <1>8, <1>9, <1>10, LoopGives
  <1> HIDE DEF d
  <1>12. \A i \in P : IsOk(G[i]) /\ Decoding(T, G, {}, bases, i) = Decode(Ref(s.bases[i]), j, bases[i])
    BY <1>3, <1>7, OkIs DEF Decoding
  <1>13. /\ r.ok <=> \A i \in P : Decode(Ref(s.bases[i]), j, bases[i]).ok
         /\ r.ok => /\ r.out = [x \in DOMAIN r.out |-> r.out[x]]
                    /\ DOMAIN r.out = P
                    /\ \A i \in P : r.out[i] = Decode(Ref(s.bases[i]), j, bases[i]).out
    BY <1>1, <1>3, <1>11, <1>12 DEF Gives
  <1>14. r.ok => IsSequence(r.out) /\ Len(r.out) = N
    BY <1>2, <1>13, MakeSequence DEF P
  <1> QED
    BY <1>2, <1>13, <1>14 DEF N, BasesMade

(* When Decode() of a structure accepts *)
Accepting(s, j, o) ==
    /\ Kind(j) = "object" /\ MatchKind(j, s.kind)
    /\ \A x \in Names(s) : IF x \in DOMAIN j[2]
                           THEN Decode(Property(s, x).type, j[2][x], Target(s, o.own, x)).ok
                           ELSE x \notin Required(s)
    /\ \A i \in DOMAIN s.bases : Decode(Ref(s.bases[i]), j, o.bases[i]).ok

(* and what it then makes of the value o *)
Made(s, j, o, v) ==
    /\ v.own = [x \in DOMAIN v.own |-> v.own[x]]
    /\ DOMAIN v.own = DOMAIN o.own \cup (Names(s) \cap DOMAIN j[2])
    /\ \A x \in Names(s) \cap DOMAIN j[2] :
          v.own[x] = Decode(Property(s, x).type, j[2][x], Target(s, o.own, x)).out
    /\ \A x \in DOMAIN o.own : x \notin Names(s) \cap DOMAIN j[2] => v.own[x] = o.own[x]
    /\ \A i \in DOMAIN s.bases : v.bases[i] = Decode(Ref(s.bases[i]), j, o.bases[i]).out

LEMMA StructAccepts ==
    ASSUME Overloads, NEW t \in AllTypes, t[1] = "struct", NEW s, s = t[2], NEW j, IsJson(j),
           NEW o, Sound(t, o), NEW r, r = Decode(t, j, o)
    PROVE  /\ r.ok <=> Accepting(s, j, o)
           /\ r.ok => Made(s, j, o, r.out)
  <1> DEFINE mine == DecodeMembers(s, j, o.own)
             theirs == DecodeBases(s, j, o.bases)
  <1>1. r = DecodeStruct(s, j, o)
    BY DecodeIs
  <1>2. /\ IsMap(o.own) /\ Required(s) \subseteq DOMAIN o.own
        /\ IsSequence(o.bases) /\ Len(o.bases) = Len(s.bases)
    BY SoundStruct
  <1>3. \/ /\ Kind(j) # "object" \/ ~MatchKind(j, s.kind)
           /\ r = Refused(o)
        \/ /\ Kind(j) = "object" /\ MatchKind(j, s.kind)
           /\ r.out.own = mine.out
           /\ r.ok => mine.ok /\ theirs.ok /\ r.out.bases = theirs.out
           /\ mine.ok /\ theirs.ok => r.ok
    <2> DEFINE d == DecodeStruct(s, j, o)
    <2>1. \/ /\ Kind(j) # "object" \/ ~MatchKind(j, s.kind)
             /\ d = Refused(o)
          \/ /\ Kind(j) = "object" /\ MatchKind(j, s.kind)
             /\ d.out.own = mine.out
             /\ d.out.bases \in {o.bases, theirs.out}
             /\ d.out = [own |-> d.out.own, bases |-> d.out.bases]
             /\ d.ok => mine.ok /\ theirs.ok /\ d.out.bases = theirs.out
             /\ mine.ok /\ theirs.ok => d.ok
      BY StructDecodes
    <2>2. r = d
      BY <1>1
    <2> HIDE DEF d, mine, theirs
    <2> QED
      BY <2>1, <2>2
  <1>4. CASE Kind(j) # "object" \/ ~MatchKind(j, s.kind)
    BY <1>3, <1>4, OutIs DEF Accepting
  <1>5. CASE Kind(j) = "object" /\ MatchKind(j, s.kind)
    <2>1. /\ mine.ok <=> \A x \in Names(s) :
                             IF x \in DOMAIN j[2]
                             THEN Decode(Property(s, x).type, j[2][x], Target(s, o.own, x)).ok
                             ELSE x \notin Required(s)
          /\ mine.ok => /\ mine.out = [x \in DOMAIN mine.out |-> mine.out[x]]
                        /\ DOMAIN mine.out = DOMAIN o.own \cup (Names(s) \cap DOMAIN j[2])
                        /\ \A x \in Names(s) \cap DOMAIN j[2] :
                              mine.out[x] =
                                  Decode(Property(s, x).type, j[2][x], Target(s, o.own, x)).out
                        /\ \A x \in DOMAIN o.own :
                              x \notin Names(s) \cap DOMAIN j[2] => mine.out[x] = o.own[x]
      BY <1>2, <1>5, MembersDecode
    <2>2. /\ theirs.ok <=> \A i \in DOMAIN s.bases : Decode(Ref(s.bases[i]), j, o.bases[i]).ok
          /\ theirs.ok => /\ IsSequence(theirs.out) /\ Len(theirs.out) = Len(s.bases)
                          /\ \A i \in DOMAIN s.bases :
                                theirs.out[i] = Decode(Ref(s.bases[i]), j, o.bases[i]).out
      <3> DEFINE bs == o.bases
      <3>1. IsSequence(bs) /\ Len(bs) = Len(s.bases) /\ theirs = DecodeBases(s, j, bs)
        BY <1>2
      <3> HIDE DEF bs, theirs
      <3>2. BasesMade(s, j, bs, theirs)
        BY <3>1, BasesDecode
      <3> QED
        BY <3>2 DEF bs, BasesMade
    <2> HIDE DEF mine, theirs
    <2>3. /\ r.out.own = mine.out /\ (r.ok <=> mine.ok /\ theirs.ok)
          /\ r.ok => r.out.bases = theirs.out
      BY <1>3, <1>5
    <2>4. r.ok <=> Accepting(s, j, o)
      BY <1>5, <2>1, <2>2, <2>3 DEF Accepting
    <2>5. r.ok => Made(s, j, o, r.out)
      BY <2>1, <2>2, <2>3 DEF Made
    <2> QED
      BY <2>4, <2>5
  <1> QED
    BY <1>4, <1>5

-----------------------------------------------------------------------------
(* What JSON may say: what b says or, where b is silent, what old does *)

Fits(b, old, x) == Sound(Within(b, old), x)

LEMMA FitsIs ==
    ASSUME NEW b, NEW old, NEW x
    PROVE  /\ Kind(x) \in {"int", "uint", "real"} => (Fits(b, old, x) <=> GetF64(x) = GetF64(b))
           /\ Kind(x) = "array" =>
                 (Fits(b, old, x) <=> /\ Kind(b) = "array" /\ Count(x) = Count(b)
                                      /\ \A i \in DOMAIN x[2] : Sound(Below(b, old, i), x[2][i]))
           /\ Kind(x) = "object" =>
                 (Fits(b, old, x) <=> /\ Kind(b) = "object"
                                      /\ \A i \in DOMAIN x[2] : Sound(Below(b, old, i), x[2][i]))
           /\ Kind(x) \notin {"int", "uint", "real", "array", "object"} => (Fits(b, old, x) <=> x = b)
  <1> DEFINE w == Within(b, old)
  <1>1. w[1] = "within" /\ w[2] = b /\ w[3] = old
    BY DEF Within
  <1>2. Inside(w, x) = IF Container(x) THEN {<<Below(b, old, i), x[2][i]>> : i \in DOMAIN x[2]}
                       ELSE {}
    BY <1>1, InsideIs
  <1>3. WellTyped(w, x) <=>
            CASE Kind(x) \in {"int", "uint", "real"} -> GetF64(x) = GetF64(b)
              [] Kind(x) = "array" -> Kind(b) = "array" /\ Count(x) = Count(b)
              [] Kind(x) = "object" -> Kind(b) = "object"
              [] OTHER -> x = b
    BY <1>1 DEF WellTyped
  <1> HIDE DEF w
  <1>4. Fits(b, old, x) <=> WellTyped(w, x) /\ \A p \in Inside(w, x) : Sound(p[1], p[2])
    BY SoundIs DEF Fits, w
  <1>5. CASE Container(x)
    <2>1. \A p : p \in Inside(w, x) <=> \E i \in DOMAIN x[2] : p = <<Below(b, old, i), x[2][i]>>
      BY <1>2, <1>5
    <2>2. (\A p \in Inside(w, x) : Sound(p[1], p[2]))
              <=> \A i \in DOMAIN x[2] : Sound(Below(b, old, i), x[2][i])
      <3>1. ASSUME \A p \in Inside(w, x) : Sound(p[1], p[2]), NEW i \in DOMAIN x[2]
            PROVE  Sound(Below(b, old, i), x[2][i])
        <4> DEFINE p == <<Below(b, old, i), x[2][i]>>
        <4>1. p \in Inside(w, x) /\ p[1] = Below(b, old, i) /\ p[2] = x[2][i]
          BY <2>1
        <4> HIDE DEF p
        <4> QED
          BY <3>1, <4>1
      <3>2. ASSUME \A i \in DOMAIN x[2] : Sound(Below(b, old, i), x[2][i]), NEW p \in Inside(w, x)
            PROVE  Sound(p[1], p[2])
        <4>1. PICK i \in DOMAIN x[2] : p = <<Below(b, old, i), x[2][i]>>
          BY <2>1
        <4> QED
          BY <3>2, <4>1
      <3> QED
        BY <3>1, <3>2
    <2> QED
      BY <1>3, <1>4, <1>5, <2>2 DEF Container
  <1>6. CASE ~Container(x)
    BY <1>2, <1>3, <1>4, <1>6 DEF Container
  <1> QED
    BY <1>5, <1>6

LEMMA AtIs ==
    ASSUME NEW j, NEW i
    PROVE  /\ Container(j) /\ i \in DOMAIN j[2] => At(j, i) = j[2][i]
           /\ ~(Container(j) /\ i \in DOMAIN j[2]) => At(j, i) = Nothing
           /\ At(Nothing, i) = Nothing /\ Kind(Nothing) = "nothing"
  BY DEF At, Container, Kind, Nothing

LEMMA BelowIs ==
    ASSUME NEW b, NEW old, NEW i
    PROVE  /\ At(b, i) = Nothing => Below(b, old, i) = Within(At(old, i), Nothing)
           /\ At(b, i) # Nothing /\ (old = Nothing \/ Kind(old) = Kind(b)) =>
                 Below(b, old, i) = Within(At(b, i), At(old, i))
           /\ Below(b, Nothing, i) = Within(At(b, i), Nothing)
  <1>1. At(Nothing, i) = Nothing
    BY AtIs
  <1> QED
    BY <1>1 DEF Below

(* What is JSON is neither Nothing nor Aborted. *)
LEMMA JsonIsNot ==
    ASSUME NEW j, IsJson(j)
    PROVE  j # Nothing /\ j # Aborted
  <1>1. Kind(j) # "nothing" /\ Kind(j) # "aborted"
    BY JsonIs
  <1> QED
    BY <1>1 DEF Kind, Aborted, Nothing

(* No JSON says nothing. *)
LEMMA NothingFits ==
    ASSUME NEW old, NEW x, IsJson(x)
    PROVE  ~Fits(Nothing, old, x)
  <1>1. Kind(Nothing) = "nothing" /\ x # Nothing
    BY AtIs, JsonIsNot
  <1>2. Kind(x) \in {"int", "uint", "real"} => GetF64(x) # GetF64(Nothing)
    <2>1. GetF64(Nothing) = Fail
      BY <1>1 DEF GetF64
    <2>2. Kind(x) \in {"int", "uint", "real"} => IsOk(GetF64(x))
      BY OkIs DEF GetF64
    <2> QED
      BY <2>1, <2>2, OkIs
  <1> QED
    BY <1>1, <1>2, FitsIs

LEMMA FitsWider ==
    \A n \in Nat : \A b, old, x : GoodJson(n, x) /\ Fits(b, Nothing, x) => Fits(b, old, x)
  <1> DEFINE Bad == {n \in Nat : \E b, old, x : /\ GoodJson(n, x) /\ Fits(b, Nothing, x)
                                                /\ ~Fits(b, old, x)}
  <1>1. ASSUME Bad # {}
        PROVE  FALSE
    <2>1. Bad \in SUBSET Nat
      OBVIOUS
    <2>2. PICK n \in Bad : \A m \in Bad : n <= m
      BY <1>1, <2>1, Smallest, Zenon
    <2>3. PICK b, old, x : GoodJson(n, x) /\ Fits(b, Nothing, x) /\ ~Fits(b, old, x)
      OBVIOUS
    <2>4. /\ n # 0 /\ n \in Nat /\ IsJson(x)
          /\ Container(x) => \A i \in DOMAIN x[2] : GoodJson(n - 1, x[2][i])
      BY <2>3, GoodJsonIs
    <2>5. n - 1 \in Nat /\ ~(n <= n - 1)
      BY <2>4
    <2>6. \A c, d, y : GoodJson(n - 1, y) /\ Fits(c, Nothing, y) => Fits(c, d, y)
      BY <2>2, <2>5
    <2> HIDE DEF Bad
    <2>7. ASSUME Container(x), NEW i \in DOMAIN x[2], Sound(Below(b, Nothing, i), x[2][i])
          PROVE  Sound(Below(b, old, i), x[2][i])
      <3> DEFINE y == x[2][i]
      <3>1. GoodJson(n - 1, y) /\ Fits(At(b, i), Nothing, y)
        BY <2>4, <2>7, BelowIs DEF Fits
      <3> HIDE DEF y
      <3>2. IsJson(y)
        BY <2>5, <3>1, GoodJsonIs
      <3>3. At(b, i) # Nothing
        BY <3>1, <3>2, NothingFits
      <3>4. \E d : Below(b, old, i) = Within(At(b, i), d)
        BY <3>3 DEF Below
      <3>5. \A d : Sound(Within(At(b, i), d), y)
        BY <2>6, <3>1 DEF Fits
      <3>6. Sound(Below(b, old, i), y)
        BY <3>4, <3>5
      <3> QED
        BY <3>6 DEF y
    <2> QED
      BY <2>3, <2>7, FitsIs DEF Container
  <1> QED
    BY <1>1

LEMMA FitsItself ==
    \A n \in Nat : \A x : GoodJson(n, x) => Fits(x, Nothing, x)
  <1> DEFINE Bad == {n \in Nat : \E x : GoodJson(n, x) /\ ~Fits(x, Nothing, x)}
  <1>1. ASSUME Bad # {}
        PROVE  FALSE
    <2>1. Bad \in SUBSET Nat
      OBVIOUS
    <2>2. PICK n \in Bad : \A m \in Bad : n <= m
      BY <1>1, <2>1, Smallest, Zenon
    <2>3. PICK x : GoodJson(n, x) /\ ~Fits(x, Nothing, x)
      OBVIOUS
    <2>4. /\ n # 0 /\ n \in Nat
          /\ Container(x) => \A i \in DOMAIN x[2] : GoodJson(n - 1, x[2][i])
      BY <2>3, GoodJsonIs
    <2>5. n - 1 \in Nat /\ ~(n <= n - 1)
      BY <2>4
    <2>6. \A y : GoodJson(n - 1, y) => Fits(y, Nothing, y)
      BY <2>2, <2>5
    <2> HIDE DEF Bad
    <2>7. ASSUME Container(x), NEW i \in DOMAIN x[2]
          PROVE  Sound(Below(x, Nothing, i), x[2][i])
      <3>1. Fits(x[2][i], Nothing, x[2][i])
        BY <2>4, <2>6, <2>7
      <3>2. Below(x, Nothing, i) = Within(x[2][i], Nothing)
        BY <2>7, AtIs, BelowIs
      <3> QED
        BY <3>1, <3>2 DEF Fits
    <2> QED
      BY <2>3, <2>7, FitsIs DEF Container
  <1> QED
    BY <1>1

-----------------------------------------------------------------------------
(* The members of the encoding of a structure, each from where it comes *)

EncodesJson(t) == \A v : Sound(t, v) => Encode(t, v) = Aborted \/ IsJson(Encode(t, v))

LEMMA SequenceEncodesJson ==
    ASSUME NEW N \in Nat, NEW e, e = [i \in 1..N |-> e[i]]
    PROVE  Elements(e) = Aborted \/ IsJson(Elements(e))
  BY ElementsIs

LEMMA MapEncodesJson ==
    ASSUME Overloads, NEW t \in AllTypes, t[1] = "map", NEW v, IsMap(v)
    PROVE  /\ Encode(t, v) = Aborted <=> \E x \in DOMAIN v : Encode(t[2], v[x]) = Aborted
           /\ Encode(t, v) # Aborted =>
                 /\ Kind(Encode(t, v)) = "object" /\ Container(Encode(t, v)) /\ IsJson(Encode(t, v))
                 /\ DOMAIN Encode(t, v)[2] = DOMAIN v
                 /\ \A x \in DOMAIN v : Encode(t, v)[2][x] = Encode(t[2], v[x])
  <1> DEFINE u == t[2]
             g == [x \in DOMAIN v |-> Encode(u, v[x])]
             groups == <<g>>
             j == Object(groups)
             one == 1
  <1>1. Encode(t, v) = IF \E x \in DOMAIN v : g[x] = Aborted THEN Aborted ELSE j
    BY EncodeIs DEF EncodeMap
  <1>2. DOMAIN g = DOMAIN v /\ \A x \in DOMAIN v : g[x] = Encode(u, v[x])
    OBVIOUS
  <1>3. one \in Nat /\ DOMAIN groups = 1..one /\ 1 \in 1..one /\ \A i \in 1..one : groups[i] = g
    OBVIOUS
  <1>4. j = Object(groups)
    OBVIOUS
  <1> HIDE DEF g, groups, one, j
  <1>5. Group(g)
    BY <1>2 DEF Group, IsMap
  <1>6. /\ Kind(j) = "object" /\ Container(j) /\ IsJson(j)
        /\ \A x : x \in DOMAIN j[2] <=> \E i \in 1..one : x \in DOMAIN groups[i]
        /\ \A x \in DOMAIN j[2] : \E i \in 1..one : x \in DOMAIN groups[i] /\ j[2][x] = groups[i][x]
    <2>1. \A i \in 1..one : Group(groups[i])
      BY <1>3, <1>5
    <2> QED
      BY <1>3, <1>4, <2>1, ObjectIs
  <1>7. j # Aborted
    BY <1>6, JsonIsNot
  <1>8. DOMAIN j[2] = DOMAIN v
    BY <1>2, <1>3, <1>6
  <1>9. \A x \in DOMAIN v : j[2][x] = Encode(u, v[x])
    BY <1>2, <1>3, <1>6, <1>8
  <1> QED
    BY <1>1, <1>2, <1>6, <1>7, <1>8, <1>9

LEMMA EncodeJson ==
    ASSUME Overloads
    PROVE  \A t \in AllTypes : EncodesJson(t)
  <1> DEFINE R == {Rank(t) : t \in {u \in AllTypes : ~EncodesJson(u)}}
  <1>1. ASSUME R # {}
        PROVE  FALSE
    <2>1. R \in SUBSET Nat
      BY RankAssumption
    <2>2. PICK r \in R : \A m \in R : r <= m
      BY <1>1, <2>1, Smallest, Zenon
    <2>3. PICK t \in AllTypes : r = Rank(t) /\ ~EncodesJson(t)
      BY <2>2
    <2>4. \A u \in AllTypes : Rank(u) < Rank(t) => EncodesJson(u)
      BY <2>2, <2>3, RankAssumption
    <2>5. PICK v : Sound(t, v) /\ Encode(t, v) # Aborted /\ ~IsJson(Encode(t, v))
      BY <2>3 DEF EncodesJson
    <2> HIDE DEF R
    <2>6. CASE t[1] \in {"null", "boolean", "integer", "uinteger", "decimal", "string"}
      <3>1. WellTyped(t, v)
        BY <2>5, SoundIs
      <3> DEFINE n == 0
      <3>2. n \in Nat /\ n + 1 \in Nat
        OBVIOUS
      <3> HIDE DEF n
      <3>3. GoodJson(n + 1, Encode(t, v))
        BY <2>6, <3>1, <3>2, PrimitiveEncodes
      <3> QED
        BY <2>5, <3>2, <3>3, GoodJsonIs
    <2>7. CASE t[1] = "vector"
      <3> DEFINE e == [i \in 1..Len(v) |-> Encode(t[2], v[i])]
      <3>1. Len(v) \in Nat
        BY <2>5, <2>7, SoundVector, SequenceIs
      <3>2. Encode(t, v) = Elements(e) /\ e = [i \in 1..Len(v) |-> e[i]]
        BY <2>7, EncodeIs
      <3> HIDE DEF e
      <3> QED
        BY <2>5, <3>1, <3>2, SequenceEncodesJson
    <2>8. CASE t[1] = "tuple"
      <3> DEFINE N == Len(t[2])
                 e == [i \in 1..N |-> Encode(t[2][i], v[i])]
      <3>1. N \in Nat
        BY <2>8, TypeIs, SequenceIs
      <3>2. Encode(t, v) = Elements(e) /\ e = [i \in 1..N |-> e[i]]
        BY <2>8, EncodeIs
      <3> HIDE DEF e, N
      <3> QED
        BY <2>5, <3>1, <3>2, SequenceEncodesJson
    <2>9. CASE t[1] = "map"
      BY <2>5, <2>9, SoundMap, MapEncodesJson
    <2>10. CASE t[1] = "oneof"
      <3>1. Encode(t, v) = IF v = <<>> THEN Aborted ELSE Encode(t[2][v[1]], v[2])
        BY <2>10, EncodeIs DEF Visit
      <3>2. v[1] \in DOMAIN t[2] /\ Sound(t[2][v[1]], v[2])
        BY <2>5, <2>10, <3>1, SoundOneOf
      <3>3. EncodesJson(t[2][v[1]])
        BY <2>4, <2>10, <3>2, TypeIs
      <3> QED
        BY <2>5, <3>1, <3>2, <3>3 DEF EncodesJson
    <2>11. CASE t[1] = "enum"
      <3>1. Encode(t, v) = Encode(t[2], t[3][v])
        BY <2>11, EncodeIs
      <3>2. v \in DOMAIN t[3]
        BY <2>5, <2>11, SoundPlain, WellTypedIs
      <3>3. t[2] \in AllTypes /\ EncodesJson(t[2]) /\ WellTyped(t[2], t[3][v])
        BY <2>4, <2>11, <3>2, TypeIs
      <3>4. t[2][1] \in {"integer", "uinteger", "string"}
        BY <2>11, TypeIs DEF Integer, Uinteger, String
      <3>5. Sound(t[2], t[3][v])
        BY <3>3, <3>4, SoundPlain
      <3> QED
        BY <2>5, <3>1, <3>3, <3>5 DEF EncodesJson
    <2>12. CASE t[1] = "struct"
      <3> DEFINE s == t[2]
                 e == Encode(t, v)
      <3>1. \A i \in DOMAIN s.bases : EncodedBase(s, v, i) = Aborted \/ IsJson(EncodedBase(s, v, i))
        <4> SUFFICES ASSUME NEW i \in DOMAIN s.bases
                     PROVE  EncodedBase(s, v, i) = Aborted \/ IsJson(EncodedBase(s, v, i))
          OBVIOUS
        <4>1. EncodesJson(Ref(s.bases[i]))
          BY <2>4, <2>12, BasesAre
        <4>2. Sound(Ref(s.bases[i]), v.bases[i])
          BY <2>5, <2>12, SoundStruct
        <4> QED
          BY <4>1, <4>2 DEF EncodesJson, EncodedBase
      <3>2. e # Aborted => StructEncoding(s, v, e)
        BY <2>5, <2>12, <3>1, StructEncodes
      <3>3. e # Aborted => IsJson(e)
        BY <3>2 DEF StructEncoding
      <3> QED
        BY <2>5, <3>3
    <2>13. CASE t[1] = "ref"
      <3>1. Encode(t, v) = Encode(Resolve(t[2]), v) /\ Sound(Resolve(t[2]), v)
        BY <2>5, <2>13, EncodeIs, SoundRef
      <3>2. EncodesJson(Resolve(t[2]))
        BY <2>4, <2>13, TypeIs
      <3> QED
        BY <2>5, <3>1, <3>2 DEF EncodesJson
    <2> QED
      BY <2>6, <2>7, <2>8, <2>9, <2>10, <2>11, <2>12, <2>13, TypeIs
  <1> QED
    BY <1>1

(* What the encoding of a structure is when it does not abort *)
LEMMA StructSays ==
    ASSUME Overloads, NEW t \in AllTypes, t[1] = "struct", NEW s, s = t[2], NEW v, Sound(t, v),
           NEW e, e = Encode(t, v), e # Aborted
    PROVE  /\ StructEncoding(s, v, e)
           /\ \A i \in DOMAIN s.bases :
                 /\ IsJson(EncodedBase(s, v, i)) /\ Kind(EncodedBase(s, v, i)) = "object"
                 /\ Container(EncodedBase(s, v, i))
  <1>1. \A i \in DOMAIN s.bases : EncodedBase(s, v, i) = Aborted \/ IsJson(EncodedBase(s, v, i))
    <2> SUFFICES ASSUME NEW i \in DOMAIN s.bases
                 PROVE  EncodedBase(s, v, i) = Aborted \/ IsJson(EncodedBase(s, v, i))
      OBVIOUS
    <2>1. EncodesJson(Ref(s.bases[i])) /\ Sound(Ref(s.bases[i]), v.bases[i])
      BY BasesAre, EncodeJson, SoundStruct
    <2> QED
      BY <2>1 DEF EncodesJson, EncodedBase
  <1>2. StructEncoding(s, v, e)
    BY <1>1, StructEncodes
  <1> QED
    BY <1>1, <1>2 DEF StructEncoding, Container

(* Every name is the structure's own or of one of its bases. *)
NamesAllowed(t) ==
    \A v : Sound(t, v) /\ Encode(t, v) # Aborted => DOMAIN Encode(t, v)[2] \subseteq AllNames(t[2])

LEMMA NamesAreApart ==
    ASSUME NEW t \in AllTypes, t[1] = "struct", NEW s, s = t[2]
    PROVE  /\ Names(s) \subseteq AllNames(s)
           /\ s.kind # NoKind => "kind" \in AllNames(s) /\ "kind" \notin Names(s)
           /\ \A i \in DOMAIN s.bases : /\ BaseNames(s, i) \subseteq AllNames(s)
                                        /\ BaseNames(s, i) \subseteq Inherited(s)
                                        /\ BaseNames(s, i) \cap Names(s) = {}
           /\ \A i, k \in DOMAIN s.bases : i # k => BaseNames(s, i) \cap BaseNames(s, k) = {}
           /\ s.kind # NoKind /\ "kind" \in Inherited(s) =>
                 LET b == Resolve(s.bases[1])[2]
                 IN  /\ 1 \in DOMAIN s.bases /\ "kind" \in Required(b)
                     /\ Property(b, "kind").type = String
  <1>1. NamesApart(s)
    BY NamesAssumption
  <1>2. DOMAIN KindMember(s) = IF s.kind = NoKind THEN {} ELSE {"kind"}
    BY DEF KindMember
  <1>3. \A i \in DOMAIN s.bases : BaseNames(s, i) \subseteq Inherited(s)
    BY DEF Inherited
  <1> QED
    BY <1>1, <1>2, <1>3 DEF NamesApart

(* A base, as the structure it refers to *)
LEMMA BaseIs ==
    ASSUME Overloads, NEW t \in AllTypes, t[1] = "struct", NEW s, s = t[2], NEW i \in DOMAIN s.bases,
           NEW u, u = Resolve(s.bases[i])
    PROVE  /\ u \in AllTypes /\ u[1] = "struct" /\ Rank(u) < Rank(t) /\ BaseNames(s, i) = AllNames(u[2])
           /\ \A v : Sound(t, v) => Sound(u, v.bases[i]) /\ EncodedBase(s, v, i) = Encode(u, v.bases[i])
  <1> DEFINE w == Ref(s.bases[i])
  <1>1. w \in AllTypes /\ Rank(w) < Rank(t) /\ u[1] = "struct"
    BY BasesAre
  <1>2. w[1] = "ref" /\ w[2] = s.bases[i]
    BY DEF Ref
  <1> HIDE DEF w
  <1>3. u \in AllTypes /\ Rank(u) < Rank(w)
    BY <1>1, <1>2, TypeIs
  <1>4. Rank(u) < Rank(t)
    BY <1>1, <1>3, RankAssumption
  <1>5. ASSUME NEW v, Sound(t, v)
        PROVE  Sound(u, v.bases[i]) /\ EncodedBase(s, v, i) = Encode(u, v.bases[i])
    <2>1. Sound(w, v.bases[i])
      BY <1>5, SoundStruct DEF w
    <2>2. Encode(w, v.bases[i]) = Encode(u, v.bases[i])
      BY <1>1, <1>2, EncodeIs
    <2> QED
      BY <1>2, <2>1, <2>2, SoundRef DEF EncodedBase, w
  <1> QED
    BY <1>1, <1>3, <1>4, <1>5 DEF BaseNames

LEMMA EncodedNames ==
    ASSUME Overloads
    PROVE  \A t \in AllTypes : t[1] = "struct" => NamesAllowed(t)
  <1> DEFINE R == {Rank(t) : t \in {u \in AllTypes : u[1] = "struct" /\ ~NamesAllowed(u)}}
  <1>1. ASSUME R # {}
        PROVE  FALSE
    <2>1. R \in SUBSET Nat
      BY RankAssumption
    <2>2. PICK r \in R : \A m \in R : r <= m
      BY <1>1, <2>1, Smallest, Zenon
    <2>3. PICK t \in AllTypes : r = Rank(t) /\ t[1] = "struct" /\ ~NamesAllowed(t)
      BY <2>2
    <2>4. \A u \in AllTypes : Rank(u) < Rank(t) /\ u[1] = "struct" => NamesAllowed(u)
      BY <2>2, <2>3, RankAssumption
    <2> HIDE DEF R
    <2> DEFINE s == t[2]
    <2>5. PICK v : Sound(t, v) /\ Encode(t, v) # Aborted /\ ~(DOMAIN Encode(t, v)[2] \subseteq AllNames(s))
      BY <2>3 DEF NamesAllowed
    <2> DEFINE e == Encode(t, v)
    <2>6. StructEncoding(s, v, e)
      BY <2>3, <2>5, StructSays
    <2>7. ASSUME NEW i \in DOMAIN s.bases
          PROVE  DOMAIN EncodedBase(s, v, i)[2] \subseteq AllNames(s)
      <3> DEFINE u == Resolve(s.bases[i])
      <3>1. /\ u \in AllTypes /\ u[1] = "struct" /\ Rank(u) < Rank(t) /\ BaseNames(s, i) = AllNames(u[2])
            /\ Sound(u, v.bases[i]) /\ EncodedBase(s, v, i) = Encode(u, v.bases[i])
        BY <2>3, <2>5, BaseIs
      <3>2. BaseNames(s, i) \subseteq AllNames(s)
        BY <2>3, NamesAreApart
      <3>3. EncodedBase(s, v, i) # Aborted
        BY <2>6 DEF StructEncoding
      <3> HIDE DEF u
      <3> QED
        BY <2>4, <3>1, <3>2, <3>3 DEF NamesAllowed
    <2>8. DOMAIN v.own \subseteq AllNames(s)
      BY <2>3, <2>5, SoundStruct, NamesAreApart
    <2>9. s.kind # NoKind => "kind" \in AllNames(s)
      BY <2>3, NamesAreApart
    <2>10. \A x \in DOMAIN e[2] : \/ x = "kind" /\ s.kind # NoKind
                                  \/ x \in DOMAIN v.own
                                  \/ \E i \in DOMAIN s.bases : x \in DOMAIN EncodedBase(s, v, i)[2]
      BY <2>6 DEF StructEncoding
    <2> HIDE DEF s, e
    <2> QED
      BY <2>5, <2>7, <2>8, <2>9, <2>10 DEF e
  <1> QED
    BY <1>1

(* The members of an encoded structure, by where their names come from *)
Said(s, v, e) ==
    /\ \A x \in Names(s) :
          At(e, x) = IF x \in DOMAIN v.own THEN Encode(Property(s, x).type, v.own[x]) ELSE Nothing
    /\ \A i \in DOMAIN s.bases :
          /\ DOMAIN EncodedBase(s, v, i)[2] \subseteq BaseNames(s, i)
          /\ \A x \in BaseNames(s, i) : At(e, x) = At(EncodedBase(s, v, i), x)

LEMMA MembersSaid ==
    ASSUME Overloads, NEW t \in AllTypes, t[1] = "struct", NEW s, s = t[2], NEW v, Sound(t, v),
           NEW e, e = Encode(t, v), e # Aborted
    PROVE  Said(s, v, e)
  <1>1. /\ StructEncoding(s, v, e)
        /\ \A i \in DOMAIN s.bases :
              /\ IsJson(EncodedBase(s, v, i)) /\ Kind(EncodedBase(s, v, i)) = "object"
              /\ Container(EncodedBase(s, v, i))
    BY StructSays
  <1>2. /\ s.kind # NoKind => "kind" \notin Names(s)
        /\ \A i \in DOMAIN s.bases : /\ BaseNames(s, i) \subseteq Inherited(s)
                                     /\ BaseNames(s, i) \cap Names(s) = {}
        /\ \A i, k \in DOMAIN s.bases : i # k => BaseNames(s, i) \cap BaseNames(s, k) = {}
    BY NamesAreApart
  <1>3. ASSUME NEW i \in DOMAIN s.bases
        PROVE  /\ DOMAIN EncodedBase(s, v, i)[2] \subseteq BaseNames(s, i)
               /\ \A x \in Required(Resolve(s.bases[i])[2]) : x \in DOMAIN EncodedBase(s, v, i)[2]
    <2> DEFINE u == Resolve(s.bases[i])
               b == v.bases[i]
    <2>1. /\ u \in AllTypes /\ u[1] = "struct" /\ BaseNames(s, i) = AllNames(u[2])
          /\ Sound(u, b) /\ EncodedBase(s, v, i) = Encode(u, b)
      BY BaseIs
    <2>2. Encode(u, b) # Aborted
      BY <1>1, <2>1 DEF StructEncoding
    <2> HIDE DEF u, b
    <2>3. StructEncoding(u[2], b, Encode(u, b)) /\ Required(u[2]) \subseteq DOMAIN b.own
      BY <2>1, <2>2, StructSays, SoundStruct
    <2>4. DOMAIN Encode(u, b)[2] \subseteq AllNames(u[2])
      BY <2>1, <2>2, EncodedNames DEF NamesAllowed
    <2>5. \A x \in Required(u[2]) : x \in DOMAIN Encode(u, b)[2]
      BY <2>3 DEF StructEncoding
    <2> QED
      BY <2>1, <2>4, <2>5 DEF u
  <1>4. DOMAIN v.own \subseteq Names(s)
    BY SoundStruct
  <1>5. Container(e)
    BY <1>1 DEF StructEncoding
  <1>6. ASSUME NEW x \in Names(s)
        PROVE  At(e, x) = IF x \in DOMAIN v.own THEN Encode(Property(s, x).type, v.own[x]) ELSE Nothing
    <2>1. CASE x \in DOMAIN e[2]
      <3>1. \A i \in DOMAIN s.bases : x \notin DOMAIN EncodedBase(s, v, i)[2]
        BY <1>2, <1>3
      <3>2. x \in DOMAIN v.own /\ e[2][x] = Encode(Property(s, x).type, v.own[x])
        BY <1>1, <1>2, <2>1, <3>1 DEF StructEncoding
      <3> QED
        BY <1>5, <2>1, <3>2, AtIs
    <2>2. CASE x \notin DOMAIN e[2]
      <3>1. x \notin DOMAIN v.own
        BY <1>1, <2>2 DEF StructEncoding
      <3> QED
        BY <2>2, <3>1, AtIs
    <2> QED
      BY <2>1, <2>2
  <1>7. ASSUME NEW i \in DOMAIN s.bases, NEW x \in BaseNames(s, i)
        PROVE  At(e, x) = At(EncodedBase(s, v, i), x)
    <2> DEFINE eb == EncodedBase(s, v, i)
    <2>1. Container(eb) /\ DOMAIN eb[2] \subseteq DOMAIN e[2]
      BY <1>1 DEF StructEncoding
    <2>2. CASE x \in DOMAIN e[2]
      <3>1. x \notin DOMAIN v.own
        BY <1>2, <1>4
      <3>2. ASSUME x = "kind", s.kind # NoKind
            PROVE  \E k \in DOMAIN s.bases : x \in DOMAIN EncodedBase(s, v, k)[2]
        <4>1. "kind" \in Inherited(s)
          BY <1>2, <3>2
        <4>2. 1 \in DOMAIN s.bases /\ "kind" \in Required(Resolve(s.bases[1])[2])
          BY <3>2, <4>1, NamesAreApart
        <4> QED
          BY <1>3, <3>2, <4>2
      <3>3. PICK k \in DOMAIN s.bases : /\ x \in DOMAIN EncodedBase(s, v, k)[2]
                                        /\ e[2][x] = EncodedBase(s, v, k)[2][x]
        BY <1>1, <2>2, <3>1, <3>2 DEF StructEncoding
      <3>4. k = i
        BY <1>2, <1>3, <3>3
      <3> QED
        BY <1>5, <2>1, <2>2, <3>3, <3>4, AtIs
    <2>3. CASE x \notin DOMAIN e[2]
      BY <2>1, <2>3, AtIs
    <2> QED
      BY <2>2, <2>3
  <1> QED
    BY <1>3, <1>6, <1>7 DEF Said

LEMMA BaseSaid ==
    ASSUME Overloads, NEW t \in AllTypes, t[1] = "struct", NEW s, s = t[2], NEW v, Sound(t, v),
           NEW e, e = Encode(t, v), e # Aborted, NEW i \in DOMAIN s.bases
    PROVE  /\ DOMAIN EncodedBase(s, v, i)[2] \subseteq BaseNames(s, i)
           /\ \A x \in BaseNames(s, i) : At(e, x) = At(EncodedBase(s, v, i), x)
  <1>1. Said(s, v, e)
    BY MembersSaid
  <1> QED
    BY <1>1 DEF Said

-----------------------------------------------------------------------------
(* Decoding into an object that was used before.  b is what the object     *)
(* said before, Nothing if it is fresh.                                    *)

Was(t, o, b) ==
    \/ o = Default(t) /\ b = Nothing
    \/ Sound(t, o) /\ b = Encode(t, o) /\ \E k \in Nat : GoodJson(k, b)

(* x is JSON that says what j does or, where j is silent, b. *)
Repeats(n, j, b, x) == IsJson(x) /\ Fits(j, b, x) /\ (b = Nothing => GoodJson(n, x))

DecodesOver(n, t) ==
    \A j, o, b : GoodJson(n, j) /\ Was(t, o, b) /\ Decode(t, j, o).ok
                 => Repeats(n, j, b, Encode(t, Decode(t, j, o).out))

LEMMA WasIs ==
    ASSUME Overloads, NEW t \in AllTypes, NEW o, NEW b, Was(t, o, b)
    PROVE  /\ Sound(t, o)
           /\ \/ o = Default(t) /\ b = Nothing
              \/ /\ b = Encode(t, o) /\ b # Nothing /\ b # Aborted /\ IsJson(b)
                 /\ \E k \in Nat : GoodJson(k, b)
  <1>1. CASE o = Default(t) /\ b = Nothing
    BY <1>1, DefaultSound
  <1>2. ASSUME Sound(t, o), b = Encode(t, o), NEW k \in Nat, GoodJson(k, b)
        PROVE  b # Nothing /\ b # Aborted /\ IsJson(b)
    <2>1. IsJson(b)
      BY <1>2, GoodJsonIs
    <2> QED
      BY <2>1, JsonIsNot
  <1> QED
    BY <1>1, <1>2 DEF Was

LEMMA FreshWas ==
    ASSUME NEW t
    PROVE  Was(t, Default(t), Nothing)
  BY DEF Was

(* What a fresh object repeats, a used one does. *)
LEMMA Widen ==
    ASSUME NEW n \in Nat, NEW j, NEW b, NEW x, Repeats(n, j, Nothing, x)
    PROVE  Repeats(n, j, b, x)
  <1>1. GoodJson(n, x) /\ Fits(j, Nothing, x) /\ IsJson(x)
    BY DEF Repeats
  <1>2. Fits(j, b, x)
    BY <1>1, FitsWider
  <1> QED
    BY <1>1, <1>2 DEF Repeats

(* A part of j is repeated as that part. *)
LEMMA PartFits ==
    ASSUME NEW m, NEW j, NEW b, NEW i, NEW x, IsJson(j), Container(j), i \in DOMAIN j[2],
           b = Nothing \/ Kind(b) = Kind(j), IsJson(j[2][i]), Repeats(m, j[2][i], At(b, i), x)
    PROVE  Sound(Below(j, b, i), x) /\ (b = Nothing => GoodJson(m, x))
  <1>1. At(j, i) = j[2][i] /\ At(j, i) # Nothing
    BY AtIs, JsonIsNot
  <1>2. Below(j, b, i) = Within(j[2][i], At(b, i))
    BY <1>1, BelowIs
  <1>3. b = Nothing => At(b, i) = Nothing
    BY AtIs
  <1> QED
    BY <1>2, <1>3 DEF Repeats, Fits

(* What j does not mention stays as it was. *)
LEMMA KeptFits ==
    ASSUME NEW j, NEW b, NEW i, NEW k \in Nat, GoodJson(k, b), Container(b), i \in DOMAIN b[2],
           Container(j), i \notin DOMAIN j[2]
    PROVE  Sound(Below(j, b, i), b[2][i])
  <1>1. At(j, i) = Nothing /\ At(b, i) = b[2][i]
    BY AtIs
  <1>2. Below(j, b, i) = Within(b[2][i], Nothing)
    BY <1>1, BelowIs
  <1>3. k - 1 \in Nat /\ GoodJson(k - 1, b[2][i])
    BY GoodJsonIs
  <1>4. Fits(b[2][i], Nothing, b[2][i])
    BY <1>3, FitsItself
  <1> QED
    BY <1>2, <1>4 DEF Fits

LEMMA ArrayRepeats ==
    ASSUME NEW n \in Nat, NEW j, GoodJson(n, j), Kind(j) = "array",
           NEW b, b = Nothing \/ Kind(b) = "array",
           NEW N, N = Count(j), NEW e, e = [i \in 1..N |-> e[i]],
           \A i \in 1..N : Repeats(n - 1, j[2][i], At(b, i), e[i])
    PROVE  Repeats(n, j, b, Elements(e))
  <1>1. /\ IsJson(j) /\ n # 0 /\ Container(j)
        /\ \A i \in DOMAIN j[2] : GoodJson(n - 1, j[2][i])
    BY GoodJsonIs DEF Container
  <1>2. N \in Nat /\ DOMAIN j[2] = 1..N
    BY <1>1, JsonIs
  <1>3. \A i \in 1..N : IsJson(e[i]) /\ e[i] # Aborted
    BY JsonIsNot DEF Repeats
  <1> DEFINE x == Elements(e)
  <1>4. /\ IsJson(x) /\ Container(x) /\ Kind(x) = "array" /\ Count(x) = N
        /\ x[2] = e /\ DOMAIN e = 1..N
    BY <1>2, <1>3, ElementsIs
  <1> HIDE DEF x
  <1>5. ASSUME NEW i \in DOMAIN x[2]
        PROVE  Sound(Below(j, b, i), x[2][i]) /\ (b = Nothing => GoodJson(n - 1, x[2][i]))
    <2>1. i \in 1..N /\ i \in DOMAIN j[2] /\ x[2][i] = e[i]
      BY <1>2, <1>4
    <2>2. IsJson(j[2][i])
      <3>1. n - 1 \in Nat /\ GoodJson(n - 1, j[2][i])
        BY <1>1, <2>1
      <3> QED
        BY <3>1, GoodJsonIs
    <2>3. Repeats(n - 1, j[2][i], At(b, i), e[i])
      BY <2>1
    <2> QED
      BY <1>1, <2>1, <2>2, <2>3, PartFits
  <1>6. Fits(j, b, x)
    BY <1>4, <1>5, FitsIs
  <1>7. b = Nothing => GoodJson(n, x)
    BY <1>1, <1>4, <1>5, GoodJsonIs
  <1> QED
    BY <1>4, <1>6, <1>7 DEF Repeats, x

LEMMA ObjectRepeats ==
    ASSUME NEW n \in Nat, NEW j, GoodJson(n, j), Kind(j) = "object", NEW b,
           NEW x, IsJson(x), Kind(x) = "object",
           \A i \in DOMAIN x[2] : /\ Sound(Below(j, b, i), x[2][i])
                                  /\ b = Nothing => GoodJson(n - 1, x[2][i])
    PROVE  Repeats(n, j, b, x)
  <1>1. n # 0
    BY GoodJsonIs
  <1>2. Fits(j, b, x)
    BY FitsIs
  <1>3. b = Nothing => GoodJson(n, x)
    BY <1>1, GoodJsonIs
  <1> QED
    BY <1>2, <1>3 DEF Repeats

Fresh(t, j) == Decode(t, j, Default(t))

LEMMA FreshRepeats ==
    ASSUME NEW n \in Nat, NEW t, DecodesOver(n, t), NEW j, GoodJson(n, j), Fresh(t, j).ok, NEW b
    PROVE  Repeats(n, j, b, Encode(t, Fresh(t, j).out))
  <1>1. Repeats(n, j, Nothing, Encode(t, Fresh(t, j).out))
    BY FreshWas DEF DecodesOver, Fresh
  <1> QED
    BY <1>1, Widen

LEMMA RefWas ==
    ASSUME Overloads, NEW t \in AllTypes, t[1] = "ref", NEW o, NEW b, Was(t, o, b)
    PROVE  Was(Resolve(t[2]), o, b)
  <1> DEFINE u == Resolve(t[2])
  <1>1. Default(t) = Default(u)
    BY FormIs DEF Initial
  <1>2. Encode(t, o) = Encode(u, o) /\ (Sound(t, o) <=> Sound(u, o))
    BY EncodeIs, SoundRef
  <1> HIDE DEF u
  <1> QED
    BY <1>1, <1>2 DEF Was, u

LEMMA PrimitiveDecodesOver ==
    ASSUME Overloads, NEW t \in AllTypes, NEW n \in Nat,
           t[1] \in {"null", "boolean", "integer", "uinteger", "decimal", "string"}
    PROVE  DecodesOver(n, t)
  <1> SUFFICES ASSUME NEW j, NEW o, NEW b, GoodJson(n, j), Was(t, o, b), Decode(t, j, o).ok
               PROVE  Repeats(n, j, b, Encode(t, Decode(t, j, o).out))
    BY DEF DecodesOver
  <1> DEFINE r == Decode(t, j, o)
             v == r.out
             x == Encode(t, v)
  <1>1. Sound(t, v)
    <2>1. DecodesSound(n, t) /\ Sound(t, o)
      BY DecodeSound, WasIs
    <2> QED
      BY <2>1 DEF DecodesSound
  <1>2. WellTyped(t, v)
    BY <1>1, SoundIs
  <1>3. GoodJson(n + 1, x) /\ ~Container(x)
    BY <1>2, PrimitiveEncodes
  <1>4. IsJson(x) /\ GoodJson(n, x)
    <2>1. n + 1 \in Nat /\ n # 0
      BY GoodJsonIs
    <2> QED
      BY <1>3, <2>1, GoodJsonIs
  <1> SUFFICES Fits(j, b, x)
    BY <1>4 DEF Repeats
  <1>5. IsJson(j)
    BY GoodJsonIs
  <1>6. \A g, out : FromResult(g, out).ok => IsOk(g) /\ FromResult(g, out).out = Get(g)
    BY OutIs DEF FromResult
  <1>7. \A k : Kind(j) = k /\ k \notin {"int", "uint", "real", "array", "object"} /\ x = j => Fits(j, b, x)
    BY FitsIs
  <1>8. CASE t[1] = "null"
    <2>1. IsOk(GetNull(j))
      BY <1>6, <1>8, DecodeIs
    <2>2. Kind(j) = "null"
      BY <2>1, OkIs DEF GetNull
    <2>3. j = JNull
      BY <1>5, <2>2 DEF IsJson
    <2>4. x = JNull
      BY <1>8, EncodeIs
    <2> HIDE DEF x
    <2> QED
      BY <1>7, <2>2, <2>3, <2>4
  <1>9. CASE t[1] = "boolean"
    <2>1. IsOk(GetBool(j)) /\ v = Get(GetBool(j))
      BY <1>6, <1>9, DecodeIs
    <2> HIDE DEF v
    <2>2. Kind(j) = "bool" /\ v = j[2]
      BY <2>1, OkIs DEF GetBool
    <2>3. j = JBool(v)
      BY <1>5, <2>2 DEF IsJson
    <2>4. x = JBool(v)
      BY <1>9, EncodeIs
    <2> HIDE DEF x
    <2> QED
      BY <1>7, <2>2, <2>3, <2>4
  <1>10. CASE t[1] = "string"
    <2>1. IsOk(GetString(j)) /\ v = Get(GetString(j))
      BY <1>6, <1>10, DecodeIs
    <2> HIDE DEF v
    <2>2. Kind(j) = "string" /\ v = j[2]
      BY <2>1, OkIs DEF GetString
    <2>3. j = JString(v)
      BY <1>5, <2>2 DEF IsJson
    <2>4. x = JString(v)
      BY <1>10, EncodeIs
    <2> HIDE DEF x
    <2> QED
      BY <1>7, <2>2, <2>3, <2>4
  <1>11. Integral(j) => Kind(j) \in {"int", "uint", "real"} /\ GetF64(j) = Ok(2 * AsInteger(j))
    <2>1. CASE Kind(j) \in {"int", "uint"}
      <3>1. GetF64(j) = Ok(2 * j[2])
        BY <2>1 DEF GetF64
      <3>2. AsInteger(j) = j[2]
        BY <2>1 DEF AsInteger
      <3> QED
        BY <2>1, <3>1, <3>2
    <2>2. CASE Kind(j) = "real"
      <3>1. GetF64(j) = Ok(j[2])
        BY <2>2 DEF GetF64
      <3>2. AsInteger(j) = j[2] \div 2
        BY <2>2 DEF AsInteger
      <3>3. j[2] \in Int
        BY <1>5, <2>2, JsonIs
      <3>4. Integral(j) => j[2] % 2 = 0
        BY <2>2 DEF Integral
      <3>5. j[2] % 2 = 0 => j[2] = 2 * (j[2] \div 2)
        BY <3>3
      <3> QED
        BY <2>2, <3>1, <3>2, <3>4, <3>5
    <2>3. CASE Kind(j) \notin {"int", "uint", "real"}
      BY <2>3 DEF Integral
    <2> QED
      BY <2>1, <2>2, <2>3
  <1>12. CASE t[1] = "integer"
    <2>1. IsOk(GetI64(j)) /\ v = Get(GetI64(j))
      BY <1>6, <1>12, DecodeIs
    <2> HIDE DEF v
    <2>2. Integral(j) /\ v = AsInteger(j)
      BY <2>1, OkIs DEF GetI64
    <2>3. x = JI64(v)
      BY <1>12, EncodeIs
    <2> HIDE DEF x
    <2>4. Kind(x) = "int" /\ x[2] = v
      BY <2>3 DEF JI64, Kind
    <2>5. GetF64(x) = Ok(2 * v)
      BY <2>4 DEF GetF64
    <2> QED
      BY <1>11, <2>2, <2>4, <2>5, FitsIs
  <1>13. CASE t[1] = "uinteger"
    <2>1. IsOk(GetU64(j)) /\ v = Get(GetU64(j))
      BY <1>6, <1>13, DecodeIs
    <2> HIDE DEF v
    <2>2. Integral(j) /\ v = AsInteger(j)
      BY <2>1, OkIs DEF GetU64
    <2>3. x = JU64(v)
      BY <1>13, EncodeIs
    <2> HIDE DEF x
    <2>4. Kind(x) = "uint" /\ x[2] = v
      BY <2>3 DEF JU64, Kind
    <2>5. GetF64(x) = Ok(2 * v)
      BY <2>4 DEF GetF64
    <2> QED
      BY <1>11, <2>2, <2>4, <2>5, FitsIs
  <1>14. CASE t[1] = "decimal"
    <2>1. IsOk(GetF64(j)) /\ v = Get(GetF64(j))
      BY <1>6, <1>14, DecodeIs
    <2> HIDE DEF v
    <2>2. GetF64(j) = Ok(v)
      BY <2>1, OkIs DEF GetF64
    <2>3. x = JF64(v)
      BY <1>14, EncodeIs
    <2> HIDE DEF x
    <2>4. Kind(x) = "real" /\ x[2] = v
      BY <2>3 DEF JF64, Kind
    <2>5. GetF64(x) = Ok(v)
      BY <2>4 DEF GetF64
    <2> QED
      BY <2>2, <2>4, <2>5, FitsIs
  <1> QED
    BY <1>8, <1>9, <1>10, <1>12, <1>13, <1>14

LEMMA OneOfDecodesOver ==
    ASSUME Overloads, NEW t \in AllTypes, t[1] = "oneof", NEW n \in Nat,
           \A u \in AllTypes : Rank(u) < Rank(t) => DecodesOver(n, u)
    PROVE  DecodesOver(n, t)
  <1> SUFFICES ASSUME NEW j, NEW o, NEW b, GoodJson(n, j), Was(t, o, b), Decode(t, j, o).ok
               PROVE  Repeats(n, j, b, Encode(t, Decode(t, j, o).out))
    BY DEF DecodesOver
  <1> DEFINE ts == t[2]
             N == Len(ts)
             attempts == [i \in 1..N |-> Decode(ts[i], j, Default(ts[i]))]
  <1>1. Decode(t, j, o) = FirstOf(attempts, o)
    BY DecodeIs DEF DecodeOneOf
  <1>2. /\ N \in Nat /\ DOMAIN ts = 1..N
        /\ \A i \in 1..N : ts[i] \in AllTypes /\ Rank(ts[i]) < Rank(t)
    BY TypeIs, SequenceIs
  <1> HIDE DEF N
  <1>3. DOMAIN attempts = 1..N /\ \A i \in 1..N : attempts[i] = Fresh(ts[i], j)
    BY DEF Fresh
  <1> HIDE DEF attempts
  <1>4. PICK i \in 1..N : attempts[i].ok /\ FirstOf(attempts, o) = Decoded(<<i, attempts[i].out>>)
    BY <1>1, <1>2, <1>3, OutIs, FirstOfIs
  <1> DEFINE v == <<i, attempts[i].out>>
  <1>5. Decode(t, j, o).out = v
    BY <1>1, <1>4, OutIs
  <1>6. v # <<>> /\ v[1] = i /\ v[2] = attempts[i].out
    OBVIOUS
  <1> HIDE DEF v
  <1>7. Encode(t, v) = Encode(ts[i], Fresh(ts[i], j).out)
    <2>1. Encode(t, v) = Visit(ts, v)
      BY EncodeIs
    <2>2. Visit(ts, v) = Encode(ts[v[1]], v[2])
      BY <1>6 DEF Visit
    <2>3. attempts[i] = Fresh(ts[i], j)
      BY <1>3
    <2> QED
      BY <1>6, <2>1, <2>2, <2>3
  <1>8. Repeats(n, j, b, Encode(ts[i], Fresh(ts[i], j).out))
    <2>1. DecodesOver(n, ts[i]) /\ Fresh(ts[i], j).ok
      BY <1>2, <1>3, <1>4
    <2> QED
      BY <2>1, FreshRepeats
  <1> QED
    BY <1>5, <1>7, <1>8

LEMMA EnumDecodesOver ==
    ASSUME Overloads, NEW t \in AllTypes, t[1] = "enum", NEW n \in Nat,
           \A u \in AllTypes : Rank(u) < Rank(t) => DecodesOver(n, u)
    PROVE  DecodesOver(n, t)
  <1> SUFFICES ASSUME NEW j, NEW o, NEW b, GoodJson(n, j), Was(t, o, b), Decode(t, j, o).ok
               PROVE  Repeats(n, j, b, Encode(t, Decode(t, j, o).out))
    BY DEF DecodesOver
  <1> DEFINE r == Fresh(t[2], j)
             Is(i) == i \in DOMAIN t[3] /\ t[3][i] = r.out
             hit == r.ok /\ \E i \in DOMAIN t[3] : t[3][i] = r.out
             k == CHOOSE i \in DOMAIN t[3] : t[3][i] = r.out
  <1>1. Decode(t, j, o) = IF hit THEN Decoded(k) ELSE Refused(o)
    BY DecodeIs DEF DecodeEnum, Enumerator, Fresh
  <1>2. hit => t[3][k] = r.out
    OBVIOUS
  <1>3. hit => r.ok
    OBVIOUS
  <1> HIDE DEF hit, k
  <1>4. hit /\ Decode(t, j, o).out = k
    BY <1>1, OutIs
  <1>5. Encode(t, k) = Encode(t[2], r.out)
    <2>1. Encode(t, k) = Encode(t[2], t[3][k])
      BY EncodeIs
    <2> QED
      BY <1>2, <1>4, <2>1
  <1>6. DecodesOver(n, t[2])
    BY TypeIs
  <1>7. Repeats(n, j, b, Encode(t[2], r.out))
    BY <1>3, <1>4, <1>6, FreshRepeats
  <1> QED
    BY <1>4, <1>5, <1>7

LEMMA RefDecodesOver ==
    ASSUME Overloads, NEW t \in AllTypes, t[1] = "ref", NEW n \in Nat,
           \A u \in AllTypes : Rank(u) < Rank(t) => DecodesOver(n, u)
    PROVE  DecodesOver(n, t)
  <1> SUFFICES ASSUME NEW j, NEW o, NEW b, GoodJson(n, j), Was(t, o, b), Decode(t, j, o).ok
               PROVE  Repeats(n, j, b, Encode(t, Decode(t, j, o).out))
    BY DEF DecodesOver
  <1> DEFINE u == Resolve(t[2])
             r == Decode(u, j, o)
  <1>1. u \in AllTypes /\ DecodesOver(n, u)
    BY TypeIs
  <1>2. Decode(t, j, o) = r
    BY DecodeIs
  <1>3. Was(u, o, b)
    BY RefWas
  <1>4. Repeats(n, j, b, Encode(u, r.out))
    BY <1>1, <1>2, <1>3 DEF DecodesOver
  <1>5. Encode(t, r.out) = Encode(u, r.out)
    BY EncodeIs
  <1> HIDE DEF r
  <1> QED
    BY <1>2, <1>4, <1>5

LEMMA VectorWas ==
    ASSUME Overloads, NEW t \in AllTypes, t[1] = "vector", NEW u, u = t[2],
           NEW o, NEW b, Was(t, o, b)
    PROVE  /\ IsSequence(o) /\ (b = Nothing \/ Kind(b) = "array")
           /\ \A i : Was(u, Held(o, i, u), At(b, i))
  <1>1. Sound(t, o)
    BY WasIs
  <1>2. IsSequence(o) /\ \A i \in DOMAIN o : Sound(u, o[i])
    BY <1>1, SoundVector
  <1>3. CASE o = Default(t) /\ b = Nothing
    <2>1. o = <<>>
      BY <1>3, FormIs DEF Initial
    <2>2. \A i : Held(o, i, u) = Default(u) /\ At(b, i) = Nothing
      BY <1>3, <2>1, EmptyIs, AtIs DEF Held
    <2> QED
      BY <1>2, <1>3, <2>2 DEF Was
  <1>4. ASSUME NEW k \in Nat, GoodJson(k, b), b = Encode(t, o)
        PROVE  /\ Kind(b) = "array"
               /\ \A i : Was(u, Held(o, i, u), At(b, i))
    <2> DEFINE N == Len(o)
               e == [i \in 1..N |-> Encode(u, o[i])]
    <2>1. b = Elements(e) /\ e = [i \in 1..N |-> e[i]]
      BY <1>4, EncodeIs
    <2>2. N \in Nat /\ DOMAIN o = 1..N
      BY <1>2, SequenceIs
    <2>3. b # Aborted
      BY <1>4, JsonNotAborted
    <2>4. \A i \in 1..N : e[i] = Encode(u, o[i])
      OBVIOUS
    <2> HIDE DEF e, N
    <2>5. Kind(b) = "array" /\ Container(b) /\ b[2] = e /\ DOMAIN e = 1..N
      BY <2>1, <2>2, <2>3, ElementsIs
    <2>6. k - 1 \in Nat /\ \A i \in 1..N : GoodJson(k - 1, b[2][i])
      <3>1. k # 0 /\ \A i \in DOMAIN b[2] : GoodJson(k - 1, b[2][i])
        BY <1>4, <2>5, GoodJsonIs
      <3> QED
        BY <2>5, <3>1
    <2>7. ASSUME NEW i, i \in 1..N
          PROVE  Was(u, Held(o, i, u), At(b, i))
      <3>1. Held(o, i, u) = o[i] /\ At(b, i) = e[i]
        BY <2>2, <2>5, <2>7, AtIs DEF Held
      <3>2. GoodJson(k - 1, e[i]) /\ e[i] = Encode(u, o[i]) /\ Sound(u, o[i])
        BY <1>2, <2>2, <2>4, <2>5, <2>6, <2>7
      <3> QED
        BY <2>6, <3>1, <3>2 DEF Was
    <2>8. ASSUME NEW i, i \notin 1..N
          PROVE  Was(u, Held(o, i, u), At(b, i))
      <3>1. Held(o, i, u) = Default(u) /\ At(b, i) = Nothing
        BY <2>2, <2>5, <2>8, AtIs DEF Held
      <3> QED
        BY <3>1 DEF Was
    <2> QED
      BY <2>5, <2>7, <2>8
  <1> QED
    BY <1>2, <1>3, <1>4 DEF Was

LEMMA VectorDecodesOver ==
    ASSUME Overloads, NEW t \in AllTypes, t[1] = "vector", NEW n \in Nat,
           \A m \in Nat : m < n => DecodesOver(m, t[2])
    PROVE  DecodesOver(n, t)
  <1> SUFFICES ASSUME NEW j, NEW o, NEW b, GoodJson(n, j), Was(t, o, b), Decode(t, j, o).ok
               PROVE  Repeats(n, j, b, Encode(t, Decode(t, j, o).out))
    BY DEF DecodesOver
  <1> DEFINE u == t[2]
             v == Decode(t, j, o).out
             N == Count(j)
             e == [i \in 1..Len(v) |-> Encode(u, v[i])]
  <1>1. n # 0 /\ n - 1 \in Nat /\ IsJson(j)
    BY GoodJsonIs
  <1>2. /\ IsSequence(o) /\ (b = Nothing \/ Kind(b) = "array")
        /\ \A i : Was(u, Held(o, i, u), At(b, i))
    BY VectorWas
  <1>3. /\ Kind(j) = "array" /\ Len(v) = N
        /\ \A i \in 1..N : /\ Decode(u, j[2][i], Held(o, i, u)).ok
                           /\ v[i] = Decode(u, j[2][i], Held(o, i, u)).out
    BY <1>1, <1>2, VectorDecodes
  <1>4. Encode(t, v) = Elements(e)
    BY <1>3, EncodeIs
  <1>5. DOMAIN j[2] = 1..N /\ \A i \in 1..N : GoodJson(n - 1, j[2][i])
    BY <1>1, <1>3, JsonIs, GoodJsonIs
  <1>6. DecodesOver(n - 1, u)
    BY <1>1
  <1>7. e = [i \in 1..N |-> e[i]] /\ \A i \in 1..N : e[i] = Encode(u, v[i])
    BY <1>3
  <1> HIDE DEF e, v, N, u
  <1>8. ASSUME NEW i \in 1..N
        PROVE  Repeats(n - 1, j[2][i], At(b, i), e[i])
    <2> DEFINE h == Held(o, i, u)
    <2>1. /\ GoodJson(n - 1, j[2][i]) /\ Was(u, h, At(b, i)) /\ Decode(u, j[2][i], h).ok
          /\ e[i] = Encode(u, Decode(u, j[2][i], h).out)
      BY <1>2, <1>3, <1>5, <1>7
    <2> QED
      BY <1>6, <2>1 DEF DecodesOver
  <1>9. Repeats(n, j, b, Elements(e))
    BY <1>2, <1>3, <1>7, <1>8, ArrayRepeats DEF N
  <1> QED
    BY <1>4, <1>9 DEF v

LEMMA TupleWas ==
    ASSUME Overloads, NEW t \in AllTypes, t[1] = "tuple", NEW ts, ts = t[2], NEW N, N = Len(ts),
           NEW o, NEW b, Was(t, o, b)
    PROVE  /\ IsSequence(o) /\ Len(o) = N /\ (b = Nothing \/ Kind(b) = "array")
           /\ \A i \in 1..N : Was(ts[i], o[i], At(b, i))
  <1>1. Sound(t, o)
    BY WasIs
  <1>2. N \in Nat /\ DOMAIN ts = 1..N
    BY TypeIs, SequenceIs
  <1>3. /\ IsSequence(o) /\ Len(o) = N /\ DOMAIN o = 1..N
        /\ \A i \in 1..N : Sound(ts[i], o[i])
    <2>1. IsSequence(o) /\ Len(o) = N /\ \A i \in DOMAIN o \cap DOMAIN ts : Sound(ts[i], o[i])
      BY <1>1, SoundTuple
    <2>2. DOMAIN o = 1..N
      BY <2>1, SequenceIs
    <2> QED
      BY <1>2, <2>1, <2>2
  <1>4. CASE o = Default(t) /\ b = Nothing
    <2>1. o = [i \in DOMAIN ts |-> Default(ts[i])]
      BY <1>4, FormIs DEF Initial
    <2>2. \A i \in 1..N : o[i] = Default(ts[i]) /\ At(b, i) = Nothing
      BY <1>2, <1>4, <2>1, AtIs
    <2> QED
      BY <1>3, <1>4, <2>2 DEF Was
  <1>5. ASSUME NEW k \in Nat, GoodJson(k, b), b = Encode(t, o)
        PROVE  /\ Kind(b) = "array"
               /\ \A i \in 1..N : Was(ts[i], o[i], At(b, i))
    <2> DEFINE e == [i \in 1..Len(t[2]) |-> Encode(t[2][i], o[i])]
    <2>1. b = Elements(e) /\ e = [i \in 1..N |-> e[i]]
      BY <1>5, EncodeIs
    <2>2. b # Aborted
      BY <1>5, JsonNotAborted
    <2>3. \A i \in 1..N : e[i] = Encode(ts[i], o[i])
      OBVIOUS
    <2> HIDE DEF e
    <2>4. Kind(b) = "array" /\ Container(b) /\ b[2] = e /\ DOMAIN e = 1..N
      BY <1>2, <2>1, <2>2, ElementsIs
    <2>5. k - 1 \in Nat /\ \A i \in 1..N : GoodJson(k - 1, b[2][i])
      <3>1. k # 0 /\ \A i \in DOMAIN b[2] : GoodJson(k - 1, b[2][i])
        BY <1>5, <2>4, GoodJsonIs
      <3> QED
        BY <2>4, <3>1
    <2>6. ASSUME NEW i \in 1..N
          PROVE  Was(ts[i], o[i], At(b, i))
      <3>1. At(b, i) = e[i]
        BY <2>4, AtIs
      <3>2. GoodJson(k - 1, e[i]) /\ e[i] = Encode(ts[i], o[i]) /\ Sound(ts[i], o[i])
        BY <1>3, <2>3, <2>4, <2>5
      <3> QED
        BY <2>5, <3>1, <3>2 DEF Was
    <2> QED
      BY <2>4, <2>6
  <1> QED
    BY <1>3, <1>4, <1>5 DEF Was

LEMMA TupleDecodesOver ==
    ASSUME Overloads, NEW t \in AllTypes, t[1] = "tuple", NEW n \in Nat,
           \A m \in Nat : m < n => \A u \in AllTypes : DecodesOver(m, u)
    PROVE  DecodesOver(n, t)
  <1> SUFFICES ASSUME NEW j, NEW o, NEW b, GoodJson(n, j), Was(t, o, b), Decode(t, j, o).ok
               PROVE  Repeats(n, j, b, Encode(t, Decode(t, j, o).out))
    BY DEF DecodesOver
  <1> DEFINE ts == t[2]
             v == Decode(t, j, o).out
             N == Len(ts)
             e == [i \in 1..N |-> Encode(ts[i], v[i])]
  <1>1. n # 0 /\ n - 1 \in Nat /\ IsJson(j)
    BY GoodJsonIs
  <1>2. /\ IsSequence(o) /\ Len(o) = N /\ (b = Nothing \/ Kind(b) = "array")
        /\ \A i \in 1..N : Was(ts[i], o[i], At(b, i))
    <2> HIDE DEF N
    <2>1. N = Len(ts)
      BY DEF N
    <2> QED
      BY <2>1, TupleWas
  <1>3. /\ Kind(j) = "array" /\ Count(j) = N
        /\ \A i \in 1..N : /\ Decode(ts[i], j[2][i], o[i]).ok
                           /\ v[i] = Decode(ts[i], j[2][i], o[i]).out
    BY <1>1, <1>2, TupleDecodes
  <1>4. Encode(t, v) = Elements(e)
    BY EncodeIs
  <1>5. DOMAIN j[2] = 1..N /\ \A i \in 1..N : GoodJson(n - 1, j[2][i])
    BY <1>1, <1>3, JsonIs, GoodJsonIs
  <1>6. \A i \in 1..N : DecodesOver(n - 1, ts[i])
    BY <1>1, TypeIs, SequenceIs
  <1>7. e = [i \in 1..N |-> e[i]] /\ \A i \in 1..N : e[i] = Encode(ts[i], v[i])
    OBVIOUS
  <1> HIDE DEF e, v, N, ts
  <1>8. ASSUME NEW i \in 1..N
        PROVE  Repeats(n - 1, j[2][i], At(b, i), e[i])
    <2>1. /\ GoodJson(n - 1, j[2][i]) /\ Was(ts[i], o[i], At(b, i)) /\ Decode(ts[i], j[2][i], o[i]).ok
          /\ e[i] = Encode(ts[i], Decode(ts[i], j[2][i], o[i]).out) /\ DecodesOver(n - 1, ts[i])
      BY <1>2, <1>3, <1>5, <1>6, <1>7
    <2> QED
      BY <2>1 DEF DecodesOver
  <1>9. Repeats(n, j, b, Elements(e))
    BY <1>2, <1>3, <1>7, <1>8, ArrayRepeats
  <1> QED
    BY <1>4, <1>9 DEF v

LEMMA MapWas ==
    ASSUME Overloads, NEW t \in AllTypes, t[1] = "map", NEW u, u = t[2],
           NEW o, NEW b, Was(t, o, b)
    PROVE  /\ Sound(t, o) /\ IsMap(o) /\ (b = Nothing \/ Kind(b) = "object")
           /\ \A x : Was(u, Held(o, x, u), At(b, x))
           /\ \A x \in DOMAIN o : /\ Container(b) /\ x \in DOMAIN b[2] /\ b[2][x] = Encode(u, o[x])
                                  /\ \E k \in Nat : GoodJson(k, b)
  <1>1. Sound(t, o)
    BY WasIs
  <1>2. IsMap(o) /\ \A x \in DOMAIN o : Sound(u, o[x])
    BY <1>1, SoundMap
  <1>3. CASE o = Default(t) /\ b = Nothing
    <2>1. o = <<>>
      BY <1>3, FormIs DEF Initial
    <2>2. \A x : Held(o, x, u) = Default(u) /\ At(b, x) = Nothing
      BY <1>3, <2>1, EmptyIs, AtIs DEF Held
    <2> QED
      BY <1>1, <1>2, <1>3, <2>1, <2>2, EmptyIs DEF Was
  <1>4. ASSUME NEW k \in Nat, GoodJson(k, b), b = Encode(t, o)
        PROVE  /\ Kind(b) = "object" /\ Container(b) /\ DOMAIN b[2] = DOMAIN o
               /\ \A x \in DOMAIN o : b[2][x] = Encode(u, o[x])
               /\ \A x : Was(u, Held(o, x, u), At(b, x))
    <2>1. b # Aborted
      BY <1>4, JsonNotAborted
    <2>2. /\ Kind(b) = "object" /\ Container(b) /\ DOMAIN b[2] = DOMAIN o
          /\ \A x \in DOMAIN o : b[2][x] = Encode(u, o[x])
      BY <1>2, <1>4, <2>1, MapEncodesJson
    <2>3. k - 1 \in Nat /\ \A x \in DOMAIN o : GoodJson(k - 1, b[2][x])
      <3>1. k # 0 /\ \A x \in DOMAIN b[2] : GoodJson(k - 1, b[2][x])
        BY <1>4, <2>2, GoodJsonIs
      <3> QED
        BY <2>2, <3>1
    <2>4. ASSUME NEW x, x \in DOMAIN o
          PROVE  Was(u, Held(o, x, u), At(b, x))
      <3>1. Held(o, x, u) = o[x] /\ At(b, x) = b[2][x]
        BY <2>2, <2>4, AtIs DEF Held
      <3>2. GoodJson(k - 1, b[2][x]) /\ b[2][x] = Encode(u, o[x]) /\ Sound(u, o[x])
        BY <1>2, <2>2, <2>3, <2>4
      <3> QED
        BY <2>3, <3>1, <3>2 DEF Was
    <2>5. ASSUME NEW x, x \notin DOMAIN o
          PROVE  Was(u, Held(o, x, u), At(b, x))
      <3>1. Held(o, x, u) = Default(u) /\ At(b, x) = Nothing
        BY <2>2, <2>5, AtIs DEF Held
      <3> QED
        BY <3>1 DEF Was
    <2> QED
      BY <2>2, <2>4, <2>5
  <1>5. CASE \E k \in Nat : GoodJson(k, b) /\ b = Encode(t, o)
    <2>1. PICK k \in Nat : GoodJson(k, b) /\ b = Encode(t, o)
      BY <1>5
    <2>2. /\ Kind(b) = "object" /\ Container(b) /\ DOMAIN b[2] = DOMAIN o
          /\ \A x \in DOMAIN o : b[2][x] = Encode(u, o[x])
          /\ \A x : Was(u, Held(o, x, u), At(b, x))
      BY <1>4, <2>1
    <2> QED
      BY <1>1, <1>2, <2>1, <2>2
  <1> QED
    BY <1>3, <1>5 DEF Was

LEMMA MapDecodesOver ==
    ASSUME Overloads, NEW t \in AllTypes, t[1] = "map", NEW n \in Nat,
           \A m \in Nat : m < n => DecodesOver(m, t[2])
    PROVE  DecodesOver(n, t)
  <1> SUFFICES ASSUME NEW j, NEW o, NEW b, GoodJson(n, j), Was(t, o, b), Decode(t, j, o).ok
               PROVE  Repeats(n, j, b, Encode(t, Decode(t, j, o).out))
    BY DEF DecodesOver
  <1> DEFINE u == t[2]
             v == Decode(t, j, o).out
             e == Encode(t, v)
  <1>1. n # 0 /\ n - 1 \in Nat /\ IsJson(j)
    BY GoodJsonIs
  <1>2. /\ Sound(t, o) /\ IsMap(o) /\ (b = Nothing \/ Kind(b) = "object")
        /\ \A x : Was(u, Held(o, x, u), At(b, x))
        /\ \A x \in DOMAIN o : /\ Container(b) /\ x \in DOMAIN b[2] /\ b[2][x] = Encode(u, o[x])
                               /\ \E k \in Nat : GoodJson(k, b)
    BY MapWas
  <1>3. /\ Kind(j) = "object" /\ DOMAIN v = DOMAIN o \cup DOMAIN j[2]
        /\ \A x \in DOMAIN j[2] : /\ Decode(u, j[2][x], Held(o, x, u)).ok
                                  /\ v[x] = Decode(u, j[2][x], Held(o, x, u)).out
        /\ \A x \in DOMAIN o : x \notin DOMAIN j[2] => v[x] = o[x]
    <2> DEFINE r == Decode(t, j, o)
    <2>1. r = Decode(t, j, o) /\ r.ok /\ v = r.out /\ u = t[2]
      OBVIOUS
    <2> HIDE DEF r, v, u
    <2>3. /\ r.ok <=> /\ Kind(j) = "object"
                      /\ \A x \in DOMAIN j[2] : Decode(u, j[2][x], Held(o, x, u)).ok
          /\ r.ok => /\ r.out = [x \in DOMAIN r.out |-> r.out[x]]
                     /\ DOMAIN r.out = DOMAIN o \cup DOMAIN j[2]
                     /\ \A x \in DOMAIN j[2] : r.out[x] = Decode(u, j[2][x], Held(o, x, u)).out
                     /\ \A x \in DOMAIN o : x \notin DOMAIN j[2] => r.out[x] = o[x]
      BY <1>1, <1>2, <2>1, MapDecodes
    <2>2. /\ Kind(j) = "object" /\ \A x \in DOMAIN j[2] : Decode(u, j[2][x], Held(o, x, u)).ok
          /\ DOMAIN r.out = DOMAIN o \cup DOMAIN j[2]
          /\ \A x \in DOMAIN j[2] : r.out[x] = Decode(u, j[2][x], Held(o, x, u)).out
          /\ \A x \in DOMAIN o : x \notin DOMAIN j[2] => r.out[x] = o[x]
      BY <2>1, <2>3
    <2> QED
      BY <2>1, <2>2
  <1>4. Container(j) /\ \A x \in DOMAIN j[2] : GoodJson(n - 1, j[2][x])
    BY <1>1, <1>3, JsonIs, GoodJsonIs
  <1>5. DecodesOver(n - 1, u)
    BY <1>1
  <1>6. IsMap(v)
    <2>1. DecodesSound(n, t)
      BY DecodeSound
    <2>2. Sound(t, v)
      BY <1>2, <2>1 DEF DecodesSound
    <2> QED
      BY <2>2, SoundMap
  <1>7. /\ e = Aborted <=> \E x \in DOMAIN v : Encode(u, v[x]) = Aborted
        /\ e # Aborted => /\ Kind(e) = "object" /\ IsJson(e) /\ DOMAIN e[2] = DOMAIN v
                          /\ \A x \in DOMAIN v : e[2][x] = Encode(u, v[x])
    BY <1>6, MapEncodesJson
  <1> HIDE DEF e, v, u
  <1>8. ASSUME NEW x \in DOMAIN v
        PROVE  /\ Encode(u, v[x]) # Aborted /\ Sound(Below(j, b, x), Encode(u, v[x]))
               /\ b = Nothing => GoodJson(n - 1, Encode(u, v[x]))
    <2>1. CASE x \in DOMAIN j[2]
      <3> DEFINE h == Held(o, x, u)
                 z == Encode(u, v[x])
      <3>1. /\ GoodJson(n - 1, j[2][x]) /\ Was(u, h, At(b, x)) /\ Decode(u, j[2][x], h).ok
            /\ z = Encode(u, Decode(u, j[2][x], h).out)
        BY <1>2, <1>3, <1>4, <2>1
      <3>2. Repeats(n - 1, j[2][x], At(b, x), z)
        BY <1>5, <3>1 DEF DecodesOver
      <3>3. IsJson(j[2][x]) /\ z # Aborted
        BY <1>1, <3>1, <3>2, GoodJsonIs, JsonIsNot DEF Repeats
      <3> HIDE DEF h, z
      <3>4. Sound(Below(j, b, x), z) /\ (b = Nothing => GoodJson(n - 1, z))
        BY <1>1, <1>2, <1>3, <1>4, <2>1, <3>2, <3>3, PartFits
      <3> QED
        BY <3>3, <3>4 DEF z
    <2>2. CASE x \notin DOMAIN j[2]
      <3>1. x \in DOMAIN o /\ v[x] = o[x]
        BY <1>3, <2>2
      <3>2. PICK k \in Nat : GoodJson(k, b)
        BY <1>2, <3>1
      <3>3. Container(b) /\ x \in DOMAIN b[2] /\ b[2][x] = Encode(u, v[x])
        BY <1>2, <3>1
      <3>4. Sound(Below(j, b, x), b[2][x])
        BY <1>4, <2>2, <3>2, <3>3, KeptFits
      <3>5. b # Nothing /\ b[2][x] # Aborted
        <4>1. IsJson(b) /\ k # 0 /\ GoodJson(k - 1, b[2][x])
          BY <3>2, <3>3, GoodJsonIs
        <4>2. k - 1 \in Nat
          BY <4>1
        <4> QED
          BY <4>1, <4>2, JsonIsNot, JsonNotAborted
      <3> QED
        BY <3>3, <3>4, <3>5
    <2> QED
      BY <2>1, <2>2
  <1>9. e # Aborted
    BY <1>7, <1>8
  <1>10. Repeats(n, j, b, e)
    <2>1. \A x \in DOMAIN e[2] : /\ Sound(Below(j, b, x), e[2][x])
                                 /\ b = Nothing => GoodJson(n - 1, e[2][x])
      BY <1>7, <1>8, <1>9
    <2> QED
      BY <1>3, <1>7, <1>9, <2>1, ObjectRepeats
  <1> QED
    BY <1>10 DEF e, v

DefaultMembers(s) == [x \in Required(s) |-> Default(Property(s, x).type)]
DefaultBases(s) == [i \in DOMAIN s.bases |-> Default(Ref(s.bases[i]))]

LEMMA StructDefault ==
    ASSUME Overloads, NEW t \in AllTypes, t[1] = "struct", NEW s, s = t[2]
    PROVE  Default(t).own = DefaultMembers(s) /\ Default(t).bases = DefaultBases(s)
  <1> DEFINE d == Default(t)
  <1>1. d = Initial(t)
    BY FormIs
  <1> HIDE DEF d
  <1>2. d = [own |-> DefaultMembers(s), bases |-> DefaultBases(s)]
    BY <1>1 DEF Initial, DefaultMembers, DefaultBases
  <1> QED
    BY <1>2 DEF d

(* The encoding of a base is nested no deeper than that of the structure. *)
LEMMA BaseGood ==
    ASSUME Overloads, NEW t \in AllTypes, t[1] = "struct", NEW s, s = t[2], NEW v, Sound(t, v),
           NEW e, e = Encode(t, v), NEW k \in Nat, GoodJson(k, e), NEW i \in DOMAIN s.bases
    PROVE  GoodJson(k, EncodedBase(s, v, i))
  <1> DEFINE c == EncodedBase(s, v, i)
  <1>1. e # Aborted
    BY JsonNotAborted
  <1>2. Container(e) /\ DOMAIN c[2] \subseteq DOMAIN e[2] /\ IsJson(c) /\ Container(c)
    <2>1. IsJson(c) /\ Container(c)
      BY <1>1, StructSays
    <2>2. StructEncoding(s, v, e)
      BY <1>1, StructSays
    <2> QED
      BY <2>1, <2>2 DEF StructEncoding
  <1>3. DOMAIN c[2] \subseteq BaseNames(s, i) /\ \A x \in BaseNames(s, i) : At(e, x) = At(c, x)
    BY <1>1, BaseSaid
  <1>4. k # 0 /\ \A x \in DOMAIN e[2] : GoodJson(k - 1, e[2][x])
    BY <1>2, GoodJsonIs
  <1> HIDE DEF c
  <1>5. \A x \in DOMAIN c[2] : c[2][x] = e[2][x]
    BY <1>2, <1>3, AtIs
  <1>6. GoodJson(k, c)
    BY <1>2, <1>4, <1>5, GoodJsonIs
  <1> QED
    BY <1>6 DEF c

(* What the parts of a structure were *)
PartsWere(s, o, b) ==
    /\ \A x \in Required(s) : Was(Property(s, x).type, o.own[x], At(b, x))
    /\ \A x \in DOMAIN o.own : \/ b = Nothing /\ x \in Required(s)
                               \/ /\ Kind(b) = "object" /\ x \in DOMAIN b[2]
                                  /\ b[2][x] = Encode(Property(s, x).type, o.own[x])
    /\ \A i \in DOMAIN s.bases : \E c :
          /\ Was(Ref(s.bases[i]), o.bases[i], c) /\ (c = Nothing <=> b = Nothing)
          /\ c = Nothing \/ Kind(c) = "object"
          /\ \A x \in BaseNames(s, i) : At(c, x) = At(b, x)

LEMMA StructWas ==
    ASSUME Overloads, NEW t \in AllTypes, t[1] = "struct", NEW s, s = t[2], NEW o, NEW b, Was(t, o, b)
    PROVE  /\ Sound(t, o)
           /\ b = Nothing \/ (Kind(b) = "object" /\ \E k \in Nat : GoodJson(k, b))
           /\ PartsWere(s, o, b)
  <1>1. Sound(t, o)
    BY WasIs
  <1>2. CASE o = Default(t) /\ b = Nothing
    <2>1. o.own = DefaultMembers(s) /\ o.bases = DefaultBases(s)
      BY <1>2, StructDefault
    <2>2. \A x : At(b, x) = Nothing
      BY <1>2, AtIs
    <2>3. DOMAIN o.own = Required(s) /\ \A x \in Required(s) : o.own[x] = Default(Property(s, x).type)
      BY <2>1 DEF DefaultMembers
    <2>4. \A i \in DOMAIN s.bases : o.bases[i] = Default(Ref(s.bases[i]))
      BY <2>1 DEF DefaultBases
    <2>5. \A x \in Required(s) : Was(Property(s, x).type, o.own[x], At(b, x))
      BY <2>2, <2>3 DEF Was
    <2>6. \A i \in DOMAIN s.bases : Was(Ref(s.bases[i]), o.bases[i], b)
      BY <1>2, <2>4 DEF Was
    <2> QED
      BY <1>1, <1>2, <2>3, <2>5, <2>6 DEF PartsWere
  <1>3. ASSUME NEW k \in Nat, GoodJson(k, b), b = Encode(t, o)
        PROVE  Kind(b) = "object" /\ PartsWere(s, o, b)
    <2>1. b # Aborted /\ b # Nothing
      <3>1. IsJson(b)
        BY <1>3, GoodJsonIs
      <3> QED
        BY <3>1, JsonIsNot
    <2>2. /\ Container(b) /\ Kind(b) = "object"
          /\ \A x \in DOMAIN o.own : x \in DOMAIN b[2]
          /\ \A i \in DOMAIN s.bases :
                /\ IsJson(EncodedBase(s, o, i)) /\ Kind(EncodedBase(s, o, i)) = "object"
      <3>1. /\ StructEncoding(s, o, b)
            /\ \A i \in DOMAIN s.bases :
                  /\ IsJson(EncodedBase(s, o, i)) /\ Kind(EncodedBase(s, o, i)) = "object"
                  /\ Container(EncodedBase(s, o, i))
        BY <1>1, <1>3, <2>1, StructSays
      <3> QED
        BY <3>1 DEF StructEncoding
    <2>3. /\ \A x \in Names(s) :
                At(b, x) = IF x \in DOMAIN o.own THEN Encode(Property(s, x).type, o.own[x]) ELSE Nothing
          /\ \A i \in DOMAIN s.bases :
                \A x \in BaseNames(s, i) : At(b, x) = At(EncodedBase(s, o, i), x)
      <3>1. Said(s, o, b)
        BY <1>1, <1>3, <2>1, MembersSaid
      <3> QED
        BY <3>1 DEF Said
    <2>4. /\ Required(s) \subseteq DOMAIN o.own /\ DOMAIN o.own \subseteq Names(s)
          /\ \A x \in DOMAIN o.own \cap Names(s) : Sound(Property(s, x).type, o.own[x])
          /\ \A i \in DOMAIN s.bases : Sound(Ref(s.bases[i]), o.bases[i])
      BY <1>1, SoundStruct
    <2>5. k - 1 \in Nat /\ \A x \in DOMAIN b[2] : GoodJson(k - 1, b[2][x])
      <3>1. k # 0 /\ \A x \in DOMAIN b[2] : GoodJson(k - 1, b[2][x])
        BY <1>3, <2>2, GoodJsonIs
      <3> QED
        BY <3>1
    <2>6. \A x \in DOMAIN o.own : b[2][x] = Encode(Property(s, x).type, o.own[x]) /\ At(b, x) = b[2][x]
      BY <2>2, <2>3, <2>4, AtIs
    <2>7. ASSUME NEW x \in Required(s)
          PROVE  Was(Property(s, x).type, o.own[x], At(b, x))
      <3>1. /\ At(b, x) = Encode(Property(s, x).type, o.own[x]) /\ GoodJson(k - 1, At(b, x))
            /\ Sound(Property(s, x).type, o.own[x])
        BY <2>2, <2>4, <2>5, <2>6
      <3> QED
        BY <2>5, <3>1 DEF Was
    <2>8. ASSUME NEW i \in DOMAIN s.bases
          PROVE  \E c : /\ Was(Ref(s.bases[i]), o.bases[i], c) /\ (c = Nothing <=> b = Nothing)
                        /\ c = Nothing \/ Kind(c) = "object"
                        /\ \A x \in BaseNames(s, i) : At(c, x) = At(b, x)
      <3> DEFINE c == EncodedBase(s, o, i)
      <3>1. GoodJson(k, c)
        BY <1>1, <1>3, BaseGood
      <3>2. Was(Ref(s.bases[i]), o.bases[i], c)
        BY <2>4, <3>1 DEF Was, EncodedBase
      <3>3. c # Nothing
        BY <2>2, JsonIsNot
      <3> QED
        BY <2>1, <2>2, <2>3, <3>2, <3>3
    <2> QED
      BY <2>2, <2>6, <2>7, <2>8 DEF PartsWere
  <1> QED
    BY <1>1, <1>2, <1>3 DEF Was

(* A member of the encoding of what a structure was decoded into *)
Placed(n, j, b, i, x) == Sound(Below(j, b, i), x) /\ (b = Nothing => GoodJson(n - 1, x))

LEMMA KindPlaced ==
    ASSUME NEW n \in Nat, NEW j, GoodJson(n, j), Kind(j) = "object", NEW k, k # NoKind,
           MatchKind(j, k), NEW b
    PROVE  Placed(n, j, b, "kind", JString(k))
  <1> DEFINE x == JString(k)
             i == "kind"
  <1>0. IsJson(j) /\ Container(j)
    BY GoodJsonIs, JsonIs
  <1>1. Member(j, i) = Ok(x)
    BY DEF MatchKind
  <1>2. i \in DOMAIN j[2] /\ j[2][i] = x
    <2>1. IsOk(Member(j, i)) /\ Get(Member(j, i)) = x
      BY <1>1, OkIs
    <2>2. i \in DOMAIN j[2]
      BY <1>0, <2>1, OkIs, JsonIs DEF Member
    <2>3. Member(j, i) = Ok(j[2][i])
      BY <1>0, <2>2, JsonIs
    <2> QED
      BY <2>1, <2>2, <2>3, OkIs
  <1>3. Kind(x) = "string"
    BY DEF JString, Kind
  <1>4. GoodJson(n - 1, x)
    BY <1>0, <1>2, GoodJsonIs
  <1>5. x # Nothing
    BY DEF JString, Nothing
  <1> HIDE DEF x, i
  <1>6. At(j, i) = x
    BY <1>0, <1>2, AtIs
  <1>7. \E old : Below(j, b, i) = Within(x, old)
    BY <1>5, <1>6 DEF Below
  <1>8. \A old : Fits(x, old, x)
    BY <1>3, FitsIs
  <1>9. Sound(Below(j, b, i), x)
    BY <1>7, <1>8 DEF Fits
  <1> QED
    BY <1>4, <1>9 DEF Placed, x, i

LEMMA OwnPlaced ==
    ASSUME Overloads, NEW n \in Nat, NEW j, GoodJson(n, j), Kind(j) = "object",
           NEW b, b = Nothing \/ Kind(b) = "object",
           NEW i, i \in DOMAIN j[2], NEW u, DecodesOver(n - 1, u), NEW o,
           Was(u, o, At(b, i)) \/ o = Default(u), Decode(u, j[2][i], o).ok,
           NEW x, x = Encode(u, Decode(u, j[2][i], o).out)
    PROVE  x # Aborted /\ Placed(n, j, b, i, x)
  <1>1. /\ n # 0 /\ n - 1 \in Nat /\ IsJson(j) /\ Container(j) /\ GoodJson(n - 1, j[2][i])
    BY GoodJsonIs DEF Container
  <1>2. Repeats(n - 1, j[2][i], At(b, i), x)
    <2>1. CASE Was(u, o, At(b, i))
      BY <1>1, <2>1 DEF DecodesOver
    <2>2. CASE o = Default(u)
      <3>1. x = Encode(u, Fresh(u, j[2][i]).out) /\ Fresh(u, j[2][i]).ok
        BY <2>2 DEF Fresh
      <3> QED
        BY <1>1, <3>1, FreshRepeats
    <2> QED
      BY <2>1, <2>2
  <1>3. IsJson(j[2][i]) /\ x # Aborted
    BY <1>1, <1>2, GoodJsonIs, JsonIsNot DEF Repeats
  <1>4. Sound(Below(j, b, i), x) /\ (b = Nothing => GoodJson(n - 1, x))
    BY <1>1, <1>2, <1>3, PartFits
  <1> QED
    BY <1>3, <1>4 DEF Placed

(* A member of a base.  c is what the base said before. *)
LEMMA BasePlaced ==
    ASSUME NEW n \in Nat, NEW j, GoodJson(n, j), NEW b, NEW c, c = Nothing <=> b = Nothing,
           b = Nothing \/ Kind(b) = "object", c = Nothing \/ Kind(c) = "object",
           NEW e, Repeats(n, j, c, e), Kind(e) = "object",
           NEW i, i \in DOMAIN e[2], At(c, i) = At(b, i)
    PROVE  Placed(n, j, b, i, e[2][i])
  <1>1. Container(e)
    BY DEF Container
  <1>2. Kind(c) = Kind(b)
    OBVIOUS
  <1>3. Below(j, b, i) = Below(j, c, i)
    BY <1>2 DEF Below
  <1>4. Sound(Below(j, c, i), e[2][i])
    BY FitsIs DEF Repeats
  <1>5. b = Nothing => GoodJson(n - 1, e[2][i])
    BY <1>1, GoodJsonIs DEF Repeats
  <1> QED
    BY <1>3, <1>4, <1>5 DEF Placed

LEMMA StructDecodesOver ==
    ASSUME Overloads, NEW t \in AllTypes, t[1] = "struct", NEW n \in Nat,
           \A m \in Nat : m < n => \A u \in AllTypes : DecodesOver(m, u),
           \A u \in AllTypes : Rank(u) < Rank(t) => DecodesOver(n, u)
    PROVE  DecodesOver(n, t)
  <1> SUFFICES ASSUME NEW j, NEW o, NEW b, GoodJson(n, j), Was(t, o, b), Decode(t, j, o).ok
               PROVE  Repeats(n, j, b, Encode(t, Decode(t, j, o).out))
    BY DEF DecodesOver
  <1> DEFINE s == t[2]
             v == Decode(t, j, o).out
             e == Encode(t, v)
             T(x) == Property(s, x).type
             B(i) == EncodedBase(s, v, i)
  <1>1. n # 0 /\ n - 1 \in Nat /\ IsJson(j)
    BY GoodJsonIs
  <1>2. /\ Sound(t, o)
        /\ b = Nothing \/ (Kind(b) = "object" /\ \E k \in Nat : GoodJson(k, b))
        /\ PartsWere(s, o, b)
    BY StructWas
  <1>3. Accepting(s, j, o) /\ Made(s, j, o, v)
    <2> DEFINE r == Decode(t, j, o)
    <2>1. r = Decode(t, j, o) /\ r.ok /\ v = r.out /\ s = t[2]
      OBVIOUS
    <2> HIDE DEF r, v, s
    <2>2. /\ r.ok <=> Accepting(s, j, o)
          /\ r.ok => Made(s, j, o, r.out)
      BY <1>1, <1>2, <2>1, StructAccepts
    <2> QED
      BY <2>1, <2>2
  <1>4. Sound(t, v)
    <2>1. DecodesSound(n, t)
      BY DecodeSound
    <2> QED
      BY <1>2, <2>1 DEF DecodesSound
  <1>5. /\ DOMAIN v.own \subseteq Names(s) /\ Required(s) \subseteq Names(s)
        /\ \A x \in Names(s) : T(x) \in AllTypes
        /\ \A i \in DOMAIN s.bases : Ref(s.bases[i]) \in AllTypes /\ Rank(Ref(s.bases[i])) < Rank(t)
    BY <1>4, SoundStruct, NamesAre, BasesAre
  <1>6. Kind(j) = "object" /\ Container(j) /\ MatchKind(j, s.kind)
    BY <1>3 DEF Accepting, Container
  <1> HIDE DEF v
  <1>7. ASSUME NEW x \in DOMAIN v.own
        PROVE  Encode(T(x), v.own[x]) # Aborted /\ Placed(n, j, b, x, Encode(T(x), v.own[x]))
    <2>1. CASE x \in DOMAIN j[2]
      <3> DEFINE u == T(x)
                 d == Target(s, o.own, x)
                 y == Encode(u, v.own[x])
      <3>1. x \in Names(s) /\ u \in AllTypes /\ DecodesOver(n - 1, u)
        BY <1>1, <1>5
      <3>2. Decode(u, j[2][x], d).ok /\ v.own[x] = Decode(u, j[2][x], d).out
        BY <1>3, <2>1, <3>1 DEF Accepting, Made
      <3>3. Was(u, d, At(b, x)) \/ d = Default(u)
        BY <1>2 DEF PartsWere, Target
      <3>4. y = Encode(u, Decode(u, j[2][x], d).out)
        BY <3>2
      <3> HIDE DEF u, d, y
      <3>5. y # Aborted /\ Placed(n, j, b, x, y)
        BY <1>2, <1>6, <2>1, <3>1, <3>2, <3>3, <3>4, OwnPlaced
      <3> QED
        BY <3>5 DEF u, y
    <2>2. CASE x \notin DOMAIN j[2]
      <3>1. x \in DOMAIN o.own /\ v.own[x] = o.own[x]
        BY <1>3, <2>2 DEF Made
      <3>2. x \notin Required(s)
        BY <1>3, <1>5, <2>2 DEF Accepting
      <3>3. Kind(b) = "object" /\ x \in DOMAIN b[2] /\ b[2][x] = Encode(T(x), v.own[x])
        BY <1>2, <3>1, <3>2 DEF PartsWere
      <3>4. b # Nothing
        BY <3>3, AtIs
      <3>5. PICK k \in Nat : GoodJson(k, b)
        BY <1>2, <3>4
      <3>6. Container(b) /\ IsJson(b)
        BY <3>3, <3>5, GoodJsonIs DEF Container
      <3>7. Sound(Below(j, b, x), b[2][x])
        BY <1>6, <2>2, <3>3, <3>5, <3>6, KeptFits
      <3>8. b[2][x] # Aborted
        <4>1. k # 0 /\ GoodJson(k - 1, b[2][x])
          BY <3>3, <3>5, <3>6, GoodJsonIs
        <4>2. k - 1 \in Nat
          BY <4>1
        <4> QED
          BY <4>1, <4>2, JsonNotAborted
      <3> QED
        BY <3>3, <3>4, <3>7, <3>8 DEF Placed
    <2> QED
      BY <2>1, <2>2
  <1>8. ASSUME NEW i \in DOMAIN s.bases
        PROVE  \E c : /\ c = Nothing <=> b = Nothing
                      /\ c = Nothing \/ Kind(c) = "object"
                      /\ \A x \in BaseNames(s, i) : At(c, x) = At(b, x)
                      /\ Repeats(n, j, c, B(i))
    <2> DEFINE u == Ref(s.bases[i])
    <2>1. PICK c : /\ Was(u, o.bases[i], c) /\ (c = Nothing <=> b = Nothing)
                   /\ c = Nothing \/ Kind(c) = "object"
                   /\ \A x \in BaseNames(s, i) : At(c, x) = At(b, x)
      BY <1>2 DEF PartsWere
    <2>2. Decode(u, j, o.bases[i]).ok /\ v.bases[i] = Decode(u, j, o.bases[i]).out
      BY <1>3 DEF Accepting, Made
    <2>3. DecodesOver(n, u)
      BY <1>5
    <2>4. Repeats(n, j, c, Encode(u, v.bases[i]))
      BY <2>1, <2>2, <2>3 DEF DecodesOver
    <2>5. Repeats(n, j, c, B(i))
      BY <2>4 DEF EncodedBase
    <2> QED
      BY <2>1, <2>5
  <1>9. \A i \in DOMAIN s.bases : B(i) # Aborted /\ IsJson(B(i))
    BY <1>8, JsonIsNot DEF Repeats
  <1>10. e # Aborted /\ StructEncoding(s, v, e)
    <2>1. e = Encode(t, v) /\ s = t[2]
      OBVIOUS
    <2> HIDE DEF e
    <2>2. /\ e = Aborted <=> \/ \E x \in DOMAIN v.own : Encode(Property(s, x).type, v.own[x]) = Aborted
                             \/ \E i \in DOMAIN s.bases : EncodedBase(s, v, i) = Aborted
          /\ e # Aborted => StructEncoding(s, v, e)
      BY <1>4, <1>9, <2>1, StructEncodes
    <2> QED
      BY <1>7, <1>9, <2>2
  <1>11. \A i \in DOMAIN s.bases : DOMAIN B(i)[2] \subseteq BaseNames(s, i)
    <2>1. Said(s, v, e)
      BY <1>4, <1>10, MembersSaid
    <2> QED
      BY <2>1 DEF Said
  <1>12. ASSUME NEW x \in DOMAIN e[2]
         PROVE  Placed(n, j, b, x, e[2][x])
    <2>1. \/ x = "kind" /\ s.kind # NoKind /\ e[2][x] = JString(s.kind)
          \/ x \in DOMAIN v.own /\ e[2][x] = Encode(T(x), v.own[x])
          \/ \E i \in DOMAIN s.bases : x \in DOMAIN B(i)[2] /\ e[2][x] = B(i)[2][x]
      BY <1>10 DEF StructEncoding
    <2>2. CASE x = "kind" /\ s.kind # NoKind /\ e[2][x] = JString(s.kind)
      <3> HIDE DEF e, s
      <3>1. Placed(n, j, b, "kind", JString(s.kind))
        BY <1>6, <2>2, KindPlaced
      <3> QED
        BY <2>2, <3>1
    <2>3. CASE x \in DOMAIN v.own /\ e[2][x] = Encode(T(x), v.own[x])
      <3> HIDE DEF e, T
      <3> QED
        BY <1>7, <2>3
    <2>4. CASE \E i \in DOMAIN s.bases : x \in DOMAIN B(i)[2] /\ e[2][x] = B(i)[2][x]
      <3>1. PICK i \in DOMAIN s.bases : x \in DOMAIN B(i)[2] /\ e[2][x] = B(i)[2][x]
        BY <2>4
      <3>2. PICK c : /\ c = Nothing <=> b = Nothing
                     /\ c = Nothing \/ Kind(c) = "object"
                     /\ \A y \in BaseNames(s, i) : At(c, y) = At(b, y)
                     /\ Repeats(n, j, c, B(i))
        BY <1>8
      <3>3. x \in BaseNames(s, i)
        BY <1>11, <3>1
      <3>4. Kind(B(i)) = "object"
        BY <1>10 DEF StructEncoding
      <3> DEFINE y == B(i)
      <3>5. Repeats(n, j, c, y) /\ Kind(y) = "object" /\ x \in DOMAIN y[2] /\ e[2][x] = y[2][x]
        BY <3>1, <3>2, <3>4
      <3> HIDE DEF y, e
      <3>6. Placed(n, j, b, x, y[2][x])
        BY <1>2, <3>2, <3>3, <3>5, BasePlaced
      <3> QED
        BY <3>5, <3>6
    <2> QED
      BY <2>1, <2>2, <2>3, <2>4
  <1>13. IsJson(e) /\ Kind(e) = "object"
    BY <1>10 DEF StructEncoding
  <1>14. \A x \in DOMAIN e[2] : /\ Sound(Below(j, b, x), e[2][x])
                                /\ b = Nothing => GoodJson(n - 1, e[2][x])
    BY <1>12 DEF Placed
  <1>15. Repeats(n, j, b, e)
    <2> HIDE DEF e
    <2> QED
      BY <1>6, <1>13, <1>14, ObjectRepeats
  <1> QED
    BY <1>15 DEF v

LEMMA DecodeOver ==
    ASSUME Overloads
    PROVE  \A n \in Nat : \A t \in AllTypes : DecodesOver(n, t)
  <1> DEFINE Wrong(n, r) == \E t \in AllTypes : Rank(t) = r /\ ~DecodesOver(n, t)
             Bad == {p \in Nat \X Nat : Wrong(p[1], p[2])}
  <1>1. ASSUME Bad # {}
        PROVE  FALSE
    <2>1. Bad \in SUBSET (Nat \X Nat)
      OBVIOUS
    <2>2. PICK m \in Bad : \A k \in Bad : m[1] <= k[1] /\ (m[1] = k[1] => m[2] <= k[2])
      BY <1>1, <2>1, LeastPair
    <2> DEFINE n == m[1]
    <2>3. n \in Nat
      BY <2>2
    <2>4. PICK t \in AllTypes : Rank(t) = m[2] /\ ~DecodesOver(n, t)
      BY <2>2
    <2>5. ASSUME NEW a \in Nat, NEW u \in AllTypes, a < n \/ (a = n /\ Rank(u) < Rank(t))
          PROVE  DecodesOver(a, u)
      <3>1. SUFFICES ASSUME ~DecodesOver(a, u)
                     PROVE  FALSE
        OBVIOUS
      <3>2. Rank(u) \in Nat /\ Rank(t) \in Nat
        BY RankAssumption
      <3> DEFINE q == <<a, Rank(u)>>
      <3>3. q \in Bad /\ q[1] = a /\ q[2] = Rank(u)
        BY <3>1, <3>2
      <3> HIDE DEF q, Bad
      <3>4. n <= a /\ (n = a => Rank(t) <= Rank(u))
        BY <2>2, <2>4, <3>3
      <3> QED
        BY <2>3, <2>5, <3>2, <3>4
    <2> HIDE DEF n, Bad
    <2>6. \A a \in Nat : a < n => \A u \in AllTypes : DecodesOver(a, u)
      BY <2>5
    <2>7. \A u \in AllTypes : Rank(u) < Rank(t) => DecodesOver(n, u)
      BY <2>3, <2>5
    <2>8. CASE t[1] \in {"null", "boolean", "integer", "uinteger", "decimal", "string"}
      BY <2>3, <2>4, <2>8, PrimitiveDecodesOver
    <2>9. CASE t[1] \in {"vector", "map"}
      <3>1. t[2] \in AllTypes
        BY <2>9, TypeIs
      <3> QED
        BY <2>3, <2>4, <2>6, <2>9, <3>1, VectorDecodesOver, MapDecodesOver
    <2>10. CASE t[1] = "tuple"
      BY <2>3, <2>4, <2>6, <2>10, TupleDecodesOver
    <2>11. CASE t[1] = "oneof"
      BY <2>3, <2>4, <2>7, <2>11, OneOfDecodesOver
    <2>12. CASE t[1] = "enum"
      BY <2>3, <2>4, <2>7, <2>12, EnumDecodesOver
    <2>13. CASE t[1] = "struct"
      BY <2>3, <2>4, <2>6, <2>7, <2>13, StructDecodesOver
    <2>14. CASE t[1] = "ref"
      BY <2>3, <2>4, <2>7, <2>14, RefDecodesOver
    <2> QED
      BY <2>8, <2>9, <2>10, <2>11, <2>12, <2>13, <2>14, TypeIs
  <1>2. ASSUME NEW n \in Nat, NEW t \in AllTypes, ~DecodesOver(n, t)
        PROVE  FALSE
    <2>1. Rank(t) \in Nat
      BY RankAssumption
    <2>2. <<n, Rank(t)>> \in Bad
      BY <1>2, <2>1
    <2> QED
      BY <1>1, <2>2
  <1> QED
    BY <1>2

(* What a fresh object holds after a successful Decode() is encoded as     *)
(* nothing that the message did not say.                                   *)
THEOREM DecodeInventsNothing == ASSUME Overloads PROVE Spec => []NothingInvented
  <1>1. Life => NothingInvented
    <2> SUFFICES ASSUME Life, FreshlyDecoded, result.ok
                 PROVE  Typed(Within(json, Nothing), Encode(type, result.out))
      BY DEF NothingInvented
    <2> DEFINE n == MaxNesting + 1
    <2>1. Arrived(type, value, json) /\ result = Fresh(type, json)
      BY DEF Life, FreshlyDecoded, Fresh
    <2>2. type \in AllTypes /\ n \in Nat /\ GoodJson(n, json)
      BY <2>1, ArrivedGood
    <2> HIDE DEF n
    <2>3. DecodesOver(n, type)
      BY <2>2, DecodeOver
    <2>4. Repeats(n, json, Nothing, Encode(type, result.out))
      BY <2>1, <2>2, <2>3, FreshRepeats
    <2>5. Sound(Within(json, Nothing), Encode(type, result.out))
      BY <2>4 DEF Repeats, Fits
    <2> QED
      BY <2>5, TypedIs
  <1> QED
    BY <1>1, MessagesLive, PTL

(* A successful Decode() into an object that was used before leaves what   *)
(* the message says and, where it says nothing, what the object said.      *)
THEOREM DecodeKeepsTheRest == ASSUME Overloads PROVE Spec => []StaleOnlyWhereSilent
  <1>1. Life => StaleOnlyWhereSilent
    <2> DEFINE b == Encode(type, target)
    <2> SUFFICES ASSUME Life, stage = "decoded", result.ok, target # Default(type), b # Aborted
                 PROVE  Typed(Within(json, b), Encode(type, result.out))
      BY DEF StaleOnlyWhereSilent
    <2> DEFINE n == MaxNesting + 1
               m == MaxNesting
    <2>1. /\ Arrived(type, value, json) /\ result = Decode(type, json, target)
          /\ type \in TypesUsed /\ target \in Used(type)
      BY DEF Life, Arrived
    <2>2. type \in AllTypes /\ n \in Nat /\ GoodJson(n, json)
      BY <2>1, ArrivedGood
    <2>3. m \in Nat /\ Shallow(m, type, target) /\ Sound(type, target)
      BY <2>1, ValuesAssumption, NestingAssumption, TypedIs
    <2>4. n = m + 1
      OBVIOUS
    <2> HIDE DEF n, m
    <2>5. EncodesGood(m, type, target)
      BY <2>2, <2>3, EncodeSound DEF EncodesSound
    <2>6. GoodJson(n, b)
      BY <2>4, <2>5 DEF EncodesGood
    <2>7. Was(type, target, b)
      BY <2>2, <2>3, <2>6 DEF Was
    <2>8. DecodesOver(n, type)
      BY <2>2, DecodeOver
    <2> HIDE DEF b
    <2>9. Repeats(n, json, b, Encode(type, result.out))
      BY <2>1, <2>2, <2>7, <2>8 DEF DecodesOver
    <2>10. Sound(Within(json, b), Encode(type, result.out))
      BY <2>9 DEF Repeats, Fits
    <2> QED
      BY <2>10, TypedIs DEF b
  <1> QED
    BY <1>1, MessagesLive, PTL

-----------------------------------------------------------------------------
(* There and back: what a message is decoded into is what was encoded.     *)

LEMMA RereadIs ==
    ASSUME Overloads, NEW j, IsJson(j), NEW x, x = Reparsed(j)
    PROVE  /\ Kind(j) \in {"null", "bool", "int", "real", "string"} => x = j
           /\ Kind(j) = "uint" => x = IF j[2] <= MaxI64 THEN JI64(j[2]) ELSE j
           /\ Kind(j) = "array" => /\ Kind(x) = "array" /\ Count(x) = Count(j)
                                   /\ DOMAIN x[2] = DOMAIN j[2]
                                   /\ \A i \in DOMAIN j[2] : x[2][i] = Reparsed(j[2][i])
           /\ Kind(j) = "object" => /\ Kind(x) = "object" /\ DOMAIN x[2] = DOMAIN j[2]
                                    /\ \A i \in DOMAIN j[2] : x[2][i] = Reparsed(j[2][i])
  <1>1. x = Reread(j)
    BY DEF Overloads
  <1>2. CASE Kind(j) = "array"
    <2> DEFINE f == [i \in DOMAIN j[2] |-> Reparsed(j[2][i])]
    <2>1. x = <<"array", f>>
      BY <1>1, <1>2 DEF Reread, Array
    <2>2. DOMAIN f = DOMAIN j[2] /\ \A i \in DOMAIN j[2] : f[i] = Reparsed(j[2][i])
      OBVIOUS
    <2>3. DOMAIN j[2] = 1..Count(j) /\ Count(j) \in Nat
      BY <1>2, JsonIs
    <2>4. Len(f) = Count(j)
      BY <2>3
    <2> HIDE DEF f
    <2>5. Kind(x) = "array" /\ x[2] = f
      BY <2>1 DEF Kind
    <2>6. Count(x) = Count(j)
      BY <2>4, <2>5 DEF Count
    <2> QED
      BY <1>2, <2>2, <2>5, <2>6
  <1>3. CASE Kind(j) = "object"
    <2> DEFINE f == [i \in DOMAIN j[2] |-> Reparsed(j[2][i])]
    <2>1. x = <<"object", f>>
      BY <1>1, <1>3 DEF Reread
    <2>2. DOMAIN f = DOMAIN j[2] /\ \A i \in DOMAIN j[2] : f[i] = Reparsed(j[2][i])
      OBVIOUS
    <2> HIDE DEF f
    <2>3. Kind(x) = "object" /\ x[2] = f
      BY <2>1 DEF Kind
    <2> QED
      BY <1>3, <2>2, <2>3
  <1>4. CASE Kind(j) \notin {"array", "object"}
    BY <1>1, <1>4 DEF Reread
  <1> QED
    BY <1>2, <1>3, <1>4

LEMMA PrimitiveReturns ==
    ASSUME Overloads, NEW t \in AllTypes, NEW v, WellTyped(t, v),
           t[1] \in {"null", "boolean", "integer", "uinteger", "decimal", "string"},
           NEW j, j = Reparsed(Encode(t, v))
    PROVE  Fresh(t, j) = Decoded(v)
  <1> DEFINE x == Encode(t, v)
             n == 0
  <1>1. IsJson(x)
    <2>1. n \in Nat /\ n + 1 \in Nat
      OBVIOUS
    <2> HIDE DEF n
    <2>2. GoodJson(n + 1, x)
      BY <2>1, PrimitiveEncodes
    <2> QED
      BY <2>1, <2>2, GoodJsonIs
  <1>2. \A y, out : FromResult(Ok(y), out) = Decoded(y)
    BY OkIs DEF FromResult
  <1>3. CASE t[1] = "null"
    <2>1. x = JNull /\ v = "null"
      <3>1. x = JNull
        BY <1>3, EncodeIs
      <3> QED
        BY <1>3, <3>1, WellTypedIs
    <2> HIDE DEF x
    <2>2. Kind(x) = "null"
      BY <2>1 DEF JNull, Kind
    <2>3. j = x
      BY <1>1, <2>2, RereadIs DEF x
    <2>4. GetNull(j) = Ok(v)
      BY <2>1, <2>2, <2>3 DEF GetNull
    <2> QED
      BY <1>2, <1>3, <2>4, DecodeIs DEF Fresh
  <1>4. CASE t[1] = "boolean"
    <2>1. x = JBool(v)
      BY <1>4, EncodeIs
    <2> HIDE DEF x
    <2>2. Kind(x) = "bool" /\ x[2] = v
      BY <2>1 DEF JBool, Kind
    <2>3. j = x
      BY <1>1, <2>2, RereadIs DEF x
    <2>4. GetBool(j) = Ok(v)
      BY <2>2, <2>3 DEF GetBool
    <2> QED
      BY <1>2, <1>4, <2>4, DecodeIs DEF Fresh
  <1>5. CASE t[1] = "string"
    <2>1. x = JString(v)
      BY <1>5, EncodeIs
    <2> HIDE DEF x
    <2>2. Kind(x) = "string" /\ x[2] = v
      BY <2>1 DEF JString, Kind
    <2>3. j = x
      BY <1>1, <2>2, RereadIs DEF x
    <2>4. GetString(j) = Ok(v)
      BY <2>2, <2>3 DEF GetString
    <2> QED
      BY <1>2, <1>5, <2>4, DecodeIs DEF Fresh
  <1>6. CASE t[1] = "decimal"
    <2>1. x = JF64(v)
      BY <1>6, EncodeIs
    <2> HIDE DEF x
    <2>2. Kind(x) = "real" /\ x[2] = v
      BY <2>1 DEF JF64, Kind
    <2>3. j = x
      BY <1>1, <2>2, RereadIs DEF x
    <2>4. GetF64(j) = Ok(v)
      BY <2>2, <2>3 DEF GetF64
    <2> QED
      BY <1>2, <1>6, <2>4, DecodeIs DEF Fresh
  <1>7. CASE t[1] = "integer"
    <2>1. x = JI64(v) /\ v \in -MaxI64 - 1 .. MaxI64
      <3>1. x = JI64(v)
        BY <1>7, EncodeIs
      <3> QED
        BY <1>7, <3>1, WellTypedIs
    <2> HIDE DEF x
    <2>2. Kind(x) = "int" /\ x[2] = v
      BY <2>1 DEF JI64, Kind
    <2>3. j = x
      BY <1>1, <2>2, RereadIs DEF x
    <2>4. Integral(j) /\ AsInteger(j) = v
      BY <2>2, <2>3 DEF Integral, AsInteger
    <2>5. GetI64(j) = Ok(v)
      BY <2>1, <2>4 DEF GetI64
    <2> QED
      BY <1>2, <1>7, <2>5, DecodeIs DEF Fresh
  <1>8. CASE t[1] = "uinteger"
    <2>1. x = JU64(v) /\ v \in 0..MaxU64
      <3>1. x = JU64(v)
        BY <1>8, EncodeIs
      <3> QED
        BY <1>8, <3>1, WellTypedIs
    <2> HIDE DEF x
    <2>2. Kind(x) = "uint" /\ x[2] = v
      BY <2>1 DEF JU64, Kind
    <2>3. j = IF v <= MaxI64 THEN JI64(v) ELSE x
      BY <1>1, <2>2, RereadIs DEF x
    <2>4. Kind(j) \in {"int", "uint"} /\ j[2] = v
      BY <2>2, <2>3 DEF JI64, Kind
    <2>5. Integral(j) /\ AsInteger(j) = v
      BY <2>4 DEF Integral, AsInteger
    <2>6. GetU64(j) = Ok(v)
      BY <2>1, <2>5 DEF GetU64
    <2> QED
      BY <1>2, <1>8, <2>6, DecodeIs DEF Fresh
  <1> QED
    BY <1>3, <1>4, <1>5, <1>6, <1>7, <1>8

(* What the two exceptions of RoundTrip say of one value, and of all that  *)
(* is inside one                                                           *)
KindSays(t, v) ==
    t[1] = "struct" /\ t[2].kind # NoKind /\ InheritsKind(t[2]) => v.bases[1].own["kind"] = t[2].kind
Kinds(t, v) == \A p : Holds(t, v, p) => KindSays(p[1], p[2])

Taken(t, v) ==
    t[1] = "oneof" =>
        \A i \in 1..(v[1] - 1) : ~Decode(t[2][i], Reparsed(Encode(t, v)), Default(t[2][i])).ok
Firsts(t, v) == \A p : Holds(t, v, p) => Taken(p[1], p[2])

LEMMA KindsIs ==
    ASSUME NEW t, NEW v
    PROVE  Kinds(t, v) <=> KindSays(t, v) /\ \A p \in Inside(t, v) : Kinds(p[1], p[2])
  <1>1. \A q : Holds(t, v, q) <=> q = <<t, v>> \/ \E p \in Inside(t, v) : Holds(p[1], p[2], q)
    BY HoldsIs
  <1>2. <<t, v>>[1] = t /\ <<t, v>>[2] = v
    OBVIOUS
  <1> QED
    BY <1>1, <1>2, Zenon DEF Kinds

LEMMA FirstsIs ==
    ASSUME NEW t, NEW v
    PROVE  Firsts(t, v) <=> Taken(t, v) /\ \A p \in Inside(t, v) : Firsts(p[1], p[2])
  <1>1. \A q : Holds(t, v, q) <=> q = <<t, v>> \/ \E p \in Inside(t, v) : Holds(p[1], p[2], q)
    BY HoldsIs
  <1>2. <<t, v>>[1] = t /\ <<t, v>>[2] = v
    OBVIOUS
  <1> QED
    BY <1>1, <1>2, Zenon DEF Firsts

LEMMA PartsSay ==
    ASSUME NEW t, NEW v, Nested(t, v)
    PROVE  (KindsAgree(t, v) <=> Kinds(t, v)) /\ (FirstFits(t, v) <=> Firsts(t, v))
  <1>1. \A p : p \in Parts(t, v) <=> Holds(t, v, p)
    BY TypedIs
  <1>2. KindsAgree(t, v) <=> Kinds(t, v)
    BY <1>1, Zenon DEF KindsAgree, Kinds, KindSays
  <1>3. FirstFits(t, v) <=> Firsts(t, v)
    BY <1>1, Zenon DEF FirstFits, Firsts, Taken
  <1> QED
    BY <1>2, <1>3

LEMMA EqualIs ==
    ASSUME Overloads, NEW t \in AllTypes, NEW a, NEW b
    PROVE  /\ t[1] \in {"null", "boolean", "integer", "uinteger", "decimal", "string", "enum"} =>
                 (Equal(t, a, b) <=> a = b)
           /\ t[1] = "vector" => (Equal(t, a, b) <=>
                 Len(a) = Len(b) /\ \A i \in DOMAIN a : Equal(t[2], a[i], b[i]))
           /\ t[1] = "map" => (Equal(t, a, b) <=>
                 DOMAIN a = DOMAIN b /\ \A n \in DOMAIN a : Equal(t[2], a[n], b[n]))
           /\ t[1] = "tuple" => (Equal(t, a, b) <=> \A i \in DOMAIN a : Equal(t[2][i], a[i], b[i]))
           /\ t[1] = "oneof" => (Equal(t, a, b) <=>
                 a # <<>> /\ b # <<>> /\ a[1] = b[1] /\ Equal(t[2][a[1]], a[2], b[2]))
           /\ t[1] = "struct" => (Equal(t, a, b) <=>
                 /\ DOMAIN a.own = DOMAIN b.own
                 /\ \A n \in DOMAIN a.own : Equal(Property(t[2], n).type, a.own[n], b.own[n])
                 /\ \A i \in DOMAIN t[2].bases : Equal(Ref(t[2].bases[i]), a.bases[i], b.bases[i]))
           /\ t[1] = "ref" => (Equal(t, a, b) <=> Equal(Resolve(t[2]), a, b))
  <1>1. Equal(t, a, b) = EqualOverload(t, a, b)
    BY DEF Overloads
  <1> QED
    BY <1>1, TypeIs DEF EqualOverload

-----------------------------------------------------------------------------
(* A structure is decoded from its members only, of whatever object. *)
SameMembers(s, j, x) ==
    /\ Kind(j) = "object"
    /\ \A m \in AllNames(s) : /\ m \in DOMAIN j[2] <=> m \in DOMAIN x[2]
                              /\ m \in DOMAIN j[2] => j[2][m] = x[2][m]

Shape(t) == IF t[1] = "ref" THEN Resolve(t[2]) ELSE t

Alike(t, j, x) ==
    IsJson(j) /\ (j = x \/ (Shape(t)[1] = "struct" /\ SameMembers(Shape(t)[2], j, x)))

Returned(t, v, j) == Fresh(t, j).ok /\ (Firsts(t, v) => Equal(t, Fresh(t, j).out, v))

Returns(n, t) ==
    \A v, j : /\ Sound(t, v) /\ GoodJson(n, Encode(t, v)) /\ Kinds(t, v)
              /\ Alike(t, j, Reparsed(Encode(t, v)))
              => Returned(t, v, j)

LEMMA PartReturns ==
    ASSUME Overloads, NEW n \in Nat, NEW t, Returns(n, t), NEW v, Sound(t, v),
           GoodJson(n, Encode(t, v)), Kinds(t, v)
    PROVE  Returned(t, v, Reparsed(Encode(t, v)))
  <1>1. GoodJson(n, Reparsed(Encode(t, v)))
    BY RereadGood
  <1>2. IsJson(Reparsed(Encode(t, v)))
    BY <1>1, GoodJsonIs
  <1> QED
    BY <1>2 DEF Returns, Alike

LEMMA PrimitiveReturn ==
    ASSUME Overloads, NEW t \in AllTypes, NEW n,
           t[1] \in {"null", "boolean", "integer", "uinteger", "decimal", "string"}
    PROVE  Returns(n, t)
  <1> SUFFICES ASSUME NEW v, NEW j, Sound(t, v), Alike(t, j, Reparsed(Encode(t, v)))
               PROVE  Returned(t, v, j)
    BY DEF Returns
  <1>1. j = Reparsed(Encode(t, v)) /\ WellTyped(t, v)
    BY SoundPlain DEF Alike, Shape
  <1>2. Fresh(t, j) = Decoded(v)
    BY <1>1, PrimitiveReturns
  <1> QED
    BY <1>2, OutIs, EqualIs DEF Returned

LEMMA EnumReturn ==
    ASSUME Overloads, NEW t \in AllTypes, t[1] = "enum", NEW n
    PROVE  Returns(n, t)
  <1> SUFFICES ASSUME NEW v, NEW j, Sound(t, v), Alike(t, j, Reparsed(Encode(t, v)))
               PROVE  Returned(t, v, j)
    BY DEF Returns
  <1> DEFINE u == t[2]
             values == t[3]
             r == Fresh(u, j)
             k == CHOOSE i \in DOMAIN values : values[i] = r.out
  <1>1. j = Reparsed(Encode(t, v)) /\ v \in DOMAIN values
    BY SoundPlain, WellTypedIs DEF Alike, Shape
  <1>2. u \in AllTypes /\ u[1] \in {"integer", "uinteger", "string"} /\ WellTyped(u, values[v])
    BY <1>1, TypeIs DEF Integer, Uinteger, String
  <1>3. Encode(t, v) = Encode(u, values[v])
    BY EncodeIs
  <1>4. r = Decoded(values[v])
    BY <1>1, <1>2, <1>3, PrimitiveReturns
  <1>5. \A i \in DOMAIN values : values[i] = values[v] => i = v
    <2>1. IsType(t)
      BY TypesAssumption
    <2> QED
      BY <1>1, <2>1 DEF IsType
  <1>6. r.ok /\ r.out = values[v]
    BY <1>4, OutIs
  <1>7. Fresh(t, j) = IF r.ok /\ \E i \in DOMAIN values : values[i] = r.out
                      THEN Decoded(k) ELSE Refused(Default(t))
    BY DecodeIs DEF DecodeEnum, Enumerator, Fresh
  <1> HIDE DEF r
  <1>8. k = v
    BY <1>1, <1>5, <1>6
  <1> HIDE DEF k, values
  <1>9. Fresh(t, j) = Decoded(v)
    BY <1>1, <1>6, <1>7, <1>8
  <1> QED
    BY <1>9, OutIs, EqualIs DEF Returned

-----------------------------------------------------------------------------
(* What each kind of container is when it is decoded into a fresh object   *)

LEMMA FreshVector ==
    ASSUME Overloads, NEW t \in AllTypes, t[1] = "vector", NEW u, u = t[2], NEW j, IsJson(j),
           NEW N, N = Count(j), NEW r, r = Fresh(t, j)
    PROVE  /\ r.ok <=> Kind(j) = "array" /\ \A i \in 1..N : Fresh(u, j[2][i]).ok
           /\ r.ok => /\ Len(r.out) = N /\ DOMAIN r.out = 1..N
                      /\ \A i \in 1..N : r.out[i] = Fresh(u, j[2][i]).out
  <1> DEFINE o == Default(t)
  <1>1. IsSequence(o) /\ r = Decode(t, j, o)
    BY DefaultSound, SoundVector DEF Fresh
  <1>2. \A i : Held(o, i, u) = Default(u)
    <2>1. o = <<>>
      BY FormIs DEF Initial
    <2> QED
      BY <2>1, EmptyIs DEF Held
  <1> HIDE DEF o
  <1>3. \A i : Decode(u, j[2][i], Held(o, i, u)) = Fresh(u, j[2][i])
    BY <1>2 DEF Fresh
  <1>4. /\ r.ok <=> /\ Kind(j) = "array"
                    /\ \A i \in 1..N : Decode(u, j[2][i], Held(o, i, u)).ok
        /\ r.ok => /\ IsSequence(r.out) /\ Len(r.out) = N /\ DOMAIN r.out = 1..N
                   /\ \A i \in 1..N : r.out[i] = Decode(u, j[2][i], Held(o, i, u)).out
    BY <1>1, VectorDecodes
  <1> QED
    BY <1>3, <1>4

LEMMA FreshTuple ==
    ASSUME Overloads, NEW t \in AllTypes, t[1] = "tuple", NEW ts, ts = t[2], NEW j, IsJson(j),
           NEW N, N = Len(ts), NEW r, r = Fresh(t, j)
    PROVE  /\ r.ok <=> /\ Kind(j) = "array" /\ Count(j) = N
                       /\ \A i \in 1..N : Fresh(ts[i], j[2][i]).ok
           /\ r.ok => /\ DOMAIN r.out = 1..N
                      /\ \A i \in 1..N : r.out[i] = Fresh(ts[i], j[2][i]).out
  <1> DEFINE o == Default(t)
  <1>1. IsSequence(o) /\ Len(o) = N /\ r = Decode(t, j, o)
    BY DefaultSound, SoundTuple DEF Fresh
  <1>2. DOMAIN ts = 1..N
    BY TypeIs, SequenceIs
  <1>3. \A i \in 1..N : o[i] = Default(ts[i])
    <2>1. o = [i \in DOMAIN ts |-> Default(ts[i])]
      BY FormIs DEF Initial
    <2> HIDE DEF o
    <2> QED
      BY <1>2, <2>1
  <1> HIDE DEF o
  <1>4. \A i \in 1..N : Decode(ts[i], j[2][i], o[i]) = Fresh(ts[i], j[2][i])
    BY <1>3 DEF Fresh
  <1>5. /\ r.ok <=> /\ Kind(j) = "array" /\ Count(j) = N
                    /\ \A i \in 1..N : Decode(ts[i], j[2][i], o[i]).ok
        /\ r.ok => /\ IsSequence(r.out) /\ Len(r.out) = N /\ DOMAIN r.out = 1..N
                   /\ \A i \in 1..N : r.out[i] = Decode(ts[i], j[2][i], o[i]).out
    BY <1>1, TupleDecodes
  <1> QED
    BY <1>4, <1>5

LEMMA FreshMap ==
    ASSUME Overloads, NEW t \in AllTypes, t[1] = "map", NEW u, u = t[2], NEW j, IsJson(j),
           NEW r, r = Fresh(t, j)
    PROVE  /\ r.ok <=> Kind(j) = "object" /\ \A x \in DOMAIN j[2] : Fresh(u, j[2][x]).ok
           /\ r.ok => /\ DOMAIN r.out = DOMAIN j[2]
                      /\ \A x \in DOMAIN j[2] : r.out[x] = Fresh(u, j[2][x]).out
  <1> DEFINE o == Default(t)
  <1>1. IsMap(o) /\ r = Decode(t, j, o)
    BY DefaultSound, SoundMap DEF Fresh
  <1>2. DOMAIN o = {} /\ \A x : Held(o, x, u) = Default(u)
    <2>1. o = <<>>
      BY FormIs DEF Initial
    <2> QED
      BY <2>1, EmptyIs DEF Held
  <1> HIDE DEF o
  <1>3. \A x : Decode(u, j[2][x], Held(o, x, u)) = Fresh(u, j[2][x])
    BY <1>2 DEF Fresh
  <1>4. /\ r.ok <=> /\ Kind(j) = "object"
                    /\ \A x \in DOMAIN j[2] : Decode(u, j[2][x], Held(o, x, u)).ok
        /\ r.ok => /\ r.out = [x \in DOMAIN r.out |-> r.out[x]]
                   /\ DOMAIN r.out = DOMAIN o \cup DOMAIN j[2]
                   /\ \A x \in DOMAIN j[2] : r.out[x] = Decode(u, j[2][x], Held(o, x, u)).out
                   /\ \A x \in DOMAIN o : x \notin DOMAIN j[2] => r.out[x] = o[x]
    BY <1>1, MapDecodes
  <1> QED
    BY <1>2, <1>3, <1>4

(* A structure that was decoded into a fresh object, or refused *)
Opened(s, j, r) ==
    /\ r.ok <=>
          /\ Kind(j) = "object" /\ MatchKind(j, s.kind)
          /\ \A x \in Names(s) : IF x \in DOMAIN j[2]
                                 THEN Fresh(Property(s, x).type, j[2][x]).ok
                                 ELSE x \notin Required(s)
          /\ \A i \in DOMAIN s.bases : Fresh(Ref(s.bases[i]), j).ok
    /\ r.ok =>
          /\ DOMAIN r.out.own = Names(s) \cap DOMAIN j[2]
          /\ \A x \in DOMAIN r.out.own : r.out.own[x] = Fresh(Property(s, x).type, j[2][x]).out
          /\ \A i \in DOMAIN s.bases : r.out.bases[i] = Fresh(Ref(s.bases[i]), j).out

LEMMA FreshStruct ==
    ASSUME Overloads, NEW t \in AllTypes, t[1] = "struct", NEW s, s = t[2], NEW j, IsJson(j),
           NEW r, r = Fresh(t, j)
    PROVE  Opened(s, j, r)
  <1> DEFINE o == Default(t)
  <1>1. Sound(t, o) /\ r = Decode(t, j, o)
    BY DefaultSound DEF Fresh
  <1>2. /\ DOMAIN o.own = Required(s) /\ \A x \in Required(s) : o.own[x] = Default(Property(s, x).type)
        /\ \A i \in DOMAIN s.bases : o.bases[i] = Default(Ref(s.bases[i]))
    <2>1. o.own = DefaultMembers(s) /\ o.bases = DefaultBases(s)
      BY StructDefault
    <2> HIDE DEF o
    <2> QED
      BY <2>1 DEF DefaultMembers, DefaultBases
  <1> HIDE DEF o
  <1>3. \A x \in Names(s) : Target(s, o.own, x) = Default(Property(s, x).type)
    BY <1>2 DEF Target
  <1>4. /\ r.ok <=> Accepting(s, j, o)
        /\ r.ok => Made(s, j, o, r.out)
    BY <1>1, StructAccepts
  <1>5. Accepting(s, j, o) <=>
            /\ Kind(j) = "object" /\ MatchKind(j, s.kind)
            /\ \A x \in Names(s) : IF x \in DOMAIN j[2]
                                   THEN Fresh(Property(s, x).type, j[2][x]).ok
                                   ELSE x \notin Required(s)
            /\ \A i \in DOMAIN s.bases : Fresh(Ref(s.bases[i]), j).ok
    BY <1>2, <1>3 DEF Accepting, Fresh
  <1>6. ASSUME r.ok
        PROVE  /\ DOMAIN r.out.own = Names(s) \cap DOMAIN j[2]
               /\ \A x \in DOMAIN r.out.own : r.out.own[x] = Fresh(Property(s, x).type, j[2][x]).out
               /\ \A i \in DOMAIN s.bases : r.out.bases[i] = Fresh(Ref(s.bases[i]), j).out
    <2>1. Made(s, j, o, r.out)
      BY <1>4, <1>6
    <2>2. Required(s) \subseteq Names(s) \cap DOMAIN j[2]
      BY <1>4, <1>6, NamesAre DEF Accepting
    <2>3. DOMAIN r.out.own = Names(s) \cap DOMAIN j[2]
      BY <1>2, <2>1, <2>2 DEF Made
    <2>4. \A x \in Names(s) \cap DOMAIN j[2] :
              r.out.own[x] = Decode(Property(s, x).type, j[2][x], Default(Property(s, x).type)).out
      BY <1>3, <2>1 DEF Made
    <2>5. \A i \in DOMAIN s.bases :
              r.out.bases[i] = Decode(Ref(s.bases[i]), j, Default(Ref(s.bases[i]))).out
      BY <1>2, <2>1 DEF Made
    <2> QED
      BY <2>3, <2>4, <2>5 DEF Fresh
  <1> QED
    BY <1>4, <1>5, <1>6 DEF Opened

LEMMA VectorReturn ==
    ASSUME Overloads, NEW t \in AllTypes, t[1] = "vector", NEW n \in Nat,
           \A m \in Nat : m < n => Returns(m, t[2])
    PROVE  Returns(n, t)
  <1> SUFFICES ASSUME NEW v, NEW j, Sound(t, v), GoodJson(n, Encode(t, v)), Kinds(t, v),
                      Alike(t, j, Reparsed(Encode(t, v)))
               PROVE  Returned(t, v, j)
    BY DEF Returns
  <1> DEFINE u == t[2]
             N == Len(v)
             e == [i \in 1..N |-> Encode(u, v[i])]
             x == Encode(t, v)
             out == Fresh(t, j).out
  <1>1. N \in Nat /\ DOMAIN v = 1..N /\ \A i \in 1..N : Sound(u, v[i])
    BY SoundVector, SequenceIs
  <1>2. x = Elements(e)
    BY EncodeIs
  <1>3. e = [i \in 1..N |-> e[i]] /\ \A i \in 1..N : e[i] = Encode(u, v[i])
    OBVIOUS
  <1>4. j = Reparsed(x) /\ IsJson(j)
    BY DEF Alike, Shape
  <1>5. \A i \in 1..N : <<u, v[i]>> \in Inside(t, v)
    BY <1>1, InsideVector
  <1>6. x # Aborted /\ IsJson(x) /\ n # 0
    BY JsonNotAborted, GoodJsonIs
  <1> HIDE DEF e
  <1>7. Kind(x) = "array" /\ Container(x) /\ Count(x) = N /\ x[2] = e /\ DOMAIN e = 1..N
    BY <1>1, <1>2, <1>3, <1>6, ElementsIs
  <1>8. n - 1 \in Nat /\ \A i \in 1..N : GoodJson(n - 1, e[i])
    <2>1. \A i \in DOMAIN x[2] : GoodJson(n - 1, x[2][i])
      BY <1>7, GoodJsonIs
    <2> QED
      BY <1>6, <1>7, <2>1
  <1> HIDE DEF x
  <1>9. Kind(j) = "array" /\ Count(j) = N /\ \A i \in 1..N : j[2][i] = Reparsed(e[i])
    BY <1>4, <1>6, <1>7, RereadIs
  <1>10. ASSUME NEW i \in 1..N
         PROVE  /\ Fresh(u, j[2][i]).ok
                /\ Firsts(t, v) => Equal(u, Fresh(u, j[2][i]).out, v[i])
    <2> DEFINE w == v[i]
               p == <<u, w>>
    <2>1. p \in Inside(t, v) /\ p[1] = u /\ p[2] = w
      BY <1>5
    <2> HIDE DEF p
    <2>2. Kinds(u, w) /\ (Firsts(t, v) => Firsts(u, w))
      BY <2>1, KindsIs, FirstsIs
    <2>3. Sound(u, w) /\ GoodJson(n - 1, Encode(u, w)) /\ Returns(n - 1, u)
      BY <1>1, <1>3, <1>6, <1>8
    <2>4. Returned(u, w, Reparsed(Encode(u, w)))
      BY <1>8, <2>2, <2>3, PartReturns
    <2>5. j[2][i] = Reparsed(Encode(u, w))
      BY <1>3, <1>9
    <2> QED
      BY <2>2, <2>4, <2>5 DEF Returned
  <1>11. /\ Fresh(t, j).ok /\ Len(out) = N /\ DOMAIN out = 1..N
         /\ \A i \in 1..N : out[i] = Fresh(u, j[2][i]).out
    <2> DEFINE r == Fresh(t, j)
    <2>1. r = Fresh(t, j) /\ out = r.out /\ u = t[2] /\ N = Count(j)
      BY <1>9
    <2> HIDE DEF r, out, u, N
    <2>2. /\ r.ok <=> Kind(j) = "array" /\ \A i \in 1..N : Fresh(u, j[2][i]).ok
          /\ r.ok => /\ Len(r.out) = N /\ DOMAIN r.out = 1..N
                     /\ \A i \in 1..N : r.out[i] = Fresh(u, j[2][i]).out
      BY <1>4, <2>1, FreshVector
    <2> QED
      BY <1>9, <1>10, <2>1, <2>2
  <1>12. Firsts(t, v) => Equal(t, out, v)
    <2> HIDE DEF out
    <2>1. Firsts(t, v) => \A i \in DOMAIN out : Equal(u, out[i], v[i])
      BY <1>10, <1>11
    <2> QED
      BY <1>11, <2>1, EqualIs
  <1> QED
    BY <1>11, <1>12 DEF Returned

LEMMA TupleReturn ==
    ASSUME Overloads, NEW t \in AllTypes, t[1] = "tuple", NEW n \in Nat,
           \A m \in Nat : m < n => \A u \in AllTypes : Returns(m, u)
    PROVE  Returns(n, t)
  <1> SUFFICES ASSUME NEW v, NEW j, Sound(t, v), GoodJson(n, Encode(t, v)), Kinds(t, v),
                      Alike(t, j, Reparsed(Encode(t, v)))
               PROVE  Returned(t, v, j)
    BY DEF Returns
  <1> DEFINE ts == t[2]
             N == Len(ts)
             e == [i \in 1..N |-> Encode(ts[i], v[i])]
             x == Encode(t, v)
             out == Fresh(t, j).out
  <1>1. N \in Nat /\ DOMAIN ts = 1..N /\ \A i \in 1..N : ts[i] \in AllTypes
    BY TypeIs, SequenceIs
  <1>2. DOMAIN v = 1..N /\ \A i \in 1..N : Sound(ts[i], v[i])
    <2>1. IsSequence(v) /\ Len(v) = N /\ \A i \in DOMAIN v \cap DOMAIN ts : Sound(ts[i], v[i])
      BY SoundTuple
    <2>2. DOMAIN v = 1..N
      BY <2>1, SequenceIs
    <2> QED
      BY <1>1, <2>1, <2>2
  <1>3. x = Elements(e) /\ e = [i \in 1..N |-> e[i]] /\ \A i \in 1..N : e[i] = Encode(ts[i], v[i])
    BY EncodeIs
  <1>4. j = Reparsed(x) /\ IsJson(j)
    BY DEF Alike, Shape
  <1>5. \A i \in 1..N : <<ts[i], v[i]>> \in Inside(t, v)
    BY <1>1, <1>2, InsideTuple
  <1>6. x # Aborted /\ IsJson(x) /\ n # 0
    BY JsonNotAborted, GoodJsonIs
  <1> HIDE DEF e
  <1>7. Kind(x) = "array" /\ Container(x) /\ Count(x) = N /\ x[2] = e /\ DOMAIN e = 1..N
    BY <1>1, <1>3, <1>6, ElementsIs
  <1>8. n - 1 \in Nat /\ \A i \in 1..N : GoodJson(n - 1, e[i])
    <2>1. \A i \in DOMAIN x[2] : GoodJson(n - 1, x[2][i])
      BY <1>7, GoodJsonIs
    <2> QED
      BY <1>6, <1>7, <2>1
  <1> HIDE DEF x
  <1>9. Kind(j) = "array" /\ Count(j) = N /\ \A i \in 1..N : j[2][i] = Reparsed(e[i])
    BY <1>4, <1>6, <1>7, RereadIs
  <1>10. ASSUME NEW i \in 1..N
         PROVE  /\ Fresh(ts[i], j[2][i]).ok
                /\ Firsts(t, v) => Equal(ts[i], Fresh(ts[i], j[2][i]).out, v[i])
    <2> DEFINE u == ts[i]
               w == v[i]
               p == <<u, w>>
    <2>1. p \in Inside(t, v) /\ p[1] = u /\ p[2] = w
      BY <1>5
    <2> HIDE DEF p
    <2>2. Kinds(u, w) /\ (Firsts(t, v) => Firsts(u, w))
      BY <2>1, KindsIs, FirstsIs
    <2>3. Sound(u, w) /\ GoodJson(n - 1, Encode(u, w)) /\ Returns(n - 1, u)
      <3>1. u \in AllTypes /\ n - 1 < n
        BY <1>1
      <3>2. Sound(u, w) /\ e[i] = Encode(u, w)
        BY <1>2, <1>3
      <3> QED
        BY <1>8, <3>1, <3>2
    <2>4. Returned(u, w, Reparsed(Encode(u, w)))
      BY <1>8, <2>2, <2>3, PartReturns
    <2>5. j[2][i] = Reparsed(Encode(u, w))
      BY <1>3, <1>9
    <2> QED
      BY <2>2, <2>4, <2>5 DEF Returned
  <1>11. /\ Fresh(t, j).ok /\ DOMAIN out = 1..N
         /\ \A i \in 1..N : out[i] = Fresh(ts[i], j[2][i]).out
    <2> DEFINE r == Fresh(t, j)
    <2>1. r = Fresh(t, j) /\ out = r.out /\ ts = t[2] /\ N = Len(ts)
      OBVIOUS
    <2> HIDE DEF r, out, ts, N
    <2>2. /\ r.ok <=> /\ Kind(j) = "array" /\ Count(j) = N
                      /\ \A i \in 1..N : Fresh(ts[i], j[2][i]).ok
          /\ r.ok => /\ DOMAIN r.out = 1..N
                     /\ \A i \in 1..N : r.out[i] = Fresh(ts[i], j[2][i]).out
      BY <1>4, <2>1, FreshTuple
    <2> QED
      BY <1>9, <1>10, <2>1, <2>2
  <1>12. Firsts(t, v) => Equal(t, out, v)
    <2> HIDE DEF out
    <2>1. Firsts(t, v) => \A i \in DOMAIN out : Equal(ts[i], out[i], v[i])
      BY <1>10, <1>11
    <2> QED
      BY <2>1, EqualIs
  <1> QED
    BY <1>11, <1>12 DEF Returned

LEMMA MapReturn ==
    ASSUME Overloads, NEW t \in AllTypes, t[1] = "map", NEW n \in Nat,
           \A m \in Nat : m < n => Returns(m, t[2])
    PROVE  Returns(n, t)
  <1> SUFFICES ASSUME NEW v, NEW j, Sound(t, v), GoodJson(n, Encode(t, v)), Kinds(t, v),
                      Alike(t, j, Reparsed(Encode(t, v)))
               PROVE  Returned(t, v, j)
    BY DEF Returns
  <1> DEFINE u == t[2]
             x == Encode(t, v)
             out == Fresh(t, j).out
  <1>1. IsMap(v) /\ \A i \in DOMAIN v : Sound(u, v[i])
    BY SoundMap
  <1>2. j = Reparsed(x) /\ IsJson(j)
    BY DEF Alike, Shape
  <1>3. \A i \in DOMAIN v : <<u, v[i]>> \in Inside(t, v)
    BY InsideVector
  <1>4. x # Aborted /\ IsJson(x) /\ n # 0 /\ n - 1 \in Nat
    BY JsonNotAborted, GoodJsonIs
  <1>5. /\ Kind(x) = "object" /\ Container(x) /\ DOMAIN x[2] = DOMAIN v
        /\ \A i \in DOMAIN v : x[2][i] = Encode(u, v[i])
    BY <1>1, <1>4, MapEncodesJson
  <1>6. \A i \in DOMAIN v : GoodJson(n - 1, x[2][i])
    <2>1. \A i \in DOMAIN x[2] : GoodJson(n - 1, x[2][i])
      BY <1>5, GoodJsonIs
    <2> QED
      BY <1>5, <2>1
  <1> HIDE DEF x
  <1>7. /\ Kind(j) = "object" /\ DOMAIN j[2] = DOMAIN v
        /\ \A i \in DOMAIN v : j[2][i] = Reparsed(Encode(u, v[i]))
    BY <1>2, <1>4, <1>5, RereadIs
  <1>8. ASSUME NEW i \in DOMAIN v
        PROVE  /\ Fresh(u, j[2][i]).ok
               /\ Firsts(t, v) => Equal(u, Fresh(u, j[2][i]).out, v[i])
    <2> DEFINE w == v[i]
               p == <<u, w>>
    <2>1. p \in Inside(t, v) /\ p[1] = u /\ p[2] = w
      BY <1>3
    <2> HIDE DEF p
    <2>2. Kinds(u, w) /\ (Firsts(t, v) => Firsts(u, w))
      BY <2>1, KindsIs, FirstsIs
    <2>3. Sound(u, w) /\ GoodJson(n - 1, Encode(u, w)) /\ Returns(n - 1, u)
      BY <1>1, <1>4, <1>5, <1>6
    <2>4. Returned(u, w, Reparsed(Encode(u, w)))
      BY <1>4, <2>2, <2>3, PartReturns
    <2>5. j[2][i] = Reparsed(Encode(u, w))
      BY <1>7
    <2> QED
      BY <2>2, <2>4, <2>5 DEF Returned
  <1>9. /\ Fresh(t, j).ok /\ DOMAIN out = DOMAIN v
        /\ \A i \in DOMAIN v : out[i] = Fresh(u, j[2][i]).out
    <2> DEFINE r == Fresh(t, j)
    <2>1. r = Fresh(t, j) /\ out = r.out /\ u = t[2]
      OBVIOUS
    <2> HIDE DEF r, out, u
    <2>2. /\ r.ok <=> Kind(j) = "object" /\ \A i \in DOMAIN j[2] : Fresh(u, j[2][i]).ok
          /\ r.ok => /\ DOMAIN r.out = DOMAIN j[2]
                     /\ \A i \in DOMAIN j[2] : r.out[i] = Fresh(u, j[2][i]).out
      BY <1>2, <2>1, FreshMap
    <2> QED
      BY <1>7, <1>8, <2>1, <2>2
  <1>10. Firsts(t, v) => Equal(t, out, v)
    <2> HIDE DEF out
    <2>1. Firsts(t, v) => \A i \in DOMAIN out : Equal(u, out[i], v[i])
      BY <1>8, <1>9
    <2> QED
      BY <1>9, <2>1, EqualIs
  <1> QED
    BY <1>9, <1>10 DEF Returned

LEMMA OneOfReturn ==
    ASSUME Overloads, NEW t \in AllTypes, t[1] = "oneof", NEW n \in Nat,
           \A u \in AllTypes : Rank(u) < Rank(t) => Returns(n, u)
    PROVE  Returns(n, t)
  <1> SUFFICES ASSUME NEW v, NEW j, Sound(t, v), GoodJson(n, Encode(t, v)), Kinds(t, v),
                      Alike(t, j, Reparsed(Encode(t, v)))
               PROVE  Returned(t, v, j)
    BY DEF Returns
  <1> DEFINE ts == t[2]
             N == Len(ts)
             k == v[1]
             w == v[2]
             u == ts[k]
             attempts == [i \in 1..N |-> Decode(ts[i], j, Default(ts[i]))]
  <1>1. Encode(t, v) = IF v = <<>> THEN Aborted ELSE Encode(u, w)
    BY EncodeIs DEF Visit
  <1>2. v # <<>> /\ Encode(t, v) = Encode(u, w)
    BY <1>1, JsonNotAborted
  <1>3. k \in DOMAIN ts /\ v = <<k, w>> /\ Sound(u, w)
    BY <1>2, SoundOneOf
  <1>4. N \in Nat /\ DOMAIN ts = 1..N /\ Returns(n, u)
    BY <1>3, TypeIs, SequenceIs
  <1>5. j = Reparsed(Encode(u, w))
    BY <1>2 DEF Alike, Shape
  <1>6. Kinds(u, w) /\ (Firsts(t, v) => Firsts(u, w))
    <2> DEFINE p == <<u, w>>
    <2>1. p \in Inside(t, v) /\ p[1] = u /\ p[2] = w
      BY <1>2, InsideOneOf
    <2> HIDE DEF p, u, w
    <2> QED
      BY <2>1, KindsIs, FirstsIs
  <1>7. Returned(u, w, j)
    <2> HIDE DEF u, w
    <2>1. GoodJson(n, Encode(u, w))
      BY <1>2
    <2>2. Returned(u, w, Reparsed(Encode(u, w)))
      BY <1>3, <1>4, <1>6, <2>1, PartReturns
    <2> QED
      BY <1>5, <2>2
  <1>8. Fresh(t, j) = FirstOf(attempts, Default(t))
    BY DecodeIs DEF DecodeOneOf, Fresh
  <1>9. DOMAIN attempts = 1..N /\ \A i \in 1..N : attempts[i] = Fresh(ts[i], j)
    BY DEF Fresh
  <1>10. Firsts(t, v) => \A i \in 1..(k - 1) : ~Fresh(ts[i], j).ok
    <2>1. Firsts(t, v) => Taken(t, v)
      BY FirstsIs
    <2> QED
      BY <1>2, <1>5, <2>1 DEF Taken, Fresh
  <1> HIDE DEF attempts, N
  <1>11. attempts[k].ok /\ k \in 1..N
    BY <1>3, <1>4, <1>7, <1>9 DEF Returned
  <1>12. PICK i \in 1..N : /\ attempts[i].ok /\ \A m \in 1..(i - 1) : ~attempts[m].ok
                           /\ Fresh(t, j) = Decoded(<<i, attempts[i].out>>)
    <2> DEFINE o == Default(t)
    <2> HIDE DEF o
    <2>1. \/ /\ \A i \in 1..N : ~attempts[i].ok
             /\ FirstOf(attempts, o) = Refused(o)
          \/ \E i \in 1..N : /\ attempts[i].ok /\ \A m \in 1..(i - 1) : ~attempts[m].ok
                             /\ FirstOf(attempts, o) = Decoded(<<i, attempts[i].out>>)
      BY <1>4, <1>9, FirstOfIs
    <2> QED
      BY <1>8, <1>11, <2>1 DEF o
  <1>13. Fresh(t, j).ok
    BY <1>12, OutIs
  <1>14. ASSUME Firsts(t, v)
         PROVE  Equal(t, Fresh(t, j).out, v)
    <2>1. i = k
      <3>1. \A m \in 1..(k - 1) : m \in 1..N => ~attempts[m].ok
        BY <1>9, <1>10, <1>14
      <3>2. ~(i < k)
        BY <1>11, <1>12, <3>1
      <3>3. ~(k < i)
        BY <1>11, <1>12
      <3> QED
        BY <1>11, <1>12, <3>2, <3>3
    <2> DEFINE out == <<k, Fresh(u, j).out>>
    <2>2. Fresh(t, j).out = out
      BY <1>9, <1>12, <2>1, OutIs
    <2>3. out # <<>> /\ out[1] = k /\ out[2] = Fresh(u, j).out
      OBVIOUS
    <2>4. Equal(u, Fresh(u, j).out, w)
      BY <1>6, <1>7, <1>14 DEF Returned
    <2> HIDE DEF out
    <2>5. Equal(t, out, v)
      BY <1>2, <2>3, <2>4, EqualIs
    <2> QED
      BY <2>2, <2>5
  <1> QED
    BY <1>13, <1>14 DEF Returned

LEMMA RefReturn ==
    ASSUME Overloads, NEW t \in AllTypes, t[1] = "ref", NEW n \in Nat,
           \A u \in AllTypes : Rank(u) < Rank(t) => Returns(n, u)
    PROVE  Returns(n, t)
  <1> SUFFICES ASSUME NEW v, NEW j, Sound(t, v), GoodJson(n, Encode(t, v)), Kinds(t, v),
                      Alike(t, j, Reparsed(Encode(t, v)))
               PROVE  Returned(t, v, j)
    BY DEF Returns
  <1> DEFINE u == Resolve(t[2])
             p == <<u, v>>
  <1>1. u \in AllTypes /\ Returns(n, u)
    BY TypeIs
  <1>2. Encode(t, v) = Encode(u, v) /\ Sound(u, v)
    BY EncodeIs, SoundRef
  <1>3. p \in Inside(t, v) /\ p[1] = u /\ p[2] = v
    BY InsideRef
  <1>4. Fresh(t, j) = Fresh(u, j)
    <2>1. Default(t) = Default(u)
      BY FormIs DEF Initial
    <2> QED
      BY <2>1, DecodeIs DEF Fresh
  <1>5. Alike(u, j, Reparsed(Encode(u, v)))
    BY <1>2 DEF Alike, Shape
  <1>6. \A a : Equal(t, a, v) <=> Equal(u, a, v)
    BY EqualIs
  <1> HIDE DEF u, p
  <1>7. Kinds(u, v) /\ (Firsts(t, v) => Firsts(u, v))
    BY <1>3, KindsIs, FirstsIs
  <1>8. Returned(u, v, j)
    BY <1>1, <1>2, <1>5, <1>7 DEF Returns
  <1> QED
    BY <1>4, <1>6, <1>7, <1>8 DEF Returned

(* What is said of a structure is its own "kind", also where a base says  *)
(* one that agrees.                                                        *)
LEMMA KindSaid ==
    ASSUME Overloads, NEW t \in AllTypes, t[1] = "struct", NEW s, s = t[2], NEW v, Sound(t, v),
           NEW e, e = Encode(t, v), e # Aborted, KindSays(t, v), s.kind # NoKind
    PROVE  "kind" \in DOMAIN e[2] /\ e[2]["kind"] = JString(s.kind)
  <1> DEFINE k == "kind"
             B(i) == EncodedBase(s, v, i)
  <1>1. StructEncoding(s, v, e)
    BY StructSays
  <1>2. Said(s, v, e)
    BY MembersSaid
  <1>3. k \in DOMAIN e[2]
    BY <1>1 DEF StructEncoding
  <1>4. k \notin DOMAIN v.own
    <2>1. k \notin Names(s)
      BY NamesAreApart
    <2> QED
      BY <2>1, SoundStruct
  <1>5. \/ e[2][k] = JString(s.kind)
        \/ \E i \in DOMAIN s.bases : k \in DOMAIN B(i)[2] /\ e[2][k] = B(i)[2][k]
    BY <1>1, <1>3, <1>4 DEF StructEncoding
  <1>6. ASSUME NEW i \in DOMAIN s.bases, k \in DOMAIN B(i)[2], e[2][k] = B(i)[2][k]
        PROVE  e[2][k] = JString(s.kind)
    <2> DEFINE u == Resolve(s.bases[1])
               b == u[2]
               w == v.bases[1]
               T == Property(b, k).type
    <2>1. k \in BaseNames(s, i)
      BY <1>2, <1>6 DEF Said
    <2>2. k \in Inherited(s)
      BY <2>1, NamesAreApart
    <2>3. 1 \in DOMAIN s.bases /\ k \in Required(b) /\ T = String
      BY <2>2, NamesAreApart
    <2>4. /\ u \in AllTypes /\ u[1] = "struct" /\ BaseNames(s, 1) = AllNames(b)
          /\ Sound(u, w) /\ B(1) = Encode(u, w)
      BY <2>3, BaseIs
    <2>5. k \in Names(b) /\ k \in AllNames(b) /\ T \in AllTypes
      BY <2>3, <2>4, NamesAre, NamesAreApart
    <2>6. i = 1
      BY <2>1, <2>3, <2>4, <2>5, NamesAreApart
    <2>7. InheritsKind(s)
      <3>1. \E m \in DOMAIN b.props : k = b.props[m].name
        BY <2>5 DEF Names
      <3> QED
        BY <2>3, <3>1 DEF InheritsKind
    <2>8. w.own[k] = s.kind
      BY <2>7 DEF KindSays
    <2>9. k \in DOMAIN w.own
      BY <2>3, <2>4, SoundStruct
    <2>10. Encode(u, w) # Aborted /\ Container(Encode(u, w))
      <3>1. Container(B(1)) /\ B(1) # Aborted
        BY <1>1, <2>3 DEF StructEncoding, Container
      <3> QED
        BY <2>4, <3>1
    <2> HIDE DEF u, w
    <2>11. Said(b, w, Encode(u, w))
      BY <2>4, <2>10, MembersSaid
    <2>12. At(Encode(u, w), k) = Encode(T, w.own[k])
      BY <2>5, <2>9, <2>11 DEF Said
    <2>13. Encode(T, w.own[k]) = JString(s.kind)
      <3>1. T[1] = "string"
        BY <2>3 DEF String
      <3>2. Encode(T, w.own[k]) = JString(w.own[k])
        BY <2>5, <3>1, EncodeIs
      <3> QED
        BY <2>8, <3>2
    <2>14. At(Encode(u, w), k) = e[2][k]
      BY <1>6, <2>4, <2>6, <2>10, AtIs
    <2> QED
      BY <2>12, <2>13, <2>14
  <1> QED
    BY <1>3, <1>5, <1>6

(* The names of JSON's members are those that something is said under. *)
LEMMA AtNames ==
    ASSUME NEW n \in Nat, NEW x, GoodJson(n, x), Container(x)
    PROVE  \A m : /\ m \in DOMAIN x[2] <=> At(x, m) # Nothing
                  /\ m \in DOMAIN x[2] => At(x, m) = x[2][m] /\ GoodJson(n - 1, x[2][m])
  <1> SUFFICES ASSUME NEW m
               PROVE  /\ m \in DOMAIN x[2] <=> At(x, m) # Nothing
                      /\ m \in DOMAIN x[2] => At(x, m) = x[2][m] /\ GoodJson(n - 1, x[2][m])
    OBVIOUS
  <1>1. CASE m \in DOMAIN x[2]
    <2>1. n # 0 /\ GoodJson(n - 1, x[2][m])
      BY <1>1, GoodJsonIs
    <2>2. n - 1 \in Nat
      BY <2>1
    <2>3. IsJson(x[2][m])
      BY <2>1, <2>2, GoodJsonIs
    <2> QED
      BY <1>1, <2>1, <2>3, AtIs, JsonIsNot
  <1>2. CASE m \notin DOMAIN x[2]
    BY <1>2, AtIs
  <1> QED
    BY <1>1, <1>2

(* j has the members m that e has, read back. *)
Mirrors(S, j, e) ==
    \A m \in S : /\ m \in DOMAIN j[2] <=> At(e, m) # Nothing
                 /\ m \in DOMAIN j[2] => j[2][m] = Reparsed(At(e, m))

LEMMA AlikeMirrors ==
    ASSUME Overloads, NEW t, t[1] = "struct", NEW s, s = t[2], NEW n \in Nat, NEW e, GoodJson(n, e),
           Kind(e) = "object", NEW j, Alike(t, j, Reparsed(e))
    PROVE  Kind(j) = "object" /\ Mirrors(AllNames(s), j, e)
  <1> DEFINE x == Reparsed(e)
  <1>1. IsJson(e) /\ Container(e)
    BY GoodJsonIs DEF Container
  <1>2. Kind(x) = "object" /\ DOMAIN x[2] = DOMAIN e[2] /\ \A m \in DOMAIN e[2] : x[2][m] = Reparsed(e[2][m])
    BY <1>1, RereadIs
  <1>3. j = x \/ SameMembers(s, j, x)
    BY DEF Alike, Shape
  <1> HIDE DEF x
  <1>4. /\ Kind(j) = "object"
        /\ \A m \in AllNames(s) : /\ m \in DOMAIN j[2] <=> m \in DOMAIN x[2]
                                  /\ m \in DOMAIN j[2] => j[2][m] = x[2][m]
    BY <1>2, <1>3 DEF SameMembers
  <1>5. \A m : /\ m \in DOMAIN e[2] <=> At(e, m) # Nothing
               /\ m \in DOMAIN e[2] => At(e, m) = e[2][m]
    BY <1>1, AtNames
  <1> QED
    BY <1>2, <1>4, <1>5 DEF Mirrors

LEMMA MirrorsAlike ==
    ASSUME Overloads, NEW t, t[1] = "ref", NEW s, s = Resolve(t[2])[2], Resolve(t[2])[1] = "struct",
           NEW n \in Nat, NEW e, GoodJson(n, e), Kind(e) = "object",
           NEW j, IsJson(j), Kind(j) = "object", Mirrors(AllNames(s), j, e)
    PROVE  Alike(t, j, Reparsed(e))
  <1> DEFINE x == Reparsed(e)
  <1>1. IsJson(e) /\ Container(e)
    BY GoodJsonIs DEF Container
  <1>2. DOMAIN x[2] = DOMAIN e[2] /\ \A m \in DOMAIN e[2] : x[2][m] = Reparsed(e[2][m])
    BY <1>1, RereadIs
  <1>3. \A m : /\ m \in DOMAIN e[2] <=> At(e, m) # Nothing
               /\ m \in DOMAIN e[2] => At(e, m) = e[2][m]
    BY <1>1, AtNames
  <1> HIDE DEF x
  <1>4. SameMembers(s, j, x)
    BY <1>2, <1>3 DEF Mirrors, SameMembers
  <1> QED
    BY <1>4 DEF Alike, Shape, x

(* The members of a structure return, each by its own type *)
LEMMA OwnReturns ==
    ASSUME Overloads, NEW t \in AllTypes, t[1] = "struct", NEW s, s = t[2], NEW n \in Nat,
           \A m \in Nat : m < n => \A u \in AllTypes : Returns(m, u),
           NEW v, Sound(t, v), Kinds(t, v), NEW e, e = Encode(t, v), GoodJson(n, e),
           NEW j, IsJson(j), Mirrors(AllNames(s), j, e),
           NEW x \in Names(s), NEW u, u = Property(s, x).type
    PROVE  /\ x \in DOMAIN j[2] <=> x \in DOMAIN v.own
           /\ x \in DOMAIN v.own => /\ Fresh(u, j[2][x]).ok
                                    /\ Firsts(t, v) => Equal(u, Fresh(u, j[2][x]).out, v.own[x])
  <1>1. e # Aborted /\ n # 0
    BY JsonNotAborted, GoodJsonIs
  <1>2. Said(s, v, e)
    BY <1>1, MembersSaid
  <1>3. At(e, x) = IF x \in DOMAIN v.own THEN Encode(u, v.own[x]) ELSE Nothing
    BY <1>2 DEF Said
  <1>4. Container(e)
    <2>1. StructEncoding(s, v, e)
      BY <1>1, StructSays
    <2> QED
      BY <2>1 DEF StructEncoding
  <1>5. /\ x \in DOMAIN e[2] <=> At(e, x) # Nothing
        /\ x \in DOMAIN e[2] => At(e, x) = e[2][x] /\ GoodJson(n - 1, e[2][x])
    BY <1>4, AtNames
  <1>6. /\ x \in DOMAIN j[2] <=> At(e, x) # Nothing
        /\ x \in DOMAIN j[2] => j[2][x] = Reparsed(At(e, x))
    <2>1. x \in AllNames(s)
      BY NamesAreApart
    <2> QED
      BY <2>1 DEF Mirrors
  <1>7. x \notin DOMAIN v.own => x \notin DOMAIN j[2]
    BY <1>3, <1>6
  <1>8. ASSUME x \in DOMAIN v.own
        PROVE  /\ x \in DOMAIN j[2] /\ Fresh(u, j[2][x]).ok
               /\ Firsts(t, v) => Equal(u, Fresh(u, j[2][x]).out, v.own[x])
    <2> DEFINE w == v.own[x]
               p == <<u, w>>
    <2>1. x \in DOMAIN e[2]
      <3>1. StructEncoding(s, v, e)
        BY <1>1, StructSays
      <3> QED
        BY <1>8, <3>1 DEF StructEncoding
    <2>2. x \in DOMAIN j[2] /\ j[2][x] = Reparsed(Encode(u, w)) /\ GoodJson(n - 1, Encode(u, w))
      BY <1>3, <1>5, <1>6, <1>8, <2>1
    <2>3. p \in Inside(t, v) /\ p[1] = u /\ p[2] = w
      BY <1>8, InsideStruct
    <2>4. u \in AllTypes /\ Sound(u, w)
      BY <1>8, NamesAre, SoundStruct
    <2>5. n - 1 \in Nat /\ Returns(n - 1, u)
      BY <1>1, <2>4
    <2> HIDE DEF p, w
    <2>6. Kinds(u, w) /\ (Firsts(t, v) => Firsts(u, w))
      BY <2>3, KindsIs, FirstsIs
    <2>7. Returned(u, w, Reparsed(Encode(u, w)))
      BY <2>2, <2>4, <2>5, <2>6, PartReturns
    <2> QED
      BY <2>2, <2>6, <2>7 DEF Returned, w
  <1> QED
    BY <1>7, <1>8

(* The "kind" does. *)
LEMMA KindReturns ==
    ASSUME Overloads, NEW t \in AllTypes, t[1] = "struct", NEW s, s = t[2], NEW n \in Nat,
           NEW v, Sound(t, v), Kinds(t, v), NEW e, e = Encode(t, v), GoodJson(n, e),
           NEW j, IsJson(j), Kind(j) = "object", Mirrors(AllNames(s), j, e)
    PROVE  MatchKind(j, s.kind)
  <1> SUFFICES ASSUME s.kind # NoKind
               PROVE  Member(j, "kind") = Ok(JString(s.kind))
    BY DEF MatchKind
  <1> DEFINE x == JString(s.kind)
             k == "kind"
  <1>1. e # Aborted /\ n # 0
    BY JsonNotAborted, GoodJsonIs
  <1>2. KindSays(t, v)
    BY KindsIs
  <1>3. k \in DOMAIN e[2] /\ e[2][k] = x
    BY <1>1, <1>2, KindSaid
  <1>4. Container(e)
    <2>1. StructEncoding(s, v, e)
      BY <1>1, StructSays
    <2> QED
      BY <2>1 DEF StructEncoding
  <1>5. k \in AllNames(s)
    BY NamesAreApart
  <1>6. Kind(x) = "string"
    BY DEF JString, Kind
  <1> HIDE DEF x, k
  <1>7. At(e, k) = x /\ At(e, k) # Nothing /\ GoodJson(n - 1, x)
    BY <1>3, <1>4, AtNames
  <1>8. IsJson(x)
    <2>1. n - 1 \in Nat
      BY <1>1
    <2> QED
      BY <1>7, <2>1, GoodJsonIs
  <1>9. Reparsed(x) = x
    BY <1>6, <1>8, RereadIs
  <1>10. k \in DOMAIN j[2] /\ j[2][k] = x
    BY <1>5, <1>7, <1>9 DEF Mirrors
  <1>11. Member(j, k) = Ok(j[2][k])
    BY <1>10, JsonIs
  <1> QED
    BY <1>10, <1>11 DEF x, k

(* and so does each base, of the members that the structure says for it. *)
LEMMA BaseReturns ==
    ASSUME Overloads, NEW t \in AllTypes, t[1] = "struct", NEW s, s = t[2], NEW n \in Nat,
           \A u \in AllTypes : Rank(u) < Rank(t) => Returns(n, u),
           NEW v, Sound(t, v), Kinds(t, v), NEW e, e = Encode(t, v), GoodJson(n, e),
           NEW j, IsJson(j), Kind(j) = "object", Mirrors(AllNames(s), j, e),
           NEW i \in DOMAIN s.bases, NEW u, u = Ref(s.bases[i]), NEW w, w = v.bases[i]
    PROVE  Fresh(u, j).ok /\ (Firsts(t, v) => Equal(u, Fresh(u, j).out, w))
  <1> DEFINE c == EncodedBase(s, v, i)
             q == Resolve(u[2])
             p == <<u, w>>
  <1>1. e # Aborted
    BY JsonNotAborted
  <1>2. u \in AllTypes /\ Rank(u) < Rank(t) /\ u[1] = "ref" /\ u[2] = s.bases[i]
    BY BasesAre DEF Ref
  <1>3. q[1] = "struct" /\ BaseNames(s, i) = AllNames(q[2])
    BY <1>2, BaseIs
  <1>4. c = Encode(u, w)
    BY DEF EncodedBase
  <1>5. GoodJson(n, c)
    BY BaseGood
  <1>6. Kind(c) = "object"
    BY <1>1, StructSays
  <1>7. \A x \in BaseNames(s, i) : At(e, x) = At(c, x)
    BY <1>1, BaseSaid
  <1>8. BaseNames(s, i) \subseteq AllNames(s)
    BY NamesAreApart
  <1>9. Sound(u, w)
    BY SoundStruct
  <1>10. p \in Inside(t, v) /\ p[1] = u /\ p[2] = w
    BY InsideStruct
  <1> HIDE DEF c, q, p
  <1>11. Kinds(u, w) /\ (Firsts(t, v) => Firsts(u, w))
    BY <1>10, KindsIs, FirstsIs
  <1>12. Mirrors(AllNames(q[2]), j, c)
    BY <1>3, <1>7, <1>8 DEF Mirrors
  <1>13. Alike(u, j, Reparsed(c))
    BY <1>2, <1>3, <1>5, <1>6, <1>12, MirrorsAlike DEF q
  <1>14. Returned(u, w, j)
    BY <1>2, <1>4, <1>5, <1>9, <1>11, <1>13 DEF Returns
  <1> QED
    BY <1>11, <1>14 DEF Returned

LEMMA StructReturn ==
    ASSUME Overloads, NEW t \in AllTypes, t[1] = "struct", NEW n \in Nat,
           \A m \in Nat : m < n => \A u \in AllTypes : Returns(m, u),
           \A u \in AllTypes : Rank(u) < Rank(t) => Returns(n, u)
    PROVE  Returns(n, t)
  <1> SUFFICES ASSUME NEW v, NEW j, Sound(t, v), GoodJson(n, Encode(t, v)), Kinds(t, v),
                      Alike(t, j, Reparsed(Encode(t, v)))
               PROVE  Returned(t, v, j)
    BY DEF Returns
  <1> DEFINE s == t[2]
             e == Encode(t, v)
             out == Fresh(t, j).out
             T(x) == Property(s, x).type
             R(i) == Ref(s.bases[i])
  <1>1. IsJson(j)
    BY DEF Alike
  <1>2. Kind(e) = "object"
    <2>1. e # Aborted
      BY JsonNotAborted
    <2>2. StructEncoding(s, v, e)
      BY <2>1, StructSays
    <2> QED
      BY <2>2 DEF StructEncoding
  <1>3. Kind(j) = "object" /\ Mirrors(AllNames(s), j, e)
    BY <1>2, AlikeMirrors
  <1>4. MatchKind(j, s.kind)
    BY <1>1, <1>3, KindReturns
  <1>5. \A x \in Names(s) :
            /\ x \in DOMAIN j[2] <=> x \in DOMAIN v.own
            /\ x \in DOMAIN v.own => /\ Fresh(T(x), j[2][x]).ok
                                     /\ Firsts(t, v) => Equal(T(x), Fresh(T(x), j[2][x]).out, v.own[x])
    <2> SUFFICES ASSUME NEW x \in Names(s), NEW u, u = T(x)
                 PROVE  /\ x \in DOMAIN j[2] <=> x \in DOMAIN v.own
                        /\ x \in DOMAIN v.own =>
                              /\ Fresh(u, j[2][x]).ok
                              /\ Firsts(t, v) => Equal(u, Fresh(u, j[2][x]).out, v.own[x])
      OBVIOUS
    <2> QED
      BY <1>1, <1>3, OwnReturns
  <1>6. \A i \in DOMAIN s.bases :
            Fresh(R(i), j).ok /\ (Firsts(t, v) => Equal(R(i), Fresh(R(i), j).out, v.bases[i]))
    <2> SUFFICES ASSUME NEW i \in DOMAIN s.bases, NEW u, u = R(i), NEW w, w = v.bases[i]
                 PROVE  Fresh(u, j).ok /\ (Firsts(t, v) => Equal(u, Fresh(u, j).out, w))
      OBVIOUS
    <2> QED
      BY <1>1, <1>3, BaseReturns
  <1>7. DOMAIN v.own \subseteq Names(s) /\ Required(s) \subseteq DOMAIN v.own
    BY SoundStruct
  <1>8. /\ Fresh(t, j).ok
        /\ DOMAIN out.own = Names(s) \cap DOMAIN j[2]
        /\ \A x \in DOMAIN out.own : out.own[x] = Fresh(T(x), j[2][x]).out
        /\ \A i \in DOMAIN s.bases : out.bases[i] = Fresh(R(i), j).out
    <2> DEFINE r == Fresh(t, j)
    <2>1. r = Fresh(t, j) /\ out = r.out /\ s = t[2]
      OBVIOUS
    <2> HIDE DEF r, out, s, e
    <2>2. Opened(s, j, r)
      BY <1>1, <2>1, FreshStruct
    <2>3. r.ok
      BY <1>3, <1>4, <1>5, <1>6, <1>7, <2>2 DEF Opened
    <2> QED
      BY <2>1, <2>2, <2>3 DEF Opened
  <1> HIDE DEF out, e
  <1>9. DOMAIN out.own = DOMAIN v.own
    BY <1>5, <1>7, <1>8
  <1>10. ASSUME Firsts(t, v)
         PROVE  Equal(t, out, v)
    <2>1. \A x \in DOMAIN out.own : Equal(T(x), out.own[x], v.own[x])
      BY <1>5, <1>7, <1>8, <1>9, <1>10
    <2>2. \A i \in DOMAIN s.bases : Equal(R(i), out.bases[i], v.bases[i])
      BY <1>6, <1>8, <1>10
    <2> QED
      BY <1>9, <2>1, <2>2, EqualIs
  <1> QED
    BY <1>8, <1>10 DEF Returned, out

LEMMA Return ==
    ASSUME Overloads
    PROVE  \A n \in Nat : \A t \in AllTypes : Returns(n, t)
  <1> DEFINE Wrong(n, r) == \E t \in AllTypes : Rank(t) = r /\ ~Returns(n, t)
             Bad == {p \in Nat \X Nat : Wrong(p[1], p[2])}
  <1>1. ASSUME Bad # {}
        PROVE  FALSE
    <2>1. Bad \in SUBSET (Nat \X Nat)
      OBVIOUS
    <2>2. PICK m \in Bad : \A k \in Bad : m[1] <= k[1] /\ (m[1] = k[1] => m[2] <= k[2])
      BY <1>1, <2>1, LeastPair
    <2> DEFINE n == m[1]
    <2>3. n \in Nat
      BY <2>2
    <2>4. PICK t \in AllTypes : Rank(t) = m[2] /\ ~Returns(n, t)
      BY <2>2
    <2>5. ASSUME NEW a \in Nat, NEW u \in AllTypes, a < n \/ (a = n /\ Rank(u) < Rank(t))
          PROVE  Returns(a, u)
      <3>1. SUFFICES ASSUME ~Returns(a, u)
                     PROVE  FALSE
        OBVIOUS
      <3>2. Rank(u) \in Nat /\ Rank(t) \in Nat
        BY RankAssumption
      <3> DEFINE q == <<a, Rank(u)>>
      <3>3. q \in Bad /\ q[1] = a /\ q[2] = Rank(u)
        BY <3>1, <3>2
      <3> HIDE DEF q, Bad
      <3>4. n <= a /\ (n = a => Rank(t) <= Rank(u))
        BY <2>2, <2>4, <3>3
      <3> QED
        BY <2>3, <2>5, <3>2, <3>4
    <2> HIDE DEF n, Bad
    <2>6. \A a \in Nat : a < n => \A u \in AllTypes : Returns(a, u)
      BY <2>5
    <2>7. \A u \in AllTypes : Rank(u) < Rank(t) => Returns(n, u)
      BY <2>3, <2>5
    <2>8. CASE t[1] \in {"null", "boolean", "integer", "uinteger", "decimal", "string"}
      BY <2>4, <2>8, PrimitiveReturn
    <2>9. CASE t[1] \in {"vector", "map"}
      <3>1. t[2] \in AllTypes
        BY <2>9, TypeIs
      <3> QED
        BY <2>3, <2>4, <2>6, <2>9, <3>1, VectorReturn, MapReturn
    <2>10. CASE t[1] = "tuple"
      BY <2>3, <2>4, <2>6, <2>10, TupleReturn
    <2>11. CASE t[1] = "oneof"
      BY <2>3, <2>4, <2>7, <2>11, OneOfReturn
    <2>12. CASE t[1] = "enum"
      BY <2>4, <2>12, EnumReturn
    <2>13. CASE t[1] = "struct"
      BY <2>3, <2>4, <2>6, <2>7, <2>13, StructReturn
    <2>14. CASE t[1] = "ref"
      BY <2>3, <2>4, <2>7, <2>14, RefReturn
    <2> QED
      BY <2>8, <2>9, <2>10, <2>11, <2>12, <2>13, <2>14, TypeIs
  <1>2. ASSUME NEW n \in Nat, NEW t \in AllTypes, ~Returns(n, t)
        PROVE  FALSE
    <2>1. Rank(t) \in Nat
      BY RankAssumption
    <2>2. <<n, Rank(t)>> \in Bad
      BY <1>2, <2>1
    <2> QED
      BY <1>1, <2>2
  <1> QED
    BY <1>2

(* What was sent is what is decoded, but for the two exceptions. *)
THEOREM MessagesReturn == ASSUME Overloads PROVE Spec => []RoundTrip
  <1>1. Life => RoundTrip
    <2> DEFINE v == value[1]
               e == Encode(type, v)
               n == MaxNesting
               k == n + 1
    <2> SUFFICES ASSUME Life, FreshlyDecoded, value # <<>>, KindsAgree(type, v), FirstFits(type, v)
                 PROVE  result.ok /\ Equal(type, result.out, v)
      BY DEF RoundTrip
    <2>1. Arrived(type, value, json) /\ result = Fresh(type, json)
      BY DEF Life, FreshlyDecoded, Fresh
    <2>2. Sent(type, value) /\ e # Aborted /\ json = Reparsed(e)
      BY <2>1 DEF Arrived
    <2>3. k \in Nat
      BY NestingAssumption
    <2>4. /\ type \in AllTypes /\ Sound(type, v) /\ Nested(type, v)
          /\ e # Aborted => GoodJson(k, e)
      <3> HIDE DEF n
      <3>1. /\ type \in AllTypes /\ Sound(type, value[1]) /\ Nested(type, value[1])
            /\ EncodesGood(n, type, value[1])
            /\ Encode(type, value[1]) # Aborted => GoodJson(n + 1, Encode(type, value[1]))
        BY <2>2, SentGood DEF n
      <3> QED
        BY <3>1
    <2> HIDE DEF k, v
    <2>5. Kinds(type, v) /\ Firsts(type, v)
      BY <2>4, PartsSay
    <2>6. Returns(k, type)
      BY <2>3, <2>4, Return
    <2>7. Returned(type, v, Reparsed(e))
      BY <2>2, <2>3, <2>4, <2>5, <2>6, PartReturns
    <2> QED
      BY <2>1, <2>2, <2>5, <2>7 DEF Returned
  <1> QED
    BY <1>1, MessagesLive, PTL

-----------------------------------------------------------------------------
(* What is decoded into a fresh object says the kinds of its structures.   *)

Agrees(n, t) == \A j : GoodJson(n, j) /\ Fresh(t, j).ok => Kinds(t, Fresh(t, j).out)

(* A part of what was decoded, from what it was decoded *)
LEMMA PartAgrees ==
    ASSUME NEW n \in Nat, NEW u, Agrees(n, u), NEW j, GoodJson(n, j), Fresh(u, j).ok,
           NEW w, w = Fresh(u, j).out, NEW p, p = <<u, w>>
    PROVE  Kinds(p[1], p[2])
  BY DEF Agrees

LEMMA PlainAgrees ==
    ASSUME NEW t, NEW n,
           t[1] \in {"null", "boolean", "integer", "uinteger", "decimal", "string", "enum"}
    PROVE  Agrees(n, t)
  <1> SUFFICES ASSUME NEW v
               PROVE  Kinds(t, v)
    BY DEF Agrees
  <1>1. Inside(t, v) = {}
    BY InsideIs
  <1>2. KindSays(t, v)
    BY DEF KindSays
  <1> QED
    BY <1>1, <1>2, KindsIs

LEMMA VectorAgrees ==
    ASSUME Overloads, NEW t \in AllTypes, t[1] = "vector", NEW n \in Nat,
           \A m \in Nat : m < n => Agrees(m, t[2])
    PROVE  Agrees(n, t)
  <1> SUFFICES ASSUME NEW j, GoodJson(n, j), Fresh(t, j).ok
               PROVE  Kinds(t, Fresh(t, j).out)
    BY DEF Agrees
  <1> DEFINE u == t[2]
             N == Count(j)
             r == Fresh(t, j)
             v == r.out
  <1>1. n # 0 /\ IsJson(j) /\ r.ok /\ r = Fresh(t, j) /\ N = Count(j) /\ u = t[2]
    BY GoodJsonIs
  <1> HIDE DEF r, N, u
  <1>2. /\ r.ok <=> Kind(j) = "array" /\ \A i \in 1..N : Fresh(u, j[2][i]).ok
        /\ r.ok => /\ Len(r.out) = N /\ DOMAIN r.out = 1..N
                   /\ \A i \in 1..N : r.out[i] = Fresh(u, j[2][i]).out
    BY <1>1, FreshVector
  <1>3. Kind(j) = "array" /\ Container(j) /\ DOMAIN j[2] = 1..N
    BY <1>1, <1>2, JsonIs
  <1>4. \A i \in 1..N : GoodJson(n - 1, j[2][i])
    BY <1>3, GoodJsonIs
  <1>5. n - 1 \in Nat /\ Agrees(n - 1, u)
    BY <1>1
  <1>6. \A p \in Inside(t, v) : Kinds(p[1], p[2])
    <2> SUFFICES ASSUME NEW p \in Inside(t, v)
                 PROVE  Kinds(p[1], p[2])
      OBVIOUS
    <2>1. PICK i \in DOMAIN v : p = <<u, v[i]>>
      BY <1>1, InsideVector
    <2>2. i \in 1..N /\ v[i] = Fresh(u, j[2][i]).out /\ Fresh(u, j[2][i]).ok
      BY <1>1, <1>2, <2>1
    <2> HIDE DEF v
    <2> QED
      BY <1>4, <1>5, <2>1, <2>2, PartAgrees
  <1>7. KindSays(t, v)
    BY DEF KindSays
  <1> QED
    BY <1>1, <1>6, <1>7, KindsIs

LEMMA MapAgrees ==
    ASSUME Overloads, NEW t \in AllTypes, t[1] = "map", NEW n \in Nat,
           \A m \in Nat : m < n => Agrees(m, t[2])
    PROVE  Agrees(n, t)
  <1> SUFFICES ASSUME NEW j, GoodJson(n, j), Fresh(t, j).ok
               PROVE  Kinds(t, Fresh(t, j).out)
    BY DEF Agrees
  <1> DEFINE u == t[2]
             r == Fresh(t, j)
             v == r.out
  <1>1. n # 0 /\ IsJson(j) /\ r.ok /\ r = Fresh(t, j) /\ u = t[2]
    BY GoodJsonIs
  <1> HIDE DEF r, u
  <1>2. /\ r.ok <=> Kind(j) = "object" /\ \A x \in DOMAIN j[2] : Fresh(u, j[2][x]).ok
        /\ r.ok => /\ DOMAIN r.out = DOMAIN j[2]
                   /\ \A x \in DOMAIN j[2] : r.out[x] = Fresh(u, j[2][x]).out
    BY <1>1, FreshMap
  <1>3. Kind(j) = "object" /\ Container(j)
    BY <1>1, <1>2, JsonIs
  <1>4. \A x \in DOMAIN j[2] : GoodJson(n - 1, j[2][x])
    BY <1>3, GoodJsonIs
  <1>5. n - 1 \in Nat /\ Agrees(n - 1, u)
    BY <1>1
  <1>6. \A p \in Inside(t, v) : Kinds(p[1], p[2])
    <2> SUFFICES ASSUME NEW p \in Inside(t, v)
                 PROVE  Kinds(p[1], p[2])
      OBVIOUS
    <2>1. PICK i \in DOMAIN v : p = <<u, v[i]>>
      BY <1>1, InsideVector
    <2>2. i \in DOMAIN j[2] /\ v[i] = Fresh(u, j[2][i]).out /\ Fresh(u, j[2][i]).ok
      BY <1>1, <1>2, <2>1
    <2> HIDE DEF v
    <2> QED
      BY <1>4, <1>5, <2>1, <2>2, PartAgrees
  <1>7. KindSays(t, v)
    BY DEF KindSays
  <1> QED
    BY <1>1, <1>6, <1>7, KindsIs

LEMMA TupleAgrees ==
    ASSUME Overloads, NEW t \in AllTypes, t[1] = "tuple", NEW n \in Nat,
           \A m \in Nat : m < n => \A u \in AllTypes : Agrees(m, u)
    PROVE  Agrees(n, t)
  <1> SUFFICES ASSUME NEW j, GoodJson(n, j), Fresh(t, j).ok
               PROVE  Kinds(t, Fresh(t, j).out)
    BY DEF Agrees
  <1> DEFINE ts == t[2]
             N == Len(ts)
             r == Fresh(t, j)
             v == r.out
  <1>1. n # 0 /\ IsJson(j) /\ r.ok /\ r = Fresh(t, j) /\ ts = t[2] /\ N = Len(ts)
    BY GoodJsonIs
  <1> HIDE DEF r, ts, N
  <1>2. /\ r.ok <=> /\ Kind(j) = "array" /\ Count(j) = N
                    /\ \A i \in 1..N : Fresh(ts[i], j[2][i]).ok
        /\ r.ok => /\ DOMAIN r.out = 1..N
                   /\ \A i \in 1..N : r.out[i] = Fresh(ts[i], j[2][i]).out
    BY <1>1, FreshTuple
  <1>3. Kind(j) = "array" /\ Container(j) /\ DOMAIN j[2] = 1..N
    BY <1>1, <1>2, JsonIs
  <1>4. \A i \in 1..N : GoodJson(n - 1, j[2][i])
    BY <1>3, GoodJsonIs
  <1>5. n - 1 \in Nat /\ \A u \in AllTypes : Agrees(n - 1, u)
    BY <1>1
  <1>6. \A p \in Inside(t, v) : Kinds(p[1], p[2])
    <2> SUFFICES ASSUME NEW p \in Inside(t, v)
                 PROVE  Kinds(p[1], p[2])
      OBVIOUS
    <2>1. PICK i \in DOMAIN ts \cap DOMAIN v : p = <<ts[i], v[i]>>
      BY <1>1, InsideTuple
    <2>2. i \in 1..N /\ v[i] = Fresh(ts[i], j[2][i]).out /\ Fresh(ts[i], j[2][i]).ok
      BY <1>1, <1>2, <2>1
    <2>3. ts[i] \in AllTypes
      BY <1>1, <2>1, TypeIs
    <2> HIDE DEF v
    <2> QED
      BY <1>4, <1>5, <2>1, <2>2, <2>3, PartAgrees
  <1>7. KindSays(t, v)
    BY DEF KindSays
  <1> QED
    BY <1>1, <1>6, <1>7, KindsIs

LEMMA OneOfAgrees ==
    ASSUME Overloads, NEW t \in AllTypes, t[1] = "oneof", NEW n \in Nat,
           \A u \in AllTypes : Rank(u) < Rank(t) => Agrees(n, u)
    PROVE  Agrees(n, t)
  <1> SUFFICES ASSUME NEW j, GoodJson(n, j), Fresh(t, j).ok
               PROVE  Kinds(t, Fresh(t, j).out)
    BY DEF Agrees
  <1> DEFINE ts == t[2]
             N == Len(ts)
             o == Default(t)
             attempts == [i \in 1..N |-> Decode(ts[i], j, Default(ts[i]))]
  <1>1. N \in Nat /\ DOMAIN ts = 1..N
    BY TypeIs, SequenceIs
  <1>2. Fresh(t, j) = FirstOf(attempts, o)
    BY DecodeIs DEF DecodeOneOf, Fresh
  <1>3. DOMAIN attempts = 1..N /\ \A i \in 1..N : attempts[i] = Fresh(ts[i], j)
    BY DEF Fresh
  <1> HIDE DEF attempts, N, o
  <1>4. \/ /\ \A i \in 1..N : ~attempts[i].ok
           /\ FirstOf(attempts, o) = Refused(o)
        \/ \E i \in 1..N : /\ attempts[i].ok /\ \A m \in 1..(i - 1) : ~attempts[m].ok
                           /\ FirstOf(attempts, o) = Decoded(<<i, attempts[i].out>>)
    BY <1>1, <1>3, FirstOfIs
  <1>5. PICK i \in 1..N : Fresh(ts[i], j).ok /\ Fresh(t, j) = Decoded(<<i, Fresh(ts[i], j).out>>)
    <2>1. FirstOf(attempts, o) # Refused(o)
      BY <1>2, OutIs
    <2>2. PICK i \in 1..N : attempts[i].ok /\ FirstOf(attempts, o) = Decoded(<<i, attempts[i].out>>)
      BY <1>4, <2>1
    <2>3. attempts[i] = Fresh(ts[i], j)
      BY <1>3
    <2> QED
      BY <1>2, <2>2, <2>3
  <1> DEFINE u == ts[i]
             w == Fresh(u, j).out
             v == <<i, w>>
  <1>6. Fresh(t, j).out = v /\ v # <<>> /\ v[1] = i /\ v[2] = w
    BY <1>5, OutIs
  <1>7. u \in AllTypes /\ Agrees(n, u)
    BY <1>1, <1>5, TypeIs
  <1>8. KindSays(t, v)
    BY DEF KindSays
  <1> HIDE DEF v, w
  <1>9. \A p \in Inside(t, v) : Kinds(p[1], p[2])
    <2> SUFFICES ASSUME NEW p \in Inside(t, v)
                 PROVE  Kinds(p[1], p[2])
      OBVIOUS
    <2>1. p = <<u, w>>
      BY <1>6, InsideOneOf
    <2> QED
      BY <1>5, <1>7, <2>1, PartAgrees DEF w
  <1> QED
    BY <1>6, <1>8, <1>9, KindsIs

LEMMA RefAgrees ==
    ASSUME Overloads, NEW t \in AllTypes, t[1] = "ref", NEW n \in Nat,
           \A u \in AllTypes : Rank(u) < Rank(t) => Agrees(n, u)
    PROVE  Agrees(n, t)
  <1> SUFFICES ASSUME NEW j, GoodJson(n, j), Fresh(t, j).ok
               PROVE  Kinds(t, Fresh(t, j).out)
    BY DEF Agrees
  <1> DEFINE u == Resolve(t[2])
             v == Fresh(u, j).out
  <1>1. Fresh(t, j) = Fresh(u, j)
    <2>1. Default(t) = Default(u)
      BY FormIs DEF Initial
    <2> QED
      BY <2>1, DecodeIs DEF Fresh
  <1>2. u \in AllTypes /\ Agrees(n, u)
    BY TypeIs
  <1>3. KindSays(t, v)
    BY DEF KindSays
  <1>4. \A p \in Inside(t, v) : p = <<u, v>>
    BY InsideRef
  <1> HIDE DEF u, v
  <1>5. \A p \in Inside(t, v) : Kinds(p[1], p[2])
    <2> SUFFICES ASSUME NEW p \in Inside(t, v)
                 PROVE  Kinds(p[1], p[2])
      OBVIOUS
    <2> QED
      BY <1>1, <1>2, <1>4, PartAgrees DEF v
  <1> QED
    BY <1>1, <1>3, <1>5, KindsIs DEF v

LEMMA FreshOwn ==
    ASSUME Overloads, NEW t \in AllTypes, t[1] = "struct", NEW j, IsJson(j), Fresh(t, j).ok
    PROVE  LET own == Fresh(t, j).out.own
           IN  /\ DOMAIN own = Names(t[2]) \cap DOMAIN j[2]
               /\ \A x \in DOMAIN own : own[x] = Fresh(Property(t[2], x).type, j[2][x]).out
  <1> DEFINE r == Fresh(t, j)
             s == t[2]
  <1>1. r.ok /\ r = Fresh(t, j) /\ s = t[2]
    OBVIOUS
  <1> HIDE DEF r, s
  <1>2. Opened(s, j, r)
    BY <1>1, FreshStruct
  <1> QED
    BY <1>1, <1>2 DEF Opened

(* The first base has read the "kind" that the structure has matched. *)
LEMMA KindAgrees ==
    ASSUME Overloads, NEW t \in AllTypes, t[1] = "struct", NEW s, s = t[2], NEW j, IsJson(j),
           Kind(j) = "object", MatchKind(j, s.kind),
           NEW v, \A i \in DOMAIN s.bases : /\ Fresh(Ref(s.bases[i]), j).ok
                                            /\ v.bases[i] = Fresh(Ref(s.bases[i]), j).out
    PROVE  KindSays(t, v)
  <1> SUFFICES ASSUME s.kind # NoKind, InheritsKind(s)
               PROVE  v.bases[1].own["kind"] = s.kind
    BY DEF KindSays
  <1> DEFINE k == "kind"
             x == JString(s.kind)
             u == Resolve(s.bases[1])
             b == u[2]
             R == Ref(s.bases[1])
             T == Property(b, k).type
  <1>1. k \in Inherited(s)
    <2>1. PICK i \in DOMAIN s.bases : \E m \in DOMAIN Resolve(s.bases[i])[2].props :
              Resolve(s.bases[i])[2].props[m].name = k
      BY DEF InheritsKind
    <2> DEFINE q == Resolve(s.bases[i])
    <2>2. k \in Names(q[2])
      BY <2>1 DEF Names
    <2>3. q \in AllTypes /\ q[1] = "struct" /\ BaseNames(s, i) = AllNames(q[2])
      BY BaseIs
    <2>4. k \in BaseNames(s, i)
      BY <2>2, <2>3, NamesAreApart
    <2> QED
      BY <2>4, NamesAreApart
  <1>2. 1 \in DOMAIN s.bases /\ k \in Required(b) /\ T = String
    BY <1>1, NamesAreApart
  <1>3. u \in AllTypes /\ u[1] = "struct"
    BY <1>2, BaseIs
  <1>4. k \in Names(b) /\ T \in AllTypes
    BY <1>2, <1>3, NamesAre
  <1>5. Fresh(R, j).ok /\ v.bases[1] = Fresh(R, j).out
    BY <1>2
  <1>6. Fresh(R, j) = Fresh(u, j)
    <2>1. R \in AllTypes /\ R[1] = "ref" /\ Resolve(R[2]) = u
      BY <1>2, BasesAre DEF Ref
    <2> HIDE DEF R, u
    <2>2. Default(R) = Default(u)
      BY <2>1, FormIs DEF Initial
    <2> QED
      BY <2>1, <2>2, DecodeIs DEF Fresh
  <1>7. k \in DOMAIN j[2] /\ j[2][k] = x
    <2>1. Member(j, k) = Ok(x)
      BY DEF MatchKind
    <2>2. IsOk(Member(j, k)) /\ Get(Member(j, k)) = x
      BY <2>1, OkIs
    <2>3. k \in DOMAIN j[2]
      BY <2>2, OkIs, JsonIs DEF Member
    <2>4. Member(j, k) = Ok(j[2][k])
      BY <2>3, JsonIs
    <2> QED
      BY <2>2, <2>3, <2>4, OkIs
  <1>8. Fresh(T, x) = Decoded(s.kind)
    <2>1. T[1] = "string"
      BY <1>2 DEF String
    <2>2. Kind(x) = "string" /\ x[2] = s.kind
      BY DEF JString, Kind
    <2> HIDE DEF T, x
    <2>3. GetString(x) = Ok(s.kind)
      BY <2>2 DEF GetString
    <2>4. Fresh(T, x) = FromResult(GetString(x), Default(T))
      BY <1>4, <2>1, DecodeIs DEF Fresh
    <2> QED
      BY <2>3, <2>4, OkIs DEF FromResult
  <1> DEFINE r == Fresh(u, j)
  <1>9. r = Fresh(u, j) /\ b = u[2] /\ T = Property(b, k).type
    OBVIOUS
  <1> HIDE DEF r, u, b, T, x, k
  <1>10. r.ok =>
             /\ DOMAIN r.out.own = Names(b) \cap DOMAIN j[2]
             /\ \A y \in DOMAIN r.out.own : r.out.own[y] = Fresh(Property(b, y).type, j[2][y]).out
    BY <1>3, <1>9, FreshOwn
  <1>11. r.out.own[k] = s.kind
    BY <1>4, <1>5, <1>6, <1>7, <1>8, <1>9, <1>10, OutIs
  <1> QED
    BY <1>5, <1>6, <1>9, <1>11 DEF k

LEMMA StructAgrees ==
    ASSUME Overloads, NEW t \in AllTypes, t[1] = "struct", NEW n \in Nat,
           \A m \in Nat : m < n => \A u \in AllTypes : Agrees(m, u),
           \A u \in AllTypes : Rank(u) < Rank(t) => Agrees(n, u)
    PROVE  Agrees(n, t)
  <1> SUFFICES ASSUME NEW j, GoodJson(n, j), Fresh(t, j).ok
               PROVE  Kinds(t, Fresh(t, j).out)
    BY DEF Agrees
  <1> DEFINE s == t[2]
             r == Fresh(t, j)
             v == r.out
             T(x) == Property(s, x).type
             R(i) == Ref(s.bases[i])
  <1>1. n # 0 /\ IsJson(j) /\ r.ok /\ r = Fresh(t, j) /\ s = t[2]
    BY GoodJsonIs
  <1> HIDE DEF r, s
  <1>2. Opened(s, j, r)
    BY <1>1, FreshStruct
  <1>3. /\ Kind(j) = "object" /\ MatchKind(j, s.kind)
        /\ \A x \in Names(s) : IF x \in DOMAIN j[2]
                               THEN Fresh(Property(s, x).type, j[2][x]).ok
                               ELSE x \notin Required(s)
        /\ \A i \in DOMAIN s.bases : /\ Fresh(Ref(s.bases[i]), j).ok
                                     /\ v.bases[i] = Fresh(Ref(s.bases[i]), j).out
        /\ DOMAIN v.own = Names(s) \cap DOMAIN j[2]
        /\ \A x \in DOMAIN v.own : v.own[x] = Fresh(Property(s, x).type, j[2][x]).out
    BY <1>1, <1>2 DEF Opened
  <1>4. Container(j)
    BY <1>1, <1>3, JsonIs
  <1>8. \A x \in DOMAIN j[2] : GoodJson(n - 1, j[2][x])
    BY <1>4, GoodJsonIs
  <1>5. n - 1 \in Nat /\ \A u \in AllTypes : Agrees(n - 1, u)
    BY <1>1
  <1>6. KindSays(t, v)
    <2>1. \A i \in DOMAIN s.bases : /\ Fresh(Ref(s.bases[i]), j).ok
                                    /\ v.bases[i] = Fresh(Ref(s.bases[i]), j).out
      BY <1>3
    <2> HIDE DEF v
    <2> QED
      BY <1>1, <1>3, <2>1, KindAgrees
  <1>7. \A p \in Inside(t, v) : Kinds(p[1], p[2])
    <2> SUFFICES ASSUME NEW p \in Inside(t, v)
                 PROVE  Kinds(p[1], p[2])
      OBVIOUS
    <2>1. \/ \E x \in Names(s) \cap DOMAIN v.own : p = <<T(x), v.own[x]>>
          \/ \E i \in DOMAIN s.bases : p = <<R(i), v.bases[i]>>
      BY <1>1, InsideStruct
    <2>2. CASE \E x \in Names(s) \cap DOMAIN v.own : p = <<T(x), v.own[x]>>
      <3>1. PICK x \in Names(s) \cap DOMAIN v.own : p = <<T(x), v.own[x]>>
        BY <2>2
      <3>2. x \in DOMAIN j[2] /\ v.own[x] = Fresh(T(x), j[2][x]).out /\ Fresh(T(x), j[2][x]).ok
        BY <1>3, <3>1
      <3>3. T(x) \in AllTypes
        BY <1>1, <3>1, NamesAre
      <3> HIDE DEF v, T
      <3> QED
        BY <1>5, <1>8, <3>1, <3>2, <3>3, PartAgrees
    <2>3. CASE \E i \in DOMAIN s.bases : p = <<R(i), v.bases[i]>>
      <3>1. PICK i \in DOMAIN s.bases : p = <<R(i), v.bases[i]>>
        BY <2>3
      <3>2. v.bases[i] = Fresh(R(i), j).out /\ Fresh(R(i), j).ok
        BY <1>3
      <3>3. Agrees(n, R(i))
        BY <1>1, BasesAre
      <3> HIDE DEF v, R
      <3> QED
        BY <3>1, <3>2, <3>3, PartAgrees
    <2> QED
      BY <2>1, <2>2, <2>3
  <1> QED
    BY <1>1, <1>6, <1>7, KindsIs

LEMMA Agree ==
    ASSUME Overloads
    PROVE  \A n \in Nat : \A t \in AllTypes : Agrees(n, t)
  <1> DEFINE Wrong(n, r) == \E t \in AllTypes : Rank(t) = r /\ ~Agrees(n, t)
             Bad == {p \in Nat \X Nat : Wrong(p[1], p[2])}
  <1>1. ASSUME Bad # {}
        PROVE  FALSE
    <2>1. Bad \in SUBSET (Nat \X Nat)
      OBVIOUS
    <2>2. PICK m \in Bad : \A k \in Bad : m[1] <= k[1] /\ (m[1] = k[1] => m[2] <= k[2])
      BY <1>1, <2>1, LeastPair
    <2> DEFINE n == m[1]
    <2>3. n \in Nat
      BY <2>2
    <2>4. PICK t \in AllTypes : Rank(t) = m[2] /\ ~Agrees(n, t)
      BY <2>2
    <2>5. ASSUME NEW a \in Nat, NEW u \in AllTypes, a < n \/ (a = n /\ Rank(u) < Rank(t))
          PROVE  Agrees(a, u)
      <3>1. SUFFICES ASSUME ~Agrees(a, u)
                     PROVE  FALSE
        OBVIOUS
      <3>2. Rank(u) \in Nat /\ Rank(t) \in Nat
        BY RankAssumption
      <3> DEFINE q == <<a, Rank(u)>>
      <3>3. q \in Bad /\ q[1] = a /\ q[2] = Rank(u)
        BY <3>1, <3>2
      <3> HIDE DEF q, Bad
      <3>4. n <= a /\ (n = a => Rank(t) <= Rank(u))
        BY <2>2, <2>4, <3>3
      <3> QED
        BY <2>3, <2>5, <3>2, <3>4
    <2> HIDE DEF n, Bad
    <2>6. \A a \in Nat : a < n => \A u \in AllTypes : Agrees(a, u)
      BY <2>5
    <2>7. \A u \in AllTypes : Rank(u) < Rank(t) => Agrees(n, u)
      BY <2>3, <2>5
    <2>8. CASE t[1] \in {"null", "boolean", "integer", "uinteger", "decimal", "string", "enum"}
      BY <2>4, <2>8, PlainAgrees
    <2>9. CASE t[1] \in {"vector", "map"}
      <3>1. t[2] \in AllTypes
        BY <2>9, TypeIs
      <3> QED
        BY <2>3, <2>4, <2>6, <2>9, <3>1, VectorAgrees, MapAgrees
    <2>10. CASE t[1] = "tuple"
      BY <2>3, <2>4, <2>6, <2>10, TupleAgrees
    <2>11. CASE t[1] = "oneof"
      BY <2>3, <2>4, <2>7, <2>11, OneOfAgrees
    <2>12. CASE t[1] = "struct"
      BY <2>3, <2>4, <2>6, <2>7, <2>12, StructAgrees
    <2>13. CASE t[1] = "ref"
      BY <2>3, <2>4, <2>7, <2>13, RefAgrees
    <2> QED
      BY <2>8, <2>9, <2>10, <2>11, <2>12, <2>13, TypeIs
  <1>2. ASSUME NEW n \in Nat, NEW t \in AllTypes, ~Agrees(n, t)
        PROVE  FALSE
    <2>1. Rank(t) \in Nat
      BY RankAssumption
    <2>2. <<n, Rank(t)>> \in Bad
      BY <1>2, <2>1
    <2> QED
      BY <1>1, <2>2
  <1> QED
    BY <1>2

(* What was decoded into a fresh object is accepted again, and says        *)
(* nothing then that it did not say before.                                *)
THEOREM MessagesRelay == ASSUME Overloads PROVE Spec => []Relayable
  <1>1. Life => Relayable
    <2> DEFINE v == result.out
               e == Encode(type, v)
               j == Reparsed(e)
               n == MaxNesting + 1
    <2> SUFFICES ASSUME Life, FreshlyDecoded, result.ok
                 PROVE  Fresh(type, j).ok /\ Typed(Within(j, Nothing), Encode(type, Fresh(type, j).out))
      BY DEF Relayable, AcceptedAgain, Accepted, Fresh
    <2>1. Arrived(type, value, json) /\ result = Fresh(type, json)
      BY DEF Life, FreshlyDecoded, Fresh
    <2>2. type \in AllTypes /\ n \in Nat /\ GoodJson(n, json)
      BY <2>1, ArrivedGood
    <2> HIDE DEF n
    <2>3. DecodesOver(n, type) /\ DecodesSound(n, type) /\ Agrees(n, type) /\ Returns(n, type)
      BY <2>2, DecodeOver, DecodeSound, Agree, Return
    <2>4. Repeats(n, json, Nothing, Encode(type, Fresh(type, json).out))
      BY <2>1, <2>2, <2>3, FreshRepeats
    <2>5. GoodJson(n, e)
      BY <2>1, <2>4 DEF Repeats
    <2>6. Sound(type, v) /\ Kinds(type, v)
      <3>1. Sound(type, Default(type))
        BY <2>2, DefaultSound
      <3> QED
        BY <2>1, <2>2, <2>3, <3>1 DEF DecodesSound, Agrees, Fresh
    <2> HIDE DEF v
    <2>7. Returned(type, v, j)
      BY <2>2, <2>3, <2>5, <2>6, PartReturns
    <2>8. GoodJson(n, j) /\ Fresh(type, j).ok
      BY <2>2, <2>5, <2>7, RereadGood DEF Returned
    <2> HIDE DEF j
    <2>9. Repeats(n, j, Nothing, Encode(type, Fresh(type, j).out))
      BY <2>2, <2>3, <2>8, FreshRepeats
    <2>10. Sound(Within(j, Nothing), Encode(type, Fresh(type, j).out))
      BY <2>9 DEF Repeats, Fits
    <2> QED
      BY <2>8, <2>10, TypedIs
  <1> QED
    BY <1>1, MessagesLive, PTL

=============================================================================
