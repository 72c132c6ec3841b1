------------------------ MODULE ContentStream_proofs ------------------------
(***************************************************************************)
(* Proofs about ContentStream for any header, contents, other output,      *)
(* numbers of messages and widths of the length.                           *)
(***************************************************************************)
EXTENDS ContentStream, SequenceTheorems, WellFoundedInduction, NaturalsInduction, TLAPS

-----------------------------------------------------------------------------
(* The inductive invariant.  T stands for all bytes that were ever given   *)
(* to the stream, p for the number of those that ReadContent() has         *)
(* consumed, off[k] for the place in T where the k-th message ends.        *)

(* The messages that were written before other output. *)
Base == IF clean = -1 THEN Len(written) ELSE clean

(* The bytes on their way follow those that have arrived, up to the end. *)
Carries(T, p, st, pe, e) ==
    /\ p + Len(st) <= Len(T)
    /\ \A i \in 1..Len(st) : st[i] = T[p + i]
    /\ e => pe = <<>>
    /\ ~e => /\ Len(T) = p + Len(st) + Len(pe)
             /\ \A i \in 1..Len(pe) : pe[i] = T[p + Len(st) + i]

FrameAt(T, o, c) ==
    /\ o + Len(Framed(c)) <= Len(T)
    /\ \A i \in 1..Len(Framed(c)) : T[o + i] = Framed(c)[i]

Laid(T, off, n, W) ==
    /\ off[0] = 0
    /\ \A k \in 1..n : /\ off[k] = off[k - 1] + Len(Framed(W[k]))
                       /\ FrameAt(T, off[k - 1], W[k])

(* v[d] is what the first d digits of n amount to. *)
Reads(v, n) ==
    /\ v \in [0..Len(Decimal[n]) -> 0..n]
    /\ v[0] = 0 /\ v[Len(Decimal[n])] = n
    /\ \A d \in 1..Len(Decimal[n]) : v[d] = v[d - 1] * 10 + (Decimal[n][d] - 48)

LengthOf(n) == CHOOSE v : Reads(v, n)

(* Where ReadContent() is within the frame of c, which begins at o. *)
Within(where, p, l, o, c) ==
    LET h == Len(kContentLength)
        n == Len(c)
        d == Len(Decimal[n])
    IN  \/ where = "header" /\ p = o
        \/ /\ where = "length"
           /\ \E i \in 0..d : p = o + h + i /\ l = LengthOf(n)[i]
        \/ where = "newlines" /\ p = o + h + d + 1 /\ l = n
        \/ where = "content" /\ p = o + h + d + 4 /\ l = n

Running == pc \notin {"failed", "thrown"}

Position(T, p, off) ==
    Running =>
        /\ Len(got) < Base => Within(pc, p, len, off[Len(got)], written[Len(got) + 1])
        /\ Len(got) = Base /\ clean = -1 => pc = "header" /\ p = Len(T)

Kept ==
    /\ clean # -1 => clean <= Len(written)
    /\ clean = -1 => Len(got) <= Len(written)
    /\ \A k \in 1..Len(got) : k <= Base => got[k] = written[k]

Traced(T, p, off) ==
    /\ Carries(T, p, stream, pending, eof)
    /\ Laid(T, off, Base, written)
    /\ clean = -1 => off[Base] = Len(T)
    /\ Position(T, p, off)

ContentInv ==
    /\ ContentTypeOK /\ Kept /\ FailsAtEnd
    /\ \E T \in Seq(0..255), p \in Nat : \E off \in [0..Base -> Nat] : Traced(T, p, off)
-----------------------------------------------------------------------------
(* Decimal numbers.  Decimal is the only function that satisfies its       *)
(* recursive equation, once there is one at all.                           *)

LEMMA LeastNumber ==
    ASSUME NEW T \in SUBSET Nat, T # {}
    PROVE  \E m \in T : \A k \in T : ~(k < m)
  <1>1. IsWellFoundedOn(OpToRel(<, Nat), Nat)
    BY NatLessThanWellFounded, Zenon
  <1> DEFINE R == OpToRel(<, Nat)
  <1>2. \A y, x \in Nat : y < x => <<y, x>> \in R
    BY DEF OpToRel
  <1> HIDE DEF R
  <1>3. \E x \in T : \A y \in T : ~(<<y, x>> \in R)
    BY <1>1, WFMin, Zenon DEF R
  <1> QED
    BY <1>2, <1>3

LEMMA LastDigit ==
    \A n \in Nat : /\ n \div 10 \in Nat /\ n % 10 \in 0..9
                   /\ n = (n \div 10) * 10 + (n % 10)
                   /\ n >= 10 => n \div 10 < n
  OBVIOUS

(* f satisfies the equation up to m. *)
PrintsTo(m, f) ==
    f = [n \in 0..m |-> IF n < 10 THEN <<48 + n>> ELSE f[n \div 10] \o <<48 + (n % 10)>>]

LEMMA PrintsUnique ==
    ASSUME NEW m \in Nat, NEW k \in Nat, NEW f, NEW g, PrintsTo(m, f), PrintsTo(k, g)
    PROVE  \A n \in Nat : n <= m /\ n <= k => f[n] = g[n]
  <1> DEFINE T == {n \in Nat : n <= m /\ n <= k /\ f[n] # g[n]}
  <1>1. /\ \A n \in 0..m :
               f[n] = IF n < 10 THEN <<48 + n>> ELSE f[n \div 10] \o <<48 + (n % 10)>>
        /\ \A n \in 0..k :
               g[n] = IF n < 10 THEN <<48 + n>> ELSE g[n \div 10] \o <<48 + (n % 10)>>
    BY Zenon DEF PrintsTo
  <1>3. \A n \in Nat : n <= m /\ n <= k /\ n < 10 => f[n] = g[n]
    <2> SUFFICES ASSUME NEW n \in Nat, n <= m, n <= k, n < 10
                 PROVE  f[n] = g[n]
      OBVIOUS
    <2>1. n \in 0..m /\ n \in 0..k
      OBVIOUS
    <2>2. f[n] = <<48 + n>> /\ g[n] = <<48 + n>>
      BY <1>1, <2>1
    <2> QED
      BY <2>2
  <1>4. \A n \in Nat : n <= m /\ n <= k /\ ~(n < 10) /\ f[n \div 10] = g[n \div 10] => f[n] = g[n]
    <2> SUFFICES ASSUME NEW n \in Nat, n <= m, n <= k, ~(n < 10), f[n \div 10] = g[n \div 10]
                 PROVE  f[n] = g[n]
      OBVIOUS
    <2>1. n \in 0..m /\ n \in 0..k
      OBVIOUS
    <2> QED
      BY <1>1, <2>1, Zenon
  <1>2. ASSUME T # {}
        PROVE  FALSE
    <2>1. T \in SUBSET Nat
      OBVIOUS
    <2>2. PICK n \in T : \A l \in T : ~(l < n)
      BY <1>2, <2>1, LeastNumber, Zenon
    <2>3. n \in Nat /\ n <= m /\ n <= k /\ n \in 0..m /\ n \in 0..k /\ f[n] # g[n]
      OBVIOUS
    <2>4. n >= 10
      BY <1>3, <2>3
    <2>5. n \div 10 \in Nat /\ n \div 10 < n /\ n \div 10 <= m /\ n \div 10 <= k
      BY <2>3, <2>4, LastDigit
    <2>6. f[n \div 10] = g[n \div 10]
      BY <2>2, <2>5
    <2> QED
      BY <1>4, <2>3, <2>4, <2>6
  <1> QED
    BY <1>2

LEMMA PrintsExists ==
    \A m \in Nat : \E f : PrintsTo(m, f)
  <1> DEFINE T == {m \in Nat : ~ \E f : PrintsTo(m, f)}
  <1>1. ASSUME T # {}
        PROVE  FALSE
    <2>1. T \in SUBSET Nat
      OBVIOUS
    <2>2. PICK m \in T : \A l \in T : ~(l < m)
      BY <1>1, <2>1, LeastNumber, Zenon
    <2>3. CASE m = 0
      <3> DEFINE f == [n \in 0..0 |-> <<48 + n>>]
      <3>1. f = [n \in 0..0 |-> IF n < 10 THEN <<48 + n>> ELSE f[n \div 10] \o <<48 + (n % 10)>>]
        OBVIOUS
      <3> QED
        BY <2>3, <3>1 DEF PrintsTo
    <2>4. CASE m # 0
      <3>1. m - 1 \in Nat /\ m - 1 < m
        BY <2>4
      <3>2. PICK f : PrintsTo(m - 1, f)
        BY <2>2, <3>1
      <3> DEFINE g == [n \in 0..m |-> IF n < 10 THEN <<48 + n>>
                                      ELSE f[n \div 10] \o <<48 + (n % 10)>>]
      <3>3. \A n \in 0..(m - 1) :
               f[n] = IF n < 10 THEN <<48 + n>> ELSE f[n \div 10] \o <<48 + (n % 10)>>
        BY <3>2, Zenon DEF PrintsTo
      <3>4. \A n \in 0..(m - 1) : g[n] = f[n]
        <4>1. \A n \in 0..(m - 1) : n \in 0..m
          BY <3>1
        <4> QED
          BY <3>3, <4>1, Zenon
      <3>5. \A n \in 0..m : n >= 10 => n \div 10 \in 0..(m - 1)
        BY LastDigit
      <3>6. g = [n \in 0..m |-> IF n < 10 THEN <<48 + n>>
                                ELSE g[n \div 10] \o <<48 + (n % 10)>>]
        <4>1. \A n \in 0..m : ~(n < 10) => g[n \div 10] = f[n \div 10]
          <5> HIDE DEF g
          <5>1. \A n \in 0..m : ~(n < 10) => n \div 10 \in 0..(m - 1)
            BY <3>5
          <5> QED
            BY <3>4, <5>1, Zenon
        <4>2. \A n \in 0..m : (IF n < 10 THEN <<48 + n>> ELSE f[n \div 10] \o <<48 + (n % 10)>>)
                             = IF n < 10 THEN <<48 + n>> ELSE g[n \div 10] \o <<48 + (n % 10)>>
          BY <4>1, Zenon
        <4> QED
          BY <4>2, Zenon
      <3>7. PrintsTo(m, g)
        BY <3>6, Zenon DEF PrintsTo
      <3> QED
        BY <3>7
    <2> QED
      BY <2>3, <2>4
  <1> QED
    BY <1>1

LEMMA DecimalUnfolds ==
    \A n \in Nat :
        Decimal[n] = IF n < 10 THEN <<48 + n>> ELSE Decimal[n \div 10] \o <<48 + (n % 10)>>
  <1> DEFINE Part(n) == CHOOSE f : PrintsTo(n, f)
             F == [n \in Nat |-> Part(n)[n]]
  <1>1. \A n \in Nat : PrintsTo(n, Part(n))
    BY PrintsExists
  <1> HIDE DEF Part
  <1>2. ASSUME NEW n \in Nat
        PROVE  F[n] = IF n < 10 THEN <<48 + n>> ELSE F[n \div 10] \o <<48 + (n % 10)>>
    <2>1. Part(n)[n] = IF n < 10 THEN <<48 + n>>
                       ELSE Part(n)[n \div 10] \o <<48 + (n % 10)>>
      <3>1. \A l \in 0..n : Part(n)[l] = IF l < 10 THEN <<48 + l>>
                       ELSE Part(n)[l \div 10] \o <<48 + (l % 10)>>
        BY <1>1, Zenon DEF PrintsTo
      <3> QED
        BY <3>1
    <2>2. CASE n < 10
      BY <2>1, <2>2
    <2>3. CASE n >= 10
      <3>1. n \div 10 \in Nat /\ n \div 10 <= n /\ n \div 10 <= n \div 10
        BY <2>3, LastDigit
      <3>2. Part(n)[n \div 10] = Part(n \div 10)[n \div 10]
        <4>1. PICK q \in Nat : q = n \div 10 /\ q <= n /\ q <= q
          BY <3>1
        <4>2. PICK f : f = Part(n) /\ PrintsTo(n, f)
          BY <1>1
        <4>3. PICK g : g = Part(q) /\ PrintsTo(q, g)
          BY <1>1
        <4>4. PrintsTo(n, f) /\ PrintsTo(q, g)
          BY <4>2, <4>3
        <4>5. \A l \in Nat : l <= n /\ l <= q => f[l] = g[l]
          BY <4>4, PrintsUnique
        <4> QED
          BY <4>1, <4>2, <4>3, <4>5
      <3> QED
        BY <2>1, <2>3, <3>1, <3>2
    <2> QED
      BY <2>2, <2>3
  <1>3. F = [n \in Nat |-> IF n < 10 THEN <<48 + n>> ELSE F[n \div 10] \o <<48 + (n % 10)>>]
    <2>1. F = [n \in Nat |-> F[n]]
      OBVIOUS
    <2> HIDE DEF F
    <2> QED
      BY <1>2, <2>1
  <1> HIDE DEF F
  <1>4. Decimal = [n \in Nat |-> IF n < 10 THEN <<48 + n>>
                                 ELSE Decimal[n \div 10] \o <<48 + (n % 10)>>]
    BY <1>3, Zenon DEF Decimal
  <1> QED
    BY <1>4, Zenon

(* What is printed is digits, and reads as the number again. *)
Printed(n) ==
    /\ Decimal[n] \in Seq(Digits) /\ Len(Decimal[n]) >= 1
    /\ \E v : Reads(v, n)

LEMMA DecimalReads == \A n \in Nat : Printed(n)
  <1> DEFINE T == {m \in Nat : ~ Printed(m)}
  <1>1. ASSUME T # {}
        PROVE  FALSE
    <2>1. T \in SUBSET Nat
      OBVIOUS
    <2>2. PICK n \in T : \A l \in T : ~(l < n)
      BY <1>1, <2>1, LeastNumber, Zenon
    <2>3. n \in Nat /\ ~Printed(n) /\ \A l \in Nat : l < n => Printed(l)
      BY <2>2
    <2> HIDE DEF T
    <2>4. CASE n < 10
      <3>1. Decimal[n] = <<48 + n>>
        BY <2>3, <2>4, DecimalUnfolds
      <3>2. Decimal[n] \in Seq(Digits) /\ Len(Decimal[n]) = 1 /\ Decimal[n][1] = 48 + n
        BY <2>3, <2>4, <3>1 DEF Digits
      <3> DEFINE v == [d \in 0..1 |-> IF d = 0 THEN 0 ELSE n]
      <3>3. /\ v \in [0..1 -> 0..n] /\ v[0] = 0 /\ v[1] = n
            /\ v[1] = v[1 - 1] * 10 + ((48 + n) - 48)
        BY <2>3
      <3> HIDE DEF v
      <3>4. Reads(v, n)
        <4>1. \A d \in 1..1 : v[d] = v[d - 1] * 10 + (Decimal[n][d] - 48)
          <5> SUFFICES ASSUME NEW d \in 1..1 PROVE v[d] = v[d - 1] * 10 + (Decimal[n][d] - 48)
            OBVIOUS
          <5>1. d = 1 /\ Decimal[n][d] = 48 + n
            BY <3>2
          <5> QED
            BY <3>3, <5>1
        <4> QED
          BY <3>2, <3>3, <4>1 DEF Reads
      <3> QED
        BY <2>3, <3>2, <3>4 DEF Printed
    <2>5. CASE n >= 10
      <3>1. PICK q \in Nat : q = n \div 10 /\ q < n
        BY <2>3, <2>5, LastDigit
      <3>2. PICK r \in 0..9 : r = n % 10 /\ n = q * 10 + r
        BY <2>3, <3>1, LastDigit
      <3>3. Decimal[q] \in Seq(Digits) /\ Len(Decimal[q]) >= 1 /\ \E v : Reads(v, q)
        BY <2>3, <3>1 DEF Printed
      <3>4. PICK v : Reads(v, q)
        BY <3>3
      <3>5. PICK L \in Nat : L = Len(Decimal[q]) /\ L >= 1
        BY <3>3
      <3>6. 48 + r \in Digits
        BY DEF Digits
      <3>7. Decimal[n] = Decimal[q] \o <<48 + r>>
        <4>1. ~(n < 10)
          BY <2>3, <2>5
        <4> QED
          BY <2>3, <3>1, <3>2, <4>1, DecimalUnfolds, Zenon
      <3>8. /\ Decimal[n] \in Seq(Digits) /\ Len(Decimal[n]) = L + 1
            /\ \A d \in 1..L : Decimal[n][d] = Decimal[q][d]
            /\ Decimal[n][L + 1] = 48 + r
        BY <3>3, <3>5, <3>6, <3>7
      <3> DEFINE w == [d \in 0..(L + 1) |-> IF d <= L THEN v[d] ELSE n]
      <3>9. /\ v \in [0..L -> 0..q] /\ v[0] = 0 /\ v[L] = q
            /\ \A d \in 1..L : v[d] = v[d - 1] * 10 + (Decimal[q][d] - 48)
        BY <3>4, <3>5 DEF Reads
      <3>10. w \in [0..(L + 1) -> 0..n]
        BY <2>3, <3>1, <3>9
      <3>11. w[0] = 0 /\ w[L + 1] = n /\ w[L] = q /\ \A d \in 0..L : w[d] = v[d]
        BY <3>9
      <3> HIDE DEF w
      <3>12. ASSUME NEW d \in 1..(L + 1)
             PROVE  w[d] = w[d - 1] * 10 + (Decimal[n][d] - 48)
        <4>1. CASE d \in 1..L
          <5>1. d \in 0..L /\ d - 1 \in 0..L
            BY <4>1
          <5>2. w[d] = v[d] /\ w[d - 1] = v[d - 1] /\ Decimal[n][d] = Decimal[q][d]
            BY <3>8, <3>11, <4>1, <5>1
          <5> QED
            BY <3>9, <4>1, <5>2
        <4>2. CASE d = L + 1
          <5>1. w[d] = n /\ w[d - 1] = q /\ Decimal[n][d] = 48 + r
            BY <3>8, <3>11, <4>2
          <5> QED
            BY <3>2, <5>1
        <4> QED
          BY <4>1, <4>2
      <3>13. Reads(w, n)
        BY <3>8, <3>10, <3>11, <3>12 DEF Reads
      <3> QED
        BY <2>3, <3>8, <3>13, <3>5 DEF Printed
    <2> QED
      BY <2>3, <2>4, <2>5
  <1> QED
    BY <1>1
-----------------------------------------------------------------------------
(* What is where in a framed message. *)

Joined(S, r, a, b, x, c) ==
    /\ r \in Seq(S)
    /\ Len(r) = Len(a) + Len(b) + Len(x) + Len(c)
    /\ \A i \in 1..Len(a) : r[i] = a[i]
    /\ \A i \in 1..Len(b) : r[Len(a) + i] = b[i]
    /\ \A i \in 1..Len(x) : r[Len(a) + Len(b) + i] = x[i]
    /\ \A i \in 1..Len(c) : r[Len(a) + Len(b) + Len(x) + i] = c[i]

LEMMA FourParts ==
    ASSUME NEW S, NEW a \in Seq(S), NEW b \in Seq(S), NEW x \in Seq(S), NEW c \in Seq(S)
    PROVE  Joined(S, a \o b \o x \o c, a, b, x, c)
  <1>1. PICK ab \in Seq(S) : ab = a \o b
    <2>1. a \o b \in Seq(S)
      OBVIOUS
    <2> QED
      BY <2>1
  <1>2. /\ Len(ab) = Len(a) + Len(b)
        /\ \A i \in 1..Len(a) : ab[i] = a[i]
        /\ \A i \in 1..Len(b) : ab[Len(a) + i] = b[i]
    BY <1>1
  <1>3. PICK abx \in Seq(S) : abx = ab \o x
    <2>1. ab \o x \in Seq(S)
      OBVIOUS
    <2> QED
      BY <2>1
  <1>4. /\ Len(abx) = Len(ab) + Len(x)
        /\ \A i \in 1..Len(ab) : abx[i] = ab[i]
        /\ \A i \in 1..Len(x) : abx[Len(ab) + i] = x[i]
    BY <1>3
  <1>5. PICK r \in Seq(S) : r = abx \o c
    <2>1. abx \o c \in Seq(S)
      OBVIOUS
    <2> QED
      BY <2>1
  <1>6. /\ Len(r) = Len(abx) + Len(c)
        /\ \A i \in 1..Len(abx) : r[i] = abx[i]
        /\ \A i \in 1..Len(c) : r[Len(abx) + i] = c[i]
    BY <1>5
  <1>7. r = a \o b \o x \o c
    BY <1>1, <1>3, <1>5
  <1>8. /\ Len(a) \in Nat /\ Len(b) \in Nat /\ Len(x) \in Nat /\ Len(c) \in Nat
        /\ Len(r) = Len(a) + Len(b) + Len(x) + Len(c)
    BY <1>2, <1>4, <1>6
  <1>9. \A i \in 1..Len(a) : r[i] = a[i]
    BY <1>2, <1>4, <1>6, <1>8
  <1>10. \A i \in 1..Len(b) : r[Len(a) + i] = b[i]
    <2> SUFFICES ASSUME NEW i \in 1..Len(b) PROVE r[Len(a) + i] = b[i]
      OBVIOUS
    <2>1. Len(a) + i \in 1..Len(ab) /\ Len(a) + i \in 1..Len(abx)
      BY <1>2, <1>4, <1>8
    <2> QED
      BY <1>2, <1>4, <1>6, <2>1
  <1>11. \A i \in 1..Len(x) : r[Len(a) + Len(b) + i] = x[i]
    <2> SUFFICES ASSUME NEW i \in 1..Len(x) PROVE r[Len(a) + Len(b) + i] = x[i]
      OBVIOUS
    <2>1. Len(ab) + i \in 1..Len(abx) /\ Len(ab) + i = Len(a) + Len(b) + i
      BY <1>2, <1>4, <1>8
    <2> QED
      BY <1>4, <1>6, <2>1
  <1>12. \A i \in 1..Len(c) : r[Len(a) + Len(b) + Len(x) + i] = c[i]
    <2> SUFFICES ASSUME NEW i \in 1..Len(c) PROVE r[Len(a) + Len(b) + Len(x) + i] = c[i]
      OBVIOUS
    <2>1. Len(abx) + i = Len(a) + Len(b) + Len(x) + i
      BY <1>2, <1>4, <1>8
    <2> QED
      BY <1>6, <2>1
  <1> QED
    BY <1>7, <1>8, <1>9, <1>10, <1>11, <1>12 DEF Joined

(* The numbers in the layout of a frame: the header's length, that of the  *)
(* printed length, and the content's. *)
FrameLayout(c, h, d, n) ==
    /\ h \in Nat /\ h >= 1 /\ d \in Nat /\ d >= 1 /\ n \in Nat /\ n <= MaxSize
    /\ h = Len(kContentLength) /\ n = Len(c) /\ d = Len(Decimal[n])
    /\ c \in Seq(0..255) /\ kContentLength \in Seq(0..255)
    /\ Framed(c) \in Seq(0..255) /\ Len(Framed(c)) = h + d + 4 + n
    /\ \A i \in 1..h : Framed(c)[i] = kContentLength[i]
    /\ \A i \in 1..d : /\ Framed(c)[h + i] = Decimal[n][i]
                       /\ Framed(c)[h + i] \in Digits
    /\ Framed(c)[h + d + 1] = CR
    /\ Framed(c)[h + d + 2] = LF /\ Framed(c)[h + d + 3] = CR /\ Framed(c)[h + d + 4] = LF
    /\ \A i \in 1..n : Framed(c)[h + d + 4 + i] = c[i]

LEMMA SeqWidens ==
    \A S, T : S \subseteq T => \A s \in Seq(S) : s \in Seq(T)
  BY SeqMonotonic

LEMMA FrameIs ==
    ASSUME NEW c \in Contents
    PROVE  \E h, d, n \in Nat : FrameLayout(c, h, d, n)
  <1>1. /\ kContentLength \in Seq(0..255) /\ kContentLength # <<>>
        /\ c \in Seq(0..255) /\ Len(c) <= MaxSize
    BY ContentAssumption
  <1>2. PICK n \in Nat : n = Len(c)
    BY <1>1
  <1>3. PICK h \in Nat : h = Len(kContentLength) /\ h >= 1
    BY <1>1
  <1>4. /\ Decimal[n] \in Seq(Digits) /\ Len(Decimal[n]) >= 1
    BY DecimalReads DEF Printed
  <1>5. PICK d \in Nat : d = Len(Decimal[n]) /\ d >= 1
    BY <1>4
  <1>6. Decimal[n] \in Seq(0..255) /\ \A i \in 1..d : Decimal[n][i] \in Digits
    <2>1. Digits \subseteq 0..255
      BY DEF Digits
    <2>2. Decimal[n] \in Seq(0..255)
      <3> DEFINE D == Digits
                 B == 0..255
                 q == Decimal[n]
      <3>1. D \subseteq B /\ q \in Seq(D)
        BY <1>4, <2>1
      <3> HIDE DEF D, B, q
      <3>2. q \in Seq(B)
        BY <3>1, SeqWidens
      <3> QED
        BY <3>2 DEF B, q
    <2>3. \A i \in 1..d : Decimal[n][i] \in Digits
      BY <1>4, <1>5
    <2> QED
      BY <2>2, <2>3
  <1>7. PICK x \in Seq(0..255) : x = <<CR, LF, CR, LF>>
    <2>1. <<CR, LF, CR, LF>> \in Seq(0..255)
      BY DEF CR, LF
    <2> QED
      BY <2>1
  <1>8. Len(x) = 4 /\ x[1] = CR /\ x[2] = LF /\ x[3] = CR /\ x[4] = LF
    BY <1>7
  <1>9. Framed(c) = kContentLength \o Decimal[n] \o x \o c
    BY <1>2, <1>7 DEF Framed
  <1> DEFINE p == Decimal[n]
             k == kContentLength
             r == k \o p \o x \o c
  <1>10. p \in Seq(0..255) /\ k \in Seq(0..255) /\ c \in Seq(0..255)
    BY <1>1, <1>6
  <1> HIDE DEF p, k
  <1>11. /\ r \in Seq(0..255) /\ Len(r) = Len(k) + Len(p) + Len(x) + Len(c)
         /\ \A i \in 1..Len(k) : r[i] = k[i]
         /\ \A i \in 1..Len(p) : r[Len(k) + i] = p[i]
         /\ \A i \in 1..Len(x) : r[Len(k) + Len(p) + i] = x[i]
         /\ \A i \in 1..Len(c) : r[Len(k) + Len(p) + Len(x) + i] = c[i]
    <2>1. Joined(0..255, r, k, p, x, c)
      BY <1>10, FourParts
    <2> QED
      BY <2>1 DEF Joined
  <1> HIDE DEF r
  <1>12. Len(k) = h /\ Len(p) = d /\ Framed(c) = r
    BY <1>3, <1>5, <1>9 DEF p, k, r
  <1>13. /\ r[h + d + 1] = CR /\ r[h + d + 2] = LF /\ r[h + d + 3] = CR /\ r[h + d + 4] = LF
    <2>1. 1 \in 1..Len(x) /\ 2 \in 1..Len(x) /\ 3 \in 1..Len(x) /\ 4 \in 1..Len(x)
      BY <1>8
    <2> QED
      BY <1>8, <1>11, <1>12, <2>1, Zenon
  <1>14. \A i \in 1..n : r[h + d + 4 + i] = c[i]
    BY <1>2, <1>8, <1>11, <1>12
  <1>15. Len(r) = h + d + 4 + n
    BY <1>2, <1>8, <1>11, <1>12
  <1>16. /\ \A i \in 1..h : r[i] = kContentLength[i]
         /\ \A i \in 1..d : r[h + i] = Decimal[n][i] /\ r[h + i] \in Digits
    BY <1>6, <1>11, <1>12 DEF p, k
  <1>17. FrameLayout(c, h, d, n)
    BY <1>1, <1>2, <1>3, <1>5, <1>11, <1>12, <1>13, <1>14, <1>15, <1>16 DEF FrameLayout
  <1> QED
    BY <1>17

LEMMA LengthReads ==
    ASSUME NEW n \in Nat
    PROVE  Reads(LengthOf(n), n)
  BY DecimalReads DEF Printed, LengthOf
-----------------------------------------------------------------------------
(* Types *)

LEMMA Wraps ==
    ASSUME NEW x \in Int
    PROVE  x % LenModulus \in 0..(LenModulus - 1)
  <1>1. LenModulus \in Nat /\ LenModulus > 0
    BY ContentAssumption
  <1> QED
    BY <1>1

LEMMA WrapsNot ==
    ASSUME NEW x \in Nat, x <= MaxSize
    PROVE  x % LenModulus = x
  <1>1. LenModulus \in Nat /\ x < LenModulus
    BY ContentAssumption
  <1> QED
    BY <1>1

(* What is left when n elements are taken from the front, and what they are *)
Remains(S, st, n, t) ==
    /\ t \in Seq(S) /\ Len(t) = Len(st) - n
    /\ \A i \in 1..(Len(st) - n) : t[i] = st[n + i]

Begins(S, st, n, t) ==
    /\ t \in Seq(S) /\ Len(t) = n
    /\ \A i \in 1..n : t[i] = st[i]

LEMMA Drops ==
    ASSUME NEW S, NEW st \in Seq(S), NEW n \in Nat, n <= Len(st)
    PROVE  Remains(S, st, n, SubSeq(st, n + 1, Len(st)))
  <1>1. \A i \in (n + 1)..Len(st) : st[i] \in S
    OBVIOUS
  <1> QED
    BY <1>1, SubSeqProperties DEF Remains

LEMMA Takes ==
    ASSUME NEW S, NEW st \in Seq(S), NEW n \in Nat, n <= Len(st)
    PROVE  Begins(S, st, n, SubSeq(st, 1, n))
  <1>1. \A i \in 1..n : st[i] \in S
    OBVIOUS
  <1> QED
    BY <1>1, SubSeqProperties DEF Begins

LEMMA Splits ==
    ASSUME NEW S, NEW st \in Seq(S), st # <<>>
    PROVE  /\ Head(st) \in S /\ Head(st) = st[1]
           /\ Remains(S, st, 1, Tail(st)) /\ 1 \in 1..Len(st)
  BY DEF Remains

OneMore(S, r, st, b) ==
    /\ r \in Seq(S) /\ Len(r) = Len(st) + 1
    /\ \A i \in 1..Len(st) : r[i] = st[i]
    /\ r[Len(st) + 1] = b

LEMMA Appends ==
    ASSUME NEW S, NEW st \in Seq(S), NEW b \in S
    PROVE  OneMore(S, Append(st, b), st, b)
  BY DEF OneMore

LEMMA Concats ==
    ASSUME NEW S, NEW st \in Seq(S), NEW x \in Seq(S)
    PROVE  /\ st \o x \in Seq(S) /\ Len(st \o x) = Len(st) + Len(x)
           /\ Begins(S, st \o x, Len(st), st) /\ Remains(S, st \o x, Len(st), x)
  BY DEF Begins, Remains

LEMMA TypeInit == ContentInit => ContentTypeOK
  <1> SUFFICES ASSUME ContentInit PROVE ContentTypeOK
    OBVIOUS
  <1>1. 0 \in 0..(LenModulus - 1) /\ Len(kContentLength) \in Nat
    BY ContentAssumption
  <1>2. <<>> \in Seq(0..255) /\ <<>> \in Seq(Contents) /\ <<>> \in Seq(Seq(0..255))
    OBVIOUS
  <1> QED
    BY <1>1, <1>2, Zenon DEF ContentInit, ContentTypeOK

LEMMA TypeWrite ==
    ASSUME ContentTypeOK, NEW c \in Contents, WriteContent(c)
    PROVE  ContentTypeOK'
  <1>1. Framed(c) \in Seq(0..255)
    BY FrameIs DEF FrameLayout
  <1>2. pending' \in Seq(0..255) /\ written' \in Seq(Contents)
    BY <1>1 DEF ContentTypeOK, WriteContent
  <1> QED
    BY <1>2 DEF ContentTypeOK, WriteContent

LEMMA TypeStray ==
    ASSUME ContentTypeOK, NEW s \in Stray, WriteStray(s)
    PROVE  ContentTypeOK'
  <1>1. s \in Seq(0..255)
    BY ContentAssumption
  <1>2. pending' \in Seq(0..255) /\ clean' \in Nat
    BY <1>1 DEF ContentTypeOK, WriteStray
  <1> QED
    BY <1>2 DEF ContentTypeOK, WriteStray

LEMMA TypeArrive == ContentTypeOK /\ Arrive => ContentTypeOK'
  <1> SUFFICES ASSUME ContentTypeOK, Arrive PROVE ContentTypeOK'
    OBVIOUS
  <1>1. pending' \in Seq(0..255) /\ stream' \in Seq(0..255)
    <2>1. pending \in Seq(0..255) /\ stream \in Seq(0..255) /\ pending # <<>>
      BY DEF ContentTypeOK, Arrive
    <2>2. Head(pending) \in 0..255 /\ Tail(pending) \in Seq(0..255)
      BY <2>1, Splits DEF Remains
    <2>3. Append(stream, Head(pending)) \in Seq(0..255)
      BY <2>1, <2>2, Appends DEF OneMore
    <2> QED
      BY <2>2, <2>3 DEF Arrive
  <1> QED
    BY <1>1 DEF ContentTypeOK, Arrive

LEMMA TypeClose == ContentTypeOK /\ Close => ContentTypeOK'
  BY DEF ContentTypeOK, Close

LEMMA TypeRead ==
    ASSUME ContentTypeOK, NEW n \in Nat, Read(n) \/ Short(n)
    PROVE  stream' \in Seq(0..255)
  <1>1. stream \in Seq(0..255)
    BY DEF ContentTypeOK
  <1>2. ASSUME Read(n)
        PROVE  stream' \in Seq(0..255)
    <2>1. Len(stream) >= n /\ n <= Len(stream)
      BY <1>1, <1>2 DEF Read
    <2>2. Remains(0..255, stream, n, SubSeq(stream, n + 1, Len(stream)))
      BY <1>1, <2>1, Drops
    <2> QED
      BY <1>2, <2>2 DEF Read, Remains
  <1>3. <<>> \in Seq(0..255)
    OBVIOUS
  <1> QED
    BY <1>2, <1>3 DEF Short

LEMMA TypeReader == ContentTypeOK /\ ReaderNext => ContentTypeOK'
  <1> SUFFICES ASSUME ContentTypeOK, ReaderNext PROVE ContentTypeOK'
    OBVIOUS
  <1>1. CASE MatchHeader
    <2>1. Len(kContentLength) \in Nat /\ 0 \in 0..(LenModulus - 1)
      BY ContentAssumption
    <2>2. stream' \in Seq(0..255)
      BY <1>1, <2>1, TypeRead DEF MatchHeader
    <2> QED
      BY <1>1, <2>1, <2>2 DEF ContentTypeOK, MatchHeader, Fail, Goto
  <1>2. CASE ReadLength
    <2>1. stream' \in Seq(0..255)
      BY <1>2, TypeRead DEF ReadLength
    <2>2. \A c \in Digits : NextLen(len, c) \in 0..(LenModulus - 1)
      <3> SUFFICES ASSUME NEW c \in Digits PROVE NextLen(len, c) \in 0..(LenModulus - 1)
        OBVIOUS
      <3>1. len * 10 + (c - 48) \in Int
        BY ContentAssumption DEF ContentTypeOK, Digits
      <3> QED
        BY <3>1, Wraps DEF NextLen
    <2> QED
      BY <1>2, <2>1, <2>2 DEF ContentTypeOK, ReadLength, Fail, Goto
  <1>3. CASE ReadNewlines
    <2>1. stream' \in Seq(0..255)
      BY <1>3, TypeRead DEF ReadNewlines
    <2>2. len \in Nat
      BY ContentAssumption DEF ContentTypeOK
    <2> QED
      BY <1>3, <2>1, <2>2 DEF ContentTypeOK, ReadNewlines, Fail
  <1>4. CASE ReadContent
    <2>1. len \in Nat /\ Len(kContentLength) \in Nat
      BY ContentAssumption DEF ContentTypeOK
    <2>2. stream' \in Seq(0..255)
      BY <1>4, <2>1, TypeRead DEF ReadContent, Throw, ContentTypeOK
    <2>3. Read(len) => SubSeq(stream, 1, len) \in Seq(0..255)
      <3> SUFFICES ASSUME Read(len) PROVE SubSeq(stream, 1, len) \in Seq(0..255)
        OBVIOUS
      <3>1. stream \in Seq(0..255) /\ len <= Len(stream)
        BY <2>1 DEF ContentTypeOK, Read
      <3>2. Begins(0..255, stream, len, SubSeq(stream, 1, len))
        BY <2>1, <3>1, Takes
      <3> QED
        BY <3>2 DEF Begins
    <2>4. got' \in Seq(Seq(0..255))
      <3>1. got \in Seq(Seq(0..255))
        BY DEF ContentTypeOK
      <3>2. Read(len) => Append(got, SubSeq(stream, 1, len)) \in Seq(Seq(0..255))
        BY <2>3, <3>1, Appends DEF OneMore
      <3> QED
        BY <1>4, <3>1, <3>2 DEF ReadContent, Throw, Fail
    <2>5. /\ pc' \in {"header", "failed", "thrown"} /\ len' = len /\ count' \in Nat
          /\ UNCHANGED <<pending, eof, written, clean>>
      BY <1>4, <2>1 DEF ContentTypeOK, ReadContent, Throw, Fail, Goto
    <2> QED
      BY <2>2, <2>4, <2>5 DEF ContentTypeOK
  <1> QED
    BY <1>1, <1>2, <1>3, <1>4 DEF ReaderNext

LEMMA TypeStep == ContentTypeOK /\ [ContentNext]_contentVars => ContentTypeOK'
  <1> SUFFICES ASSUME ContentTypeOK, [ContentNext]_contentVars PROVE ContentTypeOK'
    OBVIOUS
  <1>1. CASE UNCHANGED contentVars
    BY <1>1 DEF ContentTypeOK, contentVars
  <1> QED
    BY <1>1, TypeWrite, TypeStray, TypeArrive, TypeClose, TypeReader DEF ContentNext
-----------------------------------------------------------------------------
(* The stream *)

LEMMA StreamRead ==
    ASSUME NEW T \in Seq(0..255), NEW p \in Nat, NEW st \in Seq(0..255), NEW pe \in Seq(0..255),
           NEW e \in BOOLEAN, Carries(T, p, st, pe, e), NEW n \in Nat, n <= Len(st)
    PROVE  Carries(T, p + n, SubSeq(st, n + 1, Len(st)), pe, e)
  <1>1. PICK r \in Seq(0..255) : r = SubSeq(st, n + 1, Len(st)) /\ Remains(0..255, st, n, r)
    <2>1. Remains(0..255, st, n, SubSeq(st, n + 1, Len(st)))
      BY Drops
    <2> QED
      BY <2>1 DEF Remains
  <1>2. /\ Len(r) = Len(st) - n /\ \A i \in 1..(Len(st) - n) : r[i] = st[n + i]
        /\ Len(st) \in Nat
    BY <1>1 DEF Remains
  <1>3. /\ p + Len(st) <= Len(T) /\ \A i \in 1..Len(st) : st[i] = T[p + i]
        /\ e => pe = <<>>
        /\ ~e => /\ Len(T) = p + Len(st) + Len(pe)
                 /\ \A i \in 1..Len(pe) : pe[i] = T[p + Len(st) + i]
    BY DEF Carries
  <1>4. (p + n) + Len(r) = p + Len(st)
    BY <1>2
  <1>5. \A i \in 1..Len(r) : r[i] = T[(p + n) + i]
    <2> SUFFICES ASSUME NEW i \in 1..Len(r) PROVE r[i] = T[(p + n) + i]
      OBVIOUS
    <2>1. r[i] = st[n + i] /\ n + i \in 1..Len(st)
      BY <1>2
    <2>2. st[n + i] = T[p + (n + i)]
      BY <1>3, <2>1, Zenon
    <2>3. p + (n + i) = (p + n) + i
      OBVIOUS
    <2> QED
      BY <2>1, <2>2, <2>3
  <1>6. Carries(T, p + n, r, pe, e)
    BY <1>3, <1>4, <1>5 DEF Carries
  <1> QED
    BY <1>1, <1>6

LEMMA StreamShort ==
    ASSUME NEW T \in Seq(0..255), NEW p \in Nat, NEW st \in Seq(0..255), NEW pe \in Seq(0..255),
           Carries(T, p, st, pe, TRUE)
    PROVE  Carries(T, p + Len(st), <<>>, pe, TRUE)
  BY DEF Carries

LEMMA StreamArrive ==
    ASSUME NEW T \in Seq(0..255), NEW p \in Nat, NEW st \in Seq(0..255), NEW pe \in Seq(0..255),
           NEW e \in BOOLEAN, Carries(T, p, st, pe, e), pe # <<>>
    PROVE  Carries(T, p, Append(st, Head(pe)), Tail(pe), e)
  <1>1. PICK b \in 0..255, t \in Seq(0..255) :
           /\ b = Head(pe) /\ t = Tail(pe) /\ b = pe[1] /\ Len(pe) = Len(t) + 1
           /\ \A i \in 1..Len(t) : t[i] = pe[i + 1]
    <2>1. /\ Head(pe) \in 0..255 /\ Head(pe) = pe[1] /\ Remains(0..255, pe, 1, Tail(pe))
          /\ Len(pe) \in Nat
      BY Splits
    <2>2. PICK t \in Seq(0..255) : t = Tail(pe) /\ Remains(0..255, pe, 1, t)
      BY <2>1 DEF Remains
    <2>3. Len(pe) = Len(t) + 1 /\ \A i \in 1..Len(t) : t[i] = pe[i + 1]
      <3>1. Len(t) = Len(pe) - 1 /\ \A i \in 1..(Len(pe) - 1) : t[i] = pe[1 + i]
        BY <2>2 DEF Remains
      <3> QED
        BY <2>1, <3>1
    <2> QED
      BY <2>1, <2>2, <2>3
  <1>2. PICK r \in Seq(0..255) :
           /\ r = Append(st, b) /\ Len(r) = Len(st) + 1 /\ r[Len(st) + 1] = b
           /\ \A i \in 1..Len(st) : r[i] = st[i]
    <2>1. OneMore(0..255, Append(st, b), st, b)
      BY Appends
    <2>2. PICK r \in Seq(0..255) : r = Append(st, b) /\ OneMore(0..255, r, st, b)
      BY <2>1 DEF OneMore
    <2> QED
      BY <2>2 DEF OneMore
  <1>3. /\ p + Len(st) <= Len(T) /\ \A i \in 1..Len(st) : st[i] = T[p + i]
        /\ ~e /\ Len(T) = p + Len(st) + Len(pe)
        /\ \A i \in 1..Len(pe) : pe[i] = T[p + Len(st) + i]
    BY DEF Carries
  <1>4. Len(pe) \in Nat /\ Len(t) \in Nat /\ Len(st) \in Nat
    OBVIOUS
  <1>5. \A i \in 1..Len(r) : r[i] = T[p + i]
    <2> SUFFICES ASSUME NEW i \in 1..Len(r) PROVE r[i] = T[p + i]
      OBVIOUS
    <2>1. CASE i \in 1..Len(st)
      BY <1>2, <1>3, <2>1
    <2>2. CASE i = Len(st) + 1
      <3>1. 1 \in 1..Len(pe) /\ pe[1] = T[p + Len(st) + 1] /\ p + Len(st) + 1 = p + i
        BY <1>1, <1>3, <1>4, <2>2
      <3> QED
        BY <1>1, <1>2, <2>2, <3>1
    <2> QED
      BY <1>2, <1>4, <2>1, <2>2
  <1>6. \A i \in 1..Len(t) : t[i] = T[p + Len(r) + i]
    <2> SUFFICES ASSUME NEW i \in 1..Len(t) PROVE t[i] = T[p + Len(r) + i]
      OBVIOUS
    <2>1. i + 1 \in 1..Len(pe) /\ p + Len(st) + (i + 1) = p + Len(r) + i
      BY <1>1, <1>2, <1>4
    <2> QED
      BY <1>1, <1>3, <2>1
  <1>7. Len(T) = p + Len(r) + Len(t) /\ p + Len(r) <= Len(T)
    BY <1>1, <1>2, <1>3, <1>4
  <1> QED
    BY <1>1, <1>2, <1>3, <1>5, <1>6, <1>7 DEF Carries

LEMMA StreamClose ==
    ASSUME NEW T \in Seq(0..255), NEW p \in Nat, NEW st, NEW pe, NEW e, Carries(T, p, st, pe, e)
    PROVE  Carries(T, p, st, <<>>, TRUE)
  BY DEF Carries

Longer(r, s, x) ==
    /\ Len(r) = Len(s) + Len(x)
    /\ \A i \in 1..Len(s) : r[i] = s[i]
    /\ \A i \in 1..Len(x) : r[Len(s) + i] = x[i]

LEMMA Lengthens ==
    ASSUME NEW S, NEW s \in Seq(S), NEW x \in Seq(S)
    PROVE  \E r \in Seq(S) : r = s \o x /\ Longer(r, s, x)
  <1>1. PICK r \in Seq(S) : r = s \o x
    BY Concats
  <1>2. Len(r) = Len(s) + Len(x) /\ Begins(S, r, Len(s), s) /\ Remains(S, r, Len(s), x)
    BY <1>1, Concats
  <1>3. Len(s) \in Nat /\ Len(x) \in Nat /\ Len(r) - Len(s) = Len(x)
    BY <1>2
  <1> QED
    BY <1>1, <1>2, <1>3 DEF Begins, Remains, Longer

LEMMA StreamWrite ==
    ASSUME NEW T \in Seq(0..255), NEW p \in Nat, NEW st \in Seq(0..255), NEW pe \in Seq(0..255),
           Carries(T, p, st, pe, FALSE), NEW x \in Seq(0..255)
    PROVE  Carries(T \o x, p, st, pe \o x, FALSE)
  <1>1. PICK U \in Seq(0..255) : U = T \o x /\ Longer(U, T, x)
    BY Lengthens
  <1>2. PICK q \in Seq(0..255) : q = pe \o x /\ Longer(q, pe, x)
    BY Lengthens
  <1>0. /\ Len(U) = Len(T) + Len(x)
        /\ \A i \in 1..Len(T) : U[i] = T[i]
        /\ \A i \in 1..Len(x) : U[Len(T) + i] = x[i]
        /\ Len(q) = Len(pe) + Len(x)
        /\ \A i \in 1..Len(pe) : q[i] = pe[i]
        /\ \A i \in 1..Len(x) : q[Len(pe) + i] = x[i]
    BY <1>1, <1>2 DEF Longer
  <1>3. /\ p + Len(st) <= Len(T) /\ \A i \in 1..Len(st) : st[i] = T[p + i]
        /\ Len(T) = p + Len(st) + Len(pe)
        /\ \A i \in 1..Len(pe) : pe[i] = T[p + Len(st) + i]
    BY DEF Carries
  <1>4. Len(T) \in Nat /\ Len(x) \in Nat /\ Len(pe) \in Nat /\ Len(st) \in Nat
    OBVIOUS
  <1>5. \A i \in 1..Len(st) : st[i] = U[p + i]
    <2> SUFFICES ASSUME NEW i \in 1..Len(st) PROVE st[i] = U[p + i]
      OBVIOUS
    <2>1. p + i \in 1..Len(T)
      BY <1>3, <1>4
    <2> QED
      BY <1>0, <1>3, <2>1
  <1>6. \A i \in 1..Len(q) : q[i] = U[p + Len(st) + i]
    <2> SUFFICES ASSUME NEW i \in 1..Len(q) PROVE q[i] = U[p + Len(st) + i]
      OBVIOUS
    <2>1. CASE i \in 1..Len(pe)
      <3>1. p + Len(st) + i \in 1..Len(T)
        BY <1>3, <1>4, <2>1
      <3> QED
        BY <1>0, <1>1, <1>2, <1>3, <2>1, <3>1
    <2>2. CASE i > Len(pe)
      <3>1. PICK j \in 1..Len(x) : i = Len(pe) + j
        <4>1. i - Len(pe) \in 1..Len(x) /\ i = Len(pe) + (i - Len(pe))
          BY <1>0, <1>4, <2>2
        <4> QED
          BY <4>1
      <3>2. p + Len(st) + i = Len(T) + j
        BY <1>3, <1>4, <3>1
      <3> QED
        BY <1>0, <3>1, <3>2
    <2> QED
      BY <1>4, <2>1, <2>2
  <1>7. Len(U) = p + Len(st) + Len(q) /\ p + Len(st) <= Len(U)
    BY <1>0, <1>1, <1>2, <1>3, <1>4
  <1> QED
    BY <1>1, <1>2, <1>5, <1>6, <1>7 DEF Carries
-----------------------------------------------------------------------------
(* The messages in the stream *)

LEMMA FrameStays ==
    ASSUME NEW T \in Seq(0..255), NEW o \in Nat, NEW c \in Contents, FrameAt(T, o, c),
           NEW x \in Seq(0..255)
    PROVE  FrameAt(T \o x, o, c)
  <1>1. PICK U \in Seq(0..255) : U = T \o x /\ Longer(U, T, x)
    BY Lengthens
  <1>2. Framed(c) \in Seq(0..255) /\ Len(Framed(c)) \in Nat
    BY FrameIs DEF FrameLayout
  <1>3. Len(T) <= Len(U) /\ \A i \in 1..Len(T) : U[i] = T[i]
    BY <1>1 DEF Longer
  <1>4. o + Len(Framed(c)) <= Len(T) /\ \A i \in 1..Len(Framed(c)) : T[o + i] = Framed(c)[i]
    BY DEF FrameAt
  <1>5. \A i \in 1..Len(Framed(c)) : o + i \in 1..Len(T)
    BY <1>2, <1>4
  <1>6. o + Len(Framed(c)) <= Len(U)
    BY <1>2, <1>3, <1>4
  <1>7. FrameAt(U, o, c)
    BY <1>3, <1>4, <1>5, <1>6, Zenon DEF FrameAt
  <1> QED
    BY <1>1, <1>7

LEMMA LaidStays ==
    ASSUME NEW T \in Seq(0..255), NEW x \in Seq(0..255), NEW n \in Nat, NEW off \in [0..n -> Nat],
           NEW W, Laid(T, off, n, W), NEW V, \A k \in 1..n : V[k] = W[k] /\ W[k] \in Contents
    PROVE  Laid(T \o x, off, n, V)
  <1>1. ASSUME NEW k \in 1..n
        PROVE  off[k] = off[k - 1] + Len(Framed(V[k])) /\ FrameAt(T \o x, off[k - 1], V[k])
    <2>1. PICK c \in Contents : c = W[k] /\ c = V[k]
      OBVIOUS
    <2>2. PICK o \in Nat : o = off[k - 1]
      OBVIOUS
    <2>3. off[k] = o + Len(Framed(c)) /\ FrameAt(T, o, c)
      BY <2>1, <2>2 DEF Laid
    <2>4. FrameAt(T \o x, o, c)
      BY <2>3, FrameStays
    <2> QED
      BY <2>1, <2>2, <2>3, <2>4
  <1> QED
    BY <1>1 DEF Laid

(* A message is written after the others. *)
LaidOn(U, off, n, V) ==
    \E new \in [0..(n + 1) -> Nat] :
        /\ Laid(U, new, n + 1, V) /\ new[n + 1] = Len(U)
        /\ \A k \in 0..n : new[k] = off[k]

LEMMA LaidNext ==
    ASSUME NEW T \in Seq(0..255), NEW n \in Nat, NEW off \in [0..n -> Nat],
           NEW W, Laid(T, off, n, W), off[n] = Len(T), NEW c \in Contents,
           NEW V, \A k \in 1..n : V[k] = W[k] /\ W[k] \in Contents, V[n + 1] = c
    PROVE  LaidOn(T \o Framed(c), off, n, V)
  <1>1. Framed(c) \in Seq(0..255)
    BY FrameIs DEF FrameLayout
  <1>2. PICK U \in Seq(0..255) : U = T \o Framed(c) /\ Longer(U, T, Framed(c))
    BY <1>1, Lengthens
  <1>3. /\ Len(U) = Len(T) + Len(Framed(c)) /\ Len(T) \in Nat /\ Len(Framed(c)) \in Nat
        /\ \A i \in 1..Len(Framed(c)) : U[Len(T) + i] = Framed(c)[i]
    BY <1>1, <1>2 DEF Longer
  <1>4. Laid(U, off, n, V)
    BY <1>1, <1>2, LaidStays
  <1> DEFINE new == [k \in 0..(n + 1) |-> IF k <= n THEN off[k] ELSE Len(U)]
  <1>5. /\ new \in [0..(n + 1) -> Nat] /\ new[n + 1] = Len(U) /\ 0 \in 0..n /\ n \in 0..n
        /\ \A k \in 0..n : new[k] = off[k]
        /\ \A k \in 1..n : k \in 0..n /\ k - 1 \in 0..n
    BY <1>3
  <1> HIDE DEF new
  <1>6. FrameAt(U, Len(T), c)
    BY <1>3 DEF FrameAt
  <1>7. ASSUME NEW k \in 1..(n + 1)
        PROVE  new[k] = new[k - 1] + Len(Framed(V[k])) /\ FrameAt(U, new[k - 1], V[k])
    <2>1. CASE k \in 1..n
      <3>1. new[k] = off[k] /\ new[k - 1] = off[k - 1]
        BY <1>5, <2>1
      <3> QED
        BY <1>4, <2>1, <3>1 DEF Laid
    <2>2. CASE k = n + 1
      <3>1. new[k] = Len(U) /\ new[k - 1] = Len(T) /\ V[k] = c
        BY <1>5, <2>2
      <3> QED
        BY <1>3, <1>6, <3>1
    <2> QED
      BY <2>1, <2>2
  <1>8. new[0] = 0
    BY <1>4, <1>5 DEF Laid
  <1>9. Laid(U, new, n + 1, V)
    BY <1>7, <1>8 DEF Laid
  <1> QED
    BY <1>2, <1>5, <1>9 DEF LaidOn

(* What the bytes are that have arrived. *)
Spells(st, c, j) ==
    \A i \in 1..Len(st) : j + i <= Len(Framed(c)) => st[i] = Framed(c)[j + i]

LEMMA FrameBytes ==
    ASSUME NEW T \in Seq(0..255), NEW p \in Nat, NEW st \in Seq(0..255), NEW pe, NEW e,
           Carries(T, p, st, pe, e), NEW o \in Nat, NEW c, FrameAt(T, o, c),
           NEW j \in Nat, p = o + j, Len(Framed(c)) \in Nat
    PROVE  Spells(st, c, j)
  <1>1. ASSUME NEW i \in 1..Len(st), j + i <= Len(Framed(c))
        PROVE  st[i] = Framed(c)[j + i]
    <2>1. st[i] = T[p + i]
      BY DEF Carries
    <2>2. j + i \in 1..Len(Framed(c)) /\ p + i = o + (j + i)
      BY <1>1
    <2>3. T[o + (j + i)] = Framed(c)[j + i]
      BY <2>2 DEF FrameAt
    <2> QED
      BY <2>1, <2>2, <2>3
  <1> QED
    BY <1>1 DEF Spells
-----------------------------------------------------------------------------
(* The writing program *)

LEMMA InvInit == ContentInit => ContentInv
  <1> SUFFICES ASSUME ContentInit PROVE ContentInv
    OBVIOUS
  <1>1. ContentTypeOK
    BY TypeInit
  <1>2. /\ stream = <<>> /\ pending = <<>> /\ eof = FALSE /\ pc = "header"
        /\ written = <<>> /\ got = <<>> /\ clean = -1 /\ Base = 0
    BY DEF ContentInit, Base
  <1>3. Kept /\ FailsAtEnd
    BY <1>2 DEF Kept, FailsAtEnd
  <1>4. PICK T \in Seq(0..255) : T = <<>>
    <2>1. <<>> \in Seq(0..255)
      OBVIOUS
    <2> QED
      BY <2>1
  <1>5. PICK off \in [0..0 -> Nat] : off[0] = 0
    <2>1. [k \in 0..0 |-> 0] \in [0..0 -> Nat] /\ [k \in 0..0 |-> 0][0] = 0
      OBVIOUS
    <2> QED
      BY <2>1
  <1>6. Carries(T, 0, stream, pending, eof)
    BY <1>2, <1>4 DEF Carries
  <1>7. Laid(T, off, Base, written)
    BY <1>2, <1>5 DEF Laid
  <1>8. Position(T, 0, off)
    BY <1>2, <1>4 DEF Position
  <1>9. Traced(T, 0, off)
    BY <1>2, <1>4, <1>5, <1>6, <1>7, <1>8 DEF Traced
  <1> QED
    BY <1>1, <1>2, <1>3, <1>5, <1>9 DEF ContentInv

(* What ContentInv says of a state, in the forms that the steps need *)
LEMMA Sizes ==
    ASSUME ContentInv
    PROVE  /\ ContentTypeOK /\ Kept /\ FailsAtEnd
           /\ pending \in Seq(0..255) /\ stream \in Seq(0..255) /\ eof \in BOOLEAN
           /\ written \in Seq(Contents) /\ got \in Seq(Seq(0..255))
           /\ Base \in Nat /\ Base <= Len(written) /\ clean \in Nat \cup {-1}
           /\ Len(got) \in Nat /\ Len(written) \in Nat
           /\ \A k \in 1..Base : k \in 1..Len(written) /\ written[k] \in Contents
           /\ clean = -1 => Len(got) <= Base /\ Base = Len(written)
           /\ clean # -1 => Base = clean
  <1>1. /\ pending \in Seq(0..255) /\ stream \in Seq(0..255) /\ eof \in BOOLEAN
        /\ written \in Seq(Contents) /\ got \in Seq(Seq(0..255)) /\ clean \in Nat \cup {-1}
    BY DEF ContentInv, ContentTypeOK
  <1>2. /\ clean # -1 => clean <= Len(written)
        /\ clean = -1 => Len(got) <= Len(written)
    BY DEF ContentInv, Kept
  <1>3. Base \in Nat /\ Base <= Len(written) /\ Len(got) \in Nat /\ Len(written) \in Nat
    BY <1>1, <1>2 DEF Base
  <1>4. \A k \in 1..Len(written) : written[k] \in Contents
    BY <1>1
  <1>5. /\ clean = -1 => Len(got) <= Base /\ Base = Len(written)
        /\ clean # -1 => Base = clean
    BY <1>2 DEF Base
  <1> QED
    BY <1>1, <1>3, <1>4, <1>5 DEF ContentInv

LEMMA InvWrite ==
    ASSUME ContentInv, NEW c \in Contents, WriteContent(c)
    PROVE  ContentInv'
  <1>1. /\ ContentTypeOK /\ Kept /\ FailsAtEnd
        /\ pending \in Seq(0..255) /\ stream \in Seq(0..255)
        /\ written \in Seq(Contents)
        /\ Base \in Nat /\ Base <= Len(written) /\ clean \in Nat \cup {-1}
        /\ Len(got) \in Nat /\ Len(written) \in Nat
        /\ \A k \in 1..Base : k \in 1..Len(written) /\ written[k] \in Contents
        /\ clean = -1 => Len(got) <= Base /\ Base = Len(written)
        /\ clean # -1 => Base = clean
    BY Sizes
  <1>2. /\ eof = FALSE /\ pending' = pending \o Framed(c) /\ written' = Append(written, c)
        /\ UNCHANGED <<stream, eof, pc, len, got, clean>>
    BY <1>1 DEF WriteContent, ContentTypeOK
  <1>3. ContentTypeOK'
    BY <1>1, TypeWrite
  <1>4. /\ Len(written') = Len(written) + 1
        /\ \A k \in 1..Len(written) : written'[k] = written[k]
        /\ written'[Len(written) + 1] = c
    BY <1>1, <1>2, Appends DEF OneMore
  <1>5. Base' = IF clean = -1 THEN Base + 1 ELSE Base
    BY <1>1, <1>2, <1>4 DEF Base
  <1>6. Kept'
    <2>1. \A k \in 1..Len(got) : k <= Base' => k <= Base /\ k \in 1..Len(written)
      BY <1>1, <1>5
    <2> QED
      BY <1>1, <1>2, <1>4, <2>1 DEF Kept
  <1>7. FailsAtEnd'
    BY <1>1, <1>2 DEF FailsAtEnd
  <1>8. PICK T \in Seq(0..255), p \in Nat : \E off \in [0..Base -> Nat] : Traced(T, p, off)
    BY DEF ContentInv
  <1>9. PICK off \in [0..Base -> Nat] : Traced(T, p, off)
    BY <1>8
  <1>10. /\ Carries(T, p, stream, pending, FALSE) /\ Laid(T, off, Base, written)
         /\ clean = -1 => off[Base] = Len(T)
         /\ Position(T, p, off)
    BY <1>2, <1>9 DEF Traced
  <1>11. Framed(c) \in Seq(0..255)
    BY FrameIs DEF FrameLayout
  <1>12. PICK U \in Seq(0..255) : U = T \o Framed(c)
    <2>1. T \o Framed(c) \in Seq(0..255)
      BY <1>11, Concats
    <2> QED
      BY <2>1, Zenon
  <1>13. Carries(U, p, stream', pending', eof')
    BY <1>1, <1>2, <1>10, <1>11, <1>12, StreamWrite
  <1>14. PICK b \in Nat : b = Base /\ off \in [0..b -> Nat] /\ Laid(T, off, b, written)
    BY <1>1, <1>10
  <1>15. \A k \in 1..b : written'[k] = written[k] /\ written[k] \in Contents
    BY <1>1, <1>4, <1>14
  <1>16. CASE clean = -1
    <2>1. PICK new \in [0..(b + 1) -> Nat] :
             /\ Laid(U, new, b + 1, written') /\ new[b + 1] = Len(U)
             /\ \A k \in 0..b : new[k] = off[k]
      <3>1. written'[b + 1] = c /\ off[b] = Len(T)
        BY <1>1, <1>4, <1>10, <1>14, <1>16
      <3>2. PICK W : W = written
        OBVIOUS
      <3>3. PICK V : V = written'
        OBVIOUS
      <3>4. Laid(T, off, b, W) /\ off \in [0..b -> Nat]
        BY <1>14, <3>2
      <3>5. \A k \in 1..b : V[k] = W[k] /\ W[k] \in Contents
        BY <1>15, <3>2, <3>3
      <3>6. V[b + 1] = c /\ off[b] = Len(T)
        BY <3>1, <3>3
      <3>7. LaidOn(T \o Framed(c), off, b, V)
        BY <3>4, <3>5, <3>6, LaidNext
      <3> QED
        BY <1>12, <3>3, <3>7 DEF LaidOn
    <2>2. Base' = b + 1
      BY <1>5, <1>14, <1>16
    <2>3. Position(U, p, new)'
      <3>0. (Running' <=> Running) /\ got' = got /\ ~(Len(got') = Base')
        BY <1>1, <1>2, <1>14, <1>16, <2>2 DEF Running
      <3>1. Len(got) <= b /\ Len(got) \in 0..b /\ new[Len(got)] = off[Len(got)]
        BY <1>1, <1>14, <1>16, <2>1
      <3>2. CASE Len(got) < b
        <4>1. written'[Len(got) + 1] = written[Len(got) + 1]
          <5>1. Len(got) + 1 \in 1..b
            BY <1>1, <3>2, SMTT(30)
          <5> QED
            BY <1>15, <5>1
        <4>2. Running => Within(pc, p, len, off[Len(got)], written[Len(got) + 1])
          BY <1>10, <1>14, <3>2 DEF Position
        <4>3. Running => Within(pc', p, len', new[Len(got')], written'[Len(got') + 1])
          BY <1>2, <3>1, <4>1, <4>2
        <4> QED
          BY <3>0, <4>3 DEF Position
      <3>3. CASE Len(got) = b
        <4>1. Running => pc = "header" /\ p = Len(T)
          BY <1>10, <1>14, <1>16, <3>3 DEF Position
        <4>2. Running => Within(pc', p, len', new[Len(got')], written'[Len(got') + 1])
          BY <1>2, <1>10, <1>14, <1>16, <3>1, <3>3, <4>1 DEF Within
        <4> QED
          BY <3>0, <4>2 DEF Position
      <3> QED
        BY <1>1, <3>1, <3>2, <3>3
    <2>4. Traced(U, p, new)'
      BY <1>13, <2>1, <2>2, <2>3 DEF Traced
    <2> QED
      BY <1>3, <1>6, <1>7, <2>2, <2>4 DEF ContentInv
  <1>17. CASE clean # -1
    <2>1. Base' = b
      BY <1>5, <1>14, <1>17
    <2>2. Laid(U, off, b, written')
      BY <1>11, <1>12, <1>14, <1>15, LaidStays
    <2>3. Position(U, p, off)'
      <3>1. Len(got) < b /\ Running => Within(pc, p, len, off[Len(got)], written[Len(got) + 1])
        BY <1>10, <1>14 DEF Position
      <3>2. Len(got) < b => written'[Len(got) + 1] = written[Len(got) + 1]
        BY <1>1, <1>15
      <3> QED
        BY <1>2, <1>17, <2>1, <3>1, <3>2 DEF Position, Running
    <2>4. Traced(U, p, off)'
      BY <1>2, <1>13, <1>17, <2>1, <2>2, <2>3 DEF Traced
    <2> QED
      BY <1>3, <1>6, <1>7, <1>14, <2>1, <2>4 DEF ContentInv
  <1> QED
    BY <1>16, <1>17

LEMMA InvStray ==
    ASSUME ContentInv, NEW s \in Stray, WriteStray(s)
    PROVE  ContentInv'
  <1>1. /\ ContentTypeOK /\ Kept /\ FailsAtEnd
        /\ pending \in Seq(0..255) /\ stream \in Seq(0..255)
        /\ Base \in Nat /\ Base <= Len(written)
        /\ Len(got) \in Nat /\ Len(written) \in Nat
        /\ \A k \in 1..Base : k \in 1..Len(written) /\ written[k] \in Contents
        /\ clean = -1 => Len(got) <= Base /\ Base = Len(written)
    BY Sizes
  <1>2. /\ eof = FALSE /\ pending' = pending \o s /\ clean = -1 /\ clean' = Len(written)
        /\ UNCHANGED <<stream, eof, pc, len, written, got>>
    BY <1>1 DEF WriteStray, ContentTypeOK
  <1>3. ContentTypeOK'
    BY <1>1, TypeStray
  <1>4. Base' = Base /\ Base = Len(written) /\ clean' # -1
    BY <1>1, <1>2 DEF Base
  <1>5. Kept'
    BY <1>1, <1>2, <1>4 DEF Kept
  <1>6. FailsAtEnd'
    BY <1>4 DEF FailsAtEnd
  <1>7. PICK T \in Seq(0..255), p \in Nat : \E off \in [0..Base -> Nat] : Traced(T, p, off)
    BY DEF ContentInv
  <1>8. PICK off \in [0..Base -> Nat] : Traced(T, p, off)
    BY <1>7
  <1>9. /\ Carries(T, p, stream, pending, FALSE) /\ Laid(T, off, Base, written)
        /\ Position(T, p, off)
    BY <1>2, <1>8 DEF Traced
  <1>10. s \in Seq(0..255)
    BY ContentAssumption
  <1>11. PICK U \in Seq(0..255) : U = T \o s
    BY <1>10, Concats
  <1>12. Carries(U, p, stream', pending', eof')
    BY <1>1, <1>2, <1>9, <1>10, <1>11, StreamWrite
  <1>13. PICK b \in Nat : b = Base /\ off \in [0..b -> Nat] /\ Laid(T, off, b, written)
    BY <1>1, <1>9
  <1>14. PICK W \in Seq(Contents) : W = written
    BY <1>1 DEF ContentTypeOK
  <1>15. \A k \in 1..b : W[k] = W[k] /\ W[k] \in Contents
    BY <1>1, <1>13, <1>14
  <1>16. Laid(U, off, b, W)
    BY <1>10, <1>11, <1>13, <1>14, <1>15, LaidStays
  <1>17. Position(U, p, off)'
    BY <1>2, <1>4, <1>9 DEF Position, Running
  <1>18. Traced(U, p, off)'
    BY <1>2, <1>4, <1>12, <1>13, <1>14, <1>16, <1>17 DEF Traced
  <1> QED
    BY <1>3, <1>4, <1>5, <1>6, <1>18 DEF ContentInv

(* Nothing that the invariant says of the reader changes. *)
LEMMA InvCarried ==
    ASSUME ContentInv, ContentTypeOK', UNCHANGED <<pc, len, written, got, clean>>,
           eof => eof',
           \A T \in Seq(0..255), p \in Nat :
               Carries(T, p, stream, pending, eof) => Carries(T, p, stream', pending', eof')
    PROVE  ContentInv'
  <1>1. Kept' /\ Base' = Base /\ FailsAtEnd'
    BY DEF ContentInv, Kept, Base, FailsAtEnd
  <1>2. PICK T \in Seq(0..255), p \in Nat : \E off \in [0..Base -> Nat] : Traced(T, p, off)
    BY DEF ContentInv
  <1>3. PICK off \in [0..Base -> Nat] : Traced(T, p, off)
    BY <1>2
  <1>4. Carries(T, p, stream', pending', eof')
    BY <1>3 DEF Traced
  <1>5. Position(T, p, off)'
    BY <1>1, <1>3 DEF Traced, Position, Running
  <1>6. Traced(T, p, off)'
    BY <1>1, <1>3, <1>4, <1>5 DEF Traced
  <1> QED
    BY <1>1, <1>6 DEF ContentInv

LEMMA InvArrive == ContentInv /\ Arrive => ContentInv'
  <1> SUFFICES ASSUME ContentInv, Arrive PROVE ContentInv'
    OBVIOUS
  <1>1. /\ pending \in Seq(0..255) /\ stream \in Seq(0..255) /\ eof \in BOOLEAN
    BY Sizes
  <1>2. ContentTypeOK'
    BY TypeArrive DEF ContentInv
  <1>3. /\ pending # <<>> /\ UNCHANGED <<pc, len, written, got, clean, eof>>
        /\ stream' = Append(stream, Head(pending)) /\ pending' = Tail(pending)
    BY DEF Arrive
  <1>4. ASSUME NEW T \in Seq(0..255), NEW p \in Nat, Carries(T, p, stream, pending, eof)
        PROVE  Carries(T, p, stream', pending', eof')
    <2>1. Carries(T, p, Append(stream, Head(pending)), Tail(pending), eof)
      BY <1>1, <1>3, <1>4, StreamArrive
    <2> QED
      BY <1>3, <2>1
  <1> QED
    BY <1>2, <1>3, <1>4, InvCarried

LEMMA InvClose == ContentInv /\ Close => ContentInv'
  <1> SUFFICES ASSUME ContentInv, Close PROVE ContentInv'
    OBVIOUS
  <1>1. ContentTypeOK'
    BY TypeClose DEF ContentInv
  <1>2. eof' = TRUE /\ pending' = <<>> /\ UNCHANGED <<stream, pc, len, written, got, clean>>
    BY DEF Close
  <1>3. ASSUME NEW T \in Seq(0..255), NEW p \in Nat, Carries(T, p, stream, pending, eof)
        PROVE  Carries(T, p, stream', pending', eof')
    BY <1>2, <1>3, StreamClose
  <1> QED
    BY <1>1, <1>2, <1>3, InvCarried
-----------------------------------------------------------------------------
(* The reading program *)

LEMMA Consumed ==
    ASSUME ContentInv, NEW T \in Seq(0..255), NEW p \in Nat, Carries(T, p, stream, pending, eof),
           NEW n \in Nat, Read(n) \/ Short(n)
    PROVE  \E q \in Nat : Carries(T, q, stream', pending, eof) /\ (Read(n) => q = p + n)
  <1>1. pending \in Seq(0..255) /\ stream \in Seq(0..255) /\ eof \in BOOLEAN
    BY Sizes
  <1>2. CASE Read(n)
    <2>1. n <= Len(stream) /\ stream' = SubSeq(stream, n + 1, Len(stream))
      BY <1>1, <1>2 DEF Read
    <2>2. Carries(T, p + n, SubSeq(stream, n + 1, Len(stream)), pending, eof)
      BY <1>1, <2>1, StreamRead
    <2> QED
      BY <2>1, <2>2
  <1>3. CASE ~Read(n)
    <2>1. eof = TRUE /\ stream' = <<>>
      BY <1>1, <1>3 DEF Short
    <2>2. Carries(T, p, stream, pending, TRUE)
      BY <2>1
    <2>3. Carries(T, p + Len(stream), <<>>, pending, TRUE)
      BY <1>1, <2>2, StreamShort
    <2>4. p + Len(stream) \in Nat
      BY <1>1
    <2> QED
      BY <1>3, <2>1, <2>3, <2>4
  <1> QED
    BY <1>2, <1>3

(* What the other output has left open: anything goes. *)
LEMMA InvFree ==
    ASSUME ContentInv, ContentTypeOK', UNCHANGED <<pending, eof, written, clean>>,
           clean # -1, Len(got) >= Base,
           Len(got') \in Nat /\ Len(got') >= Len(got), \A k \in 1..Len(got) : got'[k] = got[k],
           UNCHANGED stream \/ \E n \in Nat : Read(n) \/ Short(n)
    PROVE  ContentInv'
  <1>1. /\ Kept /\ Base \in Nat /\ Len(got) \in Nat /\ Base' = Base
    BY Sizes DEF Base
  <1>2. Kept' /\ FailsAtEnd'
    <2>1. \A k \in 1..Len(got') : k <= Base => k \in 1..Len(got)
      BY <1>1
    <2> QED
      BY <1>1, <2>1 DEF Kept, FailsAtEnd
  <1>3. PICK T \in Seq(0..255), p \in Nat : \E off \in [0..Base -> Nat] : Traced(T, p, off)
    BY DEF ContentInv
  <1>4. PICK off \in [0..Base -> Nat] : Traced(T, p, off)
    BY <1>3
  <1>5. Carries(T, p, stream, pending, eof)
    BY <1>4 DEF Traced
  <1>6. PICK q \in Nat : Carries(T, q, stream', pending, eof)
    BY <1>5, Consumed
  <1>7. Position(T, q, off)'
    BY <1>1 DEF Position
  <1>8. Traced(T, q, off)'
    BY <1>1, <1>4, <1>6, <1>7 DEF Traced
  <1> QED
    BY <1>1, <1>2, <1>8 DEF ContentInv

LEMMA InvFail ==
    ASSUME ContentInv, ContentTypeOK', UNCHANGED <<pending, eof, written, clean, got>>,
           pc' = "failed", eof \/ clean # -1, NEW n \in Nat, Read(n) \/ Short(n)
    PROVE  ContentInv'
  <1>1. Kept' /\ FailsAtEnd' /\ Base' = Base
    BY DEF ContentInv, Kept, FailsAtEnd, Base
  <1>2. PICK T \in Seq(0..255), p \in Nat : \E off \in [0..Base -> Nat] : Traced(T, p, off)
    BY DEF ContentInv
  <1>3. PICK off \in [0..Base -> Nat] : Traced(T, p, off)
    BY <1>2
  <1>4. PICK q \in Nat : Carries(T, q, stream', pending, eof)
    BY <1>3, Consumed DEF Traced
  <1>5. Position(T, q, off)'
    BY DEF Position, Running
  <1>6. Traced(T, q, off)'
    BY <1>1, <1>3, <1>4, <1>5 DEF Traced
  <1> QED
    BY <1>1, <1>6 DEF ContentInv

(* Everything was read that was written. *)
LEMMA InvAtEnd ==
    ASSUME ContentInv, ReaderNext, clean = -1, Len(got) = Base
    PROVE  ContentInv'
  <1>1. stream \in Seq(0..255)
    BY Sizes
  <1>2. ContentTypeOK'
    BY TypeReader DEF ContentInv
  <1>3. Running
    BY DEF ReaderNext, MatchHeader, ReadLength, ReadNewlines, ReadContent, Running
  <1>4. pc = "header" /\ Len(stream) = 0
    <2>1. PICK T \in Seq(0..255), p \in Nat : \E off \in [0..Base -> Nat] : Traced(T, p, off)
      BY DEF ContentInv
    <2>2. PICK off \in [0..Base -> Nat] : Traced(T, p, off)
      BY <2>1
    <2>3. pc = "header" /\ p = Len(T)
      BY <1>3, <2>2 DEF Traced, Position
    <2>4. p + Len(stream) <= Len(T) /\ Len(stream) \in Nat
      BY <1>1, <2>2 DEF Traced, Carries
    <2> QED
      BY <2>3, <2>4
  <1>5. MatchHeader
    BY <1>4 DEF ReaderNext, ReadLength, ReadNewlines, ReadContent
  <1>6. PICK n \in Nat : n = Len(kContentLength) /\ n >= 1
    BY ContentAssumption
  <1>7. ~Read(n)
    BY <1>4, <1>6 DEF Read
  <1>8. Short(n) /\ Fail /\ eof /\ UNCHANGED <<pending, eof, written, clean>>
    BY <1>5, <1>6, <1>7 DEF MatchHeader, Short
  <1> QED
    BY <1>2, <1>8, InvFail DEF Fail

(* A frame that is being read: of c, from o, with the sizes of its layout. *)
Ahead(T, p, off, c, o, h, d, n) ==
    /\ FrameLayout(c, h, d, n) /\ Reads(LengthOf(n), n)
    /\ o = off[Len(got)] /\ c = written[Len(got) + 1]
    /\ FrameAt(T, o, c) /\ off[Len(got) + 1] = o + (h + d + 4 + n)
    /\ Within(pc, p, len, o, c)

LEMMA Expected ==
    ASSUME ContentInv, Running, Len(got) < Base, NEW T, NEW p, NEW off \in [0..Base -> Nat],
           Traced(T, p, off)
    PROVE  \E c \in Contents, o, h, d, n \in Nat : Ahead(T, p, off, c, o, h, d, n)
  <1>1. /\ Base \in Nat /\ Len(got) \in Nat
        /\ \A k \in 1..Base : written[k] \in Contents
    BY Sizes
  <1>2. Len(got) + 1 \in 1..Base /\ Len(got) \in 0..Base /\ (Len(got) + 1) - 1 = Len(got)
    BY <1>1
  <1>3. PICK c \in Contents : c = written[Len(got) + 1]
    BY <1>1, <1>2
  <1>4. PICK o \in Nat : o = off[Len(got)]
    BY <1>2
  <1>5. PICK h, d, n \in Nat : FrameLayout(c, h, d, n)
    BY FrameIs
  <1>6. off[Len(got) + 1] = o + Len(Framed(c)) /\ FrameAt(T, o, c)
    BY <1>2, <1>3, <1>4 DEF Traced, Laid
  <1>7. Len(Framed(c)) = h + d + 4 + n
    BY <1>5 DEF FrameLayout
  <1>8. Within(pc, p, len, o, c)
    BY <1>3, <1>4 DEF Traced, Position
  <1>9. Reads(LengthOf(n), n)
    BY LengthReads
  <1>10. Ahead(T, p, off, c, o, h, d, n)
    BY <1>3, <1>4, <1>5, <1>6, <1>7, <1>8, <1>9 DEF Ahead
  <1> QED
    BY <1>10

LEMMA Arrived ==
    ASSUME ContentInv, NEW T \in Seq(0..255), NEW p \in Nat, NEW off, Traced(T, p, off),
           NEW c \in Contents, NEW o \in Nat, NEW h \in Nat, NEW d \in Nat, NEW n \in Nat,
           Ahead(T, p, off, c, o, h, d, n), NEW j \in Nat, p = o + j
    PROVE  Spells(stream, c, j)
  <1>1. stream \in Seq(0..255)
    BY Sizes
  <1>2. Carries(T, p, stream, pending, eof)
    BY DEF Traced
  <1>4. FrameAt(T, o, c)
    BY DEF Ahead
  <1>5. Len(Framed(c)) = h + d + 4 + n
    BY Zenon DEF Ahead, FrameLayout
  <1>6. Len(Framed(c)) \in Nat
    BY <1>5
  <1> QED
    BY <1>1, <1>2, <1>4, <1>6, FrameBytes

(* A part of the frame was read, and another is next. *)
LEMMA InvAdvance ==
    ASSUME ContentInv, ContentTypeOK', Len(got) < Base,
           UNCHANGED <<pending, eof, written, clean, got>>,
           NEW T \in Seq(0..255), NEW p \in Nat, NEW off \in [0..Base -> Nat], Traced(T, p, off),
           NEW m \in Nat, Read(m), pc' \notin {"failed", "thrown"},
           Within(pc', p + m, len', off[Len(got)], written[Len(got) + 1])
    PROVE  ContentInv'
  <1>1. Kept' /\ FailsAtEnd' /\ Base' = Base
    BY DEF ContentInv, Kept, FailsAtEnd, Base
  <1>2. Carries(T, p, stream, pending, eof)
    BY DEF Traced
  <1>3. PICK q \in Nat : Carries(T, q, stream', pending, eof) /\ q = p + m
    BY <1>2, Consumed
  <1>4. Position(T, q, off)'
    <2>1. Len(got) \in Nat /\ Base \in Nat
      BY Sizes
    <2>2. Len(got') < Base' /\ ~(Len(got') = Base')
      BY <1>1, <2>1
    <2>3. Within(pc', q, len', off[Len(got')], written'[Len(got') + 1])
      BY <1>3
    <2> QED
      BY <2>2, <2>3 DEF Position
  <1>5. Traced(T, q, off)'
    BY <1>1, <1>3, <1>4 DEF Traced
  <1> QED
    BY <1>1, <1>5 DEF ContentInv

LEMMA SameSeq ==
    ASSUME NEW S, NEW s \in Seq(S), NEW t \in Seq(S), Len(s) = Len(t),
           \A i \in 1..Len(s) : s[i] = t[i]
    PROVE  s = t
  BY SeqEqual

(* A part of the frame arrives as it was written. *)
LEMMA PartArrived ==
    ASSUME NEW st \in Seq(0..255), NEW part \in Seq(0..255), Len(part) <= Len(st),
           \A i \in 1..Len(part) : st[i] = part[i]
    PROVE  SubSeq(st, 1, Len(part)) = part
  <1>1. PICK m \in Nat : m = Len(part)
    OBVIOUS
  <1>2. Begins(0..255, st, m, SubSeq(st, 1, m))
    BY <1>1, Takes
  <1>3. PICK s \in Seq(0..255) : s = SubSeq(st, 1, m) /\ Len(s) = m /\ \A i \in 1..m : s[i] = st[i]
    BY <1>2 DEF Begins
  <1>4. s = part
    BY <1>1, <1>3, SameSeq
  <1> QED
    BY <1>1, <1>3, <1>4

LEMMA InvHeader ==
    ASSUME ContentInv, MatchHeader, Len(got) < Base
    PROVE  ContentInv'
  <1>1. /\ pc = "header" /\ Running /\ UNCHANGED <<pending, eof, written, clean>>
        /\ stream \in Seq(0..255) /\ ReaderNext
    BY Sizes DEF MatchHeader, Running, ReaderNext
  <1>2. ContentTypeOK'
    BY <1>1, TypeReader DEF ContentInv
  <1>3. PICK T \in Seq(0..255), p \in Nat : \E off \in [0..Base -> Nat] : Traced(T, p, off)
    BY DEF ContentInv
  <1>4. PICK off \in [0..Base -> Nat] : Traced(T, p, off)
    BY <1>3
  <1>5. PICK c \in Contents, o, h, d, n \in Nat : Ahead(T, p, off, c, o, h, d, n)
    BY <1>1, <1>4, Expected
  <1>6. /\ FrameLayout(c, h, d, n) /\ Reads(LengthOf(n), n)
        /\ o = off[Len(got)] /\ c = written[Len(got) + 1] /\ Within(pc, p, len, o, c)
    BY <1>5 DEF Ahead
  <1>7. p = o /\ p = o + 0
    BY <1>1, <1>6 DEF Within
  <1>8. /\ h = Len(kContentLength) /\ kContentLength \in Seq(0..255)
        /\ h >= 1 /\ n = Len(c) /\ d = Len(Decimal[n])
        /\ \A i \in 1..h : Framed(c)[i] = kContentLength[i]
    BY <1>6 DEF FrameLayout
  <1>9. Spells(stream, c, 0) /\ Len(Framed(c)) = h + d + 4 + n
    <2>1. Spells(stream, c, 0)
      BY <1>4, <1>5, <1>7, Arrived
    <2> QED
      BY <1>6, <2>1 DEF FrameLayout
  <1>10. Read(h) => SubSeq(stream, 1, h) = kContentLength
    <2> SUFFICES ASSUME Read(h) PROVE SubSeq(stream, 1, h) = kContentLength
      OBVIOUS
    <2>1. h <= Len(stream) /\ Len(stream) \in Nat
      BY <1>1 DEF Read
    <2>2. \A i \in 1..h : stream[i] = kContentLength[i]
      BY <1>8, <1>9, <2>1 DEF Spells
    <2> QED
      BY <1>1, <1>8, <2>1, <2>2, PartArrived
  <1>11. CASE Read(h) /\ Goto("length", 1) /\ len' = 0 /\ UNCHANGED got
    <2>1. LengthOf(n)[0] = 0 /\ 0 \in 0..d /\ p + h = o + h + 0
      BY <1>6, <1>7 DEF Reads
    <2>2. Within("length", p + h, 0, o, c)
      BY <1>8, <2>1 DEF Within
    <2>3. Within(pc', p + h, len', off[Len(got)], written[Len(got) + 1])
      BY <1>6, <1>11, <2>2 DEF Goto
    <2> QED
      BY <1>1, <1>2, <1>4, <1>11, <2>3, InvAdvance DEF Goto
  <1>12. CASE Short(h) /\ Fail
    BY <1>1, <1>2, <1>12, InvFail DEF Short, Fail
  <1> QED
    BY <1>8, <1>10, <1>11, <1>12 DEF MatchHeader

LEMMA InvLength ==
    ASSUME ContentInv, ReadLength, Len(got) < Base
    PROVE  ContentInv'
  <1>1. /\ pc = "length" /\ Running /\ UNCHANGED <<pending, eof, written, clean>>
        /\ stream \in Seq(0..255) /\ ReaderNext
    BY Sizes DEF ReadLength, Running, ReaderNext
  <1>2. ContentTypeOK'
    BY <1>1, TypeReader DEF ContentInv
  <1>3. PICK T \in Seq(0..255), p \in Nat : \E off \in [0..Base -> Nat] : Traced(T, p, off)
    BY DEF ContentInv
  <1>4. PICK off \in [0..Base -> Nat] : Traced(T, p, off)
    BY <1>3
  <1>5. PICK c \in Contents, o, h, d, n \in Nat : Ahead(T, p, off, c, o, h, d, n)
    BY <1>1, <1>4, Expected
  <1>6. /\ FrameLayout(c, h, d, n) /\ Reads(LengthOf(n), n)
        /\ o = off[Len(got)] /\ c = written[Len(got) + 1] /\ Within(pc, p, len, o, c)
    BY <1>5 DEF Ahead
  <1>7. /\ h = Len(kContentLength) /\ n = Len(c) /\ d = Len(Decimal[n]) /\ n <= MaxSize
        /\ \A i \in 1..d : /\ Framed(c)[h + i] = Decimal[n][i]
                           /\ Framed(c)[h + i] \in Digits
        /\ Framed(c)[h + d + 1] = CR
    BY <1>6 DEF FrameLayout
  <1>8. PICK i \in 0..d : p = o + h + i /\ len = LengthOf(n)[i]
    BY <1>1, <1>6, <1>7 DEF Within
  <1>9. PICK j \in Nat : j = h + i /\ p = o + j
    BY <1>8
  <1>10. Spells(stream, c, j) /\ Len(Framed(c)) = h + d + 4 + n
    <2>1. Spells(stream, c, j)
      BY <1>4, <1>5, <1>9, Arrived
    <2> QED
      BY <1>6, <2>1 DEF FrameLayout
  <1>11. ASSUME Read(1)
         PROVE  Head(stream) = Framed(c)[h + i + 1]
    <2>1. 1 \in 1..Len(stream) /\ stream # <<>> /\ Head(stream) = stream[1]
      BY <1>1, <1>11 DEF Read
    <2>2. j + 1 <= h + d + 4 + n /\ j + 1 = h + i + 1
      BY <1>8, <1>9
    <2> QED
      BY <1>10, <2>1, <2>2 DEF Spells
  <1>12. CR \notin Digits
    BY DEF CR, Digits
  <1>13. CASE Read(1) /\ i # d
    <2>1. i + 1 \in 1..d /\ h + i + 1 = h + (i + 1)
      BY <1>8, <1>13
    <2>2. PICK b \in Digits : b = Head(stream) /\ b = Decimal[n][i + 1]
      BY <1>7, <1>11, <1>13, <2>1
    <2>3. /\ LengthOf(n)[i + 1] = LengthOf(n)[i] * 10 + (b - 48)
          /\ LengthOf(n)[i + 1] \in 0..n
      <3>1. LengthOf(n)[i + 1] = LengthOf(n)[(i + 1) - 1] * 10 + (Decimal[n][i + 1] - 48)
        BY <1>6, <1>7, <2>1 DEF Reads
      <3>2. (i + 1) - 1 = i /\ i + 1 \in 0..d
        BY <2>1
      <3>3. LengthOf(n) \in [0..d -> 0..n]
        BY <1>6, <1>7 DEF Reads
      <3> QED
        BY <2>2, <3>1, <3>2, <3>3
    <2>4. NextLen(len, b) = LengthOf(n)[i + 1]
      <3>1. PICK x \in Nat : x = LengthOf(n)[i + 1] /\ x <= MaxSize
        <4>1. MaxSize \in Nat
          BY ContentAssumption
        <4> QED
          BY <1>7, <2>3, <4>1
      <3>2. len * 10 + (b - 48) = x
        BY <1>8, <2>3, <3>1
      <3> QED
        BY <3>1, <3>2, WrapsNot DEF NextLen
    <2>5. pc' = "length" /\ len' = LengthOf(n)[i + 1] /\ UNCHANGED got
      BY <1>1, <1>12, <1>13, <2>2, <2>4 DEF ReadLength, Short, Read
    <2>6. p + 1 = o + h + (i + 1) /\ i + 1 \in 0..d
      BY <1>8, <2>1
    <2>7. Within(pc', p + 1, len', off[Len(got)], written[Len(got) + 1])
      BY <1>6, <1>7, <2>5, <2>6 DEF Within
    <2> QED
      BY <1>1, <1>2, <1>4, <1>13, <2>5, <2>7, InvAdvance
  <1>14. CASE Read(1) /\ i = d
    <2>1. Head(stream) = CR
      BY <1>7, <1>11, <1>14
    <2>2. pc' = "newlines" /\ len' = len /\ UNCHANGED got
      BY <1>1, <1>12, <1>14, <2>1 DEF ReadLength, Short, Read, Goto
    <2>3. len = n
      BY <1>6, <1>7, <1>8, <1>14 DEF Reads
    <2>4. p + 1 = o + h + d + 1
      BY <1>8, <1>14
    <2>5. Within(pc', p + 1, len', off[Len(got)], written[Len(got) + 1])
      BY <1>6, <1>7, <2>2, <2>3, <2>4 DEF Within
    <2> QED
      BY <1>1, <1>2, <1>4, <1>14, <2>2, <2>5, InvAdvance
  <1>15. CASE ~Read(1)
    <2>1. Short(1) /\ Fail /\ eof
      BY <1>15 DEF ReadLength, Short
    <2> QED
      BY <1>1, <1>2, <2>1, InvFail DEF Fail
  <1> QED
    BY <1>13, <1>14, <1>15

LEMMA InvNewlines ==
    ASSUME ContentInv, ReadNewlines, Len(got) < Base
    PROVE  ContentInv'
  <1>1. /\ pc = "newlines" /\ Running /\ UNCHANGED <<pending, eof, written, clean>>
        /\ stream \in Seq(0..255) /\ ReaderNext
    BY Sizes DEF ReadNewlines, Running, ReaderNext
  <1>2. ContentTypeOK'
    BY <1>1, TypeReader DEF ContentInv
  <1>3. PICK T \in Seq(0..255), p \in Nat : \E off \in [0..Base -> Nat] : Traced(T, p, off)
    BY DEF ContentInv
  <1>4. PICK off \in [0..Base -> Nat] : Traced(T, p, off)
    BY <1>3
  <1>5. PICK c \in Contents, o, h, d, n \in Nat : Ahead(T, p, off, c, o, h, d, n)
    BY <1>1, <1>4, Expected
  <1>6. /\ FrameLayout(c, h, d, n)
        /\ o = off[Len(got)] /\ c = written[Len(got) + 1] /\ Within(pc, p, len, o, c)
    BY <1>5 DEF Ahead
  <1>7. /\ h = Len(kContentLength) /\ n = Len(c) /\ d = Len(Decimal[n])
        /\ Framed(c)[h + d + 2] = LF /\ Framed(c)[h + d + 3] = CR /\ Framed(c)[h + d + 4] = LF
        /\ Len(Framed(c)) = h + d + 4 + n
    BY <1>6 DEF FrameLayout
  <1>8. p = o + h + d + 1 /\ len = n
    BY <1>1, <1>6, <1>7 DEF Within
  <1>9. PICK j \in Nat : j = h + d + 1 /\ p = o + j
    BY <1>8
  <1>10. Spells(stream, c, j)
    BY <1>4, <1>5, <1>9, Arrived
  <1>11. CASE Read(3)
    <2>1. 3 <= Len(stream) /\ Len(stream) \in Nat
      BY <1>1, <1>11 DEF Read
    <2>2. /\ 1 \in 1..Len(stream) /\ 2 \in 1..Len(stream) /\ 3 \in 1..Len(stream)
          /\ j + 1 = h + d + 2 /\ j + 2 = h + d + 3 /\ j + 3 = h + d + 4
          /\ j + 1 <= h + d + 4 + n /\ j + 2 <= h + d + 4 + n /\ j + 3 <= h + d + 4 + n
      BY <1>9, <2>1
    <2>3. stream[1] = LF /\ stream[2] = CR /\ stream[3] = LF
      BY <1>7, <1>10, <2>2 DEF Spells
    <2>4. PICK part \in Seq(0..255) : part = <<LF, CR, LF>> /\ Len(part) = 3
      <3>1. <<LF, CR, LF>> \in Seq(0..255) /\ Len(<<LF, CR, LF>>) = 3
        BY DEF LF, CR
      <3> QED
        BY <3>1
    <2>5. \A i \in 1..Len(part) : stream[i] = part[i]
      BY <2>3, <2>4
    <2>6. SubSeq(stream, 1, 3) = <<LF, CR, LF>>
      BY <1>1, <2>1, <2>4, <2>5, PartArrived
    <2>7. pc' = "content" /\ len' = len /\ UNCHANGED got
      BY <1>11, <2>1, <2>6 DEF ReadNewlines, Short
    <2>8. p + 3 = o + h + d + 4
      BY <1>8
    <2>9. Within(pc', p + 3, len', off[Len(got)], written[Len(got) + 1])
      BY <1>6, <1>7, <1>8, <2>7, <2>8 DEF Within
    <2> QED
      BY <1>1, <1>2, <1>4, <1>11, <2>7, <2>9, InvAdvance
  <1>12. CASE ~Read(3)
    <2>1. Short(3) /\ Fail /\ eof
      BY <1>12 DEF ReadNewlines, Short
    <2> QED
      BY <1>1, <1>2, <2>1, InvFail DEF Fail
  <1> QED
    BY <1>11, <1>12

LEMMA InvContent ==
    ASSUME ContentInv, ReadContent, Len(got) < Base
    PROVE  ContentInv'
  <1>1. /\ pc = "content" /\ Running /\ UNCHANGED <<pending, eof, written, clean>>
        /\ stream \in Seq(0..255) /\ got \in Seq(Seq(0..255)) /\ ReaderNext
        /\ Base \in Nat /\ Len(got) \in Nat /\ Kept /\ FailsAtEnd
        /\ \A k \in 1..Base : written[k] \in Contents
        /\ clean = -1 => Base = Len(written)
    BY Sizes DEF ReadContent, Running, ReaderNext
  <1>2. ContentTypeOK'
    BY <1>1, TypeReader DEF ContentInv
  <1>3. PICK T \in Seq(0..255), p \in Nat : \E off \in [0..Base -> Nat] : Traced(T, p, off)
    BY DEF ContentInv
  <1>4. PICK off \in [0..Base -> Nat] : Traced(T, p, off)
    BY <1>3
  <1>5. PICK c \in Contents, o, h, d, n \in Nat : Ahead(T, p, off, c, o, h, d, n)
    BY <1>1, <1>4, Expected
  <1>6. /\ FrameLayout(c, h, d, n) /\ off[Len(got) + 1] = o + (h + d + 4 + n)
        /\ o = off[Len(got)] /\ c = written[Len(got) + 1] /\ Within(pc, p, len, o, c)
    BY <1>5 DEF Ahead
  <1>7. /\ h = Len(kContentLength) /\ n = Len(c) /\ d = Len(Decimal[n]) /\ n <= MaxSize
        /\ c \in Seq(0..255) /\ Len(Framed(c)) = h + d + 4 + n
        /\ \A i \in 1..n : Framed(c)[h + d + 4 + i] = c[i]
    BY <1>6 DEF FrameLayout
  <1>8. p = o + h + d + 4 /\ len = n
    BY <1>1, <1>6, <1>7 DEF Within
  <1>9. PICK j \in Nat : j = h + d + 4 /\ p = o + j
    BY <1>8
  <1>10. Spells(stream, c, j)
    BY <1>4, <1>5, <1>9, Arrived
  <1>11. len <= MaxSize /\ ~(len > MaxSize)
    <2>1. MaxSize \in Nat
      BY ContentAssumption
    <2> QED
      BY <1>7, <1>8, <2>1
  <1>12. CASE Read(n)
    <2>1. n <= Len(stream) /\ Len(stream) \in Nat
      BY <1>1, <1>12 DEF Read
    <2>2. \A i \in 1..n : stream[i] = c[i]
      <3>1. \A i \in 1..n : i \in 1..Len(stream) /\ j + i <= h + d + 4 + n /\ j + i = h + d + 4 + i
        BY <1>9, <2>1
      <3>2. Len(Framed(c)) = h + d + 4 + n
        BY <1>7
      <3>3. \A i \in 1..n : stream[i] = Framed(c)[j + i]
        BY <1>10, <3>1, <3>2, Zenon DEF Spells
      <3>4. \A i \in 1..n : Framed(c)[h + d + 4 + i] = c[i]
        BY <1>7
      <3> QED
        BY <3>1, <3>3, <3>4, Zenon
    <2>3. SubSeq(stream, 1, n) = c
      BY <1>1, <1>7, <2>1, <2>2, PartArrived
    <2>4. pc' = "header" /\ got' = Append(got, c)
      BY <1>8, <1>11, <1>12, <2>1, <2>3 DEF ReadContent, Short, Throw, Goto
    <2>5. /\ Len(got') = Len(got) + 1 /\ got'[Len(got) + 1] = c
          /\ \A k \in 1..Len(got) : got'[k] = got[k]
      BY <1>1, <1>7, <2>4, Appends DEF OneMore
    <2>6. PICK g \in Nat : g = Len(got) /\ Len(got') = g + 1 /\ g < Base
      BY <1>1, <2>5
    <2>7. Base' = Base
      BY <1>1 DEF Base
    <2>8. Kept'
      <3>1. \A k \in 1..(g + 1) : k <= Base => got'[k] = written[k]
        <4> SUFFICES ASSUME NEW k \in 1..(g + 1), k <= Base PROVE got'[k] = written[k]
          OBVIOUS
        <4>1. CASE k = g + 1
          BY <1>6, <2>5, <2>6, <4>1
        <4>2. CASE k # g + 1
          <5>1. k \in 1..Len(got)
            BY <2>6, <4>2
          <5>2. got[k] = written[k]
            BY <1>1, <5>1 DEF Kept
          <5> QED
            BY <2>5, <5>1, <5>2
        <4> QED
          BY <4>1, <4>2
      <3>2. clean = -1 => g + 1 <= Len(written)
        BY <1>1, <2>6
      <3>3. clean # -1 => clean <= Len(written)
        BY <1>1 DEF Kept
      <3> QED
        BY <1>1, <2>6, <2>7, <3>1, <3>2, <3>3 DEF Kept
    <2>9. FailsAtEnd'
      BY <2>4 DEF FailsAtEnd
    <2>10. Carries(T, p, stream, pending, eof)
      BY <1>4 DEF Traced
    <2>11. PICK q \in Nat : Carries(T, q, stream', pending, eof) /\ q = p + n
      BY <1>12, <2>10, Consumed
    <2>12. q = off[g + 1]
      <3>1. off[g + 1] = o + (h + d + 4 + n)
        BY <1>6, <2>6
      <3>2. q = o + (h + d + 4 + n)
        BY <1>8, <2>11
      <3> QED
        BY <3>1, <3>2
    <2>13. Position(T, q, off)'
      <3>1. g + 1 < Base => Within("header", q, len', off[g + 1], written[g + 2])
        BY <2>12 DEF Within
      <3>2. g + 1 = Base /\ clean = -1 => q = Len(T)
        BY <1>4, <2>12 DEF Traced
      <3>3. (g + 1) + 1 = g + 2
        OBVIOUS
      <3> QED
        BY <1>1, <2>4, <2>6, <2>7, <3>1, <3>2, <3>3 DEF Position
    <2>14. Traced(T, q, off)'
      BY <1>1, <1>4, <2>7, <2>11, <2>13 DEF Traced
    <2> QED
      BY <1>2, <2>7, <2>8, <2>9, <2>14 DEF ContentInv
  <1>13. CASE ~Read(n)
    <2>1. Short(n) /\ Fail /\ eof
      BY <1>8, <1>11, <1>13 DEF ReadContent, Short, Throw
    <2> QED
      BY <1>1, <1>2, <2>1, InvFail DEF Fail
  <1> QED
    BY <1>12, <1>13

LEMMA InvReader == ContentInv /\ ReaderNext => ContentInv'
  <1> SUFFICES ASSUME ContentInv, ReaderNext PROVE ContentInv'
    OBVIOUS
  <1>1. /\ Base \in Nat /\ Len(got) \in Nat /\ got \in Seq(Seq(0..255))
        /\ clean = -1 => Len(got) <= Base
        /\ ContentTypeOK /\ stream \in Seq(0..255)
    BY Sizes
  <1>2. CASE Len(got) < Base
    BY <1>2, InvHeader, InvLength, InvNewlines, InvContent DEF ReaderNext
  <1>3. CASE Len(got) = Base /\ clean = -1
    BY <1>3, InvAtEnd
  <1>4. CASE Len(got) >= Base /\ clean # -1
    <2>1. ContentTypeOK' /\ UNCHANGED <<pending, eof, written, clean>>
      BY <1>1, TypeReader DEF ReaderNext, MatchHeader, ReadLength, ReadNewlines, ReadContent
    <2>2. len \in Nat /\ Len(kContentLength) \in Nat
      BY <1>1, ContentAssumption DEF ContentTypeOK
    <2>3. UNCHANGED stream \/ \E n \in Nat : Read(n) \/ Short(n)
      BY <2>2 DEF ReaderNext, MatchHeader, ReadLength, ReadNewlines, ReadContent, Throw
    <2>4. \/ got' = got
          \/ len <= MaxSize /\ Read(len) /\ got' = Append(got, SubSeq(stream, 1, len))
      BY DEF ReaderNext, MatchHeader, ReadLength, ReadNewlines, ReadContent, Throw, Fail
    <2>5. /\ Len(got') \in Nat /\ Len(got') >= Len(got)
          /\ \A k \in 1..Len(got) : got'[k] = got[k]
      <3>1. CASE got' = got
        BY <1>1, <3>1
      <3>2. CASE Read(len) /\ got' = Append(got, SubSeq(stream, 1, len))
        <4>1. len <= Len(stream)
          BY <1>1, <2>2, <3>2 DEF Read
        <4>2. SubSeq(stream, 1, len) \in Seq(0..255)
          BY <1>1, <2>2, <4>1, Takes DEF Begins
        <4>3. Len(got') = Len(got) + 1 /\ \A k \in 1..Len(got) : got'[k] = got[k]
          BY <1>1, <3>2, <4>2, Appends DEF OneMore
        <4> QED
          BY <1>1, <4>3
      <3> QED
        BY <2>4, <3>1, <3>2
    <2> QED
      BY <1>4, <2>1, <2>3, <2>5, InvFree
  <1> QED
    BY <1>1, <1>2, <1>3, <1>4
-----------------------------------------------------------------------------
LEMMA InvStep == ContentInv /\ [ContentNext]_contentVars => ContentInv'
  <1> SUFFICES ASSUME ContentInv, [ContentNext]_contentVars PROVE ContentInv'
    OBVIOUS
  <1>1. CASE UNCHANGED contentVars
    <2>1. ContentTypeOK'
      BY <1>1, TypeStep DEF ContentInv
    <2>2. UNCHANGED <<pc, len, written, got, clean, stream, pending, eof>>
      BY <1>1 DEF contentVars
    <2> QED
      BY <2>1, <2>2, InvCarried
  <1> QED
    BY <1>1, InvWrite, InvStray, InvArrive, InvClose, InvReader DEF ContentNext

(* No step of ReadContent() or WriteContent() leaves the types of the      *)
(* variables: the length never exceeds a uint64_t, for one.                *)
THEOREM ContentTypes == ContentSpec => []ContentTypeOK
  BY TypeInit, TypeStep, PTL DEF ContentSpec

(* What WriteContent() frames ReadContent() unframes: whole, unchanged, in *)
(* the order written, whatever the contents look like, wherever the stream *)
(* is cut and ends (content_stream.cc:57-95, 97-101).                     *)
THEOREM ContentsArriveIntact == ContentSpec => []ContentsIntact
  <1>1. ContentInv => ContentsIntact
    <2> SUFFICES ASSUME ContentInv PROVE ContentsIntact
      OBVIOUS
    <2>1. /\ Kept /\ written \in Seq(Contents) /\ got \in Seq(Seq(0..255))
          /\ Len(got) \in Nat /\ Len(written) \in Nat
          /\ clean = -1 => Len(got) <= Base /\ Base = Len(written)
          /\ clean # -1 => Base = clean
          /\ clean \in Nat \cup {-1}
      BY Sizes
    <2>2. clean = -1 => IsPrefix(got, written)
      <3> SUFFICES ASSUME clean = -1 PROVE IsPrefix(got, written)
        OBVIOUS
      <3>1. Len(got) <= Len(written) /\ \A k \in 1..Len(got) : got[k] = written[k]
        BY <2>1 DEF Kept
      <3>2. SubSeq(got, 1, Len(got)) = SubSeq(written, 1, Len(got))
        BY <2>1, <3>1
      <3> QED
        BY <3>1, <3>2 DEF IsPrefix
    <2>3. \A k \in 1..Len(got) : k <= clean => got[k] = written[k]
      BY <2>1 DEF Kept
    <2> QED
      BY <2>2, <2>3 DEF ContentsIntact
  <1> QED
    BY InvInit, InvStep, <1>1, PTL DEF ContentSpec

(* ReadContent() fails or throws only when the stream has ended or carried *)
(* something else than messages.                                           *)
THEOREM FailsOnlyAtEnd == ContentSpec => []FailsAtEnd
  <1>1. ContentInv => FailsAtEnd
    BY DEF ContentInv
  <1> QED
    BY InvInit, InvStep, <1>1, PTL DEF ContentSpec
=============================================================================
