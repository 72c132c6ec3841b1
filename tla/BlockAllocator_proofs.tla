------------------------ MODULE BlockAllocator_proofs ------------------------
(***************************************************************************)
(* Proofs about BlockAllocator for any number of allocators, blocks, types *)
(* and objects, any sizes and alignments.                                  *)
(***************************************************************************)
EXTENDS BlockAllocator, FiniteSetTheorems, SequenceTheorems, TLAPS

(***************************************************************************)
(* The inductive invariant.                                                *)
(***************************************************************************)
Places == Addresses \cup {Null}

Fields == [blocks : Seq(Blocks), current_offset : Nat, count : Nat,
           root : Places, current : Places]

Objects == [at : Addresses, type : Types,
            fate : {"constructing", "alive", "failed", "unlisted", "destructed"}]

Chunks(n) == [ptrs : Seq(1..n), next : Places, prev : Places]

DataOK == live \subseteq Allocators /\ data \in [Allocators -> Fields] /\ heap \subseteq Blocks

ChunksOK ==
    /\ DOMAIN chunks \subseteq Addresses
    /\ chunks \in [DOMAIN chunks -> Chunks(Len(objects))]
    /\ \A p \in DOMAIN chunks : Len(chunks[p].ptrs) \in 1..kMax

ObjectsOK ==
    /\ objects \in Seq(Objects) /\ Len(objects) <= MaxObjects
    /\ building \in Seq([in : Allocators, object : 1..Len(objects)])

IteratorOK ==
    iterator \in [of : Allocators \cup {Null}, ptrs : Places,
                  idx : 0..(kMax - 1), seen : Seq(1..Len(objects))]

(* The heap's blocks: each has one owner, and only a live allocator has any. *)
Own(a) == Range(data[a].blocks)

BlocksInv ==
    /\ BlocksOwned
    /\ \A a \in Allocators \ live : data[a] = EmptyData
    /\ \A a \in Allocators : data[a].blocks = <<>> => data[a].current_offset >= BlockSize

(* What lies in the block that an allocator carves from ends at its offset. *)
MemoryInv ==
    /\ NoOverlap
    /\ \A a \in Allocators, x \in Extents :
           data[a].blocks # <<>> /\ x.at[1] = Last(data[a].blocks)
               => x.at[2] + x.type.size <= data[a].current_offset

(* The constructors that run are those of the objects under construction.  *)
BuildingInv ==
    /\ \A i \in DOMAIN building :
           LET n == building[i].object
           IN  /\ building[i].in \in live
               /\ objects[n].fate = "constructing"
               /\ objects[n].at[1] \in Own(building[i].in)
               /\ \A j \in DOMAIN building : building[j].object = n => j = i
    /\ \A n \in DOMAIN objects :
           objects[n].fate = "constructing" =>
               \E i \in DOMAIN building : building[i].object = n

(* The chunks of an allocator are in its blocks, and linked from the root  *)
(* to the current one.                                                     *)
ChunksOf(a) == {p \in DOMAIN chunks : p[1] \in Own(a)}

LinksInv ==
    \A a \in Allocators :
        /\ data[a].root = Null => data[a].current = Null /\ ChunksOf(a) = {}
        /\ data[a].root # Null => data[a].root \in ChunksOf(a) /\ data[a].current \in ChunksOf(a)
        /\ \A p \in ChunksOf(a) :
               IF p = data[a].current THEN chunks[p].next = Null
               ELSE chunks[p].next \in ChunksOf(a)

(* The links lead upwards, so that following them ends. *)
Climbs(ch, rank) ==
    \A p \in DOMAIN ch : ch[p].next \in DOMAIN ch => rank[p] < rank[ch[p].next]

Ranked(ch) == \E top \in Nat : \E rank \in [DOMAIN ch -> 0..top] : Climbs(ch, rank)

(* ListedFrom is what its definition asks for. *)
Lists(ch, f) ==
    f = [p \in DOMAIN ch \cup {Null} |-> IF p = Null THEN <<>> ELSE ch[p].ptrs \o f[ch[p].next]]

ListInv ==
    /\ Ranked(chunks)
    /\ Lists(chunks, ListedFrom)
    /\ ListedFrom \in [DOMAIN chunks \cup {Null} -> Seq(1..Len(objects))]

(* What is listed from the iterator on *)
ToCome(it) ==
    SubSeq(chunks[it.ptrs].ptrs, it.idx + 2, Len(chunks[it.ptrs].ptrs))
        \o ListedFrom[chunks[it.ptrs].next]

IteratorInv ==
    iterator.of # Null =>
        /\ iterator.of \in live
        /\ iterator.ptrs = Null => IsPrefix(iterator.seen, Listed[iterator.of])
        /\ iterator.ptrs # Null =>
               /\ iterator.ptrs \in ChunksOf(iterator.of)
               /\ iterator.idx < Len(chunks[iterator.ptrs].ptrs)
               /\ iterator.seen # <<>>
               /\ Last(iterator.seen) = Deref(iterator.ptrs, iterator.idx)
               /\ Listed[iterator.of] = iterator.seen \o ToCome(iterator)

NoneIterates == iterator.of = Null => iterator = NoIterator

IInv ==
    /\ DataOK /\ ChunksOK /\ ObjectsOK /\ IteratorOK
    /\ BlocksInv /\ MemoryInv /\ BuildingInv
    /\ LinksInv /\ ListInv /\ ListsItsObjects
    /\ IteratorInv /\ NoneIterates
-----------------------------------------------------------------------------
(* Facts about numbers, sequences and functions. *)

LEMMA LeastNumber ==
    ASSUME NEW T \in SUBSET Nat, T # {}
    PROVE  \E m \in T : \A k \in T : ~(k < m)
  <1>1. IsWellFoundedOn(OpToRel(<, Nat), Nat)
    BY NatLessThanWellFounded, Zenon
  <1> DEFINE R == OpToRel(<, Nat)
  <1>2. \A y, x \in Nat : y < x => <<y, x>> \in R
    BY DEF OpToRel
  <1> HIDE DEF R
  <1>3. \E x \in T : \A y \in T : ~(<<y, x>> \in R)
    BY <1>1, WFMin, Zenon DEF R
  <1> QED
    BY <1>2, <1>3

LEMMA RoundsUp ==
    ASSUME NEW a \in Nat \ {0}, NEW v \in Nat
    PROVE  /\ RoundUp(a, v) \in Nat
           /\ RoundUp(a, v) >= v
           /\ RoundUp(a, v) % a = 0
  BY DEF RoundUp

LEMMA AppendFacts ==
    ASSUME NEW S, NEW s \in Seq(S), NEW e \in S
    PROVE  /\ Append(s, e) \in Seq(S)
           /\ Len(Append(s, e)) = Len(s) + 1
           /\ Last(Append(s, e)) = e
           /\ Append(s, e) # <<>>
           /\ Range(Append(s, e)) = Range(s) \cup {e}
           /\ IsInjective(s) /\ e \notin Range(s) => IsInjective(Append(s, e))
           /\ IsPrefix(s, Append(s, e))
  <1> DEFINE r == Append(s, e)
  <1>1. /\ r \in Seq(S) /\ Len(r) = Len(s) + 1 /\ Len(s) \in Nat
        /\ DOMAIN s = 1..Len(s) /\ DOMAIN r = 1..(Len(s) + 1)
        /\ \A i \in 1..Len(s) : r[i] = s[i]
        /\ r[Len(s) + 1] = e
    OBVIOUS
  <1>2. SubSeq(s, 1, Len(s)) = SubSeq(r, 1, Len(s))
    BY <1>1
  <1> HIDE DEF r
  <1>3. Range(r) = Range(s) \cup {e}
    BY <1>1 DEF Range
  <1>4. IsInjective(s) /\ e \notin Range(s) => IsInjective(r)
    BY <1>1 DEF IsInjective, Range
  <1>5. r # <<>> /\ r[Len(r)] = e
    BY <1>1
  <1> QED
    BY <1>1, <1>2, <1>3, <1>4, <1>5 DEF r, Last, IsPrefix

LEMMA LastFacts ==
    ASSUME NEW S, NEW s \in Seq(S), s # <<>>
    PROVE  /\ Len(s) \in DOMAIN s /\ DOMAIN s = 1..Len(s) /\ Len(s) \in Nat \ {0}
           /\ Last(s) \in S /\ Last(s) \in Range(s)
           /\ Front(s) \in Seq(S) /\ Len(Front(s)) = Len(s) - 1
           /\ \A i \in DOMAIN Front(s) : i \in DOMAIN s /\ i # Len(s) /\ Front(s)[i] = s[i]
           /\ \A i \in DOMAIN s : i # Len(s) => i \in DOMAIN Front(s)
  <1>1. Len(s) \in DOMAIN s /\ DOMAIN s = 1..Len(s) /\ Len(s) \in Nat \ {0}
    OBVIOUS
  <1>2. \A i \in 1..(Len(s) - 1) : s[i] \in S
    BY <1>1
  <1>3. /\ Front(s) \in Seq(S) /\ Len(Front(s)) = Len(s) - 1
        /\ \A i \in 1..(Len(s) - 1) : Front(s)[i] = s[i]
    BY <1>1, <1>2, SubSeqProperties DEF Front
  <1>4. DOMAIN Front(s) = 1..(Len(s) - 1)
    BY <1>3
  <1> QED
    BY <1>1, <1>3, <1>4 DEF Last, Range

LEMMA SeqWidens ==
    \A S, T : S \subseteq T => \A s \in Seq(S) : s \in Seq(T)
  BY SeqMonotonic

LEMMA ConcatAppend ==
    \A S : \A s, t \in Seq(S) : \A e \in S : s \o Append(t, e) = Append(s \o t, e)
  OBVIOUS
-----------------------------------------------------------------------------
(* Following the links.  The function that lists is unique, since the     *)
(* links end, and known when there is one.                                 *)

LEMMA ListsUnique ==
    ASSUME NEW ch, Null \notin DOMAIN ch, Ranked(ch),
           \A p \in DOMAIN ch : ch[p].next \in DOMAIN ch \cup {Null},
           NEW f, NEW g, Lists(ch, f), Lists(ch, g)
    PROVE  f = g
  <1>0. PICK top \in Nat : \E rank \in [DOMAIN ch -> 0..top] : Climbs(ch, rank)
    BY DEF Ranked
  <1>1. PICK rank \in [DOMAIN ch -> 0..top] : Climbs(ch, rank)
    BY <1>0
  <1> DEFINE Rest(p) == top - rank[p]
             T == {Rest(p) : p \in {q \in DOMAIN ch : f[q] # g[q]}}
  <1>2. \A p \in DOMAIN ch \cup {Null} :
            /\ f[p] = IF p = Null THEN <<>> ELSE ch[p].ptrs \o f[ch[p].next]
            /\ g[p] = IF p = Null THEN <<>> ELSE ch[p].ptrs \o g[ch[p].next]
    BY Zenon DEF Lists
  <1>3. \A p \in DOMAIN ch : Rest(p) \in Nat
    BY <1>1
  <1>4. \A p \in DOMAIN ch : ch[p].next \in DOMAIN ch => Rest(ch[p].next) < Rest(p)
    BY <1>1, <1>3 DEF Climbs
  <1> HIDE DEF Rest
  <1>5. ASSUME T # {}
        PROVE  FALSE
    <2>1. T \in SUBSET Nat
      BY <1>3
    <2>2. PICK m \in T : \A k \in T : ~(k < m)
      BY <1>5, <2>1, LeastNumber, Zenon
    <2>3. PICK p \in DOMAIN ch : f[p] # g[p] /\ m = Rest(p)
      BY <2>2
    <2>4. f[ch[p].next] # g[ch[p].next]
      BY <1>2, <2>3
    <2>5. ch[p].next \in DOMAIN ch
      BY <1>2, <2>3, <2>4
    <2> QED
      BY <1>4, <2>2, <2>3, <2>4, <2>5
  <1>6. \A p \in DOMAIN ch \cup {Null} : f[p] = g[p]
    BY <1>2, <1>5
  <1>7. /\ f = [p \in DOMAIN ch \cup {Null} |-> f[p]]
        /\ g = [p \in DOMAIN ch \cup {Null} |-> g[p]]
    BY Zenon DEF Lists
  <1> QED
    BY <1>6, <1>7, Zenon

LEMMA ListedFromIs ==
    ASSUME Null \notin DOMAIN chunks, Ranked(chunks),
           \A p \in DOMAIN chunks : chunks[p].next \in DOMAIN chunks \cup {Null},
           NEW f, Lists(chunks, f)
    PROVE  ListedFrom = f
  <1>1. Lists(chunks, ListedFrom)
    BY DEF Lists, ListedFrom
  <1> QED
    BY <1>1, ListsUnique, Zenon

LEMMA ListedFromIsNext ==
    ASSUME Null \notin DOMAIN chunks', Ranked(chunks'),
           \A p \in DOMAIN chunks' : chunks'[p].next \in DOMAIN chunks' \cup {Null},
           NEW f, Lists(chunks', f)
    PROVE  ListedFrom' = f
  <1>1. Lists(chunks', ListedFrom')
    BY DEF Lists, ListedFrom
  <1> QED
    BY <1>1, ListsUnique, Zenon

LEMMA ListedFromAt ==
    ASSUME ListInv
    PROVE  /\ ListedFrom[Null] = <<>>
           /\ \A p \in DOMAIN chunks :
                  p # Null => ListedFrom[p] = chunks[p].ptrs \o ListedFrom[chunks[p].next]
  <1>1. \A p \in DOMAIN chunks \cup {Null} :
            ListedFrom[p] = IF p = Null THEN <<>>
                            ELSE chunks[p].ptrs \o ListedFrom[chunks[p].next]
    BY Zenon DEF ListInv, Lists
  <1> QED
    BY <1>1
-----------------------------------------------------------------------------
(* Every chunk is one allocator's, and so is what it links to. *)
LinkedInv ==
    /\ DataOK /\ ChunksOK /\ ObjectsOK /\ BlocksOwned /\ LinksInv /\ ListInv
    /\ \A p \in DOMAIN chunks : p[1] \in heap

LEMMA LinkedFromIInv == IInv => LinkedInv
  <1> SUFFICES ASSUME IInv, NEW p \in DOMAIN chunks
               PROVE  p[1] \in heap
    BY DEF IInv, LinkedInv, BlocksInv
  <1> DEFINE x == [at |-> p, type |-> Pointers, what |-> 0]
  <1>1. x \in Extents
    BY DEF Extents
  <1>2. x.at[1] \in heap
    BY <1>1 DEF IInv, MemoryInv, NoOverlap
  <1> QED
    BY <1>2

LEMMA NullIsNowhere ==
    /\ Null \notin Addresses /\ Null \notin Allocators
    /\ DataOK /\ ChunksOK => Null \notin DOMAIN chunks
  BY AllocatorAssumption DEF Addresses, ChunksOK

LEMMA ChunkOwners ==
    ASSUME LinkedInv
    PROVE  /\ \A p \in DOMAIN chunks : \E c \in Allocators : p \in ChunksOf(c)
           /\ \A c, d \in Allocators : c # d => ChunksOf(c) \cap ChunksOf(d) = {}
           /\ \A c \in Allocators : ChunksOf(c) \subseteq DOMAIN chunks
           /\ \A c \in Allocators : \A p \in ChunksOf(c) :
                  /\ chunks[p].next \in ChunksOf(c) \cup {Null}
                  /\ chunks[p].next = Null <=> p = data[c].current
           /\ \A p \in DOMAIN chunks : chunks[p].next \in DOMAIN chunks \cup {Null}
           /\ Null \notin DOMAIN chunks
  <1>1. Null \notin DOMAIN chunks
    BY NullIsNowhere DEF LinkedInv
  <1>2. \A c \in Allocators : ChunksOf(c) \subseteq DOMAIN chunks
    BY DEF ChunksOf
  <1>3. \A c \in Allocators : \A p \in ChunksOf(c) :
            /\ chunks[p].next \in ChunksOf(c) \cup {Null}
            /\ chunks[p].next = Null <=> p = data[c].current
    BY <1>1, <1>2 DEF LinkedInv, LinksInv
  <1>4. \A p \in DOMAIN chunks : \E c \in Allocators : p \in ChunksOf(c)
    BY DEF LinkedInv, ChunksOf, BlocksOwned, Own
  <1>5. \A c, d \in Allocators : c # d => ChunksOf(c) \cap ChunksOf(d) = {}
    BY DEF LinkedInv, ChunksOf, BlocksOwned, Own
  <1> QED
    BY <1>1, <1>2, <1>3, <1>4, <1>5

(* What is listed from each chunk of a grows by n. *)
Grown(a, n) ==
    \A q \in DOMAIN chunks \cup {Null} :
        ListedFrom'[q] = IF q \in ChunksOf(a) THEN Append(ListedFrom[q], n) ELSE ListedFrom[q]

Appends(a, n) ==
    ChunkHasRoom(a) /\ chunks' = [chunks EXCEPT ![data[a].current].ptrs = Append(@, n)]

LEMMA AppendsToChunk ==
    ASSUME LinkedInv, NEW a \in Allocators, NEW n, Appends(a, n)
    PROVE  /\ data[a].current \in ChunksOf(a)
           /\ DOMAIN chunks' = DOMAIN chunks
           /\ \A q \in DOMAIN chunks :
                  /\ chunks'[q].next = chunks[q].next
                  /\ chunks'[q].prev = chunks[q].prev
                  /\ chunks'[q].ptrs = IF q = data[a].current THEN Append(chunks[q].ptrs, n)
                                       ELSE chunks[q].ptrs
  <1>1. data[a].current \in DOMAIN chunks
    BY DEF Appends, ChunkHasRoom
  <1>2. data[a].current \in ChunksOf(a)
    BY <1>1, NullIsNowhere DEF LinkedInv, LinksInv
  <1>3. \A q \in DOMAIN chunks : chunks[q] \in Chunks(Len(objects))
    BY DEF LinkedInv, ChunksOK
  <1> QED
    BY <1>1, <1>2, <1>3 DEF Appends, LinkedInv, ChunksOK, Chunks

LEMMA AppendGrowsList ==
    ASSUME LinkedInv, NEW a \in Allocators, NEW n \in 1..Len(objects), Appends(a, n)
    PROVE  Grown(a, n) /\ Ranked(chunks') /\ Lists(chunks', ListedFrom')
           /\ DOMAIN ListedFrom' = DOMAIN chunks \cup {Null}
  <1> DEFINE S == 1..Len(objects)
             cur == data[a].current
             f == [q \in DOMAIN chunks \cup {Null} |->
                      IF q \in ChunksOf(a) THEN Append(ListedFrom[q], n) ELSE ListedFrom[q]]
  <1>1. /\ cur \in ChunksOf(a)
        /\ DOMAIN chunks' = DOMAIN chunks
        /\ \A q \in DOMAIN chunks :
               /\ chunks'[q].next = chunks[q].next
               /\ chunks'[q].ptrs = IF q = cur THEN Append(chunks[q].ptrs, n)
                                    ELSE chunks[q].ptrs
    BY AppendsToChunk
  <1>2. Ranked(chunks')
    <2>1. PICK top \in Nat : \E rank \in [DOMAIN chunks -> 0..top] : Climbs(chunks, rank)
      BY DEF LinkedInv, ListInv, Ranked
    <2>2. PICK rank \in [DOMAIN chunks -> 0..top] : Climbs(chunks, rank)
      BY <2>1
    <2>3. rank \in [DOMAIN chunks' -> 0..top] /\ Climbs(chunks', rank)
      BY <1>1, <2>2 DEF Climbs
    <2> QED
      BY <2>3 DEF Ranked
  <1>3. /\ \A q \in DOMAIN chunks : chunks[q].ptrs \in Seq(S)
        /\ \A q \in DOMAIN chunks \cup {Null} : ListedFrom[q] \in Seq(S)
    BY DEF LinkedInv, ChunksOK, Chunks, ListInv
  <1>4. /\ ListedFrom[Null] = <<>>
        /\ \A q \in DOMAIN chunks : ListedFrom[q] = chunks[q].ptrs \o ListedFrom[chunks[q].next]
    BY ListedFromAt, ChunkOwners DEF LinkedInv
  <1>5. ASSUME NEW q \in DOMAIN chunks
        PROVE  f[q] = chunks'[q].ptrs \o f[chunks'[q].next]
    <2>1. chunks[q].next \in DOMAIN chunks \cup {Null}
      BY ChunkOwners
    <2>2. CASE q = cur
      <3>1. chunks[q].next = Null
        BY <1>1, <2>2, ChunkOwners
      <3>2. f[q] = Append(chunks[q].ptrs \o <<>>, n)
        BY <1>1, <1>4, <2>2, <3>1
      <3>3. f[chunks'[q].next] = <<>>
        BY <1>1, <1>4, <3>1, ChunkOwners
      <3>4. chunks'[q].ptrs = Append(chunks[q].ptrs, n)
        BY <1>1, <2>2
      <3> HIDE DEF f
      <3> QED
        BY <1>3, <3>2, <3>3, <3>4
    <2>3. CASE q # cur /\ q \in ChunksOf(a)
      <3>1. chunks[q].next \in ChunksOf(a)
        BY <2>3, ChunkOwners
      <3>2. f[q] = Append(chunks[q].ptrs \o ListedFrom[chunks[q].next], n)
        BY <1>4, <2>3
      <3>3. f[chunks'[q].next] = Append(ListedFrom[chunks[q].next], n)
        BY <1>1, <2>1, <3>1
      <3>4. chunks'[q].ptrs = chunks[q].ptrs
        BY <1>1, <2>3
      <3>5. chunks[q].ptrs \o Append(ListedFrom[chunks[q].next], n)
            = Append(chunks[q].ptrs \o ListedFrom[chunks[q].next], n)
        <4>1. /\ chunks[q].ptrs \in Seq(S) /\ ListedFrom[chunks[q].next] \in Seq(S)
              /\ n \in S
          BY <1>3, <2>1
        <4>2. \A s, t \in Seq(S) : \A e \in S : s \o Append(t, e) = Append(s \o t, e)
          BY ConcatAppend
        <4> HIDE DEF S
        <4> QED
          BY <4>1, <4>2, Zenon
      <3> HIDE DEF f
      <3> QED
        BY <3>2, <3>3, <3>4, <3>5
    <2>4. CASE q \notin ChunksOf(a)
      <3>1. chunks[q].next \notin ChunksOf(a)
        BY <2>4, ChunkOwners
      <3> QED
        BY <1>1, <1>4, <2>1, <2>4, <3>1
    <2> QED
      BY <2>2, <2>3, <2>4
  <1>6. f[Null] = <<>> /\ Null \notin DOMAIN chunks
    BY <1>4, ChunkOwners
  <1>7. Lists(chunks', f)
    <2>1. \A q \in DOMAIN chunks' \cup {Null} :
              f[q] = IF q = Null THEN <<>> ELSE chunks'[q].ptrs \o f[chunks'[q].next]
      BY <1>1, <1>5, <1>6
    <2>2. f = [q \in DOMAIN chunks' \cup {Null} |-> f[q]]
      BY <1>1
    <2> HIDE DEF f
    <2> QED
      BY <2>1, <2>2 DEF Lists
  <1>8. \A q \in DOMAIN chunks' : chunks'[q].next \in DOMAIN chunks' \cup {Null}
    BY <1>1, ChunkOwners
  <1>9. ListedFrom' = f
    <2> HIDE DEF f
    <2> QED
      BY <1>1, <1>2, <1>6, <1>7, <1>8, ListedFromIsNext
  <1> QED
    BY <1>2, <1>7, <1>9 DEF Grown

(* A new chunk at p, after the current one *)
NewChunk(a, n, p) ==
    /\ DOMAIN chunks' = DOMAIN chunks \cup {p}
    /\ p # Null /\ p \notin DOMAIN chunks
    /\ chunks'[p] = [ptrs |-> <<n>>, next |-> Null, prev |-> data[a].current]
    /\ chunks'[p].ptrs = <<n>> /\ chunks'[p].next = Null
    /\ \A q \in DOMAIN chunks :
           /\ chunks'[q].ptrs = chunks[q].ptrs
           /\ chunks'[q].prev = chunks[q].prev
           /\ chunks'[q].next = IF q = data[a].current THEN p ELSE chunks[q].next
    /\ \/ data[a].current \in ChunksOf(a)
       \/ data[a].current = Null /\ ChunksOf(a) = {}

LEMMA LinksNewChunk ==
    ASSUME LinkedInv, NEW a \in Allocators, NEW n, NEW p \in Addresses, p \notin DOMAIN chunks,
           chunks' = Linked(a, p, n)
    PROVE  NewChunk(a, n, p)
  <1>1. \A q \in DOMAIN chunks : chunks[q] \in Chunks(Len(objects))
    BY DEF LinkedInv, ChunksOK
  <1>2. p # Null
    BY NullIsNowhere
  <1>3. data[a].current = Null \/ data[a].current \in DOMAIN chunks
    BY ChunkOwners DEF LinkedInv, LinksInv
  <1>4. \/ data[a].current \in ChunksOf(a)
        \/ data[a].current = Null /\ ChunksOf(a) = {}
    BY DEF LinkedInv, LinksInv
  <1>5. DOMAIN chunks' = DOMAIN chunks \cup {p}
    BY DEF Linked
  <1>6. chunks'[p] = [ptrs |-> <<n>>, next |-> Null, prev |-> data[a].current]
    BY DEF Linked
  <1>7. ASSUME NEW q \in DOMAIN chunks
        PROVE  chunks'[q] = IF q = data[a].current THEN [chunks[q] EXCEPT !.next = p]
                            ELSE chunks[q]
    BY <1>7 DEF Linked
  <1> QED
    BY <1>1, <1>2, <1>3, <1>4, <1>5, <1>6, <1>7 DEF Chunks, NewChunk

LEMMA LinkGrowsList ==
    ASSUME LinkedInv, NEW a \in Allocators, NEW n \in 1..Len(objects),
           NEW p \in Addresses, p \notin DOMAIN chunks, chunks' = Linked(a, p, n)
    PROVE  /\ Grown(a, n) /\ ListedFrom'[p] = <<n>>
           /\ Ranked(chunks') /\ Lists(chunks', ListedFrom')
           /\ DOMAIN ListedFrom' = DOMAIN chunks \cup {p, Null}
  <1> DEFINE S == 1..Len(objects)
             cur == data[a].current
             f == [q \in DOMAIN chunks \cup {p, Null} |->
                      IF q = p THEN <<n>>
                      ELSE IF q \in ChunksOf(a) THEN Append(ListedFrom[q], n)
                      ELSE ListedFrom[q]]
  <1>1. /\ DOMAIN chunks' = DOMAIN chunks \cup {p}
        /\ p # Null /\ p \notin DOMAIN chunks
        /\ chunks'[p].next = Null /\ chunks'[p].ptrs = <<n>>
        /\ \A q \in DOMAIN chunks :
               /\ chunks'[q].ptrs = chunks[q].ptrs
               /\ chunks'[q].next = IF q = cur THEN p ELSE chunks[q].next
        /\ cur \in ChunksOf(a) \/ cur = Null
    <2>1. NewChunk(a, n, p)
      BY LinksNewChunk, Zenon
    <2> QED
      BY <2>1 DEF NewChunk
  <1>2. Ranked(chunks')
    <2>1. PICK top \in Nat : \E rank \in [DOMAIN chunks -> 0..top] : Climbs(chunks, rank)
      BY DEF LinkedInv, ListInv, Ranked
    <2>2. PICK rank \in [DOMAIN chunks -> 0..top] : Climbs(chunks, rank)
      BY <2>1
    <2> DEFINE rank2 == [q \in DOMAIN chunks' |-> IF q = p THEN top + 1 ELSE rank[q]]
    <2>3. rank2 \in [DOMAIN chunks' -> 0..(top + 1)]
      BY <1>1, <2>2
    <2>4. \A q \in DOMAIN chunks : chunks[q].next \in DOMAIN chunks \cup {Null}
      BY ChunkOwners
    <2>5. Null \notin DOMAIN chunks'
      BY <1>1, ChunkOwners
    <2>6. ASSUME NEW q \in DOMAIN chunks', chunks'[q].next \in DOMAIN chunks'
          PROVE  rank2[q] < rank2[chunks'[q].next]
      <3>1. q \in DOMAIN chunks /\ rank2[q] = rank[q] /\ rank[q] \in 0..top
        BY <1>1, <2>2, <2>5, <2>6
      <3>2. CASE chunks'[q].next = p
        BY <1>1, <3>1, <3>2, <2>6
      <3>3. CASE chunks'[q].next # p
        <4>1. chunks'[q].next = chunks[q].next /\ chunks[q].next \in DOMAIN chunks
          BY <1>1, <2>6, <3>1, <3>3
        <4>2. rank[q] < rank[chunks[q].next]
          BY <2>2, <3>1, <4>1 DEF Climbs
        <4> QED
          BY <1>1, <2>6, <3>1, <3>3, <4>1, <4>2
      <3> QED
        BY <3>2, <3>3
    <2> HIDE DEF rank2
    <2>7. Climbs(chunks', rank2)
      BY <2>6 DEF Climbs
    <2> QED
      BY <2>3, <2>7 DEF Ranked
  <1>3. /\ \A q \in DOMAIN chunks : chunks[q].ptrs \in Seq(S)
        /\ \A q \in DOMAIN chunks \cup {Null} : ListedFrom[q] \in Seq(S)
    BY DEF LinkedInv, ChunksOK, Chunks, ListInv
  <1>4. /\ ListedFrom[Null] = <<>>
        /\ \A q \in DOMAIN chunks : ListedFrom[q] = chunks[q].ptrs \o ListedFrom[chunks[q].next]
    BY ListedFromAt, ChunkOwners DEF LinkedInv
  <1>5. f[Null] = <<>> /\ Null \notin DOMAIN chunks /\ f[p] = <<n>>
    BY <1>1, <1>4, ChunkOwners
  <1>6. ASSUME NEW q \in DOMAIN chunks
        PROVE  f[q] = chunks'[q].ptrs \o f[chunks'[q].next]
    <2>1. chunks[q].next \in DOMAIN chunks \cup {Null} /\ chunks[q].next # p
      BY <1>1, ChunkOwners
    <2>2. CASE q = cur
      <3>1. chunks[q].next = Null /\ q \in ChunksOf(a)
        <4>1. q \in ChunksOf(a)
          BY <1>1, <1>5, <2>2
        <4> QED
          BY <2>2, <4>1, ChunkOwners
      <3>2. f[q] = Append(chunks[q].ptrs \o <<>>, n)
        <4>1. f[q] = Append(ListedFrom[q], n)
          BY <1>1, <3>1
        <4>2. ListedFrom[q] = chunks[q].ptrs \o <<>>
          BY <1>4, <3>1
        <4> QED
          BY <4>1, <4>2, Zenon
      <3>3. f[chunks'[q].next] = <<n>> /\ chunks'[q].ptrs = chunks[q].ptrs
        BY <1>1, <1>5, <2>2
      <3> HIDE DEF f
      <3> QED
        BY <1>3, <3>2, <3>3
    <2>3. CASE q # cur /\ q \in ChunksOf(a)
      <3>1. chunks[q].next \in ChunksOf(a)
        BY <2>3, ChunkOwners
      <3>2. f[q] = Append(chunks[q].ptrs \o ListedFrom[chunks[q].next], n)
        BY <1>1, <1>4, <2>3
      <3>3. f[chunks'[q].next] = Append(ListedFrom[chunks[q].next], n)
        BY <1>1, <2>1, <2>3, <3>1
      <3>4. chunks'[q].ptrs = chunks[q].ptrs
        BY <1>1, <2>3
      <3>5. chunks[q].ptrs \o Append(ListedFrom[chunks[q].next], n)
            = Append(chunks[q].ptrs \o ListedFrom[chunks[q].next], n)
        <4>1. /\ chunks[q].ptrs \in Seq(S) /\ ListedFrom[chunks[q].next] \in Seq(S)
              /\ n \in S
          BY <1>3, <2>1
        <4>2. \A s, t \in Seq(S) : \A e \in S : s \o Append(t, e) = Append(s \o t, e)
          BY ConcatAppend
        <4> HIDE DEF S
        <4> QED
          BY <4>1, <4>2, Zenon
      <3> HIDE DEF f
      <3> QED
        BY <3>2, <3>3, <3>4, <3>5
    <2>4. CASE q # cur /\ q \notin ChunksOf(a)
      <3>1. chunks[q].next \notin ChunksOf(a)
        BY <2>4, ChunkOwners
      <3> QED
        BY <1>1, <1>4, <2>1, <2>4, <3>1
    <2> QED
      BY <2>2, <2>3, <2>4
  <1>7. Lists(chunks', f)
    <2>1. f[p] = chunks'[p].ptrs \o f[chunks'[p].next]
      <3> HIDE DEF f
      <3> QED
        BY <1>1, <1>5
    <2>2. \A q \in DOMAIN chunks' \cup {Null} :
              f[q] = IF q = Null THEN <<>> ELSE chunks'[q].ptrs \o f[chunks'[q].next]
      BY <1>1, <1>5, <1>6, <2>1
    <2>3. f = [q \in DOMAIN chunks' \cup {Null} |-> f[q]]
      BY <1>1
    <2> HIDE DEF f
    <2> QED
      BY <2>2, <2>3 DEF Lists
  <1>8. \A q \in DOMAIN chunks' : chunks'[q].next \in DOMAIN chunks' \cup {Null}
    BY <1>1, ChunkOwners
  <1>9. ListedFrom' = f
    <2> HIDE DEF f
    <2> QED
      BY <1>1, <1>2, <1>5, <1>7, <1>8, ListedFromIsNext
  <1> QED
    BY <1>1, <1>2, <1>7, <1>9 DEF Grown

(* The chunks of an allocator go: those of the others list what they did.  *)
Discards(a) ==
    chunks' = [q \in {p \in DOMAIN chunks : p[1] \notin Own(a)} |-> chunks[q]]

LEMMA DiscardShrinksList ==
    ASSUME LinkedInv, NEW a \in Allocators, Discards(a)
    PROVE  /\ DOMAIN chunks' = DOMAIN chunks \ ChunksOf(a)
           /\ \A q \in DOMAIN chunks' : chunks'[q] = chunks[q]
           /\ \A q \in DOMAIN chunks' \cup {Null} : ListedFrom'[q] = ListedFrom[q]
           /\ Ranked(chunks') /\ Lists(chunks', ListedFrom')
           /\ DOMAIN ListedFrom' = DOMAIN chunks' \cup {Null}
  <1> DEFINE f == [q \in DOMAIN chunks' \cup {Null} |-> ListedFrom[q]]
  <1>1. /\ DOMAIN chunks' = DOMAIN chunks \ ChunksOf(a)
        /\ \A q \in DOMAIN chunks' : chunks'[q] = chunks[q]
    BY DEF Discards, ChunksOf
  <1>2. \A q \in DOMAIN chunks' : chunks'[q].next \in DOMAIN chunks' \cup {Null}
    BY <1>1, ChunkOwners
  <1>3. Ranked(chunks')
    <2>1. PICK top \in Nat : \E rank \in [DOMAIN chunks -> 0..top] : Climbs(chunks, rank)
      BY DEF LinkedInv, ListInv, Ranked
    <2>2. PICK rank \in [DOMAIN chunks -> 0..top] : Climbs(chunks, rank)
      BY <2>1
    <2> DEFINE rank2 == [q \in DOMAIN chunks' |-> rank[q]]
    <2>3. rank2 \in [DOMAIN chunks' -> 0..top] /\ Climbs(chunks', rank2)
      BY <1>1, <2>2 DEF Climbs
    <2> QED
      BY <2>3 DEF Ranked
  <1>4. /\ ListedFrom[Null] = <<>>
        /\ \A q \in DOMAIN chunks : ListedFrom[q] = chunks[q].ptrs \o ListedFrom[chunks[q].next]
        /\ Null \notin DOMAIN chunks'
    BY <1>1, ListedFromAt, ChunkOwners DEF LinkedInv
  <1>5. Lists(chunks', f)
    <2>1. \A q \in DOMAIN chunks' \cup {Null} :
              f[q] = IF q = Null THEN <<>> ELSE chunks'[q].ptrs \o f[chunks'[q].next]
      BY <1>1, <1>2, <1>4
    <2>2. f = [q \in DOMAIN chunks' \cup {Null} |-> f[q]]
      OBVIOUS
    <2> HIDE DEF f
    <2> QED
      BY <2>1, <2>2 DEF Lists
  <1>6. ListedFrom' = f
    <2> HIDE DEF f
    <2> QED
      BY <1>2, <1>3, <1>4, <1>5, ListedFromIsNext
  <1> QED
    BY <1>1, <1>3, <1>5, <1>6
-----------------------------------------------------------------------------
(* Memory: an allocation takes the bytes after those in use of the block   *)
(* that its allocator carves from, or the first ones of a fresh block.     *)
AllTypes == Types \cup {Pointers}

LEMMA TypeSizes ==
    /\ BlockSize \in Nat
    /\ \A t \in AllTypes : /\ t.size \in 1..BlockSize /\ t.align \in Nat \ {0}
                           /\ t = [size |-> t.size, align |-> t.align]
  BY AllocatorAssumption DEF AllTypes

LEMMA ExtentTypes ==
    ASSUME ObjectsOK, ChunksOK, NEW x \in Extents
    PROVE  /\ x.at \in Addresses /\ x.type \in AllTypes
           /\ x.at[1] \in Blocks /\ x.at[2] \in Nat
           /\ x.type.size \in Nat \ {0}
  <1>1. x.at \in Addresses /\ x.type \in AllTypes
    <2>1. CASE \E n \in DOMAIN objects :
                   x = [at |-> objects[n].at, type |-> objects[n].type, what |-> n]
      <3>1. PICK n \in DOMAIN objects :
                x = [at |-> objects[n].at, type |-> objects[n].type, what |-> n]
        BY <2>1
      <3>2. objects[n] \in Objects
        BY DEF ObjectsOK
      <3>3. x.at = objects[n].at /\ x.type = objects[n].type
        BY <3>1
      <3> QED
        BY <3>2, <3>3 DEF Objects, AllTypes
    <2>2. CASE \E p \in DOMAIN chunks : x = [at |-> p, type |-> Pointers, what |-> 0]
      <3>1. PICK p \in DOMAIN chunks : x = [at |-> p, type |-> Pointers, what |-> 0]
        BY <2>2
      <3>2. x.at = p /\ x.type = Pointers
        BY <3>1
      <3> QED
        BY <3>2 DEF ChunksOK, AllTypes
    <2> QED
      BY <2>1, <2>2 DEF Extents
  <1>2. x.at[1] \in Blocks /\ x.at[2] \in 0..BlockSize
    BY <1>1 DEF Addresses
  <1> QED
    BY <1>1, <1>2, TypeSizes

Carves(a, t, p) ==
    /\ p \in Room(a, t)
    /\ data'[a].blocks = IF Fits(a, t) THEN data[a].blocks ELSE Append(data[a].blocks, p[1])
    /\ data'[a].current_offset = p[2] + t.size
    /\ \A c \in Allocators \ {a} : data'[c] = data[c]
    /\ heap' = heap \cup {p[1]}

(* What p is in the state before *)
FreePlace(a, t, p) ==
    /\ p \in Addresses /\ p[1] \in Blocks /\ p[2] \in Nat
    /\ p[2] % t.align = 0 /\ p[2] + t.size <= BlockSize
    /\ IF Fits(a, t) THEN data[a].blocks # <<>> /\ p[1] = Last(data[a].blocks)
       ELSE p[1] \notin heap
    /\ \A x \in Extents : x.at[1] = p[1] => x.at[2] + x.type.size <= p[2]
    /\ \A x \in Extents : x.at # p

LEMMA RoomIsFree ==
    ASSUME DataOK, ChunksOK, ObjectsOK, BlocksInv, MemoryInv,
           NEW a \in Allocators, NEW t \in AllTypes, NEW p \in Room(a, t)
    PROVE  FreePlace(a, t, p)
  <1> DEFINE off == data[a].current_offset
             up == RoundUp(t.align, off)
  <1>1. /\ data[a] \in Fields /\ off \in Nat /\ data[a].blocks \in Seq(Blocks)
        /\ t.size \in 1..BlockSize /\ t.align \in Nat \ {0} /\ BlockSize \in Nat
    BY TypeSizes DEF DataOK, Fields
  <1>2. up \in Nat /\ up >= off /\ up % t.align = 0
    BY <1>1, RoundsUp
  <1>3. CASE Fits(a, t)
    <2>1. up + t.size <= BlockSize /\ p = <<Last(data[a].blocks), up>>
      BY <1>3 DEF Fits, Room
    <2> HIDE DEF up
    <2>2. data[a].blocks # <<>>
      BY <1>1, <1>2, <2>1 DEF BlocksInv
    <2>3. Last(data[a].blocks) \in Blocks
      BY <1>1, <2>2, LastFacts
    <2>4. p \in Addresses /\ p[1] = Last(data[a].blocks) /\ p[2] = up
      BY <1>1, <1>2, <2>1, <2>3 DEF Addresses
    <2>5. ASSUME NEW x \in Extents, x.at[1] = p[1]
          PROVE  x.at[2] + x.type.size <= p[2]
      <3>1. x.at[2] + x.type.size <= off /\ x.at[2] \in Nat /\ x.type.size \in Nat
        BY <2>2, <2>4, <2>5, ExtentTypes DEF MemoryInv
      <3> QED
        BY <1>1, <1>2, <2>4, <3>1
    <2>6. ASSUME NEW x \in Extents, x.at = p
          PROVE  FALSE
      <3>1. x.at[2] + x.type.size <= p[2] /\ x.at[2] \in Nat /\ x.type.size \in Nat \ {0}
        BY <2>5, <2>6, ExtentTypes
      <3> QED
        BY <2>6, <3>1
    <2> QED
      BY <1>2, <1>3, <2>1, <2>2, <2>3, <2>4, <2>5, <2>6 DEF FreePlace
  <1>4. CASE ~Fits(a, t)
    <2>1. PICK b \in Blocks \ heap : p = <<b, 0>>
      BY <1>4 DEF Room
    <2>2. p \in Addresses /\ p[1] = b /\ p[2] = 0
      BY <1>1, <2>1 DEF Addresses
    <2>3. 0 % t.align = 0
      BY <1>1
    <2>4. \A x \in Extents : x.at[1] # b
      BY <2>1 DEF MemoryInv, NoOverlap
    <2>5. \A x \in Extents : x.at # p
      BY <2>2, <2>4
    <2> QED
      BY <1>1, <1>4, <2>1, <2>2, <2>3, <2>4, <2>5 DEF FreePlace
  <1> QED
    BY <1>3, <1>4

LEMMA CarveOwns ==
    ASSUME DataOK, BlocksInv, NEW a \in Allocators, NEW t \in AllTypes, NEW p,
           Carves(a, t, p), FreePlace(a, t, p)
    PROVE  /\ Own(a)' = Own(a) \cup {p[1]}
           /\ \A c \in Allocators \ {a} : Own(c)' = Own(c)
           /\ data'[a].blocks # <<>> /\ Last(data'[a].blocks) = p[1]
           /\ IsInjective(data'[a].blocks)
           /\ \A c \in Allocators \ {a} : p[1] \notin Own(c)
  <1>1. data[a].blocks \in Seq(Blocks) /\ p[1] \in Blocks
    BY DEF DataOK, Fields, FreePlace
  <1>2. /\ IsInjective(data[a].blocks) /\ Own(a) \subseteq heap
        /\ \A c \in Allocators \ {a} : Own(c) \subseteq heap /\ Own(a) \cap Own(c) = {}
    BY DEF BlocksInv, BlocksOwned, Own
  <1>3. \A c \in Allocators \ {a} : Own(c)' = Own(c)
    BY DEF Own, Carves
  <1>4. CASE Fits(a, t)
    <2>1. data'[a].blocks = data[a].blocks /\ data[a].blocks # <<>> /\ p[1] = Last(data[a].blocks)
      BY <1>4 DEF Carves, FreePlace
    <2>2. p[1] \in Own(a)
      BY <1>1, <2>1, LastFacts DEF Own
    <2>3. Own(a)' = Own(a)
      BY <2>1 DEF Own
    <2> QED
      BY <1>2, <1>3, <2>1, <2>2, <2>3
  <1>5. CASE ~Fits(a, t)
    <2>1. data'[a].blocks = Append(data[a].blocks, p[1]) /\ p[1] \notin heap
      BY <1>5 DEF Carves, FreePlace
    <2>2. /\ Append(data[a].blocks, p[1]) # <<>> /\ Last(Append(data[a].blocks, p[1])) = p[1]
          /\ Range(Append(data[a].blocks, p[1])) = Own(a) \cup {p[1]}
          /\ IsInjective(Append(data[a].blocks, p[1]))
      BY <1>1, <1>2, <2>1, AppendFacts DEF Own
    <2> QED
      BY <1>2, <1>3, <2>1, <2>2 DEF Own
  <1> QED
    BY <1>4, <1>5

LEMMA AllocatedFields ==
    ASSUME NEW a, data[a] \in Fields, NEW t, t.size \in Nat,
           NEW p, p[1] \in Blocks, p[2] \in Nat
    PROVE  /\ Allocated(a, t, p) \in Fields
           /\ Allocated(a, t, p).blocks =
                  IF Fits(a, t) THEN data[a].blocks ELSE Append(data[a].blocks, p[1])
           /\ Allocated(a, t, p).current_offset = p[2] + t.size
           /\ Allocated(a, t, p).root = data[a].root
           /\ Allocated(a, t, p).current = data[a].current
           /\ Allocated(a, t, p).count = data[a].count
  <1> DEFINE bs == IF Fits(a, t) THEN data[a].blocks ELSE Append(data[a].blocks, p[1])
             off == p[2] + t.size
  <1>1. data[a].blocks \in Seq(Blocks)
    BY DEF Fields
  <1>2. bs \in Seq(Blocks) /\ off \in Nat
    BY <1>1, AppendFacts
  <1>3. Allocated(a, t, p) = [data[a] EXCEPT !.blocks = bs, !.current_offset = off]
    BY DEF Allocated
  <1> HIDE DEF bs, off
  <1>4. /\ Allocated(a, t, p) \in Fields
        /\ Allocated(a, t, p).blocks = bs /\ Allocated(a, t, p).current_offset = off
        /\ Allocated(a, t, p).root = data[a].root
        /\ Allocated(a, t, p).current = data[a].current
        /\ Allocated(a, t, p).count = data[a].count
    BY <1>2, <1>3 DEF Fields
  <1> QED
    BY <1>4 DEF bs, off

LEMMA FreePlaceOwned ==
    ASSUME DataOK, NEW a \in Allocators, NEW t, NEW p, FreePlace(a, t, p), p[1] \in heap
    PROVE  p[1] \in Own(a)
  <1>1. data[a].blocks \in Seq(Blocks)
    BY DEF DataOK, Fields
  <1>2. data[a].blocks # <<>> /\ p[1] = Last(data[a].blocks)
    BY DEF FreePlace
  <1>3. Last(data[a].blocks) \in Range(data[a].blocks)
    BY <1>1, <1>2, LastFacts
  <1> QED
    BY <1>2, <1>3 DEF Own

LEMMA CarveKeepsBlocks ==
    ASSUME DataOK, BlocksInv, NEW a \in live, NEW t \in AllTypes, NEW p,
           Carves(a, t, p), FreePlace(a, t, p), UNCHANGED live
    PROVE  BlocksInv'
  <1>1. a \in Allocators
    BY DEF DataOK
  <1>2. /\ Own(a)' = Own(a) \cup {p[1]}
        /\ \A c \in Allocators \ {a} : Own(c)' = Own(c)
        /\ data'[a].blocks # <<>>
        /\ IsInjective(data'[a].blocks)
        /\ \A c \in Allocators \ {a} : p[1] \notin Own(c)
    BY <1>1, CarveOwns, Zenon
  <1>3. \A c \in Allocators \ {a} : data'[c] = data[c]
    BY DEF Carves
  <1>4. BlocksOwned'
    <2>1. heap' = UNION {Own(c)' : c \in Allocators}
      <3>1. heap' = heap \cup {p[1]} /\ heap = UNION {Own(c) : c \in Allocators}
        BY DEF Carves, BlocksInv, BlocksOwned, Own
      <3> QED
        BY <1>1, <1>2, <3>1
    <2>2. \A c \in Allocators : IsInjective(data'[c].blocks)
      BY <1>2, <1>3 DEF BlocksInv, BlocksOwned
    <2>3. \A c, d \in Allocators : c # d => Own(c) \cap Own(d) = {}
      BY DEF BlocksInv, BlocksOwned, Own
    <2>4. \A c, d \in Allocators : c # d => Own(c)' \cap Own(d)' = {}
      BY <1>2, <2>3
    <2> QED
      BY <2>1, <2>2, <2>4 DEF BlocksOwned, Own
  <1> QED
    BY <1>2, <1>3, <1>4 DEF BlocksInv

LEMMA CarveKeepsMemory ==
    ASSUME DataOK, ChunksOK, ObjectsOK, BlocksInv, MemoryInv,
           NEW a \in Allocators, NEW t \in AllTypes, NEW p, Carves(a, t, p), FreePlace(a, t, p),
           NEW w, Extents' \subseteq Extents \cup {[at |-> p, type |-> t, what |-> w]}
    PROVE  MemoryInv'
  <1> DEFINE e == [at |-> p, type |-> t, what |-> w]
  <1>1. /\ e.at = p /\ e.type = t /\ t.size \in Nat /\ p[2] \in Nat
        /\ p[2] % t.align = 0 /\ p[2] + t.size <= BlockSize
        /\ \A x \in Extents : x.at[1] = p[1] => x.at[2] + x.type.size <= p[2]
        /\ heap' = heap \cup {p[1]}
        /\ data'[a].current_offset = p[2] + t.size
        /\ \A c \in Allocators \ {a} : data'[c] = data[c]
    BY TypeSizes DEF FreePlace, Carves
  <1>2. \A x \in Extents : x.at[2] \in Nat /\ x.type.size \in Nat
    BY ExtentTypes
  <1>3. \A x \in Extents : x.at[1] \in heap /\ x.at[2] % x.type.align = 0
                           /\ x.at[2] + x.type.size <= BlockSize
    BY DEF MemoryInv, NoOverlap
  <1>4. \A x, y \in Extents : x # y /\ x.at[1] = y.at[1] =>
            \/ x.at[2] + x.type.size <= y.at[2]
            \/ y.at[2] + y.type.size <= x.at[2]
    BY DEF MemoryInv, NoOverlap
  <1> HIDE DEF e
  <1>5. \A x \in Extents' : x \in Extents \/ x = e
    BY DEF e
  <1>6. \A x \in Extents' : x.at[1] \in heap' /\ x.at[2] % x.type.align = 0
                            /\ x.at[2] + x.type.size <= BlockSize
    BY <1>1, <1>3, <1>5
  <1>7. \A x, y \in Extents' : x # y /\ x.at[1] = y.at[1] =>
            \/ x.at[2] + x.type.size <= y.at[2]
            \/ y.at[2] + y.type.size <= x.at[2]
    <2> SUFFICES ASSUME NEW x \in Extents', NEW y \in Extents', x # y, x.at[1] = y.at[1]
                 PROVE  \/ x.at[2] + x.type.size <= y.at[2]
                        \/ y.at[2] + y.type.size <= x.at[2]
      OBVIOUS
    <2>1. CASE x \in Extents /\ y \in Extents
      BY <1>4, <2>1
    <2>2. CASE x = e /\ y \in Extents
      BY <1>1, <2>2
    <2>3. CASE x \in Extents /\ y = e
      BY <1>1, <2>3
    <2> QED
      BY <1>5, <2>1, <2>2, <2>3
  <1>8. ASSUME NEW c \in Allocators, NEW x \in Extents',
               data'[c].blocks # <<>>, x.at[1] = Last(data'[c].blocks)
        PROVE  x.at[2] + x.type.size <= data'[c].current_offset
    <2>1. /\ Last(data'[a].blocks) = p[1]
          /\ \A d \in Allocators \ {a} : p[1] \notin Own(d)
      BY CarveOwns
    <2>2. CASE c = a
      <3>1. CASE x \in Extents
        BY <1>1, <1>2, <1>8, <2>1, <2>2, <3>1
      <3>2. CASE x = e
        BY <1>1, <1>8, <2>1, <2>2, <3>2
      <3> QED
        BY <1>5, <3>1, <3>2
    <2>3. CASE c # a
      <3>1. data'[c] = data[c] /\ data[c].blocks \in Seq(Blocks)
        BY <1>1, <2>3 DEF DataOK, Fields
      <3>2. Last(data[c].blocks) \in Own(c)
        <4>1. data[c].blocks # <<>>
          BY <1>8, <3>1
        <4> QED
          BY <3>1, <4>1, LastFacts DEF Own
      <3>3. x # e
        <4>1. p[1] \notin Own(c) /\ x.at[1] \in Own(c)
          <5>1. p[1] \notin Own(c)
            BY <2>1, <2>3
          <5>2. x.at[1] = Last(data[c].blocks)
            BY <1>8, <3>1
          <5> QED
            BY <3>2, <5>1, <5>2
        <4> QED
          BY <1>1, <4>1
      <3> QED
        BY <1>5, <1>8, <3>1, <3>3 DEF MemoryInv
    <2> QED
      BY <2>2, <2>3
  <1> QED
    BY <1>6, <1>7, <1>8 DEF MemoryInv, NoOverlap

(* A step that allocates and frees nothing; an offset may be rounded up.   *)
KeepsBlocks ==
    /\ heap' = heap /\ DOMAIN data' = DOMAIN data
    /\ \A c \in Allocators : /\ data'[c].blocks = data[c].blocks
                             /\ data'[c].current_offset \in Nat
                             /\ data'[c].current_offset >= data[c].current_offset
                             /\ c \notin live' => data'[c] = EmptyData

LEMMA KeptBlocks ==
    ASSUME DataOK, BlocksInv, KeepsBlocks
    PROVE  BlocksInv' /\ \A c \in Allocators : Own(c)' = Own(c)
  <1>1. \A c \in Allocators : Own(c)' = Own(c)
    BY DEF KeepsBlocks, Own
  <1>2. BlocksOwned'
    <2>1. \A c \in Allocators : data'[c].blocks = data[c].blocks
      BY DEF KeepsBlocks
    <2>2. heap' = UNION {Range(data'[c].blocks) : c \in Allocators}
      <3>1. UNION {Range(data'[c].blocks) : c \in Allocators}
            = UNION {Range(data[c].blocks) : c \in Allocators}
        BY <2>1
      <3> QED
        BY <3>1 DEF KeepsBlocks, BlocksInv, BlocksOwned
    <2>3. \A c \in Allocators : IsInjective(data'[c].blocks)
      BY <2>1 DEF BlocksInv, BlocksOwned
    <2>4. \A c, d \in Allocators : c # d =>
              Range(data'[c].blocks) \cap Range(data'[d].blocks) = {}
      BY <2>1 DEF BlocksInv, BlocksOwned
    <2> QED
      BY <2>2, <2>3, <2>4 DEF BlocksOwned
  <1>3. ASSUME NEW c \in Allocators, data'[c].blocks = <<>>
        PROVE  data'[c].current_offset >= BlockSize
    <2>1. data[c].current_offset >= BlockSize
      BY <1>3 DEF KeepsBlocks, BlocksInv
    <2>2. data[c].current_offset \in Nat
      BY DEF DataOK, Fields
    <2>3. data'[c].current_offset \in Nat /\ data'[c].current_offset >= data[c].current_offset
      BY DEF KeepsBlocks
    <2> QED
      BY <2>1, <2>2, <2>3, TypeSizes
  <1> QED
    BY <1>1, <1>2, <1>3 DEF BlocksInv, KeepsBlocks

LEMMA KeptMemory ==
    ASSUME DataOK, ChunksOK, ObjectsOK, MemoryInv, KeepsBlocks, Extents' \subseteq Extents
    PROVE  MemoryInv'
  <1>1. NoOverlap'
    BY DEF NoOverlap, MemoryInv, KeepsBlocks
  <1>2. ASSUME NEW c \in Allocators, NEW x \in Extents',
               data'[c].blocks # <<>>, x.at[1] = Last(data'[c].blocks)
        PROVE  x.at[2] + x.type.size <= data'[c].current_offset
    <2>1. x.at[2] + x.type.size <= data[c].current_offset
      BY <1>2 DEF MemoryInv, KeepsBlocks
    <2>2. x.at[2] \in Nat /\ x.type.size \in Nat /\ data[c].current_offset \in Nat
      BY ExtentTypes DEF DataOK, Fields
    <2> QED
      BY <2>1, <2>2 DEF KeepsBlocks
  <1> QED
    BY <1>1, <1>2 DEF MemoryInv

(* What a owned is destructed and freed; a takes what b has, or nothing.   *)
Taken(b) == IF b = Null THEN EmptyData ELSE data[b]

HandsOver(a, b) ==
    /\ Idle(a) /\ b # a
    /\ b # Null => b \in live /\ Idle(b) /\ a \in live'
    /\ live' \subseteq Allocators /\ live \ {a} \subseteq live' /\ live' \subseteq live \cup {a}
    /\ data' = [c \in Allocators |-> IF c = a THEN Taken(b)
                                     ELSE IF c = b THEN EmptyData ELSE data[c]]
    /\ heap' = heap \ Own(a)
    /\ Discards(a)
    /\ objects' = [n \in DOMAIN objects |->
                       IF n \in Range(Listed[a])
                       THEN [objects[n] EXCEPT !.fate = "destructed"]
                       ELSE objects[n]]
    /\ UNCHANGED building
    /\ iterator' = IF iterator.of = a THEN NoIterator
                   ELSE IF iterator.of = b /\ b # Null THEN [iterator EXCEPT !.of = a]
                   ELSE iterator

LEMMA EmptyFields == EmptyData \in Fields /\ Range(EmptyData.blocks) = {}
  BY TypeSizes DEF EmptyData, Fields, Places, Range

LEMMA HandedOver ==
    ASSUME DataOK, NEW a \in Allocators, NEW b \in Allocators \cup {Null}, HandsOver(a, b)
    PROVE  /\ data' \in [Allocators -> Fields]
           /\ data'[a] = Taken(b) /\ Taken(b) \in Fields
           /\ \A c \in Allocators \ {a, b} : data'[c] = data[c]
           /\ b # Null => data'[b] = EmptyData
           /\ Own(a)' = IF b = Null THEN {} ELSE Own(b)
           /\ b # Null => Own(b)' = {}
           /\ \A c \in Allocators \ {a, b} : Own(c)' = Own(c)
  <1>1. Null \notin Allocators
    BY NullIsNowhere
  <1>2. /\ data'[a] = Taken(b) /\ Taken(b) \in Fields
        /\ \A c \in Allocators \ {a, b} : data'[c] = data[c]
        /\ b # Null => data'[b] = EmptyData
    BY <1>1, EmptyFields DEF HandsOver, Taken, DataOK
  <1>3. data' \in [Allocators -> Fields]
    BY <1>2, EmptyFields DEF HandsOver, DataOK
  <1> QED
    BY <1>1, <1>2, <1>3, EmptyFields DEF Own, Taken

LEMMA HandedBlocks ==
    ASSUME DataOK, BlocksInv, NEW a \in Allocators, NEW b \in Allocators \cup {Null},
           HandsOver(a, b)
    PROVE  BlocksInv'
  <1> DEFINE New(c) == Own(c)'
  <1>0. Null \notin Allocators
    BY NullIsNowhere
  <1>1. /\ data'[a] = Taken(b)
        /\ \A c \in Allocators \ {a, b} : data'[c] = data[c] /\ New(c) = Own(c)
        /\ b # Null => data'[b] = EmptyData /\ New(b) = {}
        /\ New(a) = IF b = Null THEN {} ELSE Own(b)
    BY HandedOver
  <1> HIDE DEF New
  <1>2. \A c, d \in Allocators : c # d => Own(c) \cap Own(d) = {}
    BY DEF BlocksInv, BlocksOwned, Own
  <1>3. heap = UNION {Own(c) : c \in Allocators}
    BY DEF BlocksInv, BlocksOwned, Own
  <1>4. heap' = UNION {New(c) : c \in Allocators}
    <2>1. heap' = heap \ Own(a) /\ b # a
      BY DEF HandsOver
    <2>2. ASSUME NEW x \in heap'
          PROVE  \E c \in Allocators : x \in New(c)
      <3>1. PICK c \in Allocators : x \in Own(c) /\ c # a
        BY <1>3, <2>1
      <3>2. CASE c = b
        BY <1>0, <1>1, <3>1, <3>2
      <3>3. CASE c # b
        BY <1>1, <3>1, <3>3
      <3> QED
        BY <3>2, <3>3
    <2>3. ASSUME NEW c \in Allocators, NEW x \in New(c)
          PROVE  x \in heap'
      <3>1. \E d \in Allocators : d # a /\ x \in Own(d)
        BY <1>0, <1>1, <2>1, <2>3
      <3> QED
        BY <1>2, <1>3, <2>1, <3>1
    <2> QED
      BY <2>2, <2>3
  <1>5. \A c, d \in Allocators : c # d => New(c) \cap New(d) = {}
    BY <1>0, <1>1, <1>2 DEF HandsOver
  <1>6. \A c \in Allocators : IsInjective(data'[c].blocks)
    <2>1. IsInjective(EmptyData.blocks)
      BY DEF EmptyData, IsInjective
    <2> QED
      BY <1>0, <1>1, <2>1 DEF BlocksInv, BlocksOwned, Taken
  <1>7. BlocksOwned'
    BY <1>4, <1>5, <1>6 DEF BlocksOwned, New, Own
  <1>8. ASSUME NEW c \in Allocators \ live'
        PROVE  data'[c] = EmptyData
    <2>1. c = a => b = Null
      BY <1>8 DEF HandsOver
    <2>2. c # a => c \notin live
      BY <1>8 DEF HandsOver
    <2> QED
      BY <1>0, <1>1, <2>1, <2>2 DEF BlocksInv, Taken
  <1>9. ASSUME NEW c \in Allocators, data'[c].blocks = <<>>
        PROVE  data'[c].current_offset >= BlockSize
    <2>1. EmptyData.current_offset >= BlockSize
      BY TypeSizes DEF EmptyData
    <2> QED
      BY <1>0, <1>1, <1>9, <2>1 DEF BlocksInv, Taken
  <1> QED
    BY <1>7, <1>8, <1>9 DEF BlocksInv

LEMMA HandedMemory ==
    ASSUME DataOK, ChunksOK, ObjectsOK, MemoryInv, BlocksInv,
           NEW a \in Allocators, NEW b \in Allocators \cup {Null}, HandsOver(a, b),
           Extents' \subseteq {x \in Extents : x.at[1] \notin Own(a)}
    PROVE  MemoryInv'
  <1>0. Null \notin Allocators
    BY NullIsNowhere
  <1>1. NoOverlap'
    BY DEF NoOverlap, MemoryInv, HandsOver
  <1>2. ASSUME NEW c \in Allocators, NEW x \in Extents',
               data'[c].blocks # <<>>, x.at[1] = Last(data'[c].blocks)
        PROVE  x.at[2] + x.type.size <= data'[c].current_offset
    <2>1. /\ data'[a] = Taken(b)
          /\ \A d \in Allocators \ {a, b} : data'[d] = data[d]
          /\ b # Null => data'[b] = EmptyData
      BY HandedOver
    <2>2. EmptyData.blocks = <<>>
      BY DEF EmptyData
    <2>3. \E d \in Allocators : data'[c] = data[d]
      BY <1>0, <1>2, <2>1, <2>2 DEF Taken
    <2> QED
      BY <1>2, <2>3 DEF MemoryInv
  <1> QED
    BY <1>1, <1>2 DEF MemoryInv
-----------------------------------------------------------------------------
(* Steps that leave the chunks and what is listed alone.                   *)

LEMMA LivesInHeap ==
    ASSUME MemoryInv
    PROVE  \A n \in DOMAIN objects :
               objects[n].fate \in {"constructing", "alive"} => objects[n].at[1] \in heap
  <1> SUFFICES ASSUME NEW n \in DOMAIN objects, objects[n].fate \in {"constructing", "alive"}
               PROVE  objects[n].at[1] \in heap
    OBVIOUS
  <1> DEFINE x == [at |-> objects[n].at, type |-> objects[n].type, what |-> n]
  <1>1. x \in Extents
    BY DEF Extents
  <1> QED
    BY <1>1 DEF MemoryInv, NoOverlap

LEMMA ListedIs ==
    ASSUME LinkedInv, NEW a \in Allocators
    PROVE  /\ Listed[a] = ListedFrom[data[a].root]
           /\ data[a].root \in DOMAIN chunks \cup {Null}
           /\ Listed[a] \in Seq(1..Len(objects))
  <1>1. data[a].root \in DOMAIN chunks \cup {Null}
    BY DEF LinkedInv, LinksInv, ChunksOf
  <1> QED
    BY <1>1 DEF Listed, LinkedInv, ListInv

(* The chunks stay, each with its owner. *)
KeepsChunks ==
    /\ chunks' = chunks
    /\ \A c \in Allocators : /\ data'[c].root = data[c].root
                             /\ data'[c].current = data[c].current
                             /\ ChunksOf(c)' = ChunksOf(c)
    /\ Len(objects) <= Len(objects')

LEMMA KeptChunks ==
    ASSUME LinkedInv, KeepsChunks, ObjectsOK'
    PROVE  ChunksOK' /\ LinksInv' /\ ListInv' /\ Listed' = Listed /\ ListedFrom' = ListedFrom
  <1>1. chunks' = chunks
    BY DEF KeepsChunks
  <1>2. ListedFrom' = ListedFrom
    BY <1>1 DEF ListedFrom
  <1>3. Listed' = Listed
    <2>1. \A c \in Allocators : data'[c].root = data[c].root
      BY DEF KeepsChunks
    <2> HIDE DEF KeepsChunks
    <2> QED
      BY <1>2, <2>1 DEF Listed
  <1>4. 1..Len(objects) \subseteq 1..Len(objects')
    BY DEF KeepsChunks, ObjectsOK, LinkedInv
  <1>5. \A s \in Seq(1..Len(objects)) : s \in Seq(1..Len(objects'))
    BY <1>4, SeqWidens, Zenon
  <1>6. LinksInv'
    BY <1>1 DEF LinksInv, LinkedInv, KeepsChunks
  <1>7. ListInv'
    <2>1. Ranked(chunks') /\ Lists(chunks', ListedFrom')
      BY <1>1, <1>2 DEF LinkedInv, ListInv
    <2>2. ListedFrom \in [DOMAIN chunks \cup {Null} -> Seq(1..Len(objects'))]
      BY <1>5 DEF LinkedInv, ListInv
    <2> QED
      BY <1>1, <1>2, <2>1, <2>2 DEF ListInv
  <1>8. ChunksOK'
    <2>1. \A q \in DOMAIN chunks : chunks[q] \in Chunks(Len(objects'))
      <3> SUFFICES ASSUME NEW q \in DOMAIN chunks
                   PROVE  chunks[q] \in Chunks(Len(objects'))
        OBVIOUS
      <3>1. chunks[q] \in Chunks(Len(objects))
        BY DEF LinkedInv, ChunksOK
      <3> QED
        BY <1>5, <3>1 DEF Chunks
    <2>2. chunks \in [DOMAIN chunks -> Chunks(Len(objects'))]
      BY <2>1 DEF LinkedInv, ChunksOK
    <2> QED
      BY <1>1, <2>2 DEF LinkedInv, ChunksOK
  <1> QED
    BY <1>2, <1>3, <1>6, <1>7, <1>8

(* The iterator stays, and so does what it goes over.                      *)
LEMMA KeptIterator ==
    ASSUME LinkedInv, IteratorOK, IteratorInv, NoneIterates, KeepsChunks, ObjectsOK',
           UNCHANGED iterator, live \subseteq live'
    PROVE  IteratorOK' /\ IteratorInv' /\ NoneIterates'
  <1>1. chunks' = chunks /\ Listed' = Listed /\ ListedFrom' = ListedFrom
    BY KeptChunks DEF KeepsChunks
  <1>2. NoneIterates'
    BY DEF NoneIterates
  <1>3. \A c \in Allocators : ChunksOf(c)' = ChunksOf(c)
    BY DEF KeepsChunks
  <1>4. IteratorOK'
    <2>1. 1..Len(objects) \subseteq 1..Len(objects')
      BY DEF KeepsChunks, ObjectsOK, LinkedInv
    <2>2. \A s \in Seq(1..Len(objects)) : s \in Seq(1..Len(objects'))
      BY <2>1, SeqWidens, Zenon
    <2> QED
      BY <2>2 DEF IteratorOK
  <1>5. iterator.of # Null => iterator.of \in Allocators
    BY DEF IteratorOK
  <1>6. ToCome(iterator)' = ToCome(iterator)
    BY <1>1 DEF ToCome
  <1> QED
    BY <1>1, <1>2, <1>3, <1>4, <1>5, <1>6 DEF IteratorInv, Deref
-----------------------------------------------------------------------------
(* What the objects' fates say *)
Alive(a) ==
    {n \in DOMAIN objects : objects[n].fate = "alive" /\ objects[n].at[1] \in Own(a)}

LEMMA ListsAlive ==
    ListsItsObjects <=>
        \A a \in Allocators : /\ Range(Listed[a]) = Alive(a)
                              /\ IsInjective(Listed[a])
                              /\ data[a].count = Len(Listed[a])
  BY DEF ListsItsObjects, Alive, Own

LEMMA ListsAliveNext ==
    ListsItsObjects' <=>
        \A a \in Allocators : /\ Range(Listed[a])' = Alive(a)'
                              /\ IsInjective(Listed[a])'
                              /\ data'[a].count = Len(Listed[a])'
  BY DEF ListsItsObjects, Alive, Own

(* The constructor of n, the last that was begun, ends: its fate is fate.  *)
Frames == [in : Allocators, object : 1..Len(objects)]

Ended(n, a, fate) ==
    /\ n \in DOMAIN objects /\ n \in 1..Len(objects) /\ a \in live /\ a \in Allocators
    /\ objects[n].fate = "constructing" /\ objects[n].at[1] \in Own(a)
    /\ DOMAIN objects' = DOMAIN objects /\ Len(objects') = Len(objects)
    /\ objects'[n] = [at |-> objects[n].at, type |-> objects[n].type, fate |-> fate]
    /\ objects'[n].fate = fate
    /\ \A m \in DOMAIN objects : m # n => objects'[m] = objects[m]
    /\ building \in Seq(Frames) /\ building # <<>>
    /\ building[Len(building)].object = n
    /\ building' = Front(building) /\ live' = live /\ iterator' = iterator
    /\ ObjectsOK'

LEMMA FramesFacts ==
    ASSUME ObjectsOK
    PROVE  /\ building \in Seq(Frames)
           /\ \A i \in DOMAIN building : /\ building[i].in \in Allocators
                                         /\ building[i].object \in DOMAIN objects
           /\ DOMAIN objects = 1..Len(objects) /\ Len(objects) \in Nat
  <1>1. building \in Seq(Frames)
    BY DEF ObjectsOK, Frames
  <1>2. \A i \in DOMAIN building : building[i] \in Frames
    BY <1>1
  <1>3. DOMAIN objects = 1..Len(objects) /\ Len(objects) \in Nat
    BY DEF ObjectsOK
  <1> QED
    BY <1>1, <1>2, <1>3 DEF Frames

LEMMA EndsFacts ==
    ASSUME ObjectsOK, BuildingInv, MemoryInv, NEW n, NEW a,
           NEW fate \in {"alive", "failed", "unlisted"}, Ends(n, a, fate)
    PROVE  Ended(n, a, fate)
  <1>1. building \in Seq(Frames) /\ building # <<>>
    BY DEF Ends, ObjectsOK, Frames
  <1>2. /\ Len(building) \in DOMAIN building /\ Last(building) \in Frames
        /\ Front(building) \in Seq(Frames)
    BY <1>1, LastFacts
  <1>3. building[Len(building)] = [in |-> a, object |-> n]
    BY DEF Ends, Last
  <1>4. Last(building) = [in |-> a, object |-> n]
    BY DEF Ends
  <1>5. n \in 1..Len(objects) /\ a \in Allocators
    BY <1>2, <1>4 DEF Frames
  <1>6. /\ a \in live /\ objects[n].fate = "constructing" /\ objects[n].at[1] \in Own(a)
    BY <1>2, <1>3 DEF BuildingInv
  <1>7. objects \in Seq(Objects) /\ DOMAIN objects = 1..Len(objects) /\ Len(objects) \in Nat
    BY DEF ObjectsOK
  <1>8. objects[n] \in Objects
    BY <1>5, <1>7
  <1>9. objects' = [objects EXCEPT ![n].fate = fate]
    BY DEF Ends
  <1>10. /\ objects'[n] = [at |-> objects[n].at, type |-> objects[n].type, fate |-> fate]
         /\ \A m \in DOMAIN objects : m # n => objects'[m] = objects[m]
         /\ DOMAIN objects' = DOMAIN objects
    BY <1>5, <1>7, <1>8, <1>9 DEF Objects
  <1>11. objects'[n] \in Objects
    BY <1>8, <1>10 DEF Objects
  <1>12. /\ objects' \in Seq(Objects) /\ Len(objects') = Len(objects)
    <2>1. objects' = [objects EXCEPT ![n] = objects'[n]]
      BY <1>9, <1>10
    <2> QED
      BY <1>5, <1>7, <1>11, <2>1, ExceptSeq
  <1>13. ObjectsOK'
    BY <1>2, <1>12 DEF ObjectsOK, Ends, Frames
  <1> QED
    BY <1>1, <1>3, <1>5, <1>6, <1>7, <1>10, <1>12, <1>13 DEF Ended, Ends

(* No block changes hands: the constructors that still run are as before.  *)
LEMMA EndsKeepsBuilding ==
    ASSUME ObjectsOK, BuildingInv, MemoryInv, DataOK, NEW n, NEW a,
           NEW fate \in {"alive", "failed", "unlisted"}, Ends(n, a, fate),
           \A c \in Allocators : Own(c) \subseteq Own(c)'
    PROVE  BuildingInv'
  <1>1. Ended(n, a, fate)
    BY EndsFacts, Zenon
  <1>2. building' = Front(building) /\ live' = live /\ objects'[n].fate # "constructing"
    BY <1>1 DEF Ended
  <1>3. building \in Seq(Frames) /\ building # <<>> /\ building[Len(building)].object = n
    BY <1>1 DEF Ended
  <1>4. /\ Len(building) \in DOMAIN building
        /\ \A i \in DOMAIN building' :
               i \in DOMAIN building /\ i # Len(building) /\ building'[i] = building[i]
        /\ \A i \in DOMAIN building : i # Len(building) => i \in DOMAIN building'
    BY <1>2, <1>3, LastFacts
  <1>5. /\ DOMAIN objects' = DOMAIN objects /\ n \in DOMAIN objects
        /\ \A m \in DOMAIN objects : m # n => objects'[m] = objects[m]
    BY <1>1 DEF Ended
  <1>6. ASSUME NEW i \in DOMAIN building'
        PROVE  LET m == building'[i].object
               IN  /\ building'[i].in \in live'
                   /\ objects'[m].fate = "constructing"
                   /\ objects'[m].at[1] \in Range(data'[building'[i].in].blocks)
                   /\ \A j \in DOMAIN building' : building'[j].object = m => j = i
    <2> DEFINE m == building[i].object
    <2>1. i \in DOMAIN building /\ i # Len(building) /\ building'[i] = building[i]
      BY <1>4
    <2>2. building[i] \in Frames
      BY <1>3, <2>1
    <2>3. m \in DOMAIN objects /\ building[i].in \in Allocators
      BY <2>2 DEF ObjectsOK, Frames
    <2>4. /\ building[i].in \in live /\ objects[m].fate = "constructing"
          /\ objects[m].at[1] \in Own(building[i].in)
          /\ \A j \in DOMAIN building : building[j].object = m => j = i
      BY <2>1 DEF BuildingInv
    <2>5. m # n
      BY <1>3, <1>4, <2>1, <2>4
    <2>6. objects'[m] = objects[m]
      BY <1>5, <2>3, <2>5
    <2>7. objects'[m].at[1] \in Range(data'[building[i].in].blocks)
      BY <2>3, <2>4, <2>6 DEF Own
    <2>8. \A j \in DOMAIN building' : building'[j].object = m => j = i
      BY <1>4, <2>4
    <2> HIDE DEF m
    <2> QED
      BY <1>2, <2>1, <2>4, <2>6, <2>7, <2>8 DEF m
  <1>7. ASSUME NEW m \in DOMAIN objects', objects'[m].fate = "constructing"
        PROVE  \E i \in DOMAIN building' : building'[i].object = m
    <2>1. m # n /\ m \in DOMAIN objects /\ objects[m].fate = "constructing"
      BY <1>2, <1>5, <1>7
    <2>2. PICK i \in DOMAIN building : building[i].object = m
      BY <2>1 DEF BuildingInv
    <2>3. i # Len(building)
      BY <1>3, <2>1, <2>2
    <2> QED
      BY <1>4, <2>2, <2>3
  <1> QED
    BY <1>6, <1>7 DEF BuildingInv, Own
-----------------------------------------------------------------------------
(* No object comes to life where there was none.                           *)
KeepsFates ==
    /\ DOMAIN objects' = DOMAIN objects
    /\ \A n \in DOMAIN objects :
           /\ objects'[n].at = objects[n].at /\ objects'[n].type = objects[n].type
           /\ objects'[n].fate \in {"constructing", "alive"}
                  => objects[n].fate \in {"constructing", "alive"}

LEMMA KeptExtents ==
    ASSUME KeepsFates, NEW p, DOMAIN chunks' \subseteq DOMAIN chunks \cup {p}
    PROVE  Extents' \subseteq Extents \cup {[at |-> p, type |-> Pointers, what |-> 0]}
  <1> SUFFICES ASSUME NEW x \in Extents', x # [at |-> p, type |-> Pointers, what |-> 0]
               PROVE  x \in Extents
    OBVIOUS
  <1>1. CASE \E n \in DOMAIN objects' :
                 /\ objects'[n].fate \in {"constructing", "alive"}
                 /\ x = [at |-> objects'[n].at, type |-> objects'[n].type, what |-> n]
    BY <1>1 DEF Extents, KeepsFates
  <1>2. CASE \E q \in DOMAIN chunks' : x = [at |-> q, type |-> Pointers, what |-> 0]
    BY <1>2 DEF Extents
  <1> QED
    BY <1>1, <1>2 DEF Extents

LEMMA KeptExtentsOnly ==
    ASSUME KeepsFates, DOMAIN chunks' \subseteq DOMAIN chunks
    PROVE  Extents' \subseteq Extents
  <1> SUFFICES ASSUME NEW x \in Extents'
               PROVE  x \in Extents
    OBVIOUS
  <1>1. CASE \E n \in DOMAIN objects' :
                 /\ objects'[n].fate \in {"constructing", "alive"}
                 /\ x = [at |-> objects'[n].at, type |-> objects'[n].type, what |-> n]
    BY <1>1 DEF Extents, KeepsFates
  <1>2. CASE \E q \in DOMAIN chunks' : x = [at |-> q, type |-> Pointers, what |-> 0]
    BY <1>2 DEF Extents
  <1> QED
    BY <1>1, <1>2 DEF Extents

(* A step that at most ends a constructor in vain. *)
Quiet ==
    /\ KeepsBlocks
    /\ live' \subseteq Allocators /\ live \subseteq live'
    /\ data' \in [Allocators -> Fields]
    /\ \A c \in Allocators : /\ data'[c].root = data[c].root
                             /\ data'[c].current = data[c].current
                             /\ data'[c].count = data[c].count
    /\ UNCHANGED <<chunks, iterator>>

SameObjects ==
    /\ KeepsFates /\ Len(objects') = Len(objects)
    /\ \A n \in DOMAIN objects : objects'[n].fate = "alive" <=> objects[n].fate = "alive"

LEMMA QuietKeepsIInv ==
    ASSUME IInv, Quiet, SameObjects, ObjectsOK', BuildingInv'
    PROVE  IInv'
  <1>1. LinkedInv
    BY LinkedFromIInv
  <1>2. KeepsBlocks /\ DataOK'
    BY DEF Quiet, IInv, DataOK, KeepsBlocks
  <1>3. BlocksInv' /\ \A c \in Allocators : Own(c)' = Own(c)
    BY <1>2, KeptBlocks DEF IInv
  <1>4. MemoryInv'
    <2>1. Extents' \subseteq Extents
      BY KeptExtentsOnly DEF SameObjects, Quiet
    <2> QED
      BY <1>2, <2>1, KeptMemory DEF IInv
  <1>5. KeepsChunks
    <2>1. \A c \in Allocators : ChunksOf(c)' = ChunksOf(c)
      BY <1>3 DEF ChunksOf, Quiet
    <2>2. Len(objects) <= Len(objects')
      BY DEF SameObjects, IInv, ObjectsOK
    <2> QED
      BY <2>1, <2>2 DEF KeepsChunks, Quiet
  <1>6. ChunksOK' /\ LinksInv' /\ ListInv' /\ Listed' = Listed
    BY <1>1, <1>5, KeptChunks
  <1>7. IteratorOK' /\ IteratorInv' /\ NoneIterates'
    <2>1. UNCHANGED iterator /\ live \subseteq live'
      BY DEF Quiet
    <2> QED
      BY <1>1, <1>5, <2>1, KeptIterator DEF IInv
  <1>8. ListsItsObjects'
    <2>1. \A c \in Allocators : Alive(c)' = Alive(c)
      BY <1>3 DEF Alive, SameObjects, KeepsFates
    <2>2. \A c \in Allocators : /\ Range(Listed[c]) = Alive(c)
                                /\ IsInjective(Listed[c])
                                /\ data[c].count = Len(Listed[c])
      BY ListsAlive DEF IInv
    <2> QED
      BY <1>6, <2>1, <2>2, ListsAliveNext DEF Quiet
  <1> QED
    BY <1>2, <1>3, <1>4, <1>6, <1>7, <1>8 DEF IInv

LEMMA ExhaustedIsQuiet ==
    ASSUME DataOK, BlocksInv, NEW a \in live, NEW t \in AllTypes,
           data' = [data EXCEPT ![a] = Exhausted(a, t)],
           UNCHANGED <<live, heap, chunks, iterator>>
    PROVE  Quiet
  <1>1. a \in Allocators /\ data \in [Allocators -> Fields] /\ live \subseteq Allocators
    BY DEF DataOK
  <1> DEFINE off == data[a].current_offset
             up == RoundUp(t.align, off)
  <1>2. data[a] \in Fields /\ off \in Nat /\ t.align \in Nat \ {0}
    BY <1>1, TypeSizes DEF Fields
  <1>3. up \in Nat /\ up >= off
    BY <1>2, RoundsUp
  <1> HIDE DEF up
  <1>4. data' = [data EXCEPT ![a].current_offset = up]
    BY DEF Exhausted, up
  <1>5. /\ data'[a] \in Fields /\ data'[a].current_offset = up
        /\ data'[a].blocks = data[a].blocks /\ data'[a].count = data[a].count
        /\ data'[a].root = data[a].root /\ data'[a].current = data[a].current
    BY <1>1, <1>2, <1>3, <1>4 DEF Fields
  <1>6. \A c \in Allocators : c # a => data'[c] = data[c]
    BY <1>1, <1>4
  <1>7. data' \in [Allocators -> Fields]
    BY <1>1, <1>4, <1>5, <1>6
  <1>8. ASSUME NEW c \in Allocators
        PROVE  /\ data'[c].blocks = data[c].blocks
               /\ data'[c].current_offset \in Nat
               /\ data'[c].current_offset >= data[c].current_offset
               /\ c \notin live' => data'[c] = EmptyData
    <2>1. data[c].current_offset \in Nat
      BY <1>1 DEF Fields
    <2>2. c \notin live => data[c] = EmptyData
      BY DEF BlocksInv
    <2>3. CASE c = a
      BY <1>3, <1>5, <2>3
    <2>4. CASE c # a
      BY <1>6, <2>1, <2>2, <2>4
    <2> QED
      BY <2>3, <2>4
  <1>9. KeepsBlocks
    BY <1>1, <1>7, <1>8 DEF KeepsBlocks
  <1> QED
    BY <1>1, <1>5, <1>6, <1>7, <1>9 DEF Quiet
-----------------------------------------------------------------------------
(* Each action keeps the invariant. *)

LEMMA ConstructKeeps ==
    ASSUME IInv, NEW a \in Allocators, Construct(a)
    PROVE  IInv'
  <1>1. /\ live' = live \cup {a} /\ data' = data /\ heap' = heap /\ chunks' = chunks
        /\ objects' = objects /\ building' = building /\ iterator' = iterator
    BY DEF Construct
  <1>2. data \in [Allocators -> Fields] /\ live \subseteq Allocators
    BY DEF IInv, DataOK
  <1>3. Quiet
    <2>1. \A c \in Allocators : data[c].current_offset \in Nat
      BY <1>2 DEF Fields
    <2>2. \A c \in Allocators \ live : data[c] = EmptyData
      BY DEF IInv, BlocksInv
    <2>3. KeepsBlocks
      BY <1>1, <1>2, <2>1, <2>2 DEF KeepsBlocks
    <2> QED
      BY <1>1, <1>2, <2>3 DEF Quiet
  <1>4. SameObjects
    BY <1>1 DEF SameObjects, KeepsFates
  <1>5. ObjectsOK' /\ BuildingInv'
    <2>1. ObjectsOK /\ BuildingInv
      BY DEF IInv
    <2>2. ObjectsOK'
      BY <1>1, <2>1 DEF ObjectsOK
    <2>3. BuildingInv'
      BY <1>1, <2>1 DEF BuildingInv, Own
    <2> QED
      BY <2>2, <2>3
  <1> QED
    BY <1>3, <1>4, <1>5, QuietKeepsIInv, Zenon

LEMMA CreateThrowsKeeps ==
    ASSUME IInv, NEW a \in Allocators, NEW t \in Types, CreateThrows(a, t)
    PROVE  IInv'
  <1>1. /\ a \in live /\ data' = [data EXCEPT ![a] = Exhausted(a, t)]
        /\ UNCHANGED <<live, heap, chunks, iterator>>
        /\ objects' = objects /\ building' = building
    BY DEF CreateThrows
  <1>2. DataOK /\ BlocksInv /\ ObjectsOK /\ BuildingInv /\ t \in AllTypes
    BY DEF IInv, AllTypes
  <1>3. Quiet
    BY <1>1, <1>2, ExhaustedIsQuiet
  <1>4. SameObjects
    BY <1>1 DEF SameObjects, KeepsFates
  <1>5. ObjectsOK'
    BY <1>1, <1>2 DEF ObjectsOK
  <1>6. BuildingInv'
    <2>1. \A i \in DOMAIN building : building[i].in \in Allocators
      BY <1>2, FramesFacts
    <2>2. \A c \in Allocators : data'[c].blocks = data[c].blocks
      BY <1>3 DEF Quiet, KeepsBlocks
    <2> QED
      BY <1>1, <1>2, <2>1, <2>2 DEF BuildingInv, Own
  <1> QED
    BY <1>3, <1>4, <1>5, <1>6, QuietKeepsIInv, Zenon

LEMMA EndsInVain ==
    ASSUME IInv, NEW n, NEW a, NEW fate \in {"failed", "unlisted"}, Ends(n, a, fate), Quiet
    PROVE  IInv'
  <1>1. Ended(n, a, fate)
    BY EndsFacts DEF IInv
  <1>2. SameObjects /\ ObjectsOK'
    BY <1>1 DEF SameObjects, KeepsFates, Ended
  <1>3. \A c \in Allocators : Own(c) \subseteq Own(c)'
    BY DEF Quiet, KeepsBlocks, Own
  <1>4. BuildingInv'
    BY <1>3, EndsKeepsBuilding DEF IInv
  <1> QED
    BY <1>2, <1>4, QuietKeepsIInv, Zenon

LEMMA ConstructorThrowsKeeps ==
    ASSUME IInv, NEW n, NEW a, ConstructorThrows(n, a)
    PROVE  IInv'
  <1>1. Ends(n, a, "failed") /\ data' = data /\ heap' = heap /\ chunks' = chunks
        /\ live' = live /\ iterator' = iterator
    BY DEF ConstructorThrows, Ends
  <1>2. data \in [Allocators -> Fields] /\ live \subseteq Allocators
    BY DEF IInv, DataOK
  <1>3. Quiet
    <2>1. \A c \in Allocators : data[c].current_offset \in Nat
      BY <1>2 DEF Fields
    <2>2. \A c \in Allocators \ live : data[c] = EmptyData
      BY DEF IInv, BlocksInv
    <2>3. KeepsBlocks
      BY <1>1, <1>2, <2>1, <2>2 DEF KeepsBlocks
    <2> QED
      BY <1>1, <1>2, <2>3 DEF Quiet
  <1> QED
    BY <1>1, <1>3, EndsInVain

LEMMA ListingThrowsKeeps ==
    ASSUME IInv, NEW n, NEW a, ListingThrows(n, a)
    PROVE  IInv'
  <1>1. /\ Ends(n, a, "unlisted")
        /\ data' = [data EXCEPT ![a] = Exhausted(a, Pointers)]
        /\ UNCHANGED <<live, heap, chunks, iterator>>
    BY DEF ListingThrows, Ends
  <1>2. a \in live
    <2>1. Ended(n, a, "unlisted")
      BY <1>1, EndsFacts DEF IInv
    <2> QED
      BY <2>1 DEF Ended
  <1>3. Quiet
    <2>1. Pointers \in AllTypes /\ DataOK /\ BlocksInv
      BY DEF AllTypes, IInv
    <2> QED
      BY <1>1, <1>2, <2>1, ExhaustedIsQuiet
  <1> QED
    BY <1>1, <1>3, EndsInVain

(* Create() until the constructor begins: the new object is under          *)
(* construction in bytes that nothing else uses.                           *)
LEMMA CreateKeeps ==
    ASSUME IInv, NEW a \in Allocators, NEW t \in Types, Create(a, t)
    PROVE  IInv'
  <1> DEFINE new == Len(objects) + 1
  <1>1. PICK p \in Room(a, t) :
            /\ data' = [data EXCEPT ![a] = Allocated(a, t, p)]
            /\ heap' = heap \cup {p[1]}
            /\ objects' = Append(objects, [at |-> p, type |-> t, fate |-> "constructing"])
    BY DEF Create
  <1>2. /\ a \in live /\ Len(objects) < MaxObjects
        /\ building' = Append(building, [in |-> a, object |-> Len(objects')])
        /\ live' = live /\ chunks' = chunks /\ iterator' = iterator
    BY DEF Create
  <1>3. /\ DataOK /\ ChunksOK /\ ObjectsOK /\ BlocksInv /\ MemoryInv /\ t \in AllTypes
        /\ BuildingInv /\ LinkedInv
    BY LinkedFromIInv DEF IInv, AllTypes
  <1>4. FreePlace(a, t, p)
    BY <1>3, RoomIsFree
  <1>5. data[a] \in Fields /\ data \in [Allocators -> Fields] /\ t.size \in Nat
    BY <1>3, TypeSizes DEF DataOK
  <1>6. p \in Addresses /\ p[1] \in Blocks /\ p[2] \in Nat
    BY <1>4 DEF FreePlace
  <1>7. /\ data'[a] = Allocated(a, t, p)
        /\ data'[a].blocks = IF Fits(a, t) THEN data[a].blocks ELSE Append(data[a].blocks, p[1])
        /\ data'[a].current_offset = p[2] + t.size
        /\ data'[a].root = data[a].root /\ data'[a].current = data[a].current
        /\ data'[a].count = data[a].count
        /\ data'[a] \in Fields
    <2>1. data'[a] = Allocated(a, t, p)
      BY <1>1, <1>5
    <2> QED
      BY <1>5, <1>6, <2>1, AllocatedFields
  <1>8. \A c \in Allocators \ {a} : data'[c] = data[c]
    BY <1>1, <1>5
  <1>9. Carves(a, t, p)
    BY <1>1, <1>7, <1>8 DEF Carves
  <1>10. DataOK'
    <2>1. data' \in [Allocators -> Fields]
      BY <1>1, <1>5, <1>7, <1>8
    <2> QED
      BY <1>1, <1>2, <1>3, <1>6, <2>1 DEF DataOK
  <1>11. BlocksInv'
    BY <1>2, <1>3, <1>4, <1>9, CarveKeepsBlocks
  <1>12. /\ Own(a)' = Own(a) \cup {p[1]}
         /\ \A c \in Allocators \ {a} : Own(c)' = Own(c)
    BY <1>3, <1>4, <1>9, CarveOwns, Zenon
  <1> DEFINE o == [at |-> p, type |-> t, fate |-> "constructing"]
  <1>13. /\ objects' \in Seq(Objects) /\ Len(objects') = new /\ Len(objects) \in Nat
         /\ DOMAIN objects' = 1..new /\ DOMAIN objects = 1..Len(objects)
         /\ \A m \in DOMAIN objects : objects'[m] = objects[m]
         /\ objects'[new] = o
    <2>1. o \in Objects
      BY <1>6 DEF Objects
    <2>2. objects \in Seq(Objects)
      BY <1>3 DEF ObjectsOK
    <2> HIDE DEF o
    <2> QED
      BY <1>1, <2>1, <2>2, AppendProperties DEF o
  <1>14. o.at = p /\ o.type = t /\ o.fate = "constructing"
    OBVIOUS
  <1> HIDE DEF o
  <1>15. /\ building' \in Seq([in : Allocators, object : 1..new])
         /\ DOMAIN building = 1..Len(building) /\ Len(building) \in Nat
         /\ DOMAIN building' = 1..(Len(building) + 1)
         /\ \A i \in DOMAIN building : building'[i] = building[i]
         /\ building'[Len(building) + 1].in = a
         /\ building'[Len(building) + 1].object = new
    <2> DEFINE F == [in : Allocators, object : 1..new]
    <2>1. building \in Seq(Frames) /\ Frames \subseteq F
      BY <1>3, <1>13, FramesFacts DEF Frames
    <2> DEFINE f == [in |-> a, object |-> new]
    <2>2. f \in F /\ f.in = a /\ f.object = new
      BY <1>13
    <2>3. building' = Append(building, f)
      BY <1>2, <1>13
    <2> HIDE DEF F, f
    <2>4. building \in Seq(F)
      BY <2>1, SeqWidens, Zenon
    <2>5. /\ building' \in Seq(F) /\ Len(building') = Len(building) + 1
          /\ Len(building) \in Nat /\ DOMAIN building = 1..Len(building)
          /\ DOMAIN building' = 1..(Len(building) + 1)
          /\ \A i \in 1..Len(building) : building'[i] = building[i]
          /\ building'[Len(building) + 1] = f
      BY <2>2, <2>3, <2>4, AppendProperties
    <2> QED
      BY <2>2, <2>5 DEF F
  <1>16. ObjectsOK'
    BY <1>2, <1>3, <1>13, <1>15, AllocatorAssumption DEF ObjectsOK
  <1>17. MemoryInv'
    <2>1. Extents' \subseteq Extents \cup {[at |-> p, type |-> t, what |-> new]}
      BY <1>2, <1>13, <1>14 DEF Extents
    <2> QED
      BY <1>3, <1>4, <1>9, <2>1, CarveKeepsMemory
  <1>18. BuildingInv'
    <2>1. \A i \in DOMAIN building : building[i].in \in Allocators /\ building[i].object \in DOMAIN objects
      BY <1>3, FramesFacts
    <2>2. \A c \in Allocators : Own(c) \subseteq Own(c)'
      BY <1>12
    <2>3. objects'[new].at[1] \in Own(a)' /\ objects'[new].fate = "constructing"
      BY <1>12, <1>13, <1>14
    <2> DEFINE OwnNext(c) == Range(data'[c].blocks)
    <2>4. \A c \in Allocators : OwnNext(c) = Own(c)'
      BY DEF Own
    <2> HIDE DEF OwnNext
    <2>5. ASSUME NEW i \in DOMAIN building'
          PROVE  /\ building'[i].in \in live'
                 /\ objects'[building'[i].object].fate = "constructing"
                 /\ objects'[building'[i].object].at[1] \in OwnNext(building'[i].in)
                 /\ \A j \in DOMAIN building' : building'[j].object = building'[i].object => j = i
      <3>1. CASE i \in DOMAIN building
        <4>1. /\ building[i].in \in live /\ objects[building[i].object].fate = "constructing"
              /\ objects[building[i].object].at[1] \in Own(building[i].in)
              /\ \A j \in DOMAIN building : building[j].object = building[i].object => j = i
          BY <1>3, <3>1 DEF BuildingInv
        <4>2. building[i].object # new
          BY <1>13, <2>1, <3>1
        <4>3. objects[building[i].object].at[1] \in OwnNext(building[i].in)
          BY <2>1, <2>2, <2>4, <3>1, <4>1
        <4> QED
          BY <1>2, <1>13, <1>15, <2>1, <3>1, <4>1, <4>2, <4>3
      <3>2. CASE i = Len(building) + 1
        <4>1. objects'[new].at[1] \in OwnNext(a)
          BY <1>3, <2>3, <2>4
        <4>2. \A j \in DOMAIN building : building'[j].object # new
          BY <1>13, <1>15, <2>1
        <4> QED
          BY <1>2, <1>15, <2>3, <3>2, <4>1, <4>2
      <3> QED
        BY <1>15, <3>1, <3>2
    <2>6. ASSUME NEW m \in DOMAIN objects', objects'[m].fate = "constructing"
          PROVE  \E i \in DOMAIN building' : building'[i].object = m
      <3>1. CASE m = new
        BY <1>15, <3>1
      <3>2. CASE m \in DOMAIN objects
        <4>1. PICK i \in DOMAIN building : building[i].object = m
          BY <1>3, <1>13, <2>6, <3>2 DEF BuildingInv
        <4> QED
          BY <1>15, <4>1
      <3> QED
        BY <1>13, <3>1, <3>2
    <2> QED
      BY <2>5, <2>6 DEF BuildingInv, Own, OwnNext
  <1>19. KeepsChunks
    <2>1. \A c \in Allocators : ChunksOf(c)' = ChunksOf(c)
      <3>1. ASSUME NEW q \in DOMAIN chunks, q[1] = p[1]
            PROVE  q[1] \in Own(a)
        <4>1. q[1] \in heap
          BY <1>3 DEF LinkedInv
        <4> QED
          BY <1>3, <1>4, <3>1, <4>1, FreePlaceOwned
      <3> QED
        BY <1>2, <1>12, <3>1 DEF ChunksOf
    <2> QED
      BY <1>2, <1>7, <1>8, <1>13, <2>1 DEF KeepsChunks
  <1>20. ChunksOK' /\ LinksInv' /\ ListInv' /\ Listed' = Listed
    BY <1>3, <1>16, <1>19, KeptChunks
  <1>21. IteratorOK' /\ IteratorInv' /\ NoneIterates'
    <2>1. UNCHANGED iterator /\ live \subseteq live'
      BY <1>2
    <2> QED
      BY <1>3, <1>16, <1>19, <2>1, KeptIterator DEF IInv
  <1>22. ListsItsObjects'
    <2>1. \A m \in DOMAIN objects : objects[m].fate = "alive" => objects[m].at[1] \in heap
      BY <1>3, LivesInHeap
    <2>2. p[1] \in heap => p[1] \in Own(a)
      <3>1. ASSUME p[1] \in heap
            PROVE  p[1] \in Own(a)
        BY <1>3, <1>4, <3>1, FreePlaceOwned
      <3> QED
        BY <3>1
    <2>3. \A c \in Allocators : Alive(c)' = Alive(c)
      BY <1>12, <1>13, <1>14, <2>1, <2>2 DEF Alive
    <2>4. \A c \in Allocators : /\ Range(Listed[c]) = Alive(c)
                                /\ IsInjective(Listed[c])
                                /\ data[c].count = Len(Listed[c])
      BY ListsAlive DEF IInv
    <2> QED
      BY <1>7, <1>8, <1>20, <2>3, <2>4, ListsAliveNext
  <1> QED
    BY <1>10, <1>11, <1>16, <1>17, <1>18, <1>20, <1>21, <1>22 DEF IInv

(* Reset, destruction and moves: each allocator has nothing after them, or *)
(* what one had that was not reset.                                        *)
LEMMA HandedFrom ==
    ASSUME DataOK, NEW a \in Allocators, NEW b \in Allocators \cup {Null}, HandsOver(a, b),
           NEW c \in Allocators
    PROVE  data'[c] = EmptyData \/ \E d \in Allocators \ {a} : data'[c] = data[d]
  <1>1. /\ data'[a] = Taken(b)
        /\ \A e \in Allocators \ {a, b} : data'[e] = data[e]
        /\ b # Null => data'[b] = EmptyData
    BY HandedOver
  <1>2. b # a
    BY DEF HandsOver
  <1> QED
    BY <1>1, <1>2, NullIsNowhere DEF Taken

(* Of the objects, those that were listed are destructed. *)
LEMMA HandedObjects ==
    ASSUME IInv, NEW a \in Allocators, NEW b \in Allocators \cup {Null}, HandsOver(a, b)
    PROVE  /\ ObjectsOK' /\ Len(objects') = Len(objects) /\ DOMAIN objects' = DOMAIN objects
           /\ \A n \in DOMAIN objects :
                  IF n \in Alive(a)
                  THEN objects'[n].fate = "destructed" /\ objects'[n].at = objects[n].at
                  ELSE objects'[n] = objects[n]
  <1>1. Range(Listed[a]) = Alive(a)
    BY ListsAlive DEF IInv
  <1>2. ObjectsOK /\ objects \in Seq(Objects)
    BY DEF IInv, ObjectsOK
  <1>3. /\ DOMAIN objects' = DOMAIN objects
        /\ \A n \in DOMAIN objects :
               objects'[n] = IF n \in Alive(a) THEN [objects[n] EXCEPT !.fate = "destructed"]
                             ELSE objects[n]
    BY <1>1 DEF HandsOver
  <1>4. \A n \in DOMAIN objects : objects[n] \in Objects
    BY <1>2
  <1>5. \A n \in DOMAIN objects : objects'[n] \in Objects
    BY <1>3, <1>4 DEF Objects
  <1>6. objects' \in Seq(Objects) /\ Len(objects') = Len(objects)
    <2>1. /\ objects' \in [1..Len(objects) -> Objects] /\ Len(objects) \in Nat
      <3>1. DOMAIN objects = 1..Len(objects) /\ Len(objects) \in Nat
        BY <1>2
      <3>2. objects' = [n \in 1..Len(objects) |-> objects'[n]]
        BY <3>1, <1>1 DEF HandsOver
      <3> QED
        BY <1>5, <3>1, <3>2
    <2> HIDE DEF Objects
    <2> QED
      BY <2>1
  <1>7. ObjectsOK'
    BY <1>2, <1>6 DEF ObjectsOK, HandsOver
  <1>8. \A n \in DOMAIN objects : n \in Alive(a) =>
            objects'[n].fate = "destructed" /\ objects'[n].at = objects[n].at
    BY <1>3, <1>4 DEF Objects
  <1> QED
    BY <1>3, <1>6, <1>7, <1>8

LEMMA HandedExtents ==
    ASSUME IInv, NEW a \in Allocators, NEW b \in Allocators \cup {Null}, HandsOver(a, b)
    PROVE  Extents' \subseteq {x \in Extents : x.at[1] \notin Own(a)}
  <1>1. /\ DOMAIN objects' = DOMAIN objects
        /\ \A n \in DOMAIN objects :
               IF n \in Alive(a)
               THEN objects'[n].fate = "destructed" /\ objects'[n].at = objects[n].at
               ELSE objects'[n] = objects[n]
    BY HandedObjects
  <1> SUFFICES ASSUME NEW x \in Extents'
               PROVE  x \in Extents /\ x.at[1] \notin Own(a)
    OBVIOUS
  <1>2. CASE \E n \in DOMAIN objects' :
                 /\ objects'[n].fate \in {"constructing", "alive"}
                 /\ x = [at |-> objects'[n].at, type |-> objects'[n].type, what |-> n]
    <2>1. PICK n \in DOMAIN objects :
              /\ objects'[n].fate \in {"constructing", "alive"}
              /\ x = [at |-> objects'[n].at, type |-> objects'[n].type, what |-> n]
      BY <1>1, <1>2
    <2>2. n \notin Alive(a) /\ objects'[n] = objects[n]
      BY <1>1, <2>1
    <2>3. x \in Extents /\ x.at = objects[n].at
      BY <2>1, <2>2 DEF Extents
    <2>4. ASSUME objects[n].at[1] \in Own(a)
          PROVE  FALSE
      <3>1. objects[n].fate = "constructing"
        BY <2>1, <2>2, <2>4 DEF Alive
      <3>2. PICK i \in DOMAIN building : building[i].object = n
        BY <3>1 DEF IInv, BuildingInv
      <3>3. objects[n].at[1] \in Own(building[i].in)
        BY <3>2 DEF IInv, BuildingInv
      <3>4. building[i].in # a /\ building[i].in \in Allocators
        BY FramesFacts DEF HandsOver, Idle, IInv
      <3> QED
        BY <2>4, <3>3, <3>4 DEF IInv, BlocksInv, BlocksOwned, Own
    <2> QED
      BY <2>3, <2>4
  <1>3. CASE \E q \in DOMAIN chunks' : x = [at |-> q, type |-> Pointers, what |-> 0]
    <2>1. PICK q \in DOMAIN chunks' : x = [at |-> q, type |-> Pointers, what |-> 0]
      BY <1>3
    <2>2. q \in DOMAIN chunks /\ q[1] \notin Own(a)
      BY DEF HandsOver, Discards
    <2> QED
      BY <2>1, <2>2 DEF Extents
  <1> QED
    BY <1>2, <1>3 DEF Extents

LEMMA HandedBuilding ==
    ASSUME IInv, NEW a \in Allocators, NEW b \in Allocators \cup {Null}, HandsOver(a, b)
    PROVE  BuildingInv'
  <1>1. /\ DOMAIN objects' = DOMAIN objects
        /\ \A n \in DOMAIN objects :
               IF n \in Alive(a)
               THEN objects'[n].fate = "destructed" /\ objects'[n].at = objects[n].at
               ELSE objects'[n] = objects[n]
    BY HandedObjects
  <1>2. building' = building /\ Idle(a) /\ (b # Null => Idle(b)) /\ live \ {a} \subseteq live'
    BY DEF HandsOver
  <1>3. \A c \in Allocators \ {a, b} : data'[c] = data[c]
    BY HandedOver DEF IInv
  <1>4. ASSUME NEW i \in DOMAIN building
        PROVE  LET n == building[i].object
               IN  /\ building[i].in \in live'
                   /\ objects'[n].fate = "constructing"
                   /\ objects'[n].at[1] \in Range(data'[building[i].in].blocks)
                   /\ \A j \in DOMAIN building : building[j].object = n => j = i
    <2> DEFINE n == building[i].object
               c == building[i].in
    <2>1. /\ c \in live /\ objects[n].fate = "constructing" /\ objects[n].at[1] \in Own(c)
          /\ \A j \in DOMAIN building : building[j].object = n => j = i
      BY DEF IInv, BuildingInv
    <2>2. c \in Allocators /\ n \in DOMAIN objects
      BY FramesFacts DEF IInv
    <2>3. c # a /\ c # b
      BY <1>2, <2>2, NullIsNowhere DEF Idle
    <2>4. n \notin Alive(a)
      BY <2>1 DEF Alive
    <2>5. objects'[n] = objects[n]
      BY <1>1, <2>2, <2>4
    <2>6. data'[c] = data[c]
      BY <1>3, <2>2, <2>3
    <2> HIDE DEF n, c
    <2>7. /\ c \in live' /\ objects'[n].fate = "constructing"
          /\ objects'[n].at[1] \in Range(data'[c].blocks)
      BY <1>2, <2>1, <2>3, <2>5, <2>6 DEF Own
    <2> QED
      BY <2>1, <2>7 DEF n, c
  <1>5. ASSUME NEW n \in DOMAIN objects', objects'[n].fate = "constructing"
        PROVE  \E i \in DOMAIN building : building[i].object = n
    <2>1. n \in DOMAIN objects /\ objects[n].fate = "constructing"
      BY <1>1, <1>5
    <2> QED
      BY <2>1 DEF IInv, BuildingInv
  <1> QED
    BY <1>2, <1>4, <1>5 DEF BuildingInv, Own

(* What c has after it, if it has what d had.                              *)
LEMMA HandedChunks ==
    ASSUME IInv, NEW a \in Allocators, NEW b \in Allocators \cup {Null}, HandsOver(a, b),
           NEW c \in Allocators, NEW d \in Allocators \ {a}, data'[c] = data[d]
    PROVE  /\ Own(c)' = Own(d) /\ ChunksOf(c)' = ChunksOf(d) /\ Alive(c)' = Alive(d)
           /\ \A q \in ChunksOf(d) : q \in DOMAIN chunks' /\ chunks'[q] = chunks[q]
           /\ Listed'[c] = Listed[d]
  <1>1. LinkedInv
    BY LinkedFromIInv
  <1>2. /\ DOMAIN chunks' = DOMAIN chunks \ ChunksOf(a)
        /\ \A q \in DOMAIN chunks' : chunks'[q] = chunks[q]
        /\ \A q \in DOMAIN chunks' \cup {Null} : ListedFrom'[q] = ListedFrom[q]
    BY <1>1, DiscardShrinksList DEF HandsOver
  <1>3. ChunksOf(d) \cap ChunksOf(a) = {} /\ ChunksOf(d) \subseteq DOMAIN chunks
    BY <1>1, ChunkOwners
  <1>4. Own(c)' = Own(d)
    BY DEF Own
  <1>5. ChunksOf(c)' = ChunksOf(d)
    BY <1>2, <1>3, <1>4 DEF ChunksOf
  <1>6. Alive(c)' = Alive(d)
    <2>1. Alive(a) \cap Alive(d) = {}
      BY DEF Alive, Own, IInv, BlocksInv, BlocksOwned
    <2>2. /\ DOMAIN objects' = DOMAIN objects
          /\ \A n \in DOMAIN objects :
                 IF n \in Alive(a)
                 THEN objects'[n].fate = "destructed" /\ objects'[n].at = objects[n].at
                 ELSE objects'[n] = objects[n]
      BY HandedObjects
    <2>3. \A n \in DOMAIN objects' : n \in Alive(c)' <=> n \in Alive(d)
      BY <1>4, <2>1, <2>2 DEF Alive
    <2> QED
      BY <2>2, <2>3 DEF Alive
  <1>7. Listed'[c] = Listed[d]
    <2>1. data[d].root \in DOMAIN chunks' \cup {Null}
      BY <1>1, <1>2, <1>3 DEF LinkedInv, LinksInv
    <2>2. Listed'[c] = ListedFrom'[data'[c].root]
      BY DEF Listed
    <2>3. Listed[d] = ListedFrom[data[d].root]
      BY DEF Listed
    <2> QED
      BY <1>2, <2>1, <2>2, <2>3
  <1> QED
    BY <1>2, <1>3, <1>4, <1>5, <1>6, <1>7

LEMMA HandedNothing ==
    ASSUME IInv, NEW a \in Allocators, NEW b \in Allocators \cup {Null}, HandsOver(a, b),
           NEW c \in Allocators, data'[c] = EmptyData
    PROVE  /\ Own(c)' = {} /\ ChunksOf(c)' = {} /\ Alive(c)' = {} /\ Listed'[c] = <<>>
           /\ data'[c].root = Null /\ data'[c].current = Null /\ data'[c].count = 0
  <1>1. Own(c)' = {} /\ data'[c].root = Null /\ data'[c].current = Null /\ data'[c].count = 0
    BY EmptyFields DEF Own, EmptyData
  <1>2. ListedFrom'[Null] = <<>>
    <2>1. LinkedInv
      BY LinkedFromIInv
    <2>2. ListedFrom'[Null] = ListedFrom[Null]
      BY <2>1, DiscardShrinksList DEF HandsOver
    <2> QED
      BY <2>1, <2>2, ListedFromAt DEF LinkedInv
  <1>3. Listed'[c] = <<>>
    BY <1>1, <1>2 DEF Listed
  <1> QED
    BY <1>1, <1>3 DEF ChunksOf, Alive

LEMMA HandedIterator ==
    ASSUME IInv, NEW a \in Allocators, NEW b \in Allocators \cup {Null}, HandsOver(a, b)
    PROVE  IteratorOK' /\ IteratorInv' /\ NoneIterates'
  <1>1. LinkedInv /\ IteratorOK /\ IteratorInv /\ NoneIterates
    BY LinkedFromIInv DEF IInv
  <1>2. Null \notin Allocators /\ Len(objects') = Len(objects) /\ kMax \in Nat /\ kMax > 1
    BY NullIsNowhere, HandedObjects, AllocatorAssumption
  <1>3. IteratorOK' /\ NoneIterates'
    <2>1. CASE iterator' = NoIterator
      <3>1. <<>> \in Seq(1..Len(objects'))
        OBVIOUS
      <3>2. IteratorOK'
        BY <1>2, <2>1, <3>1 DEF IteratorOK, NoIterator, Places
      <3> QED
        BY <2>1, <3>2 DEF NoneIterates, NoIterator
    <2>2. CASE iterator' = iterator
      BY <1>1, <1>2, <2>2 DEF IteratorOK, NoneIterates
    <2>3. CASE iterator' = [iterator EXCEPT !.of = a]
      <3>1. iterator'.of = a
        BY <1>1, <2>3 DEF IteratorOK
      <3>2. IteratorOK'
        BY <1>1, <1>2, <2>3 DEF IteratorOK
      <3> QED
        BY <1>2, <3>1, <3>2 DEF NoneIterates
    <2> QED
      BY <2>1, <2>2, <2>3 DEF HandsOver
  <1>4. ASSUME iterator'.of # Null
        PROVE  /\ iterator'.of \in Allocators /\ iterator'.of \in live'
               /\ iterator.of \in Allocators \ {a}
               /\ data'[iterator'.of] = data[iterator.of]
               /\ iterator'.ptrs = iterator.ptrs /\ iterator'.idx = iterator.idx
               /\ iterator'.seen = iterator.seen
    <2>1. /\ data'[a] = Taken(b)
          /\ \A e \in Allocators \ {a, b} : data'[e] = data[e]
      BY HandedOver DEF IInv
    <2>2. /\ live \ {a} \subseteq live' /\ (b # Null => a \in live') /\ b # a
          /\ iterator' = IF iterator.of = a THEN NoIterator
                         ELSE IF iterator.of = b /\ b # Null THEN [iterator EXCEPT !.of = a]
                         ELSE iterator
      BY DEF HandsOver
    <2>3. iterator.of # a
      BY <1>4, <2>2 DEF NoIterator
    <2>4. CASE iterator.of = b /\ b # Null
      <3>1. /\ iterator'.of = a /\ iterator'.ptrs = iterator.ptrs
            /\ iterator'.idx = iterator.idx /\ iterator'.seen = iterator.seen
        BY <1>1, <2>2, <2>3, <2>4 DEF IteratorOK
      <3> QED
        BY <2>1, <2>2, <2>4, <3>1 DEF Taken
    <2>5. CASE ~(iterator.of = b /\ b # Null)
      <3>1. iterator' = iterator
        BY <2>2, <2>3, <2>5
      <3>2. iterator.of \in Allocators \ {a, b} /\ iterator.of \in live
        BY <1>1, <1>4, <2>3, <2>5, <3>1 DEF IteratorOK, IteratorInv
      <3> QED
        BY <2>1, <2>2, <3>1, <3>2
    <2> QED
      BY <2>4, <2>5
  <1>5. ASSUME iterator'.of # Null
        PROVE  /\ iterator'.ptrs = Null => IsPrefix(iterator'.seen, Listed'[iterator'.of])
               /\ iterator'.ptrs # Null =>
                      /\ iterator'.ptrs \in ChunksOf(iterator.of)
                      /\ chunks'[iterator'.ptrs] = chunks[iterator.ptrs]
                      /\ ListedFrom'[chunks[iterator.ptrs].next]
                             = ListedFrom[chunks[iterator.ptrs].next]
                      /\ iterator'.idx < Len(chunks'[iterator'.ptrs].ptrs)
                      /\ iterator'.seen # <<>>
                      /\ Last(iterator.seen) = Deref(iterator.ptrs, iterator.idx)
                      /\ Listed[iterator.of] = iterator.seen \o ToCome(iterator)
    <2> DEFINE c == iterator'.of
               d == iterator.of
    <2>1. /\ c \in Allocators /\ d \in Allocators \ {a} /\ data'[c] = data[d] /\ d # Null
          /\ iterator'.ptrs = iterator.ptrs /\ iterator'.idx = iterator.idx
          /\ iterator'.seen = iterator.seen
      BY <1>2, <1>4, <1>5
    <2>2. /\ d # Null =>
                /\ iterator.ptrs = Null => IsPrefix(iterator.seen, Listed[d])
                /\ iterator.ptrs # Null =>
                       /\ iterator.ptrs \in ChunksOf(d)
                       /\ iterator.idx < Len(chunks[iterator.ptrs].ptrs)
                       /\ iterator.seen # <<>>
                       /\ Last(iterator.seen) = Deref(iterator.ptrs, iterator.idx)
                       /\ Listed[d] = iterator.seen \o ToCome(iterator)
      BY <1>1 DEF IteratorInv
    <2> HIDE DEF c, d
    <2>3. /\ \A q \in ChunksOf(d) : q \in DOMAIN chunks' /\ chunks'[q] = chunks[q]
          /\ Listed'[c] = Listed[d]
      BY <2>1, HandedChunks
    <2>4. \A q \in ChunksOf(d) : chunks[q].next \in ChunksOf(d) \cup {Null}
      BY <1>1, <2>1, ChunkOwners
    <2>5. \A q \in DOMAIN chunks' \cup {Null} : ListedFrom'[q] = ListedFrom[q]
      BY <1>1, DiscardShrinksList DEF HandsOver
    <2> QED
      BY <2>1, <2>2, <2>3, <2>4, <2>5 DEF c, d
  <1>6. IteratorInv'
    <2> SUFFICES ASSUME iterator'.of # Null
                 PROVE  IteratorInv'
      BY DEF IteratorInv
    <2>1. iterator'.of \in Allocators /\ iterator.of \in Allocators \ {a}
          /\ data'[iterator'.of] = data[iterator.of] /\ iterator'.of \in live'
          /\ iterator'.ptrs = iterator.ptrs /\ iterator'.idx = iterator.idx
          /\ iterator'.seen = iterator.seen
      BY <1>4
    <2>2. /\ \A c, d \in Allocators : d # a /\ data'[c] = data[d] =>
                 Listed'[c] = Listed[d] /\ Range(data'[c].blocks) = Own(d)
      BY HandedChunks DEF Own
    <2>3. Listed'[iterator'.of] = Listed[iterator.of]
      BY <2>1, <2>2
    <2>4. CASE iterator'.ptrs = Null
      BY <1>5, <2>1, <2>4 DEF IteratorInv
    <2>5. CASE iterator'.ptrs # Null
      <3>1. /\ iterator'.ptrs \in DOMAIN chunks'
            /\ iterator'.ptrs[1] \in Range(data'[iterator'.of].blocks)
        <4>1. iterator'.ptrs \in ChunksOf(iterator.of)
          BY <1>5, <2>5
        <4>2. \A q \in ChunksOf(iterator.of) : q \in DOMAIN chunks' /\ q[1] \in Own(iterator.of)
          BY <2>1, HandedChunks DEF ChunksOf
        <4> QED
          BY <2>1, <2>2, <4>1, <4>2
      <3>2. ToCome(iterator)' = ToCome(iterator) /\ Deref(iterator.ptrs, iterator.idx)'
                = Deref(iterator.ptrs, iterator.idx)
        BY <1>5, <2>1, <2>5 DEF ToCome, Deref
      <3> QED
        BY <1>5, <2>1, <2>3, <2>5, <3>1, <3>2 DEF IteratorInv, ChunksOf, Own
    <2> QED
      BY <2>4, <2>5
  <1> QED
    BY <1>3, <1>6

LEMMA HandsOverKeeps ==
    ASSUME IInv, NEW a \in Allocators, NEW b \in Allocators \cup {Null}, HandsOver(a, b)
    PROVE  IInv'
  <1>1. LinkedInv /\ DataOK /\ ChunksOK /\ ObjectsOK /\ BlocksInv /\ MemoryInv
    BY LinkedFromIInv DEF IInv
  <1>2. ObjectsOK' /\ Len(objects') = Len(objects)
    BY HandedObjects
  <1>3. /\ DOMAIN chunks' = DOMAIN chunks \ ChunksOf(a)
        /\ \A q \in DOMAIN chunks' : chunks'[q] = chunks[q]
        /\ \A q \in DOMAIN chunks' \cup {Null} : ListedFrom'[q] = ListedFrom[q]
        /\ Ranked(chunks') /\ Lists(chunks', ListedFrom')
        /\ DOMAIN ListedFrom' = DOMAIN chunks' \cup {Null}
    BY <1>1, DiscardShrinksList DEF HandsOver
  <1>4. DataOK'
    <2>1. data' \in [Allocators -> Fields]
      BY <1>1, HandedOver
    <2> QED
      BY <1>1, <2>1 DEF DataOK, HandsOver
  <1>5. ChunksOK'
    <2>1. \A q \in DOMAIN chunks' : chunks'[q] \in Chunks(Len(objects'))
      BY <1>1, <1>2, <1>3 DEF ChunksOK
    <2>2. chunks' = [q \in DOMAIN chunks' |-> chunks'[q]]
      BY DEF HandsOver, Discards
    <2>3. chunks' \in [DOMAIN chunks' -> Chunks(Len(objects'))]
      BY <2>1, <2>2
    <2> QED
      BY <1>1, <1>3, <2>3 DEF ChunksOK
  <1>6. BlocksInv'
    BY <1>1, HandedBlocks
  <1>7. MemoryInv'
    <2>1. Extents' \subseteq {x \in Extents : x.at[1] \notin Own(a)}
      BY HandedExtents
    <2> QED
      BY <1>1, <2>1, HandedMemory
  <1>8. BuildingInv'
    BY HandedBuilding
  <1>9. ListInv'
    <2>1. \A q \in DOMAIN chunks' \cup {Null} : ListedFrom'[q] \in Seq(1..Len(objects'))
      BY <1>1, <1>2, <1>3 DEF LinkedInv, ListInv
    <2>2. ListedFrom' = [q \in DOMAIN chunks' \cup {Null} |-> ListedFrom'[q]]
      BY <1>3, Zenon DEF Lists
    <2>3. ListedFrom' \in [DOMAIN chunks' \cup {Null} -> Seq(1..Len(objects'))]
      BY <2>1, <2>2
    <2> QED
      BY <1>3, <2>3 DEF ListInv
  <1> DEFINE Right(c) ==
             /\ data'[c].root = Null => data'[c].current = Null /\ ChunksOf(c)' = {}
             /\ data'[c].root # Null => /\ data'[c].root \in ChunksOf(c)'
                                        /\ data'[c].current \in ChunksOf(c)'
             /\ \A p \in ChunksOf(c)' :
                    IF p = data'[c].current THEN chunks'[p].next = Null
                    ELSE chunks'[p].next \in ChunksOf(c)'
             /\ Range(Listed'[c]) = Alive(c)'
             /\ IsInjective(Listed'[c])
             /\ data'[c].count = Len(Listed'[c])
  <1>10. ASSUME NEW c \in Allocators
         PROVE  Right(c)
    <2>1. CASE data'[c] = EmptyData
      <3>1. /\ ChunksOf(c)' = {} /\ Alive(c)' = {} /\ Listed'[c] = <<>>
            /\ data'[c].root = Null /\ data'[c].current = Null /\ data'[c].count = 0
        BY <2>1, HandedNothing
      <3>2. IsInjective(<<>>) /\ Range(<<>>) = {} /\ Len(<<>>) = 0
        BY DEF IsInjective, Range
      <3> QED
        BY <3>1, <3>2
    <2>2. ASSUME NEW d \in Allocators \ {a}, data'[c] = data[d]
          PROVE  Right(c)
      <3>1. /\ ChunksOf(c)' = ChunksOf(d) /\ Alive(c)' = Alive(d)
            /\ \A q \in ChunksOf(d) : q \in DOMAIN chunks' /\ chunks'[q] = chunks[q]
            /\ Listed'[c] = Listed[d]
        BY <2>2, HandedChunks
      <3>2. /\ Range(Listed[d]) = Alive(d)
            /\ IsInjective(Listed[d])
            /\ data[d].count = Len(Listed[d])
        BY ListsAlive DEF IInv
      <3>3. /\ data[d].root = Null => data[d].current = Null /\ ChunksOf(d) = {}
            /\ data[d].root # Null => data[d].root \in ChunksOf(d) /\ data[d].current \in ChunksOf(d)
            /\ \A p \in ChunksOf(d) :
                   IF p = data[d].current THEN chunks[p].next = Null
                   ELSE chunks[p].next \in ChunksOf(d)
        BY DEF IInv, LinksInv
      <3> QED
        BY <2>2, <3>1, <3>2, <3>3
    <2> QED
      BY <1>1, <2>1, <2>2, HandedFrom
  <1>11. LinksInv' /\ ListsItsObjects'
    BY <1>10, ListsAliveNext DEF LinksInv
  <1>12. IteratorOK' /\ IteratorInv' /\ NoneIterates'
    BY HandedIterator
  <1> QED
    BY <1>2, <1>4, <1>5, <1>6, <1>7, <1>8, <1>9, <1>11, <1>12 DEF IInv

(* The actions that hand over. *)
LEMMA ResetHandsOver ==
    ASSUME IInv, NEW a \in Allocators, Reset(a) \/ Destruct(a)
    PROVE  HandsOver(a, Null)
  <1>1. Null # a
    BY NullIsNowhere
  <1>2. data \in [Allocators -> Fields] /\ live \subseteq Allocators
    BY DEF IInv, DataOK
  <1>3. data' = [c \in Allocators |-> IF c = a THEN EmptyData ELSE data[c]]
    BY <1>2 DEF Reset, Destruct, ResetData
  <1>4. /\ live' \subseteq Allocators /\ live \ {a} \subseteq live' /\ live' \subseteq live \cup {a}
        /\ Discard(a) /\ iterator' = Unless(iterator, a)
    BY <1>2 DEF Reset, Destruct
  <1>5. data' = [c \in Allocators |-> IF c = a THEN Taken(Null)
                                      ELSE IF c = Null THEN EmptyData ELSE data[c]]
    BY <1>1, <1>3, NullIsNowhere DEF Taken
  <1> QED
    BY <1>1, <1>4, <1>5 DEF HandsOver, Discard, Discards, Own, Unless

LEMMA MoveAssignHandsOver ==
    ASSUME IInv, NEW a \in Allocators, NEW b \in Allocators, MoveAssign(a, b)
    PROVE  HandsOver(a, b)
  <1>1. Null # a /\ Null # b
    BY NullIsNowhere
  <1>2. data \in [Allocators -> Fields] /\ live \subseteq Allocators
    BY DEF IInv, DataOK
  <1>3. data' = [c \in Allocators |-> IF c = a THEN data[b]
                                      ELSE IF c = b THEN EmptyData ELSE data[c]]
    BY <1>2 DEF MoveAssign, Swapped
  <1>4. /\ a # b /\ a \in live /\ b \in live /\ Idle(b) /\ live' = live
        /\ Discard(a) /\ iterator' = Follow(Unless(iterator, a), a, b)
    BY DEF MoveAssign
  <1>5. iterator' = IF iterator.of = a THEN NoIterator
                    ELSE IF iterator.of = b /\ b # Null THEN [iterator EXCEPT !.of = a]
                    ELSE iterator
    BY <1>1, <1>4 DEF Follow, Unless, NoIterator
  <1> QED
    BY <1>1, <1>2, <1>3, <1>4, <1>5 DEF HandsOver, Discard, Discards, Own, Taken

(* The allocator that is constructed had nothing to reset. *)
LEMMA MoveConstructHandsOver ==
    ASSUME IInv, NEW a \in Allocators, NEW b \in Allocators, MoveConstruct(a, b)
    PROVE  HandsOver(a, b)
  <1>1. Null # a /\ Null # b
    BY NullIsNowhere
  <1>2. data \in [Allocators -> Fields] /\ live \subseteq Allocators
    BY DEF IInv, DataOK
  <1>3. data' = [c \in Allocators |-> IF c = a THEN data[b]
                                      ELSE IF c = b THEN EmptyData ELSE data[c]]
    BY <1>2 DEF MoveConstruct, Swapped
  <1>4. /\ a \notin live /\ b \in live /\ Idle(b) /\ live' = live \cup {a}
        /\ iterator' = Follow(iterator, a, b)
        /\ heap' = heap /\ chunks' = chunks /\ objects' = objects /\ building' = building
    BY DEF MoveConstruct
  <1>5. data[a] = EmptyData
    BY <1>4 DEF IInv, BlocksInv
  <1>6. Own(a) = {} /\ data[a].root = Null
    BY <1>5, EmptyFields DEF Own, EmptyData
  <1>7. Range(Listed[a]) = {}
    <2>1. Listed[a] = <<>>
      BY <1>6, LinkedFromIInv, ListedIs, ListedFromAt DEF LinkedInv
    <2> QED
      BY <2>1 DEF Range
  <1>8. Discards(a)
    <2>1. chunks = [q \in DOMAIN chunks |-> chunks[q]]
      BY DEF IInv, ChunksOK
    <2>2. {p \in DOMAIN chunks : p[1] \notin Own(a)} = DOMAIN chunks
      BY <1>6
    <2> QED
      BY <1>4, <2>1, <2>2 DEF Discards
  <1>9. objects' = [n \in DOMAIN objects |->
                       IF n \in Range(Listed[a])
                       THEN [objects[n] EXCEPT !.fate = "destructed"]
                       ELSE objects[n]]
    <2>1. objects = [n \in DOMAIN objects |-> objects[n]]
      <3>1. objects \in Seq(Objects)
        BY DEF IInv, ObjectsOK
      <3> QED
        BY <3>1
    <2> QED
      BY <1>4, <1>7, <2>1
  <1>10. Idle(a)
    <2>1. \A i \in DOMAIN building : building[i].in \in live
      BY DEF IInv, BuildingInv
    <2> QED
      BY <1>4, <2>1 DEF Idle
  <1>11. iterator.of # a
    BY <1>1, <1>4 DEF IInv, IteratorInv
  <1>12. iterator' = IF iterator.of = a THEN NoIterator
                     ELSE IF iterator.of = b /\ b # Null THEN [iterator EXCEPT !.of = a]
                     ELSE iterator
    BY <1>1, <1>4, <1>11 DEF Follow
  <1>13. data' = [c \in Allocators |-> IF c = a THEN Taken(b)
                                       ELSE IF c = b THEN EmptyData ELSE data[c]]
    BY <1>1, <1>3 DEF Taken
  <1>14. heap' = heap \ Own(a) /\ b # a /\ UNCHANGED building
    BY <1>4, <1>6
  <1>15. /\ b # Null => b \in live /\ Idle(b) /\ a \in live'
         /\ live' \subseteq Allocators /\ live \ {a} \subseteq live' /\ live' \subseteq live \cup {a}
    BY <1>2, <1>4
  <1> QED
    BY <1>8, <1>9, <1>10, <1>12, <1>13, <1>14, <1>15 DEF HandsOver

(* What is listed of the chunk q from its i-th object on                   *)
From(q, i) ==
    SubSeq(chunks[q].ptrs, i, Len(chunks[q].ptrs)) \o ListedFrom[chunks[q].next]

(* An iterator that moves on passes over the first object to come.         *)
PassesTo(q, i, seen) ==
    /\ Deref(q, i) \in 1..Len(objects)
    /\ seen \o From(q, i + 1) = Append(seen, Deref(q, i)) \o From(q, i + 2)

LEMMA PassesOver ==
    ASSUME LinkedInv, NEW q \in DOMAIN chunks, NEW i \in Nat, i < Len(chunks[q].ptrs),
           NEW seen \in Seq(1..Len(objects))
    PROVE  PassesTo(q, i, seen)
  <1> DEFINE S == 1..Len(objects)
             ptrs == chunks[q].ptrs
             rest == ListedFrom[chunks[q].next]
             tail == SubSeq(ptrs, i + 2, Len(ptrs))
             e == ptrs[i + 1]
  <1>1. chunks[q].next \in DOMAIN chunks \cup {Null}
    BY ChunkOwners
  <1>2. rest \in Seq(S) /\ ptrs \in Seq(S)
    BY <1>1 DEF LinkedInv, ListInv, ChunksOK, Chunks
  <1> HIDE DEF S, ptrs, rest
  <1>3. i + 1 \in 1..Len(ptrs) /\ Len(ptrs) \in Nat /\ Len(ptrs) \in (i + 1)..Len(ptrs)
    BY <1>2 DEF ptrs
  <1>4. e \in S
    BY <1>2, <1>3
  <1>5. SubSeq(ptrs, i + 1, Len(ptrs)) = <<e>> \o SubSeq(ptrs, (i + 1) + 1, Len(ptrs))
    BY <1>2, <1>3, SubSeqRecursiveFirst
  <1>6. (i + 1) + 1 = i + 2
    OBVIOUS
  <1>7. SubSeq(ptrs, i + 1, Len(ptrs)) = <<e>> \o tail
    BY <1>5, <1>6
  <1>8. tail \in Seq(S)
    <2>1. \A j \in (i + 2)..Len(ptrs) : ptrs[j] \in S
      BY <1>2
    <2> QED
      BY <1>3, <2>1, SubSeqProperties
  <1>9. \A w, t \in Seq(S) : \A x \in S : w \o (<<x>> \o t) = Append(w, x) \o t
    <2> SUFFICES ASSUME NEW w \in Seq(S), NEW t \in Seq(S), NEW x \in S
                 PROVE  w \o (<<x>> \o t) = Append(w, x) \o t
      OBVIOUS
    <2>1. <<x>> \in Seq(S)
      OBVIOUS
    <2>2. Append(w, x) = w \o <<x>>
      BY AppendIsConcat
    <2>3. (w \o <<x>>) \o t = w \o (<<x>> \o t)
      BY <2>1, ConcatAssociative
    <2> QED
      BY <2>2, <2>3
  <1> HIDE DEF e, tail
  <1>10. (<<e>> \o tail) \o rest = <<e>> \o (tail \o rest) /\ tail \o rest \in Seq(S)
    <2>1. <<e>> \in Seq(S)
      BY <1>4
    <2> QED
      BY <1>2, <1>8, <2>1, ConcatAssociative, ConcatProperties
  <1>11. seen \in Seq(S)
    BY DEF S
  <1>12. seen \o (<<e>> \o (tail \o rest)) = Append(seen, e) \o (tail \o rest)
    BY <1>4, <1>9, <1>10, <1>11
  <1>13. seen \o (SubSeq(ptrs, i + 1, Len(ptrs)) \o rest) = Append(seen, e) \o (tail \o rest)
    BY <1>7, <1>10, <1>12
  <1> QED
    BY <1>4, <1>13 DEF S, e, tail, ptrs, rest, PassesTo, From, Deref

(* The iterator moves, or one begins, and nothing else happens: to the end *)
(* of what is listed, or to an object of a chunk of its allocator.         *)
OnlyIterates == UNCHANGED <<live, data, heap, chunks, objects, building>>

LEMMA IteratesKeeps ==
    ASSUME IInv, OnlyIterates, IteratorOK', iterator'.of # Null,
           LET it == iterator'
           IN  /\ it.of \in live
               /\ it.ptrs = Null => IsPrefix(it.seen, Listed[it.of])
               /\ it.ptrs # Null =>
                      /\ it.ptrs \in ChunksOf(it.of)
                      /\ it.idx < Len(chunks[it.ptrs].ptrs)
                      /\ it.seen # <<>>
                      /\ Last(it.seen) = Deref(it.ptrs, it.idx)
                      /\ Listed[it.of] = it.seen \o ToCome(it)
    PROVE  IInv'
  <1>1. /\ live' = live /\ data' = data /\ heap' = heap /\ chunks' = chunks
        /\ objects' = objects /\ building' = building
    BY DEF OnlyIterates
  <1>2. ListedFrom' = ListedFrom
    BY <1>1 DEF ListedFrom
  <1>3. Listed' = Listed
    BY <1>1, <1>2 DEF Listed
  <1>4. Extents' = Extents
    BY <1>1 DEF Extents
  <1>5. DataOK' /\ ChunksOK' /\ ObjectsOK'
    BY <1>1 DEF IInv, DataOK, ChunksOK, ObjectsOK
  <1>6. BlocksInv' /\ MemoryInv' /\ BuildingInv'
    <2>1. BlocksInv'
      BY <1>1 DEF IInv, BlocksInv, BlocksOwned
    <2>2. MemoryInv'
      BY <1>1, <1>4 DEF IInv, MemoryInv, NoOverlap
    <2>3. BuildingInv'
      BY <1>1 DEF IInv, BuildingInv, Own
    <2> QED
      BY <2>1, <2>2, <2>3
  <1>7. LinksInv' /\ ListsItsObjects'
    BY <1>1, <1>3 DEF IInv, LinksInv, ChunksOf, Own, ListsItsObjects
  <1>8. ListInv'
    BY <1>1, <1>2 DEF IInv, ListInv
  <1>9. IteratorInv' /\ NoneIterates'
    BY <1>1, <1>2, <1>3 DEF IteratorInv, NoneIterates, ChunksOf, Own, Deref, ToCome
  <1> QED
    BY <1>5, <1>6, <1>7, <1>8, <1>9 DEF IInv

LEMMA BeginKeeps ==
    ASSUME IInv, NEW a \in Allocators, Begin(a)
    PROVE  IInv'
  <1> DEFINE q == data[a].root
             S == 1..Len(objects)
  <1>1. a \in live /\ OnlyIterates /\ iterator' = At([NoIterator EXCEPT !.of = a], q, 0)
    BY DEF Begin, OnlyIterates
  <1>2. LinkedInv /\ Null \notin Allocators
    BY LinkedFromIInv, NullIsNowhere
  <1>3. objects' = objects /\ kMax \in Nat /\ kMax > 1
    BY <1>1, AllocatorAssumption DEF OnlyIterates
  <1>4. Listed[a] = ListedFrom[q] /\ q \in DOMAIN chunks \cup {Null} /\ Listed[a] \in Seq(S)
    BY <1>2, ListedIs
  <1>5. CASE q = Null
    <2>1. iterator' = [of |-> a, ptrs |-> Null, idx |-> 0, seen |-> <<>>]
      BY <1>1, <1>5 DEF At, NoIterator
    <2>2. IteratorOK' /\ iterator'.of = a /\ iterator'.ptrs = Null /\ iterator'.seen = <<>>
      BY <1>3, <2>1 DEF IteratorOK, Places
    <2>3. IsPrefix(<<>>, Listed[a])
      BY <1>4 DEF IsPrefix
    <2> QED
      BY <1>1, <1>2, <2>2, <2>3, IteratesKeeps
  <1>6. CASE q # Null
    <2> DEFINE e == Deref(q, 0)
    <2>1. q \in ChunksOf(a) /\ q \in DOMAIN chunks /\ q \in Places
      BY <1>2, <1>6 DEF LinkedInv, LinksInv, ChunksOf, ChunksOK, Places
    <2>2. chunks[q].ptrs \in Seq(S) /\ Len(chunks[q].ptrs) \in 1..kMax
      BY <1>2, <2>1 DEF LinkedInv, ChunksOK, Chunks
    <2>3. 0 < Len(chunks[q].ptrs)
      BY <2>2
    <2>4. PassesTo(q, 0, <<>>)
      <3>1. <<>> \in Seq(S) /\ 0 \in Nat
        OBVIOUS
      <3> HIDE DEF q
      <3> QED
        BY <1>2, <2>1, <2>3, <3>1, PassesOver, Zenon
    <2>5. e \in S /\ Append(<<>>, e) = <<e>>
      <3> HIDE DEF e
      <3>1. e \in S
        BY <2>4 DEF PassesTo, e
      <3> QED
        BY <3>1
    <2>6. iterator' = [of |-> a, ptrs |-> q, idx |-> 0, seen |-> <<e>>]
      BY <1>1, <1>6, <2>5 DEF At, NoIterator
    <2>7. Listed[a] = <<e>> \o ToCome(iterator')
      <3>1. ListedFrom[q] = chunks[q].ptrs \o ListedFrom[chunks[q].next]
        BY <1>2, <1>6, <2>1, ListedFromAt DEF LinkedInv
      <3>2. SubSeq(chunks[q].ptrs, 1, Len(chunks[q].ptrs)) = chunks[q].ptrs
        BY <2>2, SubSeqFull
      <3>3. <<>> \o Listed[a] = Listed[a]
        BY <1>4, ConcatEmptySeq
      <3>4. From(q, 1) = Listed[a]
        BY <1>4, <3>1, <3>2 DEF From
      <3>5. ToCome(iterator') = From(q, 2)
        <4>1. iterator'.ptrs = q /\ iterator'.idx + 2 = 2
          BY <2>6
        <4> HIDE DEF q, e
        <4> QED
          BY <4>1 DEF ToCome, From
      <3>6. <<>> \o From(q, 1) = Append(<<>>, e) \o From(q, 2)
        <4>1. <<>> \o From(q, 0 + 1) = Append(<<>>, e) \o From(q, 0 + 2)
          BY <2>4 DEF PassesTo
        <4>2. 0 + 1 = 1 /\ 0 + 2 = 2
          OBVIOUS
        <4> HIDE DEF q, e
        <4> QED
          BY <4>1, <4>2
      <3> HIDE DEF q, e
      <3> QED
        BY <2>5, <3>3, <3>4, <3>5, <3>6
    <2>8. IteratorOK'
      <3>1. <<e>> \in Seq(S)
        BY <2>5
      <3> HIDE DEF e
      <3> QED
        BY <1>3, <2>1, <2>6, <3>1 DEF IteratorOK
    <2>9. /\ iterator'.of = a /\ iterator'.ptrs = q /\ iterator'.idx = 0
          /\ iterator'.seen # <<>> /\ iterator'.seen = <<e>> /\ Last(iterator'.seen) = Deref(q, 0)
      BY <2>6 DEF Last
    <2> HIDE DEF e
    <2> QED
      BY <1>1, <1>2, <1>6, <2>1, <2>3, <2>7, <2>8, <2>9, IteratesKeeps
  <1> QED
    BY <1>5, <1>6

LEMMA IncrementKeeps ==
    ASSUME IInv, Increment
    PROVE  IInv'
  <1> DEFINE S == 1..Len(objects)
             p == iterator.ptrs
             i == iterator.idx
             seen == iterator.seen
             c == iterator.of
  <1>1. /\ p # Null /\ OnlyIterates
        /\ iterator' = IF LastOf(p, i) THEN At(iterator, chunks[p].next, 0)
                       ELSE At(iterator, p, i + 1)
    BY DEF Increment, OnlyIterates
  <1>2. /\ LinkedInv /\ Null \notin Allocators /\ Null \notin DOMAIN chunks
        /\ objects' = objects /\ kMax \in Nat /\ kMax > 1
    BY <1>1, LinkedFromIInv, NullIsNowhere, AllocatorAssumption DEF OnlyIterates, LinkedInv
  <1>3. /\ iterator = [of |-> c, ptrs |-> p, idx |-> i, seen |-> seen]
        /\ c \in Allocators \cup {Null} /\ p \in Places /\ i \in 0..(kMax - 1) /\ seen \in Seq(S)
    BY DEF IInv, IteratorOK
  <1>4. c # Null
    BY <1>1 DEF IInv, NoneIterates, NoIterator
  <1>5. /\ c \in live /\ p \in ChunksOf(c) /\ i < Len(chunks[p].ptrs)
        /\ Listed[c] = seen \o From(p, i + 2)
    BY <1>1, <1>4 DEF IInv, IteratorInv, ToCome, From
  <1>6. /\ p \in DOMAIN chunks /\ chunks[p].ptrs \in Seq(S) /\ Len(chunks[p].ptrs) \in 1..kMax
        /\ chunks[p].next \in ChunksOf(c) \cup {Null} /\ i \in Nat
    <2>1. p \in DOMAIN chunks
      BY <1>5 DEF ChunksOf
    <2> QED
      BY <1>2, <1>3, <1>4, <1>5, <2>1, ChunkOwners DEF LinkedInv, ChunksOK, Chunks
  <1> HIDE DEF p, i, seen, c
  (* On to the j-th object of the chunk q: the first of those to come *)
  <1>7. ASSUME NEW q \in ChunksOf(c), NEW j \in Nat, j < Len(chunks[q].ptrs),
               Listed[c] = seen \o From(q, j + 1),
               iterator' = At(iterator, q, j)
        PROVE  IInv'
    <2> DEFINE e == Deref(q, j)
    <2>1. q \in DOMAIN chunks /\ q # Null /\ q \in Places /\ Len(chunks[q].ptrs) \in 1..kMax
      BY <1>2 DEF ChunksOf, LinkedInv, ChunksOK, Places
    <2>2. PassesTo(q, j, seen)
      BY <1>2, <1>3, <1>7, <2>1, PassesOver, Zenon DEF S
    <2>3. e \in S /\ Listed[c] = Append(seen, e) \o From(q, j + 2)
      BY <1>7, <2>2 DEF PassesTo
    <2> HIDE DEF e, S
    <2>4. iterator' = [of |-> c, ptrs |-> q, idx |-> j, seen |-> Append(seen, e)]
      BY <1>3, <1>7, <2>1 DEF At, e
    <2>5. /\ Append(seen, e) \in Seq(S) /\ Append(seen, e) # <<>> /\ Last(Append(seen, e)) = e
      BY <1>3, <2>3, AppendFacts
    <2>6. j \in 0..(kMax - 1)
      BY <1>2, <1>7, <2>1
    <2>7. IteratorOK'
      BY <1>2, <1>3, <2>1, <2>4, <2>5, <2>6 DEF IteratorOK, S
    <2>8. /\ iterator'.of = c /\ iterator'.ptrs = q /\ iterator'.idx = j
          /\ iterator'.seen = Append(seen, e)
      BY <2>4
    <2>9. ToCome(iterator') = From(q, j + 2)
      BY <2>8 DEF ToCome, From
    <2> QED
      BY <1>1, <1>4, <1>5, <1>7, <2>1, <2>3, <2>5, <2>7, <2>8, <2>9, IteratesKeeps DEF e
  <1>8. CASE ~LastOf(p, i)
    <2>1. i + 1 < Len(chunks[p].ptrs) /\ i + 1 \in Nat /\ (i + 1) + 1 = i + 2
      BY <1>6, <1>8 DEF LastOf
    <2> QED
      BY <1>1, <1>5, <1>7, <1>8, <2>1
  <1>9. CASE LastOf(p, i)
    <2> DEFINE q == chunks[p].next
    <2>1. From(p, i + 2) = ListedFrom[q]
      <3>1. i + 2 > Len(chunks[p].ptrs) /\ i + 2 \in Int /\ Len(chunks[p].ptrs) \in Int
        BY <1>5, <1>6, <1>9 DEF LastOf
      <3>2. SubSeq(chunks[p].ptrs, i + 2, Len(chunks[p].ptrs)) = <<>>
        BY <3>1, SubSeqEmpty
      <3>3. ListedFrom[q] \in Seq(S)
        BY <1>2, <1>6 DEF LinkedInv, ListInv, ChunksOf, S
      <3>4. <<>> \o ListedFrom[q] = ListedFrom[q]
        BY <3>3, ConcatEmptySeq
      <3> QED
        BY <3>2, <3>4 DEF From
    <2>2. CASE q = Null
      <3>1. Listed[c] = seen
        <4>1. ListedFrom[q] = <<>>
          BY <1>2, <2>2, ListedFromAt DEF LinkedInv
        <4>2. seen \o <<>> = seen
          BY <1>3, ConcatEmptySeq
        <4> QED
          BY <1>5, <2>1, <4>1, <4>2
      <3>2. iterator' = [of |-> c, ptrs |-> Null, idx |-> 0, seen |-> seen]
        BY <1>1, <1>3, <1>9, <2>2 DEF At
      <3>3. IteratorOK' /\ iterator'.of = c /\ iterator'.ptrs = Null /\ iterator'.seen = seen
        BY <1>2, <1>3, <3>2 DEF IteratorOK, Places, S
      <3>4. IsPrefix(seen, Listed[c])
        BY <1>3, <3>1 DEF IsPrefix
      <3> QED
        BY <1>1, <1>4, <1>5, <3>3, <3>4, IteratesKeeps
    <2>3. CASE q # Null
      <3>1. q \in ChunksOf(c) /\ q \in DOMAIN chunks
        BY <1>6, <2>3 DEF ChunksOf
      <3>2. /\ chunks[q].ptrs \in Seq(S) /\ Len(chunks[q].ptrs) \in 1..kMax
        BY <1>2, <3>1 DEF LinkedInv, ChunksOK, Chunks, S
      <3>3. 0 < Len(chunks[q].ptrs)
        BY <3>2
      <3>4. ListedFrom[q] = From(q, 1)
        <4>1. ListedFrom[q] = chunks[q].ptrs \o ListedFrom[chunks[q].next]
          BY <1>2, <2>3, <3>1, ListedFromAt DEF LinkedInv
        <4>2. SubSeq(chunks[q].ptrs, 1, Len(chunks[q].ptrs)) = chunks[q].ptrs
          BY <3>2, SubSeqFull
        <4> QED
          BY <4>1, <4>2 DEF From
      <3>5. Listed[c] = seen \o From(q, 0 + 1)
        BY <1>5, <2>1, <3>4
      <3>6. iterator' = At(iterator, q, 0)
        BY <1>1, <1>9
      <3> HIDE DEF q
      <3> QED
        BY <1>7, <3>1, <3>3, <3>5, <3>6
    <2> QED
      BY <2>2, <2>3
  <1> QED
    BY <1>8, <1>9
-----------------------------------------------------------------------------
(* The constructor of n returns: n is listed after all that a listed. *)

LEMMA SubSeqAppend ==
    \A S : \A s \in Seq(S) : \A e \in S : \A i \in 1..(Len(s) + 1) :
        /\ SubSeq(Append(s, e), i, Len(s) + 1) = Append(SubSeq(s, i, Len(s)), e)
        /\ SubSeq(s, i, Len(s)) \in Seq(S)
  <1> SUFFICES ASSUME NEW S, NEW s \in Seq(S), NEW e \in S, NEW i \in 1..(Len(s) + 1)
               PROVE  /\ SubSeq(Append(s, e), i, Len(s) + 1) = Append(SubSeq(s, i, Len(s)), e)
                      /\ SubSeq(s, i, Len(s)) \in Seq(S)
    OBVIOUS
  <1> DEFINE t == SubSeq(s, i, Len(s))
             l == SubSeq(Append(s, e), i, Len(s) + 1)
             r == Append(t, e)
  <1>1. Len(s) \in Nat /\ i \in Nat /\ i >= 1 /\ i <= Len(s) + 1
    OBVIOUS
  <1>2. /\ t \in Seq(S) /\ Len(t) = Len(s) + 1 - i
        /\ \A j \in 1..(Len(s) + 1 - i) : t[j] = s[i + j - 1]
    <2>1. \A j \in i..Len(s) : s[j] \in S
      BY <1>1
    <2> QED
      BY <1>1, <2>1, SubSeqProperties
  <1>3. /\ l \in Seq(S) /\ Len(l) = Len(s) + 2 - i
        /\ \A j \in 1..(Len(s) + 2 - i) : l[j] = Append(s, e)[i + j - 1]
    <2>1. \A j \in i..(Len(s) + 1) : Append(s, e)[j] \in S
      BY <1>1
    <2> QED
      BY <1>1, <2>1, SubSeqProperties
  <1> HIDE DEF t, l
  <1>4. /\ r \in Seq(S) /\ Len(r) = Len(s) + 2 - i
        /\ \A j \in 1..(Len(s) + 1 - i) : r[j] = t[j]
        /\ r[Len(s) + 2 - i] = e
    BY <1>1, <1>2
  <1> HIDE DEF r
  <1>5. \A j \in 1..Len(l) : l[j] = r[j]
    <2> SUFFICES ASSUME NEW j \in 1..(Len(s) + 2 - i)
                 PROVE  l[j] = r[j]
      BY <1>3
    <2>1. CASE j = Len(s) + 2 - i
      <3>1. i + j - 1 = Len(s) + 1
        BY <1>1, <2>1
      <3> QED
        BY <1>1, <1>3, <1>4, <2>1, <3>1
    <2>2. CASE j # Len(s) + 2 - i
      <3>1. j \in 1..(Len(s) + 1 - i) /\ i + j - 1 \in 1..Len(s)
        BY <1>1, <2>2
      <3> QED
        BY <1>1, <1>2, <1>3, <1>4, <3>1
    <2> QED
      BY <2>1, <2>2
  <1>6. l = r
    BY <1>3, <1>4, <1>5, SeqEqual
  <1> QED
    BY <1>2, <1>6 DEF l, r, t

LEMMA PrefixGrows ==
    \A S : \A s, t \in Seq(S) : \A e \in S : IsPrefix(s, t) => IsPrefix(s, Append(t, e))
  <1> SUFFICES ASSUME NEW S, NEW s \in Seq(S), NEW t \in Seq(S), NEW e \in S, IsPrefix(s, t)
               PROVE  IsPrefix(s, Append(t, e))
    OBVIOUS
  <1>1. Len(s) <= Len(t) /\ SubSeq(s, 1, Len(s)) = SubSeq(t, 1, Len(s))
    BY DEF IsPrefix
  <1>2. SubSeq(Append(t, e), 1, Len(s)) = SubSeq(t, 1, Len(s))
    BY <1>1
  <1> QED
    BY <1>1, <1>2 DEF IsPrefix

(* From any object of a on, n comes last. *)
GrownFrom(a, n) ==
    \A q \in DOMAIN chunks : \A i \in 1..(Len(chunks[q].ptrs) + 1) :
        /\ From(q, i)' = IF q \in ChunksOf(a) THEN Append(From(q, i), n) ELSE From(q, i)
        /\ From(q, i) \in Seq(1..Len(objects))

LEMMA AppendGrowsFrom ==
    ASSUME LinkedInv, NEW a \in Allocators, NEW n \in 1..Len(objects), Appends(a, n)
    PROVE  GrownFrom(a, n)
  <1> DEFINE S == 1..Len(objects)
             cur == data[a].current
  <1>1. /\ cur \in ChunksOf(a) /\ DOMAIN chunks' = DOMAIN chunks
        /\ \A q \in DOMAIN chunks :
               /\ chunks'[q].next = chunks[q].next
               /\ chunks'[q].ptrs = IF q = cur THEN Append(chunks[q].ptrs, n)
                                    ELSE chunks[q].ptrs
    BY AppendsToChunk
  <1>2. Grown(a, n)
    BY AppendGrowsList
  <1>3. /\ \A q \in DOMAIN chunks : chunks[q].ptrs \in Seq(S)
        /\ \A q \in DOMAIN chunks \cup {Null} : ListedFrom[q] \in Seq(S)
        /\ ListedFrom[Null] = <<>>
    BY ListedFromAt DEF LinkedInv, ChunksOK, Chunks, ListInv
  <1> SUFFICES ASSUME NEW q \in DOMAIN chunks, NEW i \in 1..(Len(chunks[q].ptrs) + 1)
               PROVE  /\ From(q, i)' = IF q \in ChunksOf(a) THEN Append(From(q, i), n)
                                       ELSE From(q, i)
                      /\ From(q, i) \in Seq(S)
    BY DEF GrownFrom
  <1> DEFINE ptrs == chunks[q].ptrs
             s == SubSeq(ptrs, i, Len(ptrs))
             rest == ListedFrom[chunks[q].next]
  <1>4. /\ chunks[q].next \in DOMAIN chunks \cup {Null} /\ Null \notin DOMAIN chunks
        /\ q \in ChunksOf(a) => chunks[q].next \in ChunksOf(a) \cup {Null}
        /\ q \in ChunksOf(a) => (chunks[q].next = Null <=> q = cur)
        /\ q \notin ChunksOf(a) => chunks[q].next \notin ChunksOf(a)
        /\ ChunksOf(a) \subseteq DOMAIN chunks
    <2>1. PICK c \in Allocators : q \in ChunksOf(c)
      BY ChunkOwners
    <2>2. q \notin ChunksOf(a) => ChunksOf(a) \cap ChunksOf(c) = {}
      BY <2>1, ChunkOwners
    <2> QED
      BY <2>1, <2>2, ChunkOwners
  <1>5. ptrs \in Seq(S) /\ rest \in Seq(S)
    BY <1>3, <1>4
  <1> HIDE DEF S, ptrs, rest
  <1>6. s \in Seq(S) /\ n \in S
    BY <1>5, SubSeqAppend, Zenon DEF ptrs, S
  <1> HIDE DEF s
  <1>7. s \o rest \in Seq(S) /\ From(q, i) = s \o rest
    BY <1>5, <1>6, ConcatProperties DEF From, s, rest, ptrs
  <1>8. From(q, i)' = SubSeq(chunks'[q].ptrs, i, Len(chunks'[q].ptrs))
                          \o ListedFrom'[chunks[q].next]
    BY <1>1 DEF From
  <1>9. CASE q = cur
    <2>1. /\ chunks'[q].ptrs = Append(ptrs, n) /\ chunks[q].next = Null /\ q \in ChunksOf(a)
      BY <1>1, <1>4, <1>9 DEF ptrs
    <2>2. Len(chunks'[q].ptrs) = Len(ptrs) + 1
      BY <1>5, <2>1
    <2>3. SubSeq(chunks'[q].ptrs, i, Len(chunks'[q].ptrs)) = Append(s, n)
      <3>1. i \in 1..(Len(ptrs) + 1)
        BY DEF ptrs
      <3>2. SubSeq(Append(ptrs, n), i, Len(ptrs) + 1) = Append(s, n)
        BY <1>5, <1>6, <3>1, SubSeqAppend, ZenonT(40) DEF s
      <3> QED
        BY <2>1, <2>2, <3>2
    <2>4. ListedFrom'[chunks[q].next] = <<>> /\ rest = <<>>
      BY <1>2, <1>3, <1>4, <2>1 DEF Grown, rest
    <2>5. Append(s, n) \o <<>> = Append(s \o <<>>, n)
      BY <1>6
    <2> QED
      BY <1>7, <1>8, <2>1, <2>3, <2>4, <2>5
  <1>10. CASE q # cur
    <2>1. chunks'[q].ptrs = ptrs /\ SubSeq(chunks'[q].ptrs, i, Len(chunks'[q].ptrs)) = s
      BY <1>1, <1>10 DEF ptrs, s
    <2>2. CASE q \in ChunksOf(a)
      <3>1. ListedFrom'[chunks[q].next] = Append(rest, n)
        BY <1>2, <1>4, <1>10, <2>2 DEF Grown, rest
      <3>2. s \o Append(rest, n) = Append(s \o rest, n)
        <4>1. \A w, z \in Seq(S) : \A x \in S : w \o Append(z, x) = Append(w \o z, x)
          BY ConcatAppend
        <4> QED
          BY <1>5, <1>6, <4>1, Zenon
      <3> QED
        BY <1>7, <1>8, <2>1, <2>2, <3>1, <3>2
    <2>3. CASE q \notin ChunksOf(a)
      <3>1. ListedFrom'[chunks[q].next] = rest
        BY <1>2, <1>4, <2>3 DEF Grown, rest
      <3> QED
        BY <1>7, <1>8, <2>1, <2>3, <3>1
    <2> QED
      BY <2>2, <2>3
  <1> QED
    BY <1>7, <1>9, <1>10 DEF S

LEMMA LinkGrowsFrom ==
    ASSUME LinkedInv, NEW a \in Allocators, NEW n \in 1..Len(objects),
           NEW p \in Addresses, p \notin DOMAIN chunks, chunks' = Linked(a, p, n)
    PROVE  GrownFrom(a, n)
  <1> DEFINE S == 1..Len(objects)
             cur == data[a].current
  <1>1. /\ DOMAIN chunks' = DOMAIN chunks \cup {p}
        /\ \A q \in DOMAIN chunks :
               /\ chunks'[q].ptrs = chunks[q].ptrs
               /\ chunks'[q].next = IF q = cur THEN p ELSE chunks[q].next
        /\ cur \in ChunksOf(a) \/ cur = Null
    <2>1. NewChunk(a, n, p)
      BY LinksNewChunk, Zenon
    <2> QED
      BY <2>1 DEF NewChunk
  <1>2. Grown(a, n) /\ ListedFrom'[p] = <<n>>
    BY LinkGrowsList
  <1>3. /\ \A q \in DOMAIN chunks : chunks[q].ptrs \in Seq(S)
        /\ \A q \in DOMAIN chunks \cup {Null} : ListedFrom[q] \in Seq(S)
        /\ ListedFrom[Null] = <<>>
    BY ListedFromAt DEF LinkedInv, ChunksOK, Chunks, ListInv
  <1> SUFFICES ASSUME NEW q \in DOMAIN chunks, NEW i \in 1..(Len(chunks[q].ptrs) + 1)
               PROVE  /\ From(q, i)' = IF q \in ChunksOf(a) THEN Append(From(q, i), n)
                                       ELSE From(q, i)
                      /\ From(q, i) \in Seq(S)
    BY DEF GrownFrom
  <1> DEFINE ptrs == chunks[q].ptrs
             s == SubSeq(ptrs, i, Len(ptrs))
             rest == ListedFrom[chunks[q].next]
  <1>4. /\ chunks[q].next \in DOMAIN chunks \cup {Null} /\ Null \notin DOMAIN chunks
        /\ q \in ChunksOf(a) => chunks[q].next \in ChunksOf(a) \cup {Null}
        /\ q \in ChunksOf(a) => (chunks[q].next = Null <=> q = cur)
        /\ q \notin ChunksOf(a) => chunks[q].next \notin ChunksOf(a)
        /\ ChunksOf(a) \subseteq DOMAIN chunks
    <2>1. PICK c \in Allocators : q \in ChunksOf(c)
      BY ChunkOwners
    <2>2. q \notin ChunksOf(a) => ChunksOf(a) \cap ChunksOf(c) = {}
      BY <2>1, ChunkOwners
    <2> QED
      BY <2>1, <2>2, ChunkOwners
  <1>5. ptrs \in Seq(S) /\ rest \in Seq(S)
    BY <1>3, <1>4
  <1> HIDE DEF S, ptrs, rest
  <1>6. s \in Seq(S) /\ n \in S
    BY <1>5, SubSeqAppend, Zenon DEF ptrs, S
  <1> HIDE DEF s
  <1>7. s \o rest \in Seq(S) /\ From(q, i) = s \o rest
    BY <1>5, <1>6, ConcatProperties DEF From, s, rest, ptrs
  <1>8. From(q, i)' = s \o ListedFrom'[IF q = cur THEN p ELSE chunks[q].next]
    BY <1>1 DEF From, s, ptrs
  <1>9. CASE q = cur
    <2>1. chunks[q].next = Null /\ q \in ChunksOf(a)
      BY <1>1, <1>4, <1>9
    <2>2. rest = <<>>
      BY <1>3, <2>1 DEF rest
    <2>3. s \o <<n>> = Append(s \o <<>>, n)
      BY <1>6
    <2> QED
      BY <1>2, <1>7, <1>8, <1>9, <2>1, <2>2, <2>3
  <1>10. CASE q # cur /\ q \in ChunksOf(a)
    <2>1. ListedFrom'[chunks[q].next] = Append(rest, n)
      BY <1>2, <1>4, <1>10 DEF Grown, rest
    <2>2. s \o Append(rest, n) = Append(s \o rest, n)
      <3>1. \A w, z \in Seq(S) : \A x \in S : w \o Append(z, x) = Append(w \o z, x)
        BY ConcatAppend
      <3> QED
        BY <1>5, <1>6, <3>1, Zenon
    <2> QED
      BY <1>7, <1>8, <1>10, <2>1, <2>2
  <1>11. CASE q # cur /\ q \notin ChunksOf(a)
    <2>1. ListedFrom'[chunks[q].next] = rest
      BY <1>2, <1>4, <1>11 DEF Grown, rest
    <2> QED
      BY <1>7, <1>8, <1>11, <2>1
  <1> QED
    BY <1>7, <1>9, <1>10, <1>11 DEF S

(* What both ways to list n come to. *)
Lengthens(a, n) ==
    /\ \A c \in Allocators :
           /\ Listed'[c] = IF c = a THEN Append(Listed[a], n) ELSE Listed[c]
           /\ ChunksOf(c) \subseteq ChunksOf(c)'
           /\ data'[c].count = IF c = a THEN data[c].count + 1 ELSE data[c].count
           /\ Own(c)' \cap heap = Own(c)
    /\ \A q \in DOMAIN chunks :
           /\ Len(chunks'[q].ptrs) \in Nat /\ Len(chunks[q].ptrs) <= Len(chunks'[q].ptrs)
           /\ \A i \in 1..Len(chunks[q].ptrs) : chunks'[q].ptrs[i] = chunks[q].ptrs[i]
    /\ GrownFrom(a, n)

LEMMA LengthenedList ==
    ASSUME IInv, NEW n, NEW a, Ended(n, a, "alive"), Lengthens(a, n)
    PROVE  ListsItsObjects'
  <1>1. /\ n \in DOMAIN objects /\ n \in 1..Len(objects) /\ a \in Allocators
        /\ objects[n].fate = "constructing" /\ objects[n].at[1] \in Own(a)
        /\ DOMAIN objects' = DOMAIN objects
        /\ objects'[n] = [at |-> objects[n].at, type |-> objects[n].type, fate |-> "alive"]
        /\ \A m \in DOMAIN objects : m # n => objects'[m] = objects[m]
    BY DEF Ended
  <1>2. \A m \in DOMAIN objects :
            objects[m].fate \in {"constructing", "alive"} => objects[m].at[1] \in heap
    BY LivesInHeap DEF IInv
  <1>3. \A c \in Allocators : Alive(c)' = IF c = a THEN Alive(a) \cup {n} ELSE Alive(c)
    <2> SUFFICES ASSUME NEW c \in Allocators
                 PROVE  Alive(c)' = IF c = a THEN Alive(a) \cup {n} ELSE Alive(c)
      OBVIOUS
    <2>1. Own(c)' \cap heap = Own(c)
      BY DEF Lengthens
    <2>2. objects'[n].fate = "alive" /\ objects'[n].at = objects[n].at
      BY <1>1
    <2>3. c # a => objects[n].at[1] \notin Own(c)
      BY <1>1 DEF IInv, BlocksInv, BlocksOwned, Own
    <2>4. objects[n].at[1] \in heap
      BY <1>1, <1>2
    <2>5. n \in Alive(c)' <=> c = a
      BY <1>1, <2>1, <2>2, <2>3, <2>4 DEF Alive
    <2>6. \A m \in DOMAIN objects : m # n => (m \in Alive(c)' <=> m \in Alive(c))
      BY <1>1, <1>2, <2>1 DEF Alive
    <2>7. n \notin Alive(c)
      BY <1>1 DEF Alive
    <2>8. Alive(c)' \subseteq DOMAIN objects /\ Alive(c) \subseteq DOMAIN objects
      BY <1>1 DEF Alive
    <2>9. CASE c = a
      <3>1. \A m \in DOMAIN objects : m \in Alive(c)' <=> m \in Alive(c) \cup {n}
        BY <2>5, <2>6, <2>9
      <3>2. Alive(c)' = Alive(c) \cup {n}
        BY <1>1, <2>8, <3>1
      <3> QED
        BY <2>9, <3>2
    <2>10. CASE c # a
      <3>1. \A m \in DOMAIN objects : m \in Alive(c)' <=> m \in Alive(c)
        BY <2>5, <2>6, <2>7, <2>10
      <3>2. Alive(c)' = Alive(c)
        BY <2>8, <3>1
      <3> QED
        BY <2>10, <3>2
    <2> QED
      BY <2>9, <2>10
  <1>4. \A c \in Allocators : /\ Range(Listed[c]) = Alive(c)
                              /\ IsInjective(Listed[c])
                              /\ data[c].count = Len(Listed[c])
    BY ListsAlive DEF IInv
  <1>5. n \notin Alive(a)
    BY <1>1 DEF Alive
  <1>6. Listed[a] \in Seq(1..Len(objects))
    BY <1>1, LinkedFromIInv, ListedIs
  <1>7. /\ Range(Append(Listed[a], n)) = Alive(a) \cup {n}
        /\ IsInjective(Append(Listed[a], n))
        /\ Len(Append(Listed[a], n)) = Len(Listed[a]) + 1
    BY <1>1, <1>4, <1>5, <1>6, AppendFacts
  <1>8. \A c \in Allocators :
            /\ Listed'[c] = IF c = a THEN Append(Listed[a], n) ELSE Listed[c]
            /\ data'[c].count = IF c = a THEN data[c].count + 1 ELSE data[c].count
    BY DEF Lengthens
  <1>9. \A c \in Allocators : /\ Range(Listed'[c]) = Alive(c)'
                              /\ IsInjective(Listed'[c])
                              /\ data'[c].count = Len(Listed'[c])
    BY <1>3, <1>4, <1>7, <1>8
  <1> QED
    BY <1>9, ListsAliveNext

LEMMA LengthenedIterator ==
    ASSUME IInv, NEW n, NEW a, Ended(n, a, "alive"), Lengthens(a, n)
    PROVE  IteratorOK' /\ IteratorInv' /\ NoneIterates'
  <1> DEFINE S == 1..Len(objects)
  <1>1. /\ iterator' = iterator /\ live' = live /\ Len(objects') = Len(objects)
        /\ n \in S /\ a \in Allocators
    BY DEF Ended
  <1>2. IteratorOK' /\ NoneIterates'
    BY <1>1 DEF IInv, IteratorOK, NoneIterates
  <1>3. IteratorInv'
    <2> SUFFICES ASSUME iterator.of # Null
                 PROVE  IteratorInv'
      BY <1>1 DEF IteratorInv
    <2> PICK it : it = iterator
      OBVIOUS
    <2> DEFINE c == it.of
               p == it.ptrs
               i == it.idx
               seen == it.seen
    <2>1. c \in Allocators /\ seen \in Seq(S) /\ i \in Nat /\ c \in live
      BY DEF IInv, IteratorOK, IteratorInv
    <2> HIDE DEF c, p, i, seen
    <2>2. LinkedInv /\ Listed[c] \in Seq(S)
      BY <2>1, LinkedFromIInv, ListedIs
    <2>3. Listed'[c] = IF c = a THEN Append(Listed[a], n) ELSE Listed[c]
      BY <2>1 DEF Lengthens
    <2>4. CASE p = Null
      <3>1. IsPrefix(seen, Listed[c])
        BY <2>4 DEF IInv, IteratorInv, c, p, seen
      <3>2. IsPrefix(seen, Append(Listed[c], n))
        <4> HIDE DEF S
        <4> QED
          BY <1>1, <2>1, <2>2, <3>1, PrefixGrows, Zenon
      <3>3. IsPrefix(seen, Listed'[c])
        BY <2>3, <3>1, <3>2
      <3> QED
        BY <1>1, <2>1, <2>4, <3>3 DEF IteratorInv, c, p, seen
    <2>5. CASE p # Null
      <3>1. /\ p \in ChunksOf(c) /\ i < Len(chunks[p].ptrs) /\ seen # <<>>
            /\ Last(seen) = chunks[p].ptrs[i + 1]
            /\ Listed[c] = seen \o From(p, i + 2)
        BY <2>5 DEF IInv, IteratorInv, Deref, ToCome, From, c, p, i, seen
      <3>2. /\ p \in DOMAIN chunks /\ Len(chunks[p].ptrs) \in Nat
            /\ p \in ChunksOf(a) <=> c = a
        <4>1. p \in DOMAIN chunks
          BY <3>1 DEF ChunksOf
        <4>2. Len(chunks[p].ptrs) \in Nat
          BY <2>2, <4>1 DEF LinkedInv, ChunksOK
        <4>3. p \in ChunksOf(a) <=> c = a
          BY <1>1, <2>1, <2>2, <3>1, ChunkOwners
        <4> QED
          BY <4>1, <4>2, <4>3
      <3>3. i + 1 \in 1..Len(chunks[p].ptrs) /\ i + 2 \in 1..(Len(chunks[p].ptrs) + 1)
        BY <2>1, <3>1, <3>2
      <3>4. /\ i < Len(chunks'[p].ptrs)
            /\ Last(seen) = chunks'[p].ptrs[i + 1]
            /\ p \in ChunksOf(c)'
        BY <1>1, <2>1, <3>1, <3>2, <3>3, SMTT(30) DEF Lengthens
      <3>5. /\ From(p, i + 2)' = IF c = a THEN Append(From(p, i + 2), n) ELSE From(p, i + 2)
            /\ From(p, i + 2) \in Seq(S)
        BY <1>1, <3>2, <3>3 DEF Lengthens, GrownFrom
      <3>6. seen \o Append(From(p, i + 2), n) = Append(seen \o From(p, i + 2), n)
        <4>1. \A w, z \in Seq(S) : \A x \in S : w \o Append(z, x) = Append(w \o z, x)
          BY ConcatAppend, SMTT(30)
        <4> HIDE DEF S
        <4> QED
          BY <1>1, <2>1, <3>5, <4>1, Zenon
      <3>7. Listed'[c] = seen \o From(p, i + 2)'
        BY <2>3, <3>1, <3>5, <3>6
      <3>8. Listed'[c] = seen \o ToCome(it)'
        BY <1>1, <3>7 DEF From, ToCome, p, i
      <3> QED
        BY <1>1, <2>1, <2>5, <3>1, <3>4, <3>8 DEF IteratorInv, Deref, c, p, i, seen
    <2> QED
      BY <2>4, <2>5
  <1> QED
    BY <1>2, <1>3

LEMMA LengthensKeeps ==
    ASSUME IInv, NEW n, NEW a, Ends(n, a, "alive"), Ended(n, a, "alive"), Lengthens(a, n),
           DataOK', ChunksOK', BlocksInv', MemoryInv', LinksInv', ListInv'
    PROVE  IInv'
  <1>1. ObjectsOK'
    BY DEF Ended
  <1>2. \A c \in Allocators : Own(c) \subseteq Own(c)'
    BY DEF Lengthens
  <1>3. BuildingInv'
    BY <1>2, EndsKeepsBuilding DEF IInv
  <1>4. ListsItsObjects'
    BY LengthenedList
  <1>5. IteratorOK' /\ IteratorInv' /\ NoneIterates'
    BY LengthenedIterator
  <1> QED
    BY <1>1, <1>3, <1>4, <1>5 DEF IInv

(* What is listed from the roots on *)
LEMMA LengthenedRoots ==
    ASSUME LinkedInv, NEW a \in Allocators, NEW n, Grown(a, n), ChunksOf(a) # {},
           NEW c \in Allocators, data'[c].root = data[c].root
    PROVE  Listed'[c] = IF c = a THEN Append(Listed[a], n) ELSE Listed[c]
  <1>1. Listed'[c] = ListedFrom'[data[c].root]
    BY DEF Listed
  <1>2. Listed[c] = ListedFrom[data[c].root] /\ data[c].root \in DOMAIN chunks \cup {Null}
    BY ListedIs
  <1>3. data[c].root \in ChunksOf(a) <=> c = a
    BY ChunkOwners DEF LinkedInv, LinksInv
  <1> QED
    BY <1>1, <1>2, <1>3 DEF Grown

LEMMA AppendKeeps ==
    ASSUME IInv, NEW n, NEW a, Ends(n, a, "alive"), ChunkHasRoom(a),
           chunks' = [chunks EXCEPT ![data[a].current].ptrs = Append(@, n)],
           data' = [data EXCEPT ![a].count = @ + 1],
           UNCHANGED heap
    PROVE  Lengthens(a, n) /\ IInv'
  <1> DEFINE S == 1..Len(objects)
             cur == data[a].current
  <1>1. Ended(n, a, "alive") /\ LinkedInv
    BY EndsFacts, LinkedFromIInv DEF IInv
  <1>2. /\ a \in live /\ a \in Allocators /\ n \in S /\ live' = live
        /\ Len(objects') = Len(objects) /\ KeepsFates
    BY <1>1 DEF Ended, KeepsFates
  <1>3. Appends(a, n)
    BY DEF Appends
  <1>4. /\ cur \in ChunksOf(a) /\ DOMAIN chunks' = DOMAIN chunks
        /\ \A q \in DOMAIN chunks :
               /\ chunks'[q].next = chunks[q].next
               /\ chunks'[q].prev = chunks[q].prev
               /\ chunks'[q].ptrs = IF q = cur THEN Append(chunks[q].ptrs, n)
                                    ELSE chunks[q].ptrs
    BY <1>1, <1>2, <1>3, AppendsToChunk
  <1>5. data \in [Allocators -> Fields] /\ live \subseteq Allocators /\ heap' = heap
    BY DEF IInv, DataOK
  <1>6. \A c \in Allocators : data[c] \in Fields
    BY <1>5
  <1>7. /\ data' \in [Allocators -> Fields]
        /\ \A c \in Allocators :
               /\ data'[c].blocks = data[c].blocks
               /\ data'[c].current_offset = data[c].current_offset
               /\ data'[c].root = data[c].root /\ data'[c].current = data[c].current
               /\ data'[c].count = IF c = a THEN data[c].count + 1 ELSE data[c].count
               /\ c # a => data'[c] = data[c]
    <2> DEFINE new == [data[a] EXCEPT !.count = data[a].count + 1]
    <2>1. data' = [data EXCEPT ![a] = new]
      BY <1>2, <1>5
    <2>2. /\ new \in Fields /\ new.blocks = data[a].blocks
          /\ new.current_offset = data[a].current_offset
          /\ new.root = data[a].root /\ new.current = data[a].current
          /\ new.count = data[a].count + 1
      BY <1>2, <1>6 DEF Fields
    <2> HIDE DEF new
    <2>3. data'[a] = new /\ \A c \in Allocators : c # a => data'[c] = data[c]
      BY <1>2, <1>5, <2>1
    <2> QED
      BY <1>2, <1>5, <2>1, <2>2, <2>3
  <1>8. DataOK'
    BY <1>2, <1>5, <1>7 DEF IInv, DataOK
  <1>9. KeepsBlocks
    <2>1. \A c \in Allocators : data[c].current_offset \in Nat
      BY <1>6 DEF Fields
    <2>2. \A c \in Allocators : c \notin live => data[c] = EmptyData
      BY DEF IInv, BlocksInv
    <2> QED
      BY <1>2, <1>5, <1>7, <2>1, <2>2 DEF KeepsBlocks
  <1>10. BlocksInv' /\ \A c \in Allocators : Own(c)' = Own(c)
    BY <1>9, KeptBlocks DEF IInv
  <1>11. MemoryInv'
    <2>1. Extents' \subseteq Extents
      BY <1>2, <1>4, KeptExtentsOnly
    <2> QED
      BY <1>9, <2>1, KeptMemory DEF IInv
  <1>12. \A q \in DOMAIN chunks : /\ chunks[q].ptrs \in Seq(S)
                                  /\ Len(chunks[q].ptrs) \in 1..kMax
                                  /\ chunks[q] \in Chunks(Len(objects))
    BY DEF IInv, ChunksOK, Chunks
  <1>13. ChunksOK'
    <2>1. Len(chunks[cur].ptrs) # kMax
      BY DEF ChunkHasRoom
    <2>2. cur \in DOMAIN chunks
      BY <1>4 DEF ChunksOf
    <2>3. Append(chunks[cur].ptrs, n) \in Seq(S) /\ Len(Append(chunks[cur].ptrs, n)) \in 1..kMax
      <3>1. chunks[cur].ptrs \in Seq(S) /\ Len(chunks[cur].ptrs) \in 1..kMax
        BY <1>12, <2>2
      <3> HIDE DEF S, cur
      <3>2. /\ Append(chunks[cur].ptrs, n) \in Seq(S)
            /\ Len(Append(chunks[cur].ptrs, n)) = Len(chunks[cur].ptrs) + 1
        BY <1>2, <3>1, AppendFacts
      <3>3. Len(chunks[cur].ptrs) # kMax
        BY <2>1 DEF cur
      <3> QED
        BY <3>1, <3>2, <3>3, AllocatorAssumption
    <2>4. chunks' = [chunks EXCEPT ![cur].ptrs = Append(chunks[cur].ptrs, n)]
      BY <1>3 DEF Appends
    <2>5. \A q \in DOMAIN chunks : /\ chunks'[q] \in Chunks(Len(objects))
                                   /\ Len(chunks'[q].ptrs) \in 1..kMax
      BY <1>12, <2>2, <2>3, <2>4 DEF Chunks
    <2>6. chunks' \in [DOMAIN chunks -> Chunks(Len(objects))]
      BY <2>4, <2>5
    <2> QED
      BY <1>2, <1>4, <2>5, <2>6 DEF IInv, ChunksOK
  <1>14. /\ \A c \in Allocators : ChunksOf(c)' = ChunksOf(c)
    BY <1>4, <1>10 DEF ChunksOf
  <1>15. LinksInv'
    <2>1. \A c \in Allocators : ChunksOf(c) \subseteq DOMAIN chunks
      BY DEF ChunksOf
    <2> QED
      BY <1>4, <1>7, <1>14, <2>1 DEF IInv, LinksInv
  <1>16. /\ Grown(a, n) /\ Ranked(chunks') /\ Lists(chunks', ListedFrom')
         /\ DOMAIN ListedFrom' = DOMAIN chunks \cup {Null}
    BY <1>1, <1>2, <1>3, AppendGrowsList
  <1>17. ListInv'
    <2>1. \A q \in DOMAIN chunks \cup {Null} : ListedFrom'[q] \in Seq(S)
      <3> SUFFICES ASSUME NEW q \in DOMAIN chunks \cup {Null}
                   PROVE  ListedFrom'[q] \in Seq(S)
        OBVIOUS
      <3>1. ListedFrom[q] \in Seq(S)
        BY DEF IInv, ListInv
      <3>2. Append(ListedFrom[q], n) \in Seq(S)
        BY <1>2, <3>1
      <3> QED
        BY <1>16, <3>1, <3>2 DEF Grown
    <2>2. ListedFrom' = [q \in DOMAIN chunks' \cup {Null} |-> ListedFrom'[q]]
      BY <1>16, Zenon DEF Lists
    <2>3. ListedFrom' \in [DOMAIN chunks' \cup {Null} -> Seq(1..Len(objects'))]
      BY <1>2, <1>4, <2>1, <2>2
    <2> QED
      BY <1>16, <2>3 DEF ListInv
  <1>18. Lengthens(a, n)
    <2>1. \A c \in Allocators : Listed'[c] = IF c = a THEN Append(Listed[a], n) ELSE Listed[c]
      BY <1>1, <1>2, <1>4, <1>7, <1>16, LengthenedRoots
    <2>2. \A q \in DOMAIN chunks :
              /\ Len(chunks'[q].ptrs) \in Nat /\ Len(chunks[q].ptrs) <= Len(chunks'[q].ptrs)
              /\ \A i \in 1..Len(chunks[q].ptrs) : chunks'[q].ptrs[i] = chunks[q].ptrs[i]
      <3> SUFFICES ASSUME NEW q \in DOMAIN chunks
                   PROVE  /\ Len(chunks'[q].ptrs) \in Nat
                          /\ Len(chunks[q].ptrs) <= Len(chunks'[q].ptrs)
                          /\ \A i \in 1..Len(chunks[q].ptrs) :
                                 chunks'[q].ptrs[i] = chunks[q].ptrs[i]
        OBVIOUS
      <3>1. chunks[q].ptrs \in Seq(S)
        BY <1>12
      <3>2. /\ Len(Append(chunks[q].ptrs, n)) = Len(chunks[q].ptrs) + 1
            /\ Len(chunks[q].ptrs) \in Nat
            /\ \A i \in 1..Len(chunks[q].ptrs) :
                   Append(chunks[q].ptrs, n)[i] = chunks[q].ptrs[i]
        BY <1>2, <3>1, AppendProperties
      <3> QED
        BY <1>4, <3>2
    <2>3. GrownFrom(a, n)
      BY <1>1, <1>2, <1>3, AppendGrowsFrom
    <2>4. \A c \in Allocators : Own(c)' \cap heap = Own(c)
      BY <1>10 DEF IInv, BlocksInv, BlocksOwned, Own
    <2> QED
      BY <1>7, <1>14, <2>1, <2>2, <2>3, <2>4 DEF Lengthens
  <1> QED
    BY <1>1, <1>8, <1>10, <1>11, <1>13, <1>15, <1>17, <1>18, LengthensKeeps

(* A new chunk at p *)
LinksAt(a, n, p) ==
    /\ chunks' = Linked(a, p, n)
    /\ data' = [data EXCEPT ![a] =
                    [Allocated(a, Pointers, p) EXCEPT
                        !.root = IF data[a].current = Null THEN p ELSE @,
                        !.current = p,
                        !.count = @ + 1]]
    /\ heap' = heap \cup {p[1]}

LEMMA LinkKeeps ==
    ASSUME IInv, NEW n, NEW a, Ends(n, a, "alive"), NEW p \in Room(a, Pointers), LinksAt(a, n, p)
    PROVE  Lengthens(a, n) /\ IInv'
  <1> DEFINE S == 1..Len(objects)
             cur == data[a].current
             alloc == Allocated(a, Pointers, p)
             new == [alloc EXCEPT !.root = IF cur = Null THEN p ELSE @,
                                  !.current = p,
                                  !.count = @ + 1]
  <1>1. /\ Ended(n, a, "alive") /\ LinkedInv /\ DataOK /\ ChunksOK /\ ObjectsOK
        /\ BlocksInv /\ MemoryInv /\ Pointers \in AllTypes
    BY EndsFacts, LinkedFromIInv DEF IInv, AllTypes
  <1>2. /\ a \in live /\ a \in Allocators /\ n \in S /\ live' = live
        /\ Len(objects') = Len(objects) /\ KeepsFates
    BY <1>1 DEF Ended, KeepsFates
  <1>3. FreePlace(a, Pointers, p)
    BY <1>1, <1>2, RoomIsFree
  <1>4. p \in Addresses /\ p[1] \in Blocks /\ p[2] \in Nat /\ p # Null /\ p \in Places
    BY <1>3, NullIsNowhere DEF FreePlace, Places
  <1>5. p \notin DOMAIN chunks
    <2>1. ASSUME p \in DOMAIN chunks
          PROVE  FALSE
      <3> DEFINE x == [at |-> p, type |-> Pointers, what |-> 0]
      <3>1. x \in Extents /\ x.at = p
        BY <2>1 DEF Extents
      <3> QED
        BY <1>3, <3>1 DEF FreePlace
    <2> QED
      BY <2>1
  <1>6. NewChunk(a, n, p)
    <2>1. chunks' = Linked(a, p, n)
      BY DEF LinksAt
    <2> QED
      BY <1>1, <1>2, <1>4, <1>5, <2>1, LinksNewChunk, Zenon
  <1>7. /\ DOMAIN chunks' = DOMAIN chunks \cup {p}
        /\ chunks'[p] = [ptrs |-> <<n>>, next |-> Null, prev |-> cur]
        /\ chunks'[p].ptrs = <<n>> /\ chunks'[p].next = Null
        /\ \A q \in DOMAIN chunks :
               /\ chunks'[q].ptrs = chunks[q].ptrs
               /\ chunks'[q].prev = chunks[q].prev
               /\ chunks'[q].next = IF q = cur THEN p ELSE chunks[q].next
        /\ cur \in ChunksOf(a) \/ (cur = Null /\ ChunksOf(a) = {})
    BY <1>6 DEF NewChunk
  <1>8. data \in [Allocators -> Fields] /\ data[a] \in Fields
    BY <1>1, <1>2 DEF DataOK
  <1>9. /\ new \in Fields
        /\ new.blocks = IF Fits(a, Pointers) THEN data[a].blocks
                        ELSE Append(data[a].blocks, p[1])
        /\ new.current_offset = p[2] + Pointers.size
        /\ new.root = IF cur = Null THEN p ELSE data[a].root
        /\ new.current = p /\ new.count = data[a].count + 1
    <2>1. Pointers.size \in Nat
      BY <1>1, TypeSizes
    <2>2. /\ alloc \in Fields
          /\ alloc.blocks = IF Fits(a, Pointers) THEN data[a].blocks
                            ELSE Append(data[a].blocks, p[1])
          /\ alloc.current_offset = p[2] + Pointers.size
          /\ alloc.root = data[a].root /\ alloc.current = data[a].current
          /\ alloc.count = data[a].count
      BY <1>4, <1>8, <2>1, AllocatedFields
    <2> DEFINE r == IF cur = Null THEN p ELSE alloc.root
    <2>3. new = [alloc EXCEPT !.root = r, !.current = p, !.count = @ + 1]
      OBVIOUS
    <2>4. alloc \in Fields
      BY <2>2
    <2>5. r \in Places
      BY <1>4, <2>4 DEF Fields
    <2> HIDE DEF alloc, r, new
    <2>6. /\ new \in Fields
          /\ new.blocks = alloc.blocks /\ new.current_offset = alloc.current_offset
          /\ new.root = r /\ new.current = p /\ new.count = alloc.count + 1
      <3>1. /\ alloc = [blocks |-> alloc.blocks, current_offset |-> alloc.current_offset,
                        count |-> alloc.count, root |-> alloc.root, current |-> alloc.current]
            /\ alloc.blocks \in Seq(Blocks) /\ alloc.current_offset \in Nat
            /\ alloc.count \in Nat
        BY <2>4 DEF Fields
      <3>2. new = [blocks |-> alloc.blocks, current_offset |-> alloc.current_offset,
                   count |-> alloc.count + 1, root |-> r, current |-> p]
        BY <2>3, <3>1
      <3>3. alloc.count + 1 \in Nat
        BY <3>1
      <3> QED
        BY <1>4, <2>5, <3>1, <3>2, <3>3 DEF Fields
    <2> QED
      BY <2>2, <2>6 DEF r
  <1>10. data' = [data EXCEPT ![a] = new] /\ heap' = heap \cup {p[1]} /\ chunks' = Linked(a, p, n)
    BY DEF LinksAt
  <1> HIDE DEF new
  <1>11. data'[a] = new /\ \A c \in Allocators \ {a} : data'[c] = data[c]
    BY <1>2, <1>8, <1>10
  <1>12. Carves(a, Pointers, p)
    BY <1>9, <1>10, <1>11 DEF Carves
  <1>13. DataOK'
    <2>1. data' \in [Allocators -> Fields]
      BY <1>8, <1>9, <1>10
    <2> QED
      BY <1>1, <1>2, <1>4, <1>10, <2>1 DEF DataOK
  <1>14. BlocksInv'
    BY <1>1, <1>2, <1>3, <1>12, CarveKeepsBlocks
  <1>15. /\ Own(a)' = Own(a) \cup {p[1]}
         /\ \A c \in Allocators \ {a} : Own(c)' = Own(c)
         /\ \A c \in Allocators \ {a} : p[1] \notin Own(c)
    BY <1>1, <1>2, <1>3, <1>12, CarveOwns, Zenon
  <1>16. p[1] \in heap => p[1] \in Own(a)
    <2>1. ASSUME p[1] \in heap
          PROVE  p[1] \in Own(a)
      BY <1>1, <1>2, <1>3, <2>1, FreePlaceOwned
    <2> QED
      BY <2>1
  <1>17. MemoryInv'
    <2>1. Extents' \subseteq Extents \cup {[at |-> p, type |-> Pointers, what |-> 0]}
      BY <1>2, <1>7, KeptExtents
    <2> QED
      BY <1>1, <1>2, <1>3, <1>12, <2>1, CarveKeepsMemory
  <1>18. \A c \in Allocators : ChunksOf(c)' = IF c = a THEN ChunksOf(a) \cup {p} ELSE ChunksOf(c)
    <2>1. \A q \in DOMAIN chunks : q[1] \in heap
      BY <1>1 DEF LinkedInv
    <2>2. ChunksOf(a)' = ChunksOf(a) \cup {p}
      BY <1>7, <1>15, <1>16, <2>1 DEF ChunksOf
    <2>3. \A c \in Allocators \ {a} : ChunksOf(c)' = ChunksOf(c)
      BY <1>7, <1>15 DEF ChunksOf
    <2> QED
      BY <2>2, <2>3
  <1>19. \A q \in DOMAIN chunks : /\ chunks[q].ptrs \in Seq(S)
                                  /\ Len(chunks[q].ptrs) \in 1..kMax
                                  /\ chunks[q] \in Chunks(Len(objects))
    BY <1>1 DEF ChunksOK, Chunks
  <1>20. ChunksOK'
    <2>1. cur \in Places
      BY <1>8 DEF Fields
    <2>2. chunks'[p] \in Chunks(Len(objects)) /\ Len(chunks'[p].ptrs) \in 1..kMax
      <3>1. <<n>> \in Seq(S) /\ Len(<<n>>) = 1
        BY <1>2
      <3>2. kMax \in Nat /\ kMax > 1
        BY AllocatorAssumption
      <3> QED
        BY <1>7, <2>1, <3>1, <3>2 DEF Chunks, Places
    <2>3. \A q \in DOMAIN chunks :
              chunks'[q] = IF q = cur THEN [chunks[q] EXCEPT !.next = p] ELSE chunks[q]
      BY <1>5, <1>10 DEF Linked
    <2>4. \A q \in DOMAIN chunks : chunks'[q] \in Chunks(Len(objects))
      BY <1>4, <1>19, <2>3 DEF Chunks
    <2>5. chunks' = [q \in DOMAIN chunks \cup {p} |-> chunks'[q]]
      BY <1>10 DEF Linked
    <2>6. chunks' \in [DOMAIN chunks' -> Chunks(Len(objects'))]
      BY <1>2, <1>7, <2>2, <2>4, <2>5
    <2>7. \A q \in DOMAIN chunks' : Len(chunks'[q].ptrs) \in 1..kMax
      BY <1>7, <1>19, <2>2
    <2> QED
      BY <1>1, <1>4, <1>7, <2>6, <2>7 DEF ChunksOK
  <1>21. LinksInv'
    <2> SUFFICES ASSUME NEW c \in Allocators
                 PROVE  /\ data'[c].root = Null => data'[c].current = Null /\ ChunksOf(c)' = {}
                        /\ data'[c].root # Null => /\ data'[c].root \in ChunksOf(c)'
                                                   /\ data'[c].current \in ChunksOf(c)'
                        /\ \A q \in ChunksOf(c)' :
                               IF q = data'[c].current THEN chunks'[q].next = Null
                               ELSE chunks'[q].next \in ChunksOf(c)'
      BY DEF LinksInv
    <2>1. /\ data[c].root = Null => data[c].current = Null /\ ChunksOf(c) = {}
          /\ data[c].root # Null => data[c].root \in ChunksOf(c) /\ data[c].current \in ChunksOf(c)
          /\ \A q \in ChunksOf(c) :
                 IF q = data[c].current THEN chunks[q].next = Null
                 ELSE chunks[q].next \in ChunksOf(c)
          /\ ChunksOf(c) \subseteq DOMAIN chunks
          /\ Null \notin DOMAIN chunks
      BY <1>1, ChunkOwners DEF IInv, LinksInv
    <2>2. CASE c = a
      <3>1. ChunksOf(c)' = ChunksOf(a) \cup {p} /\ data'[c].current = p
            /\ data'[c].root = IF cur = Null THEN p ELSE data[a].root
        BY <1>9, <1>11, <1>18, <2>2
      <3>2. data'[c].root \in ChunksOf(c)' /\ data'[c].root # Null
        BY <1>4, <1>7, <2>1, <2>2, <3>1
      <3>3. ASSUME NEW q \in ChunksOf(a)
            PROVE  q # p /\ chunks'[q].next \in ChunksOf(a) \cup {p}
        BY <1>5, <1>7, <2>1, <2>2
      <3> QED
        BY <1>7, <3>1, <3>2, <3>3
    <2>3. CASE c # a
      <3>1. ChunksOf(c)' = ChunksOf(c) /\ data'[c] = data[c]
        BY <1>11, <1>18, <2>3
      <3>2. cur \notin ChunksOf(c)
        <4>1. ChunksOf(a) \cap ChunksOf(c) = {}
          BY <1>1, <1>2, <2>3, ChunkOwners
        <4> QED
          BY <1>7, <2>1, <4>1
      <3>3. \A q \in ChunksOf(c) : chunks'[q].next = chunks[q].next
        BY <1>7, <2>1, <3>2
      <3> QED
        BY <2>1, <3>1, <3>3
    <2> QED
      BY <2>2, <2>3
  <1>22. /\ Grown(a, n) /\ ListedFrom'[p] = <<n>>
         /\ Ranked(chunks') /\ Lists(chunks', ListedFrom')
         /\ DOMAIN ListedFrom' = DOMAIN chunks \cup {p, Null}
    BY <1>1, <1>2, <1>4, <1>5, <1>10, LinkGrowsList
  <1>23. ListInv'
    <2>1. \A q \in DOMAIN chunks \cup {Null} : ListedFrom'[q] \in Seq(S)
      <3> SUFFICES ASSUME NEW q \in DOMAIN chunks \cup {Null}
                   PROVE  ListedFrom'[q] \in Seq(S)
        OBVIOUS
      <3>1. ListedFrom[q] \in Seq(S)
        BY DEF IInv, ListInv
      <3>2. Append(ListedFrom[q], n) \in Seq(S)
        BY <1>2, <3>1
      <3> QED
        BY <1>22, <3>1, <3>2 DEF Grown
    <2>2. ListedFrom'[p] \in Seq(S)
      <3>1. <<n>> \in Seq(S)
        BY <1>2
      <3> QED
        BY <1>22, <3>1
    <2>3. ListedFrom' = [q \in DOMAIN chunks' \cup {Null} |-> ListedFrom'[q]]
      BY <1>22, Zenon DEF Lists
    <2>4. ListedFrom' \in [DOMAIN chunks' \cup {Null} -> Seq(1..Len(objects'))]
      BY <1>2, <1>7, <2>1, <2>2, <2>3
    <2> QED
      BY <1>22, <2>4 DEF ListInv
  <1>24. Lengthens(a, n)
    <2>1. \A c \in Allocators : Listed'[c] = IF c = a THEN Append(Listed[a], n) ELSE Listed[c]
      <3> SUFFICES ASSUME NEW c \in Allocators
                   PROVE  Listed'[c] = IF c = a THEN Append(Listed[a], n) ELSE Listed[c]
        OBVIOUS
      <3>1. CASE c = a /\ cur = Null
        <4>1. data[a].root = Null /\ data'[a].root = p
          BY <1>1, <1>2, <1>7, <1>9, <1>11, <3>1, ChunkOwners DEF LinkedInv, LinksInv
        <4>2. Listed[a] = <<>> /\ Listed'[a] = <<n>>
          BY <1>1, <1>2, <1>22, <4>1, ListedFromAt DEF Listed, LinkedInv
        <4>3. Append(<<>>, n) = <<n>>
          BY <1>2
        <4> QED
          BY <3>1, <4>2, <4>3
      <3>2. CASE c # a /\ cur = Null
        <4>1. ChunksOf(a) = {}
          BY <1>7, <3>2, <1>1, ChunkOwners DEF ChunksOf
        <4>2. data'[c].root = data[c].root /\ data[c].root \in DOMAIN chunks \cup {Null}
          BY <1>1, <1>11, <3>2, ListedIs
        <4>3. ListedFrom'[data[c].root] = ListedFrom[data[c].root]
          BY <1>22, <4>1, <4>2 DEF Grown
        <4> QED
          BY <3>2, <4>2, <4>3 DEF Listed
      <3>3. CASE cur # Null
        <4>1. data'[c].root = data[c].root /\ ChunksOf(a) # {}
          BY <1>7, <1>9, <1>11, <3>3
        <4> QED
          BY <1>1, <1>2, <1>22, <4>1, LengthenedRoots
      <3> QED
        BY <3>1, <3>2, <3>3
    <2>2. \A q \in DOMAIN chunks :
              /\ Len(chunks'[q].ptrs) \in Nat /\ Len(chunks[q].ptrs) <= Len(chunks'[q].ptrs)
              /\ \A i \in 1..Len(chunks[q].ptrs) : chunks'[q].ptrs[i] = chunks[q].ptrs[i]
      BY <1>7, <1>19
    <2>3. GrownFrom(a, n)
      BY <1>1, <1>2, <1>4, <1>5, <1>10, LinkGrowsFrom
    <2>4. \A c \in Allocators : Own(c)' \cap heap = Own(c)
      <3>1. \A c \in Allocators : Own(c) \subseteq heap
        BY DEF IInv, BlocksInv, BlocksOwned, Own
      <3>2. Own(a)' \cap heap = Own(a)
        BY <1>2, <1>15, <1>16, <3>1
      <3>3. \A c \in Allocators \ {a} : Own(c)' \cap heap = Own(c)
        BY <1>15, <3>1
      <3> QED
        BY <3>2, <3>3 DEF Own
    <2>5. \A c \in Allocators :
              data'[c].count = IF c = a THEN data[c].count + 1 ELSE data[c].count
      BY <1>9, <1>11
    <2>6. \A c \in Allocators : ChunksOf(c) \subseteq ChunksOf(c)'
      BY <1>18
    <2> QED
      BY <2>1, <2>2, <2>3, <2>4, <2>5, <2>6 DEF Lengthens
  <1> QED
    BY <1>1, <1>13, <1>14, <1>17, <1>20, <1>21, <1>23, <1>24, LengthensKeeps

LEMMA ConstructorReturnsKeeps ==
    ASSUME IInv, NEW n, NEW a, ConstructorReturns(n, a)
    PROVE  Lengthens(a, n) /\ IInv'
  <1>1. Ends(n, a, "alive")
    BY DEF ConstructorReturns
  <1>2. CASE /\ ChunkHasRoom(a)
             /\ chunks' = [chunks EXCEPT ![data[a].current].ptrs = Append(@, n)]
             /\ data' = [data EXCEPT ![a].count = @ + 1]
             /\ UNCHANGED heap
    BY <1>1, <1>2, AppendKeeps
  <1>3. CASE \E p \in Room(a, Pointers) : LinksAt(a, n, p)
    BY <1>1, <1>3, LinkKeeps
  <1> QED
    BY <1>2, <1>3 DEF ConstructorReturns, LinksAt
-----------------------------------------------------------------------------
(* The invariant holds initially, and every step keeps it.                 *)

LEMMA InitIInv == AllocatorInit => IInv
  <1> SUFFICES ASSUME AllocatorInit
               PROVE  IInv
    OBVIOUS
  <1>1. /\ live = {} /\ data = [a \in Allocators |-> EmptyData] /\ heap = {}
        /\ DOMAIN chunks = {} /\ chunks = [p \in {} |-> <<>>] /\ objects = <<>>
        /\ building = <<>> /\ iterator = NoIterator
    BY DEF AllocatorInit
  <1>2. Len(objects) = 0 /\ DOMAIN objects = {} /\ DOMAIN building = {}
    BY <1>1
  <1>3. \A a \in Allocators : /\ data[a] = EmptyData /\ data[a].blocks = <<>>
                              /\ data[a].current_offset = BlockSize
                              /\ data[a].root = Null /\ data[a].current = Null
                              /\ data[a].count = 0
                              /\ Own(a) = {} /\ ChunksOf(a) = {}
    <2> TAKE a \in Allocators
    <2>1. data[a] = EmptyData
      BY <1>1
    <2>2. Own(a) = {}
      BY <2>1, EmptyFields DEF Own
    <2> QED
      BY <2>1, <2>2 DEF EmptyData, ChunksOf
  <1>4. DataOK
    BY <1>1, EmptyFields DEF DataOK
  <1>5. ChunksOK
    BY <1>1 DEF ChunksOK
  <1>6. ObjectsOK
    BY <1>1, <1>2, AllocatorAssumption DEF ObjectsOK
  <1>7. IteratorOK
    BY <1>1, AllocatorAssumption DEF IteratorOK, NoIterator, Places
  <1>8. BlocksInv
    <2>1. heap = UNION {Range(data[a].blocks) : a \in Allocators}
      BY <1>1, <1>3 DEF Own
    <2>2. \A a \in Allocators : IsInjective(data[a].blocks)
      BY <1>3 DEF IsInjective
    <2>3. \A a, b \in Allocators : Range(data[a].blocks) \cap Range(data[b].blocks) = {}
      BY <1>3 DEF Own
    <2>4. BlockSize >= BlockSize
      BY AllocatorAssumption
    <2> QED
      BY <1>3, <2>1, <2>2, <2>3, <2>4 DEF BlocksInv, BlocksOwned
  <1>9. MemoryInv
    <2>1. Extents = {}
      BY <1>1, <1>2 DEF Extents
    <2> QED
      BY <2>1 DEF MemoryInv, NoOverlap
  <1>10. BuildingInv
    BY <1>2 DEF BuildingInv
  <1>11. LinksInv
    BY <1>3 DEF LinksInv
  <1>12. ListInv /\ ListedFrom[Null] = <<>>
    <2>1. Ranked(chunks)
      <3>1. [p \in {} |-> 0] \in [DOMAIN chunks -> 0..0]
        BY <1>1
      <3> QED
        BY <1>1, <3>1 DEF Ranked, Climbs
    <2> DEFINE f == [p \in {Null} |-> <<>>]
    <2>2. Lists(chunks, f)
      BY <1>1 DEF Lists
    <2>3. ListedFrom = f
      BY <1>1, <2>1, <2>2, ListedFromIs
    <2>4. f \in [DOMAIN chunks \cup {Null} -> Seq(1..Len(objects))]
      BY <1>1
    <2> QED
      BY <2>1, <2>2, <2>3, <2>4 DEF ListInv
  <1>13. ListsItsObjects
    <2>1. \A a \in Allocators : Listed[a] = <<>>
      BY <1>3, <1>12 DEF Listed
    <2>2. Range(<<>>) = {} /\ IsInjective(<<>>) /\ Len(<<>>) = 0
      BY DEF Range, IsInjective
    <2> QED
      BY <1>2, <1>3, <2>1, <2>2 DEF ListsItsObjects
  <1>14. IteratorInv /\ NoneIterates
    BY <1>1 DEF IteratorInv, NoneIterates, NoIterator
  <1> QED
    BY <1>4, <1>5, <1>6, <1>7, <1>8, <1>9, <1>10, <1>11, <1>12, <1>13, <1>14 DEF IInv

LEMMA StutterKeeps ==
    ASSUME IInv, UNCHANGED allocatorVars
    PROVE  IInv'
  <1>1. /\ live' = live /\ data' = data /\ heap' = heap /\ chunks' = chunks
        /\ objects' = objects /\ building' = building /\ iterator' = iterator
    BY DEF allocatorVars
  <1>2. DataOK' /\ ChunksOK' /\ ObjectsOK' /\ IteratorOK' /\ NoneIterates'
    BY <1>1 DEF IInv, DataOK, ChunksOK, ObjectsOK, IteratorOK, NoneIterates
  <1>3. BlocksInv'
    BY <1>1 DEF IInv, BlocksInv, BlocksOwned
  <1>4. Extents' = Extents
    BY <1>1 DEF Extents
  <1>5. MemoryInv'
    BY <1>1, <1>4 DEF IInv, MemoryInv, NoOverlap
  <1>6. BuildingInv'
    BY <1>1 DEF IInv, BuildingInv, Own
  <1>7. LinksInv'
    BY <1>1 DEF IInv, LinksInv, ChunksOf, Own
  <1>8. ListedFrom' = ListedFrom
    BY <1>1 DEF ListedFrom
  <1>9. Listed' = Listed
    BY <1>1, <1>8 DEF Listed
  <1>10. ListInv'
    BY <1>1, <1>8 DEF IInv, ListInv
  <1>11. ListsItsObjects'
    BY <1>1, <1>9 DEF IInv, ListsItsObjects
  <1>12. IteratorInv'
    BY <1>1, <1>8, <1>9 DEF IInv, IteratorInv, ChunksOf, Own, ToCome, Deref
  <1> QED
    BY <1>2, <1>3, <1>5, <1>6, <1>7, <1>10, <1>11, <1>12 DEF IInv

LEMMA StepKeeps ==
    ASSUME IInv, [AllocatorNext]_allocatorVars
    PROVE  IInv'
  <1>1. CASE Increment
    BY <1>1, IncrementKeeps
  <1>2. CASE \E a \in Allocators : Construct(a) \/ Reset(a) \/ Destruct(a) \/ Begin(a)
    <2> PICK a \in Allocators : Construct(a) \/ Reset(a) \/ Destruct(a) \/ Begin(a)
      BY <1>2
    <2>1. CASE Construct(a)
      BY <2>1, ConstructKeeps
    <2>2. CASE Reset(a) \/ Destruct(a)
      <3>1. HandsOver(a, Null)
        BY <2>2, ResetHandsOver
      <3> QED
        BY <3>1, HandsOverKeeps
    <2>3. CASE Begin(a)
      BY <2>3, BeginKeeps
    <2> QED
      BY <2>1, <2>2, <2>3
  <1>3. CASE \E a \in Allocators : \E t \in Types : Create(a, t) \/ CreateThrows(a, t)
    BY <1>3, CreateKeeps, CreateThrowsKeeps
  <1>4. CASE \E a \in Allocators : \E n \in DOMAIN objects :
               ConstructorReturns(n, a) \/ ConstructorThrows(n, a) \/ ListingThrows(n, a)
    BY <1>4, ConstructorReturnsKeeps, ConstructorThrowsKeeps, ListingThrowsKeeps
  <1>5. CASE \E a \in Allocators : \E b \in Allocators : MoveConstruct(a, b) \/ MoveAssign(a, b)
    <2> PICK a \in Allocators, b \in Allocators : MoveConstruct(a, b) \/ MoveAssign(a, b)
      BY <1>5
    <2>1. HandsOver(a, b)
      BY MoveConstructHandsOver, MoveAssignHandsOver
    <2> QED
      BY <2>1, HandsOverKeeps
  <1>6. CASE UNCHANGED allocatorVars
    BY <1>6, StutterKeeps
  <1> QED
    BY <1>1, <1>2, <1>3, <1>4, <1>5, <1>6 DEF AllocatorNext

LEMMA IInvHolds == AllocatorSpec => []IInv
  <1>1. IInv /\ [AllocatorNext]_allocatorVars => IInv'
    BY StepKeeps
  <1> QED
    BY InitIInv, <1>1, PTL DEF AllocatorSpec

(***************************************************************************)
(* Theorems.                                                               *)
(***************************************************************************)

(* NoOverlap: Allocate() (block_allocator.h:261-289) rounds the offset up  *)
(* and moves it past what it returns, whichever of Create() and            *)
(* AddObjectPointer() asks, in whatever order constructors nest, throw and *)
(* are moved from one allocator to another: no two objects, and no object  *)
(* and no chunk of pointers, ever share a byte, and none of them is in a   *)
(* block that was freed, for all sizes, alignments and numbers of blocks.  *)
THEOREM ObjectsDisjoint == AllocatorSpec => []NoOverlap
  <1>1. IInv => NoOverlap
    BY DEF IInv, MemoryInv
  <1> QED
    BY IInvHolds, <1>1, PTL

(* BlocksOwned: Reset() (block_allocator.h:238-249) and the moves, which   *)
(* swap the data, leave every block that was allocated with one allocator: *)
(* none is leaked, none is freed twice.                                    *)
THEOREM BlocksHaveOneOwner == AllocatorSpec => []BlocksOwned
  <1>1. IInv => BlocksOwned
    BY DEF IInv, BlocksInv
  <1> QED
    BY IInvHolds, <1>1, PTL

(* ListsItsObjects: the View of an allocator lists the objects that live   *)
(* in its blocks, each of them once, and Count() is their number           *)
(* (AddObjectPointer(), block_allocator.h:293-314, and Create()).          *)
THEOREM ListIsComplete == AllocatorSpec => []ListsItsObjects
  <1>1. IInv => ListsItsObjects
    BY DEF IInv
  <1> QED
    BY IInvHolds, <1>1, PTL

(* Count() is bounded since no object is listed twice. *)
LEMMA ListIsBounded ==
    ASSUME IInv, NEW a \in Allocators
    PROVE  Len(Listed[a]) <= Len(objects)
  <1> DEFINE s == Listed[a]
             S == 1..Len(objects)
  <1>1. s \in Seq(S) /\ IsInjective(s) /\ Len(objects) \in Nat
    BY LinkedFromIInv, ListedIs DEF IInv, ListsItsObjects, ObjectsOK
  <1> HIDE DEF s
  <1>2. s \in Injection(1..Len(s), S)
    BY <1>1 DEF Injection, IsInjective
  <1>3. Len(s) \in Nat
    BY <1>1
  <1>0. \A n \in Nat : IsFiniteSet(1..n) /\ Cardinality(1..n) = n
    <2> SUFFICES ASSUME NEW n \in Nat
                 PROVE  IsFiniteSet(1..n) /\ Cardinality(1..n) = n
      OBVIOUS
    <2>1. 1 \in Int /\ n \in Int
      OBVIOUS
    <2>2. IsFiniteSet(1..n) /\ Cardinality(1..n) = IF 1 > n THEN 0 ELSE n - 1 + 1
      BY <2>1, FS_Interval
    <2> QED
      BY <2>2
  <1>4. IsFiniteSet(S) /\ Cardinality(S) = Len(objects)
    BY <1>0, <1>1
  <1>5. Cardinality(1..Len(s)) = Len(s)
    BY <1>0, <1>3
  <1>6. Cardinality(1..Len(s)) <= Cardinality(S)
    BY <1>2, <1>4, FS_Injection
  <1> QED
    BY <1>4, <1>5, <1>6 DEF s

(* AllocatorTypeOK: the fields of every allocator, the chunks, the stack   *)
(* of constructors and the iterator only ever hold what their types say;   *)
(* in particular an iterator's index stays below kMax and the objects      *)
(* listed are ones that were created (block_allocator.h:78-176).           *)
THEOREM AllocatorTypes == AllocatorSpec => []AllocatorTypeOK
  <1>1. ASSUME IInv
        PROVE  AllocatorTypeOK
    <2>1. DataOK /\ ChunksOK /\ ObjectsOK /\ IteratorOK /\ ListsItsObjects
      BY <1>1 DEF IInv
    <2>2. \A a \in Allocators : data[a].count \in 0..MaxObjects
      <3> SUFFICES ASSUME NEW a \in Allocators
                   PROVE  data[a].count \in 0..MaxObjects
        OBVIOUS
      <3>1. Len(Listed[a]) <= Len(objects) /\ data[a].count = Len(Listed[a])
        BY <1>1, <2>1, ListIsBounded DEF ListsItsObjects
      <3>2. Len(objects) <= MaxObjects /\ Len(objects) \in Nat
        BY <2>1 DEF ObjectsOK
      <3>3. data[a].count \in Nat /\ MaxObjects \in Nat
        BY <2>1, AllocatorAssumption DEF DataOK, Fields
      <3> QED
        BY <3>1, <3>2, <3>3
    <2>3. data \in [Allocators ->
                 [blocks : Seq(Blocks), current_offset : Nat, count : 0..MaxObjects,
                  root : Addresses \cup {Null}, current : Addresses \cup {Null}]]
      <3> SUFFICES ASSUME NEW a \in Allocators
                   PROVE  data[a] \in [blocks : Seq(Blocks), current_offset : Nat,
                                       count : 0..MaxObjects, root : Addresses \cup {Null},
                                       current : Addresses \cup {Null}]
        BY <2>1 DEF DataOK
      <3>1. data[a] \in Fields
        BY <2>1 DEF DataOK
      <3> QED
        BY <2>2, <3>1 DEF Fields, Places
    <2>4. objects \in Seq([at : Addresses, type : Types,
                        fate : {"constructing", "alive", "failed", "unlisted",
                                "destructed"}])
      BY <2>1 DEF ObjectsOK, Objects
    <2> QED
      BY <2>1, <2>3, <2>4 DEF AllocatorTypeOK, DataOK, ChunksOK, Chunks, ObjectsOK, IteratorOK,
                              Places
  <1> QED
    BY IInvHolds, <1>1, PTL

LEMMA ConcatPrefix ==
    \A S : \A s, t \in Seq(S) : IsPrefix(s, s \o t)
  BY DEF IsPrefix

(* What comes after the iterator is a list of objects. *)
LEMMA ToComeIs ==
    ASSUME IInv, iterator.of # Null, iterator.ptrs # Null
    PROVE  ToCome(iterator) \in Seq(1..Len(objects))
  <1> DEFINE S == 1..Len(objects)
             p == iterator.ptrs
  <1>1. p \in DOMAIN chunks /\ chunks[p].next \in DOMAIN chunks \cup {Null}
    BY LinkedFromIInv, ChunkOwners DEF IInv, IteratorInv, ChunksOf
  <1>2. chunks[p].ptrs \in Seq(S)
    BY <1>1 DEF IInv, ChunksOK, Chunks
  <1>3. ListedFrom[chunks[p].next] \in Seq(S)
    BY <1>1 DEF IInv, ListInv
  <1>4. iterator.idx \in Nat
    BY AllocatorAssumption DEF IInv, IteratorOK
  <1> DEFINE ptrs == chunks[p].ptrs
             rest == ListedFrom[chunks[p].next]
  <1>5. ToCome(iterator) = SubSeq(ptrs, iterator.idx + 2, Len(ptrs)) \o rest
    BY DEF ToCome
  <1> HIDE DEF ptrs, rest, S
  <1>6. ptrs \in Seq(S) /\ rest \in Seq(S)
    BY <1>2, <1>3 DEF ptrs, rest, S
  <1>7. \A k \in (iterator.idx + 2)..Len(ptrs) : ptrs[k] \in S
    BY <1>4, <1>6
  <1>8. SubSeq(ptrs, iterator.idx + 2, Len(ptrs)) \in Seq(S)
    BY <1>4, <1>6, <1>7, SubSeqProperties
  <1> QED
    BY <1>5, <1>6, <1>8 DEF S

(* IteratesInOrder: operator++ (block_allocator.h:119-128) passes over the *)
(* objects in the order of the View, and while it does so Create() may add *)
(* objects to the chunk it is in or link a new one behind it, and a move   *)
(* may hand the chunks to another allocator.                               *)
THEOREM IterationKeepsOrder == AllocatorSpec => []IteratesInOrder
  <1>1. ASSUME IInv
        PROVE  IteratesInOrder
    <2> SUFFICES ASSUME iterator.of # Null
                 PROVE  /\ IsPrefix(iterator.seen, Listed[iterator.of])
                        /\ iterator.ptrs # Null =>
                               /\ iterator.seen # <<>>
                               /\ Last(iterator.seen) = Deref(iterator.ptrs, iterator.idx)
      BY DEF IteratesInOrder
    <2>1. CASE iterator.ptrs = Null
      BY <1>1, <2>1 DEF IInv, IteratorInv
    <2>2. CASE iterator.ptrs # Null
      <3>1. /\ iterator.seen # <<>>
            /\ Last(iterator.seen) = Deref(iterator.ptrs, iterator.idx)
            /\ Listed[iterator.of] = iterator.seen \o ToCome(iterator)
        BY <1>1, <2>2 DEF IInv, IteratorInv
      <3>2. iterator.seen \in Seq(1..Len(objects))
        BY <1>1 DEF IInv, IteratorOK
      <3>3. ToCome(iterator) \in Seq(1..Len(objects))
        BY <1>1, <2>2, ToComeIs
      <3>4. IsPrefix(iterator.seen, iterator.seen \o ToCome(iterator))
        BY <3>2, <3>3, ConcatPrefix, Zenon
      <3> QED
        BY <3>1, <3>4
    <2> QED
      BY <2>1, <2>2
  <1> QED
    BY IInvHolds, <1>1, PTL

LEMMA PastTheLast ==
    \A S : \A s \in Seq(S) : \A i \in Nat : i + 1 >= Len(s) => SubSeq(s, i + 2, Len(s)) = <<>>
  BY SubSeqProperties

LEMMA ConcatNothing == \A S : \A s \in Seq(S) : s \o (<<>> \o <<>>) = s
  OBVIOUS

(* A step comes to the end of the View only from its last object. *)
LEMMA EndsAtTheEnd ==
    ASSUME IInv, Increment, iterator'.ptrs = Null
    PROVE  iterator'.seen = Listed[iterator.of]
  <1> DEFINE S == 1..Len(objects)
             p == iterator.ptrs
             i == iterator.idx
  <1>1. /\ p # Null
        /\ iterator' = IF LastOf(p, i) THEN At(iterator, chunks[p].next, 0)
                       ELSE At(iterator, p, i + 1)
    BY DEF Increment
  <1>2. /\ iterator \in [of : Allocators \cup {Null}, ptrs : Places,
                         idx : 0..(kMax - 1), seen : Seq(S)]
        /\ i \in Nat /\ iterator.seen \in Seq(S)
    BY AllocatorAssumption DEF IInv, IteratorOK
  <1>3. \A q, j : At(iterator, q, j).ptrs = q
    BY <1>2 DEF At
  <1>4. LastOf(p, i) /\ chunks[p].next = Null
    BY <1>1, <1>3
  <1>5. iterator'.seen = iterator.seen
    BY <1>1, <1>2, <1>4 DEF At
  <1>6. iterator.of # Null
    BY <1>1 DEF IInv, NoneIterates, NoIterator
  <1>7. p \in DOMAIN chunks /\ Listed[iterator.of] = iterator.seen \o ToCome(iterator)
    BY <1>1, <1>6 DEF IInv, IteratorInv, ChunksOf
  <1>8. chunks[p].ptrs \in Seq(S)
    BY <1>7 DEF IInv, ChunksOK, Chunks
  <1>9. SubSeq(chunks[p].ptrs, i + 2, Len(chunks[p].ptrs)) = <<>>
    <2>1. i + 1 >= Len(chunks[p].ptrs)
      BY <1>4 DEF LastOf
    <2> QED
      BY <1>2, <1>8, <2>1, PastTheLast, Zenon
  <1>10. ListedFrom[Null] = <<>>
    BY ListedFromAt DEF IInv
  <1>11. ToCome(iterator) = <<>> \o <<>>
    BY <1>4, <1>9, <1>10 DEF ToCome
  <1> HIDE DEF S
  <1>12. iterator.seen \o (<<>> \o <<>>) = iterator.seen
    BY <1>2, ConcatNothing, Zenon
  <1> QED
    BY <1>5, <1>7, <1>11, <1>12

(* IteratesAll: an iterator compares equal to end() (its ptrs is null)     *)
(* only once it has passed over every object of the View, those included   *)
(* that Create() added since begin(); no other operation brings an         *)
(* iterator that is in use to the end.                                     *)
THEOREM IterationIsComplete == AllocatorSpec => IteratesAll
  <1>1. ASSUME IInv, [AllocatorNext]_allocatorVars,
               iterator.ptrs # Null, iterator'.ptrs = Null, iterator'.of = iterator.of
        PROVE  iterator'.seen = Listed[iterator.of]
    <2>1. CASE Increment
      BY <1>1, <2>1, EndsAtTheEnd
    <2>2. ASSUME NEW a \in Allocators, Begin(a)
          PROVE  iterator'.seen = Listed[iterator.of]
      <3>1. iterator' = At([NoIterator EXCEPT !.of = a], data[a].root, 0)
        BY <2>2 DEF Begin
      <3>2. iterator'.ptrs = data[a].root /\ iterator'.of = a
        BY <3>1 DEF At, NoIterator
      <3>3. iterator'.seen = <<>>
        BY <1>1, <3>1, <3>2 DEF At, NoIterator
      <3>4. ListedFrom[Null] = <<>>
        BY <1>1, ListedFromAt DEF IInv
      <3> QED
        BY <1>1, <3>2, <3>3, <3>4 DEF Listed
    <2>3. ASSUME NEW a \in Allocators, NEW b \in Allocators \cup {Null}, HandsOver(a, b)
          PROVE  FALSE
      <3>1. iterator.of # Null /\ a # Null /\ b # a
        BY <1>1, <2>3, NullIsNowhere DEF IInv, NoneIterates, NoIterator, HandsOver
      <3>2. iterator' \in {NoIterator, [iterator EXCEPT !.of = a], iterator}
        BY <2>3 DEF HandsOver
      <3>3. iterator'.of = iterator.of => iterator' # NoIterator
        BY <3>1 DEF NoIterator
      <3>4. iterator' = [iterator EXCEPT !.of = a] => iterator'.ptrs = iterator.ptrs
        BY <1>1 DEF IInv, IteratorOK
      <3> QED
        BY <1>1, <3>2, <3>3, <3>4
    <2>4. CASE iterator' = iterator
      BY <1>1, <2>4
    <2>5. CASE \E a \in Allocators : Construct(a) \/ Reset(a) \/ Destruct(a) \/ Begin(a)
      <3> PICK a \in Allocators : Construct(a) \/ Reset(a) \/ Destruct(a) \/ Begin(a)
        BY <2>5
      <3>1. CASE Construct(a)
        BY <2>4, <3>1 DEF Construct
      <3>2. CASE Reset(a) \/ Destruct(a)
        BY <1>1, <2>3, <3>2, ResetHandsOver
      <3> QED
        BY <2>2, <3>1, <3>2
    <2>6. CASE \E a \in Allocators : \E t \in Types : Create(a, t) \/ CreateThrows(a, t)
      BY <2>4, <2>6 DEF Create, CreateThrows
    <2>7. CASE \E a \in Allocators : \E n \in DOMAIN objects :
                 ConstructorReturns(n, a) \/ ConstructorThrows(n, a) \/ ListingThrows(n, a)
      BY <2>4, <2>7 DEF ConstructorReturns, ConstructorThrows, ListingThrows, Ends
    <2>8. CASE \E a \in Allocators : \E b \in Allocators : MoveConstruct(a, b) \/ MoveAssign(a, b)
      BY <1>1, <2>3, <2>8, MoveConstructHandsOver, MoveAssignHandsOver
    <2>9. CASE UNCHANGED allocatorVars
      BY <2>4, <2>9 DEF allocatorVars
    <2> QED
      BY <1>1, <2>1, <2>5, <2>6, <2>7, <2>8, <2>9 DEF AllocatorNext
  <1>2. IInv /\ [AllocatorNext]_allocatorVars =>
            [iterator.ptrs # Null /\ iterator'.ptrs = Null /\ iterator'.of = iterator.of
                => iterator'.seen = Listed[iterator.of]]_allocatorVars
    BY <1>1
  <1> QED
    BY IInvHolds, <1>2, PTL DEF AllocatorSpec, IteratesAll
-----------------------------------------------------------------------------
(* The refinement: what each step does to the lists and to the objects     *)
(* whose destructor has run.                                               *)
Gone == {n \in DOMAIN objects : objects[n].fate = "destructed"}

LEMMA SameLists ==
    ASSUME chunks' = chunks, \A c \in Allocators : data'[c].root = data[c].root
    PROVE  Listed' = Listed
  <1>1. ListedFrom' = ListedFrom
    BY DEF ListedFrom
  <1> QED
    BY <1>1 DEF Listed

LEMMA EndedGone ==
    ASSUME NEW n, NEW a, NEW fate \in {"alive", "failed", "unlisted"}, Ended(n, a, fate)
    PROVE  Gone' = Gone
  <1>1. /\ DOMAIN objects' = DOMAIN objects
        /\ objects[n].fate = "constructing" /\ objects'[n].fate = fate
        /\ \A m \in DOMAIN objects : m # n => objects'[m] = objects[m]
    BY DEF Ended
  <1>2. \A m \in DOMAIN objects :
            objects'[m].fate = "destructed" <=> objects[m].fate = "destructed"
    BY <1>1
  <1> QED
    BY <1>1, <1>2 DEF Gone

LEMMA HandedLists ==
    ASSUME IInv, NEW a \in Allocators, NEW b \in Allocators \cup {Null}, HandsOver(a, b)
    PROVE  /\ Listed' = [c \in Allocators |-> IF c = a THEN IF b = Null THEN <<>> ELSE Listed[b]
                                              ELSE IF c = b THEN <<>> ELSE Listed[c]]
           /\ Gone' = Gone \cup Range(Listed[a])
  <1>1. /\ data'[a] = Taken(b)
        /\ \A c \in Allocators \ {a, b} : data'[c] = data[c]
        /\ b # Null => data'[b] = EmptyData
    BY HandedOver DEF IInv
  <1>2. b # a
    BY DEF HandsOver
  <1>3. Listed'[a] = IF b = Null THEN <<>> ELSE Listed[b]
    <2>1. CASE b = Null
      BY <1>1, <2>1, HandedNothing DEF Taken
    <2>2. CASE b # Null
      BY <1>1, <1>2, <2>2, HandedChunks DEF Taken
    <2> QED
      BY <2>1, <2>2
  <1>4. b # Null => Listed'[b] = <<>>
    BY <1>1, HandedNothing
  <1>5. \A c \in Allocators \ {a, b} : Listed'[c] = Listed[c]
    BY <1>1, HandedChunks
  <1>6. Listed' = [c \in Allocators |-> Listed'[c]]
    BY DEF Listed
  <1>7. Range(Listed[a]) = Alive(a)
    BY ListsAlive DEF IInv
  <1>8. /\ DOMAIN objects' = DOMAIN objects
        /\ \A n \in DOMAIN objects :
               objects'[n].fate = "destructed" <=> objects[n].fate = "destructed" \/ n \in Alive(a)
    BY HandedObjects
  <1>9. Alive(a) \subseteq DOMAIN objects
    BY DEF Alive
  <1>10. Gone' = Gone \cup Range(Listed[a])
    BY <1>7, <1>8, <1>9 DEF Gone
  <1>11. Null \notin Allocators
    BY NullIsNowhere
  <1> QED
    BY <1>3, <1>4, <1>5, <1>6, <1>10, <1>11

LEMMA HandedOverIs ==
    ASSUME IInv, NEW a \in Allocators, NEW b \in Allocators \cup {Null}, HandsOver(a, b)
    PROVE  Promise!StoreNext
  <1> DEFINE to == IF b = Null THEN <<>> ELSE Listed[b]
  <1>1. /\ Listed' = [c \in Allocators |-> IF c = a THEN to
                                           ELSE IF c = b THEN <<>> ELSE Listed[c]]
        /\ Gone' = Gone \cup Range(Listed[a])
    BY HandedLists
  <1>2. a # b
    BY DEF HandsOver
  <1>3. DOMAIN Listed = Allocators
    BY DEF Listed
  <1>4. CASE b = Null
    <2>1. Listed' = [Listed EXCEPT ![a] = <<>>]
      BY <1>1, <1>3, <1>4, NullIsNowhere DEF Listed
    <2>2. Promise!Clear(a)
      BY <1>1, <2>1 DEF Promise!Clear, Gone, Promise!Range, Range
    <2> QED
      BY <2>2 DEF Promise!StoreNext
  <1>5. CASE b # Null
    <2>1. Listed' = [Listed EXCEPT ![a] = Listed[b], ![b] = <<>>]
      BY <1>1, <1>2, <1>3, <1>5 DEF Listed
    <2>2. Promise!Take(a, b)
      BY <1>1, <1>2, <2>1 DEF Promise!Take, Gone, Promise!Range, Range
    <2> QED
      BY <1>5, <2>2 DEF Promise!StoreNext
  <1> QED
    BY <1>4, <1>5

LEMMA ConstructorReturnsIs ==
    ASSUME IInv, NEW n, NEW a, ConstructorReturns(n, a)
    PROVE  Promise!StoreNext
  <1>1. Ended(n, a, "alive")
    BY EndsFacts DEF IInv, ConstructorReturns
  <1>2. a \in Allocators /\ n \in DOMAIN objects /\ objects[n].fate = "constructing"
    BY <1>1 DEF Ended
  <1>3. Lengthens(a, n)
    BY ConstructorReturnsKeeps
  <1>4. Listed' = [Listed EXCEPT ![a] = Append(@, n)]
    BY <1>2, <1>3 DEF Lengthens, Listed
  <1>5. Gone' = Gone
    BY <1>1, EndedGone
  <1>6. n \notin Gone
    BY <1>2 DEF Gone
  <1>7. n \in 1..MaxObjects
    BY <1>2, AllocatorAssumption DEF IInv, ObjectsOK
  <1>8. n \notin UNION {Range(Listed[c]) : c \in Allocators}
    BY <1>2 DEF IInv, ListsItsObjects
  <1>9. n \in Promise!Fresh
    BY <1>6, <1>7, <1>8 DEF Promise!Fresh, Promise!Owned, Gone, Promise!Range, Range
  <1>10. Promise!Add(a, n)
    BY <1>4, <1>5 DEF Promise!Add, Gone
  <1> QED
    BY <1>2, <1>9, <1>10 DEF Promise!StoreNext

(* Every other step leaves the lists and the destructed objects alone. *)
LEMMA OthersStutter ==
    ASSUME IInv,
           \/ Increment \/ UNCHANGED allocatorVars
           \/ \E a \in Allocators :
                  \/ Construct(a) \/ Begin(a)
                  \/ \E t \in Types : Create(a, t) \/ CreateThrows(a, t)
                  \/ \E n \in DOMAIN objects : ConstructorThrows(n, a) \/ ListingThrows(n, a)
    PROVE  Listed' = Listed /\ Gone' = Gone
  <1>1. CASE Increment \/ UNCHANGED allocatorVars
             \/ \E a \in Allocators : Construct(a) \/ Begin(a)
    <2>1. data' = data /\ chunks' = chunks /\ objects' = objects
      BY <1>1 DEF Increment, allocatorVars, Construct, Begin
    <2> QED
      BY <2>1, SameLists DEF Gone
  <1>2. ASSUME NEW a \in Allocators, NEW t \in Types, Create(a, t)
        PROVE  Listed' = Listed /\ Gone' = Gone
    <2>1. PICK p \in Room(a, t) :
              /\ data' = [data EXCEPT ![a] = Allocated(a, t, p)]
              /\ objects' = Append(objects, [at |-> p, type |-> t, fate |-> "constructing"])
      BY <1>2 DEF Create
    <2>2. data \in [Allocators -> Fields] /\ objects \in Seq(Objects)
      BY DEF IInv, DataOK, ObjectsOK
    <2>3. Allocated(a, t, p).root = data[a].root
      <3>1. data[a] \in Fields
        BY <2>2
      <3> QED
        BY <3>1 DEF Allocated, Fields
    <2>4. \A c \in Allocators : data'[c].root = data[c].root
      BY <2>1, <2>2, <2>3
    <2>5. chunks' = chunks
      BY <1>2 DEF Create
    <2> DEFINE o == [at |-> p, type |-> t, fate |-> "constructing"]
    <2>6. o.fate = "constructing"
      OBVIOUS
    <2>7. objects' = Append(objects, o)
      BY <2>1
    <2> HIDE DEF o
    <2>8. /\ DOMAIN objects' = DOMAIN objects \cup {Len(objects) + 1}
          /\ objects'[Len(objects) + 1] = o
          /\ \A m \in DOMAIN objects : objects'[m] = objects[m]
      BY <2>2, <2>7
    <2>9. Gone' = Gone
      BY <2>6, <2>8 DEF Gone
    <2> QED
      BY <2>4, <2>5, <2>9, SameLists
  <1>3. ASSUME NEW a \in Allocators, NEW t \in AllTypes, data' = [data EXCEPT ![a] = Exhausted(a, t)]
        PROVE  \A c \in Allocators : data'[c].root = data[c].root
    <2>1. data \in [Allocators -> Fields] /\ data[a] \in Fields
      BY DEF IInv, DataOK
    <2>2. Exhausted(a, t).root = data[a].root
      BY <2>1 DEF Exhausted, Fields
    <2> QED
      BY <1>3, <2>1, <2>2
  <1>4. ASSUME NEW a \in Allocators, NEW t \in Types, CreateThrows(a, t)
        PROVE  Listed' = Listed /\ Gone' = Gone
    <2>1. chunks' = chunks /\ objects' = objects
          /\ data' = [data EXCEPT ![a] = Exhausted(a, t)]
      BY <1>4 DEF CreateThrows
    <2> QED
      BY <1>3, <2>1, SameLists DEF Gone, AllTypes
  <1>5. ASSUME NEW a \in Allocators, NEW n \in DOMAIN objects, ConstructorThrows(n, a)
        PROVE  Listed' = Listed /\ Gone' = Gone
    <2>1. chunks' = chunks /\ data' = data /\ Ends(n, a, "failed")
      BY <1>5 DEF ConstructorThrows
    <2>2. Ended(n, a, "failed")
      BY <2>1, EndsFacts DEF IInv
    <2> QED
      BY <2>1, <2>2, EndedGone, SameLists
  <1>6. ASSUME NEW a \in Allocators, NEW n \in DOMAIN objects, ListingThrows(n, a)
        PROVE  Listed' = Listed /\ Gone' = Gone
    <2>1. /\ chunks' = chunks /\ data' = [data EXCEPT ![a] = Exhausted(a, Pointers)]
          /\ Ends(n, a, "unlisted")
      BY <1>6 DEF ListingThrows
    <2>2. Ended(n, a, "unlisted")
      BY <2>1, EndsFacts DEF IInv
    <2> QED
      BY <1>3, <2>1, <2>2, EndedGone, SameLists DEF AllTypes
  <1> QED
    BY <1>1, <1>2, <1>4, <1>5, <1>6

(* ImplementsOwnedObjects: blocks, chunks, offsets, exceptions and nested  *)
(* constructors all hide behind the promise of the class comment           *)
(* (block_allocator.h:67-70): Create() adds a new object at the end of the *)
(* View, Reset(), the destructor and the moves destruct what the View      *)
(* listed, each object once, and a move takes the other's objects over.    *)
THEOREM AllocatorImplementsOwnedObjects == AllocatorSpec => ImplementsOwnedObjects
  <1>1. AllocatorInit => Promise!StoreInit
    <2> SUFFICES ASSUME AllocatorInit
                 PROVE  Promise!StoreInit
      OBVIOUS
    <2>1. IInv
      BY InitIInv
    <2>2. ListedFrom[Null] = <<>>
      BY <2>1, ListedFromAt DEF IInv
    <2>3. \A a \in Allocators : data[a].root = Null
      BY DEF AllocatorInit, EmptyData
    <2>4. Listed = [a \in Allocators |-> <<>>]
      BY <2>2, <2>3 DEF Listed
    <2>5. DOMAIN objects = {}
      BY DEF AllocatorInit
    <2> QED
      BY <2>4, <2>5 DEF Promise!StoreInit
  <1>2. ASSUME IInv, AllocatorNext \/ UNCHANGED allocatorVars
        PROVE  Promise!StoreNext \/ (Listed' = Listed /\ Gone' = Gone)
    <2>1. CASE \E a \in Allocators : Reset(a) \/ Destruct(a)
      BY <1>2, <2>1, ResetHandsOver, HandedOverIs
    <2>2. CASE \E a \in Allocators : \E b \in Allocators : MoveConstruct(a, b) \/ MoveAssign(a, b)
      BY <1>2, <2>2, MoveConstructHandsOver, MoveAssignHandsOver, HandedOverIs
    <2>3. CASE \E a \in Allocators : \E n \in DOMAIN objects : ConstructorReturns(n, a)
      BY <1>2, <2>3, ConstructorReturnsIs
    <2>4. CASE \/ Increment \/ UNCHANGED allocatorVars
               \/ \E a \in Allocators :
                      \/ Construct(a) \/ Begin(a)
                      \/ \E t \in Types : Create(a, t) \/ CreateThrows(a, t)
                      \/ \E n \in DOMAIN objects : ConstructorThrows(n, a) \/ ListingThrows(n, a)
      BY <1>2, <2>4, OthersStutter
    <2> QED
      BY <1>2, <2>1, <2>2, <2>3, <2>4 DEF AllocatorNext
  <1>3. IInv /\ [AllocatorNext]_allocatorVars => [Promise!StoreNext]_(Promise!storeVars)
    BY <1>2 DEF Promise!storeVars, Gone
  <1> QED
    BY <1>1, <1>3, IInvHolds, PTL DEF AllocatorSpec, ImplementsOwnedObjects, Promise!StoreSpec
=============================================================================
