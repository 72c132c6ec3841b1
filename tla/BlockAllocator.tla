--------------------------- MODULE BlockAllocator ---------------------------
(***************************************************************************)
(* BlockAllocator (src/utils/block_allocator.h): objects are carved out of *)
(* heap blocks, and listed in chunks of pointers (Pointers) carved out of  *)
(* the same blocks.  An address is <<block, offset>>.  A constructor may   *)
(* create other objects in the same allocator, or throw, and the heap may  *)
(* be out of blocks.                                                       *)
(***************************************************************************)
EXTENDS Integers, Sequences, FiniteSets, SequencesExt

CONSTANTS
    Allocators,     \* places for a BlockAllocator
    Blocks,         \* the blocks the heap can give
    Types,          \* the types of the objects: [size |-> _, align |-> _]
    BlockSize,      \* BLOCK_SIZE
    BlockAlignment, \* BLOCK_ALIGNMENT
    Pointers,       \* size and alignment of struct Pointers
    kMax,           \* Pointers::kMax
    Null,           \* nullptr
    MaxObjects      \* bound: objects created

ASSUME AllocatorAssumption ==
    /\ BlockSize \in Nat /\ BlockAlignment \in Nat /\ MaxObjects \in Nat
    /\ kMax \in Nat /\ kMax > 1
    /\ \A t \in Types \cup {Pointers} :
           /\ t \in [size : 1..BlockSize, align : 1..BlockAlignment]
           /\ BlockAlignment % t.align = 0
    /\ Null \notin Allocators \cup (Blocks \X Nat)

VARIABLES
    live,     \* the allocators that are constructed
    data,     \* their fields
    heap,     \* the blocks that are allocated
    chunks,   \* the Pointers in memory, by address
    objects,  \* every object there has been: address, type and fate
    building, \* the calls of Create() that are in a constructor
    iterator  \* an iterator of a View, and the objects it has pointed to

allocatorVars == <<live, data, heap, chunks, objects, building, iterator>>

Addresses == Blocks \X (0..BlockSize)

EmptyData ==
    [blocks |-> <<>>, current_offset |-> BlockSize,
     root |-> Null, current |-> Null, count |-> 0]

NoIterator == [of |-> Null, ptrs |-> Null, idx |-> 0, seen |-> <<>>]

AllocatorTypeOK ==
    /\ live \subseteq Allocators
    /\ data \in [Allocators ->
                 [blocks : Seq(Blocks), current_offset : Nat, count : 0..MaxObjects,
                  root : Addresses \cup {Null}, current : Addresses \cup {Null}]]
    /\ heap \subseteq Blocks
    /\ DOMAIN chunks \subseteq Addresses
    /\ chunks \in [DOMAIN chunks ->
                   [ptrs : Seq(1..Len(objects)),
                    next : Addresses \cup {Null}, prev : Addresses \cup {Null}]]
    /\ objects \in Seq([at : Addresses, type : Types,
                        fate : {"constructing", "alive", "failed", "unlisted",
                                "destructed"}])
    /\ building \in Seq([in : Allocators, object : 1..Len(objects)])
    /\ iterator \in [of : Allocators \cup {Null}, ptrs : Addresses \cup {Null},
                     idx : 0..(kMax - 1), seen : Seq(1..Len(objects))]

AllocatorInit ==
    /\ live = {}
    /\ data = [a \in Allocators |-> EmptyData]
    /\ heap = {}
    /\ chunks = [p \in {} |-> <<>>]
    /\ objects = <<>>
    /\ building = <<>>
    /\ iterator = NoIterator
-----------------------------------------------------------------------------
(* Allocate(). *)

(* A variant of RoundUp: down to the multiple below. *)
RoundDown(alignment, value) == (value \div alignment) * alignment

RoundUp(alignment, value) == ((value + alignment - 1) \div alignment) * alignment

Fits(a, t) == RoundUp(t.align, data[a].current_offset) + t.size <= BlockSize

(* The addresses Allocate() may return for a t: none if new throws.        *)
Room(a, t) ==
    IF Fits(a, t)
    THEN {<<Last(data[a].blocks), RoundUp(t.align, data[a].current_offset)>>}
    ELSE (Blocks \ heap) \X {0}

(* The fields after Allocate() has returned p, and after it has thrown.    *)
Allocated(a, t, p) ==
    [data[a] EXCEPT !.blocks = IF Fits(a, t) THEN @ ELSE Append(@, p[1]),
                    !.current_offset = p[2] + t.size]

Exhausted(a, t) ==
    [data[a] EXCEPT !.current_offset = RoundUp(t.align, @)]
-----------------------------------------------------------------------------
(* The View: from the first chunk along the next pointers. *)

ListedFrom[p \in DOMAIN chunks \cup {Null}] ==
    IF p = Null THEN <<>> ELSE chunks[p].ptrs \o ListedFrom[chunks[p].next]

Listed == [a \in Allocators |-> ListedFrom[data[a].root]]

(* Create(), up to the constructor. *)
Create(a, t) ==
    /\ a \in live /\ Len(objects) < MaxObjects
    /\ \E p \in Room(a, t) :
           /\ data' = [data EXCEPT ![a] = Allocated(a, t, p)]
           /\ heap' = heap \cup {p[1]}
           /\ objects' = Append(objects, [at |-> p, type |-> t, fate |-> "constructing"])
    /\ building' = Append(building, [in |-> a, object |-> Len(objects')])
    /\ UNCHANGED <<live, chunks, iterator>>

CreateThrows(a, t) ==
    /\ a \in live /\ Room(a, t) = {}
    /\ data' = [data EXCEPT ![a] = Exhausted(a, t)]
    /\ UNCHANGED <<live, heap, chunks, objects, building, iterator>>

(* The constructor of the innermost Create() ends.                         *)
Ends(n, a, fate) ==
    /\ building # <<>> /\ Last(building) = [in |-> a, object |-> n]
    /\ building' = Front(building)
    /\ objects' = [objects EXCEPT ![n].fate = fate]
    /\ UNCHANGED <<live, iterator>>

ConstructorThrows(n, a) == Ends(n, a, "failed") /\ UNCHANGED <<data, heap, chunks>>

(* A variant of ChunkHasRoom: one pointer more. *)
ChunkHasRoomMore(a) ==
    data[a].current \in {p \in DOMAIN chunks : Len(chunks[p].ptrs) <= kMax}

ChunkHasRoom(a) ==
    data[a].current \in {p \in DOMAIN chunks : Len(chunks[p].ptrs) # kMax}

(* A variant of Linked: the chunk before does not learn of p. *)
UnlinkedChunk(a, p, n) ==
    [q \in DOMAIN chunks \cup {p} |->
        IF q = p THEN [ptrs |-> <<n>>, next |-> Null, prev |-> data[a].current]
        ELSE chunks[q]]

(* A new chunk at p, after the current one.                                *)
Linked(a, p, n) ==
    [q \in DOMAIN chunks \cup {p} |->
        IF q = p THEN [ptrs |-> <<n>>, next |-> Null, prev |-> data[a].current]
        ELSE IF q = data[a].current THEN [chunks[q] EXCEPT !.next = p]
        ELSE chunks[q]]

(* The rest of Create(): AddObjectPointer() and the count. *)
ConstructorReturns(n, a) ==
    /\ Ends(n, a, "alive")
    /\ \/ /\ ChunkHasRoom(a)
          /\ chunks' = [chunks EXCEPT ![data[a].current].ptrs = Append(@, n)]
          /\ data' = [data EXCEPT ![a].count = @ + 1]
          /\ UNCHANGED heap
       \/ /\ ~ChunkHasRoom(a)
          /\ \E p \in Room(a, Pointers) :
                 /\ chunks' = Linked(a, p, n)
                 /\ data' = [data EXCEPT ![a] =
                        [Allocated(a, Pointers, p) EXCEPT
                            !.root = IF data[a].current = Null THEN p ELSE @,
                            !.current = p,
                            !.count = @ + 1]]
                 /\ heap' = heap \cup {p[1]}

(* There is no room for the chunk: the constructed object is not listed.   *)
ListingThrows(n, a) ==
    /\ Ends(n, a, "unlisted")
    /\ ~ChunkHasRoom(a) /\ Room(a, Pointers) = {}
    /\ data' = [data EXCEPT ![a] = Exhausted(a, Pointers)]
    /\ UNCHANGED <<heap, chunks>>
-----------------------------------------------------------------------------
(* Construction, destruction, Reset() and moves: not from a constructor of *)
(* an object that is being created there.                                  *)

Idle(a) == \A i \in DOMAIN building : building[i].in # a

Construct(a) ==
    /\ a \notin live
    /\ live' = live \cup {a}
    /\ UNCHANGED <<data, heap, chunks, objects, building, iterator>>

(* A variant of Swapped: data is copied. *)
Copied(a, b) == [data EXCEPT ![a] = data[b]]

(* std::swap(data, rhs.data) with a fresh or reset data. *)
Swapped(a, b) == [data EXCEPT ![a] = data[b], ![b] = EmptyData]

(* An iterator still points into the chunks, which are another's now.      *)
Follow(it, a, b) == IF it.of = b THEN [it EXCEPT !.of = a] ELSE it

MoveConstruct(a, b) ==
    /\ a \notin live /\ b \in live /\ Idle(b)
    /\ live' = live \cup {a}
    /\ data' = Swapped(a, b)
    /\ iterator' = Follow(iterator, a, b)
    /\ UNCHANGED <<heap, chunks, objects, building>>

(* Reset(): the listed objects are destructed and the blocks freed, and    *)
(* with them the chunks; an iterator must not be used any more.            *)
Discard(a) ==
    LET blocks == Range(data[a].blocks)
    IN  /\ Idle(a)
        /\ heap' = heap \ blocks
        /\ chunks' = [p \in {q \in DOMAIN chunks : q[1] \notin blocks} |-> chunks[p]]
        /\ objects' = [n \in DOMAIN objects |->
                           IF n \in Range(Listed[a])
                           THEN [objects[n] EXCEPT !.fate = "destructed"]
                           ELSE objects[n]]
        /\ UNCHANGED building

Unless(it, a) == IF it.of = a THEN NoIterator ELSE it

(* A variant of ResetData: the chunks are forgotten, the blocks are not. *)
ResetKeepsBlocks(a) ==
    [data EXCEPT ![a] = [EmptyData EXCEPT !.blocks = data[a].blocks,
                                          !.current_offset = data[a].current_offset]]

ResetData(a) == [data EXCEPT ![a] = EmptyData]

Reset(a) ==
    /\ a \in live
    /\ Discard(a)
    /\ data' = ResetData(a)
    /\ iterator' = Unless(iterator, a)
    /\ UNCHANGED live

Destruct(a) ==
    /\ a \in live
    /\ Discard(a)
    /\ data' = ResetData(a)
    /\ iterator' = Unless(iterator, a)
    /\ live' = live \ {a}

MoveAssign(a, b) ==
    /\ a # b /\ a \in live /\ b \in live /\ Idle(b)
    /\ Discard(a)
    /\ data' = Swapped(a, b)
    /\ iterator' = Follow(Unless(iterator, a), a, b)
    /\ UNCHANGED live
-----------------------------------------------------------------------------
(* Iteration; "seen" records what the iterator has pointed to. *)

Deref(ptrs, idx) == chunks[ptrs].ptrs[idx + 1]

At(it, ptrs, idx) ==
    [it EXCEPT !.ptrs = ptrs, !.idx = idx,
               !.seen = IF ptrs = Null THEN @ ELSE Append(@, Deref(ptrs, idx))]

Begin(a) ==
    /\ a \in live
    /\ iterator' = At([NoIterator EXCEPT !.of = a], data[a].root, 0)
    /\ UNCHANGED <<live, data, heap, chunks, objects, building>>

(* A variant of LastOf: one object early. *)
LastOfEarly(ptrs, idx) == idx + 2 >= Len(chunks[ptrs].ptrs)

LastOf(ptrs, idx) == idx + 1 >= Len(chunks[ptrs].ptrs)

Increment ==
    LET p == iterator.ptrs
    IN  /\ p # Null
        /\ iterator' = IF LastOf(p, iterator.idx)
                       THEN At(iterator, chunks[p].next, 0)
                       ELSE At(iterator, p, iterator.idx + 1)
        /\ UNCHANGED <<live, data, heap, chunks, objects, building>>

(* operator--, from an object that is not the first: "seen" is what an     *)
(* iterator that took one step less has seen.                              *)
Decrement ==
    LET p == iterator.ptrs
        q == IF iterator.idx = 0 THEN chunks[p].prev ELSE p
        i == IF iterator.idx = 0 THEN Len(chunks[q].ptrs) - 1 ELSE iterator.idx
    IN  /\ p # Null /\ Len(iterator.seen) > 1
        /\ iterator' = [iterator EXCEPT !.ptrs = q, !.idx = i - 1, !.seen = Front(@)]
        /\ UNCHANGED <<live, data, heap, chunks, objects, building>>

AllocatorNext ==
    \/ Increment
    \/ \E a \in Allocators :
        \/ Construct(a) \/ Reset(a) \/ Destruct(a) \/ Begin(a)
        \/ \E t \in Types : Create(a, t) \/ CreateThrows(a, t)
        \/ \E n \in DOMAIN objects :
               ConstructorReturns(n, a) \/ ConstructorThrows(n, a) \/ ListingThrows(n, a)
        \/ \E b \in Allocators : MoveConstruct(a, b) \/ MoveAssign(a, b)

AllocatorSpec == AllocatorInit /\ [][AllocatorNext]_allocatorVars

(* With iterators that go backwards, too. *)
BackwardSpec ==
    AllocatorInit /\ [][AllocatorNext \/ Decrement]_allocatorVars
-----------------------------------------------------------------------------
(* What lies in the blocks: objects that live, or are about to, and chunks.*)
Extents ==
    {[at |-> objects[n].at, type |-> objects[n].type, what |-> n] :
         n \in {i \in DOMAIN objects : objects[i].fate \in {"constructing", "alive"}}}
    \cup {[at |-> p, type |-> Pointers, what |-> 0] : p \in DOMAIN chunks}

(* No two objects, and no object and no chunk, share a byte: each is       *)
(* aligned and inside a block that has not been freed.                     *)
NoOverlap ==
    /\ \A x \in Extents :
           /\ x.at[1] \in heap
           /\ x.at[2] % x.type.align = 0
           /\ x.at[2] + x.type.size <= BlockSize
    /\ \A x, y \in Extents :
           x # y /\ x.at[1] = y.at[1] =>
               \/ x.at[2] + x.type.size <= y.at[2]
               \/ y.at[2] + y.type.size <= x.at[2]

(* Every block belongs to one allocator: none is leaked or freed twice.    *)
BlocksOwned ==
    /\ heap = UNION {Range(data[a].blocks) : a \in Allocators}
    /\ \A a \in Allocators :
           /\ IsInjective(data[a].blocks)
           /\ \A b \in Allocators \ {a} :
                  Range(data[a].blocks) \cap Range(data[b].blocks) = {}

(* An allocator lists each of the objects in its own blocks that live,     *)
(* once, and nothing else, and Count() is their number.                    *)
ListsItsObjects ==
    \A a \in Allocators :
        /\ Range(Listed[a]) =
               {n \in DOMAIN objects : /\ objects[n].fate = "alive"
                                       /\ objects[n].at[1] \in Range(data[a].blocks)}
        /\ IsInjective(Listed[a])
        /\ data[a].count = Len(Listed[a])

(* Objects may be added while iterating: the iterator passes over the      *)
(* objects in the order of the View all the same.                          *)
IteratesInOrder ==
    iterator.of # Null =>
        /\ IsPrefix(iterator.seen, Listed[iterator.of])
        /\ iterator.ptrs # Null =>
               /\ iterator.seen # <<>>
               /\ Last(iterator.seen) = Deref(iterator.ptrs, iterator.idx)

(* It comes to the end only when it has passed over all of them.           *)
IteratesAll ==
    [][iterator.ptrs # Null /\ iterator'.ptrs = Null /\ iterator'.of = iterator.of
           => iterator'.seen = Listed[iterator.of]]_allocatorVars

(* BlockAllocator keeps the promises of OwnedObjects. *)
Promise == INSTANCE OwnedObjects WITH
    Stores <- Allocators,
    Things <- 1..MaxObjects,
    contents <- Listed,
    destructed <- {n \in DOMAIN objects : objects[n].fate = "destructed"}

ImplementsOwnedObjects == Promise!StoreSpec

(* The class comment (block_allocator.h:69-70): "all constructed objects   *)
(* are automatically destructed and freed".                                *)
DestructedWhenFreed ==
    \A n \in DOMAIN objects :
        objects[n].fate = "unlisted" => objects[n].at[1] \in heap

(* operator-- (block_allocator.h:130) shall "Progress the iterator         *)
(* backwards one element".                                                 *)
BackwardsOneElement == IteratesInOrder
=============================================================================
