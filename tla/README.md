# A verification project for langsvr

langsvr is a C++17 library for the Language Server Protocol: a program gives a
`Session` the JSON messages it receives and a `Sender` for those it sends, and
registers handlers for the request and notification types it serves.  The
types of the protocol and their codec are generated from a meta model by a
program in Go.  The modules here model the library's own logic, all of its
protocol types and the generator's sorting in TLA+.  TLC checks the models on
small instances; TLAPS proves the central properties for all.

## The system

| Part | State | Operations | Talks to |
|---|---|---|---|
| `Session` (`session.h`, `session.cc`) | the sender, three maps of handlers, the next request id, the promises the response handlers hold | `SetSender`, `Register`, `OnPostSend`, `Send` (`SendRequest`, `SendNotification`), `Receive` | calls the sender, the handlers and the post-send callbacks, each of which may call the session again |
| Content stream (`content_stream.cc`) | none but the position in the stream | `ReadContent`, `WriteContent` | a `Reader` or `Writer` |
| Readers and writers | a cursor, a growing buffer | `Read`, `Write`, `String` | the program's streams |
| `BlockAllocator` | blocks, chunks of object pointers, a count | `Create`, `Reset`, moves, `Objects` and its iterators | constructors and destructors; owns the JSON values |
| JSON (`json/`, `jsoncpp.cc`) | a builder owns every value it or its values hand out | `Parse`, typed accessors, constructors | `BlockAllocator`, jsoncpp |
| Codec (`encode.h`, `decode.h`, generated `lsp.cc`) | the object decoded into | `Encode`, `Decode`, `==` for every LSP type | JSON |
| LSP types (generated `lsp.h`) | none | data: enumerations, structures, messages | codec, session |
| `OneOf`, `Optional` | an owned heap value, and its kind | copy, move, `Set`, `Reset`, `Is`, `Get` | used by every LSP type |
| Comparators | none | order of positions, ranges that contain one | |
| Generator (`tools/cmd/gen`, Go) | the parsed meta model | resolves and sorts types, expands templates | files |

No part has threads or locks of its own.  What makes the library hard to test
is reentrancy (callouts that call back), two peers whose messages cross, calls
that fail half-way, memory that is shared by what is created, listed and
iterated, the number of types the codec treats alike, and graphs of references
of any shape.  The `hazards` of PROJECT.json name the lines.

What makes the parts correct:

- *Session*: each promise is settled once at most, by the response that bears
  its id; ids are not reused; the handler that is running still exists; a
  request has one handler run; an answerable request is answered; `post_send`
  follows a response that was sent.
- *Content stream*: what is written is read, whole and in order, wherever the
  stream is cut.
- *BlockAllocator*: objects do not overlap, are listed in order and are
  destructed once; blocks are freed once.
- *Codec*: decoding what was encoded gives the same value; whatever arrives,
  the object decoded into has a value of its type and holds nothing that was
  neither sent nor there before.
- *OneOf, Optional*: one owner for each heap value, deleted as what it is;
  copies are equal and independent.
- *Comparators*: a total order, and ranges that split and touch as intended.
- *Generator*: nothing is emitted before what it needs, everything once.

## Modules

```
RemoteCall               a request, abstractly          OwnedObjects     an allocator, abstractly
   ^        ^                                              ^
   |        |  implemented by                              |  implemented by
DirectSessions  StreamSessions    ContentStream          BlockAllocator
   |        |  extend
   v        v
  Session                                               Holders   a variable that may hold a value
                                                           ^   ^
LspTypes <- LspFeatures, LspCapabilities                   |   |  implemented by
    ^            ^  extended by                  OneOfHolders  OptionalHolders -> Heap
    |       LspStructures <- LspMessages                   ^   ^  composed in
  Codec -> JsonValues             ^                        MCHolders
    ^                             |
    +---------- MCCodec ----------+              Generator <- MCGenerator     Comparators
```

`X_proofs` holds the theorems about `X` (`Session_proofs` also those about
`RemoteCall`, `Holders_proofs` those about `OneOfHolders` and `OptionalHolders`,
`Orders_proofs` those about `Comparators` and `Generator`); `MCX` the
definitions that only model checking needs; `Heap` the constants that both kinds
of holder use.  The operators named "a variant of ..." in a module are plausible
mistakes; nothing uses them, except that PROJECT.json lists, for each checked
property, a variant that breaks it when it takes the place of the original.

### Session

The variables bear the names of the members.  `request_handlers_` says which of
the two functions of an entry are set, `response_handlers_` which request type
an id's entry waits for.  `promise` and `returned` record, per id, what happened
to the `std::promise` and what `SendRequest()` gave its caller.

`calls[s]` is the stack of the session's own functions that are suspended in
foreign code.  `Receive()` with a request is suspended in the handler
(`Request`), then in the Sender (`Respond`), then in the callback (`PostSend`);
`SendRequest()` and `SendNotification()` are suspended in the Sender.  An action
is what the code does from one such point to the next: `ReceiveRequest` up to
the call of the handler, `RequestHandlerReturns` from there to the Sender,
`RespondReturns` from there to `post_send` or the end.  `Session` assumes
nothing about its environment: any message and any outcome of a callout may
come at any point, including messages no peer would send.

The guards of `SetSender`, `RegisterRequest`, `OnPostSend` and
`RegisterNotification` exclude one thing: replacing a `std::function` while it
runs, which is undefined.  The Sender's argument is a message; its fields are
those of the stack frame.

### DirectSessions

Two sessions whose Senders call the other's `Receive()`, as in
`session_test.cc`.  One thread runs both, so `thread` is the program's stack and
`control` what happens at its innermost end.  Each action is an action of
`Session` and the transfer of control.  Here a request, the handler, the response
and the response handler all happen within `SendRequest()`, and requests nest in
both directions.

### StreamSessions

Two programs with one thread each, which loop over `ReadContent()` and
`Receive()`; a Sender is `WriteContent()`.  `wire[s]` is the queue of messages to
`s`.  `Faults` selects what may go wrong: "codec" (values that do not encode or
decode), "sender" (`SetSender()` with an empty function), "connection" (the
streams break and lose what they hold).  A full stream (`MaxWire`) blocks its
writer.

### RemoteCall

The abstract request: asked, handled at most once, answered with its own
handler's outcome or not at all.  The refinement maps `caller` to `promise` and
`callee` to the history variable `handled`.

### ContentStream

A byte is a number.  The writing program writes framed messages, may stop at any
point and may write something else once (`Stray`: another header, a log line).
Bytes arrive one at a time; `ReadContent()` is four actions, one for each kind of
`Read()` it makes, and `ReadLength` is one turn of its loop.  `len` wraps at
`LenModulus`, which stands for 2^64.  A length above `MaxSize`
(`std::string::max_size()`) makes `resize()` throw.

### BlockAllocator and OwnedObjects

Memory is a set of heap blocks; an address is a block and an offset.  `data`,
`chunks` (the `Pointers` structures, with their `next` and `prev` links) and the
iterator follow the code.  `Create()` is two actions with the constructor in
between, so that a constructor can create further objects or throw; `building` is
the stack of constructors.  `CreateThrows` and `ListingThrows` are the two places
where `new Block` can throw.  The sizes and alignments are constants.
`OwnedObjects` forgets the memory: an allocator is a sequence of objects.

### LspTypes, LspFeatures, LspCapabilities, LspStructures, LspMessages

`src/lsp/lsp.cc` and `langsvr/lsp/lsp.h` are one template, expanded for some
hundreds of types.  Here every enumeration, structure, alias, request and
notification is one definition, in the order of the files: a term of
`LspTypes` that lists its enumerators or its properties, with their JSON names,
their types and whether they are optional, its bases and its `kind`.  That is
what the expansions differ in; what they share is in `Codec`.  `LspTable` maps
names to terms, as types refer to each other in cycles.

### JsonValues and Codec

`JsonValues` is the builder and the typed accessors of `jsoncpp.cc`.  A value is
tagged with the type that jsoncpp stores: `I64()`, `U64()` and `F64()` each take
several.  `Reread` (external: jsoncpp's printer and parser) turns a value into
what its text is parsed as.

`Codec` has `Decode`, `Encode`, `operator==` and the initial value for each form
of type (`decode.h`, `encode.h`, and the bodies in `lsp.cc.tmpl` and `lsp.cc`).
`Decode` takes what the output held before and returns what it holds afterwards,
also when it fails.  Members of structures, elements and entries are decoded in
place or moved in, as in the code.  Each operator that ends in `Overload` says what
one call does, and calls `Decode`, `Encode`, ... for the parts, as the code calls the
overload for another type.  Those are constants of the module: the configurations
tie them to the overloads (through operators of `MCCodec` that only call them), and
the theorems assume it (`Overloads`).  Nothing in the module is declared RECURSIVE
therefore, so that it can be reasoned about.

The state machine is the life of a message: a program builds a value and encodes it,
or a peer that is not langsvr sends JSON; the text is parsed; the receiver decodes it
into an object that is fresh or was used before.

The properties look inside values.  `Inside(t, v)` are the values directly inside
`v`, each with its type, `Parts(t, v)` those at any depth, `v` included.  A value is
`Typed` if each of its parts is `WellTyped`.  `Json` and `Within(b, old)` take the
part of types there: what is typed `Within(b, Nothing)` is JSON that says nothing
which `b` does not say.  `Types` are the named types, `AllTypes` all terms in and
around them.  No value is nested deeper than `MaxNesting` (C++ values and texts are
finite), and `Rank` is the order in which the generator has to emit types, as C++
needs the members, bases and alternatives of a class complete: only a pointer, a
vector or a map may lead back.  `AllNames` are the names under which a structure has
members, those of its bases included.

### Holders, OneOfHolders, OptionalHolders

Objects of one class in a program, over an explicit heap: a cell is free or holds
a value, an object has a pointer (and, for `OneOf`, a kind).  There is one action
per constructor, assignment, `Set()`, `Reset()` and the destructor; each `new`
may throw, which leaves the object as the code does at that point.  A `OneOf` has
no move assignment of its own, so that assigning a temporary copies it.
`Holders` forgets the heap: an object is absent, empty or holds a value.

### Comparators

The operators of `comparators.h` as they are, on records.  `Range` is called
`RangeFrom`, as the community modules have another `Range`.

### Generator

`resolve.go` from `sortTypeAliases()` to the end of `sortStructures()`.  The meta
model is chosen at the start: for aliases, which alias mentions which and their
order in the file; for structures, how each refers to each: as a base, a member
by value, a member by pointer (`Optional`, vector, map, `OneOf`), a member of a
nested structure, a mixin.  `SortAlias` is one turn of the loop over the stack,
`VisitNext`, `VisitReference` and `Visited` are the entries and the end of the
recursive `visit()`.  `seen` is the map of that name of the function that runs.

## Runs

| Run | What it checks | Bounds |
|---|---|---|
| `session` | `TypeOK`, `HandlersMatchPromises`, `FreshIds`, `OneCallPerId`, `CalloutsAlive`, `SettledOnce` | one session, two request types (one with a void failure, one without parameters), a notification, two ids, two nested callouts |
| `direct` | `FutureIffAnswered`, `PostSendAfterAnswer`, `ImplementsRemoteCall` | two sessions, a request and a notification type, two ids each, two nested callouts each (so four on the thread) |
| `stream_safety` | `OneStage`, `ResponsesAwaited`, `ImplementsRemoteCall` | two sessions, one id each (both are id 1, and cross), all faults, two messages on a wire |
| `stream_fair` | `FuturesAnswered` | two ids, no faults, four messages on a wire |
| `stream_unregistered` | violates `RequestsResponded` | one id |
| `content_stream` | `ContentTypeOK`, `ContentsIntact`, `FailsAtEnd`, `AllRead` | three messages: one that looks like a message, one of two-digit length; five kinds of other output |
| `block_allocator` | `AllocatorTypeOK`, `NoOverlap`, `BlocksOwned`, `ListsItsObjects`, `IteratesInOrder`, `IteratesAll`, `ImplementsOwnedObjects` | two allocators, two blocks of eight bytes, two object types, chunks of two, four objects |
| `block_allocator_back` | violates `BackwardsOneElement` | the same with `operator--` |
| `codec` | `CodecTypeOK`, `RoundTrip`, `AbortsOnEmptyOneOf`, `NothingInvented`, `StaleOnlyWhereSilent`, `Relayable` | every named type and every result and error type of a request; values and JSON that differ from a plain one in one place, at most `Depth` = 2 structures or containers deep |
| `codec_lossy` | violates `NothingLost` | the same |
| `holders` | `SoleOwner`, `KindMatches`, `OptionalSoleOwner`, `HoldsValues`, `CopiesEqual`, `OptionalHoldsValues` | three `OneOf`s over two types, three `Optional`s, three cells for each class |
| `generator` | `AliasesInOrder`, `StructuresInOrder`, `EachOnce`, `Terminates` | every graph of three aliases in every order; every well-formed graph of three structures with four kinds of reference (987 335 states) |

`session`, `content_stream`, `block_allocator` and `codec` check a type
invariant.  All are proved as well, and so are those of the holders and of the
generator, which no run needs to repeat.

Why the bounds suffice: sessions do not read each other's members, so one
session in an arbitrary environment shows all that can go wrong inside one.  Two
ids let one request be pending, answered or failed while another is made.  Two
nested callouts let a callout call the session back; a third level meets no state
that the second does not (the proofs, which have no bound, confirm it for the
properties proved).  On the wire, two messages let a response and a request
follow each other in one direction, with traffic in the other.  Three messages
in a content stream put one before, one in and one after a fault.  With chunks
of two and four objects there is a full chunk, a second one and an iterator that
crosses; two blocks of eight bytes run out, so that every `new` can fail.

In `codec`, the generated functions treat each member apart from the others, so
that one difference at a time meets each branch of each; two members interact
only where an alternative of a `OneOf` is chosen, and there each alternative's
plain and full values are tried.  Depth 2 reaches the members of a structure that
is a member, an element or a base.  `MaxI64` and `MaxU64` are 2^29 - 1 and
2^30 - 1, as TLC's integers have 32 bits; reals are counted in halves, one of
which is not integral.  Three objects give a source, a target and a bystander,
and three cells run out.  The objects of one class exist at a time, since the
classes share nothing.  Three aliases or structures make every cycle of up
to three, and a name that is reached both directly and through another; a fourth
adds longer chains of the same.

`session`, `direct`, `stream_*`, `codec` and `holders` check for deadlock; the
others may stop: a stream ends, objects are used up, the generator is done.
Symmetry is used only where no liveness is checked.

### Fairness

`StreamFairness` is what the intended program gives: a `WriteContent()` that can
proceed returns (weak fairness); a handler or callback that may send any number
of messages first returns at last, and the read loop takes a message again and
again between the program's own sends (strong fairness, as its steps are disabled
whenever a send is under way).  Ids are bounded, so sends are too.  A handler
that waits for a future would break this assumption, and in a program that has
only this one thread would indeed block for ever.  `FairContentSpec` assumes that
bytes that were written arrive and that the reading program goes on reading.
The generator is a sequential program: weak fairness of its next step.

### What the runs disagree with

- `stream_unregistered`: `Receive()` sends no response to a request without a
  registered handler (`session.cc:67`), although `session.h:67-69` says that it
  responds to requests.  The caller's future stays unset.  The same holds if the
  parameters do not decode (`session.cc:71`).
- `block_allocator_back`: `operator--` (`block_allocator.h:132-141`) steps back two
  objects at a chunk's border.
- `codec_lossy`: `Decode()` of a `OneOf` keeps the first alternative that decodes
  (`decode.h:155`) and structures ignore what they do not know, so an alternative
  after one that needs less is never chosen and what it adds is lost.  This is so
  for 17 of the protocol's: `AnnotatedTextEdit` (taken for `TextEdit`),
  `WorkspaceSymbol[]` (for `SymbolInformation[]`), and the registration options
  (for the options) of the providers for implementation, type definition, colors,
  folding ranges, declaration, selection ranges, call hierarchy, semantic tokens,
  linked editing, monikers, type hierarchy, inline values, inlay hints, diagnostics
  and notebook synchronisation.  Also, `CreateFile` is encoded with the empty
  `kind` of its base `ResourceOperation` in the place of its own (`lsp.cc:6750`) and
  refused by the receiver; `RenameFile` and `DeleteFile` likewise.  `RoundTrip`
  shows that nothing else is lost.

Further configurations state what the code does not do where a comment or an
assertion expects it.  They are not among the runs; `tlc -config X.cfg M` shows
the behaviour:

| Configuration, module | Property | What happens |
|---|---|---|
| `ContentStreamEmpty`, `MCContentStream` | `ReadCountPositive` | `Content-Length: 0` leads to `Read(..., 0)` (`content_stream.cc:94`), which `reader.h:48` excludes |
| `BlockAllocatorFull`, `MCBlockAllocator` | `DestructedWhenFreed` | without memory for a chunk, an object that was constructed is freed without being destructed (`block_allocator.h:231`), although lines 68-69 say that all are |
| `CodecKind`, `MCCodec` | `KindIdentifies` | a `CreateFile` does not say `kKind` (`lsp.h:2128`) on the wire |
| `CodecEmpty`, `MCCodec` | `ResultsAreValid` | encoding an empty `OneOf` (`one_of.h:155`) reads an invalid `Result`, on which `result.h:201` asserts |
| `CodecWatchKind`, `MCCodec` | `WatchKindDefault` | `FileSystemWatcher::kind` defaults to 7 (`lsp.h:4985`), a set of bits; `WatchKind` decodes 1, 2 and 4 only (`lsp.cc:1503`) |
| `OneOfIs`, `OneOfHolders` | `IsMeansHolds` | after a move (`one_of.h:65`) or a `Set()` whose `new` throws (`:119`), `Is<T>()` is true and `Get<T>()` null; `:123` says that `Is<T>()` is true of an object that holds a `T` |
| `OneOfAlias`, `OneOfHolders` | `SetSetsTheValue` | `Set(*o.Get<T>())` deletes the value before it copies it (`one_of.h:118`); `:114` says that `Set()` sets the value given |
| `OptionalSelf`, `OptionalHolders` | `OptAssignKeepsSource` | an `Optional` assigned to itself is empty (`optional.h:71`) |
| `GeneratorMixins`, `Generator` | `MixinsCopied` | mixins are parsed (`structure.go:38`) but neither sorted nor emitted (`resolve.go:181`) |

`RemoteCall.cfg` checks the abstract request by itself and passes.

Smaller observations: `sortTypeAliases()` reverses the order of the meta model
rather than sorts it, and is right for models that go from users to what they use
(`AliasesInOrder` states that condition); `visit()` does not look into nested
structures (`resolve.go:442`), so `StructuresInOrder` is about the references it
follows; and it takes references through pointers for as strict as the others.

## Proofs

All are for arbitrary constants that satisfy the assumptions named in the modules:
any number of sessions, types, ids, nested calls, allocators, blocks, objects,
heap cells, messages, aliases and structures.  What is assumed:

- `MessageTypesAssumption`, `BoundsAssumption`, `FaultsAssumption`: sets and numbers
  are what they are used as; `PeerAssumption`: each session has another as its peer,
  whose peer it is.
- `ContentAssumption`: bytes are numbers below 256, no header or other output is
  empty, contents fit a string, and a string's largest size is below 2^64
  (`MaxSize < LenModulus`).
- `AllocatorAssumption`: each type's size and alignment are at least one and fit a
  block's (the `static_assert`s of `Allocate()`, `block_allocator.h:262-264`), its
  alignment divides the block's (they are powers of two), and `kMax` exceeds one (it
  is 32).
- `NamesAssumption` of `Generator`: a meta model has finitely many names.
- `NullAssumption`, `NoKindAssumption`, `FreeAssumption`, `ContentAssumption` of
  `OneOfHolders`, and `OptionalAssumption` of `OptionalHolders`: null is no cell, "free"
  no value, and the like.
- Of `Codec`: `TypesAssumption`, types are made of types as `lsp.h` makes them (a
  structure's properties have different names, its bases are structures, an
  enumeration has an enumerator and its values are different numbers or strings);
  `NamesAssumption`, no two members of a structure have the same name, inherited or
  not, but for its "kind", which its first base may also require, as a string;
  `RankAssumption`, C++ has an order in which to complete them; `NestingAssumption`,
  `ValuesAssumption` and `PeerAssumption`, values that programs build and JSON that
  peers send are well typed and not nested deeper than some number;
  `StringsAssumption`, two literals are strings.  TLC evaluates all of these for the
  types of `lsp.h`.  The theorems on `Decode`, `Encode` and the initial values also
  have `Overloads` as their hypothesis: each is, for each type, the overload for the
  form of that type.

None assumes fairness: the theorems are about `Spec`, `DirectSpec`, `StreamSpec`,
`ContentSpec`, `AllocatorSpec` and the generator's `Spec`, which the fair
specifications imply.

### Sessions

`Session_proofs`: `TypeOK` is inductive.  `HandlersMatchPromises` needs only that
the next id has neither promise nor handler, which is `FreshIds`; `FreshIds` needs
that the promise and the return value of an id are written only by the call that
has the id on its frame.  That is the strengthening `IdInv`: the frames of
`SendRequest()` bear distinct ids below `next_request_id_`, those whose return
value is still "none".  `OneCallPerId` is part of it.  `CalloutsAlive` is
inductive with `TypeOK`, as no handler is ever unregistered and the guards keep a
running function in place.  `SettledOnce` follows from `HandlersMatchPromises` (a
promise is only written where a handler waits) and `IdInv` (a return value only
where a frame waits), step by step.

The same module proves of `RemoteCall` that an answer is the handler's outcome
(`AnswerCorrect`) and that a request is handled once (`HandledOnceCorrect`).  With
the two refinements below, this is what the users of a pair of sessions may rely on.

`DirectSessions_proofs` and `StreamSessions_proofs` show that the composed
systems implement `Session` (`DirectIsSession`, `StreamIsSession`): each of their
steps contains a step of `Session` or leaves its variables alone.  Every
invariant of `Session` holds of them therefore; `DirectHandlersMatch` and
`StreamHandlersMatch` state the most important one.

`StreamSessions_proofs` goes on to show that the pair is a remote call.  `OneStage`
and `ResponsesAwaited` are not inductive: that a request reaches its handler once
depends on what the peer made of it (`handled`), and that depends on where the
request is.  `RequestInv` says all of it, for each request at once.  What stands
for the request is an element of one of four sequences (the frame of its call, the
message, the frame of the peer's `Receive()`, the message back), at most one in
each (`Once`); `Rules` relates the four sets, the promise, the response handler and
the fate: if there is one in a place there is none in the others and the promise is
unset; a request that is not yet handled has no fate; one that is being answered
has the outcome its frame or message bears.  `Rules` holds of fewer elements when
it holds of more, so losing messages is free, and every step that is not about the
request goes through one lemma (`LessPlaced`); the six that are about it
(`RequestSent`, `RequestWritten`, `RequestTaken`, `HandlerReturned`,
`ResponseWritten`, `ResponseTaken`) move the element on.  The same lemmas say which
step of `RemoteCall` each of them is, which with `FreshIds` (a new request was never
asked) gives `StreamImplementsRemoteCall`.

`DirectSessions_proofs` shows the same of sessions that call each other on one
thread.  Here a request is never on its way: all that matters is what is suspended
where.  The module's `thread` only names sessions, and each session has its own
stack of frames; that they fit is the first part of `DirectInv`.  There is one
sequence `W` of entries, each the nr-th frame of a session, such that `thread` is
its sessions and each `calls[s]` its entries of `s`, in order (`Represents`); what is
above what is as the code nests it (`Nested`: each stage of a request is right above
the `SendRequest()` it answers, and sends are above foreign code); and each entry,
and the innermost one in particular, fits the promise and the fate of its request
(`Stages`: `Stage`, `Ending`).  By `OneCallPerId` no other entry belongs to the same
request, so that a step only has to be followed for the two innermost entries.
`Unasked` adds that a request that was never sent has no fate.  From it follow
`DirectFutures` and `DirectPostSend`, which say that on return from `SendRequest()`
the future is ready, and that `post_send` runs between the answer and that return;
`DirectResponsesAwaited`, that no response is ever unknown to its receiver; and
`DirectImplementsRemoteCall`, as each step was shown to be one of `RemoteCall`'s or
none for the promises and fates (`CallStep`).

### Content stream

`ContentStream_proofs` proves `ContentsIntact` and `FailsAtEnd`
(`ContentsArriveIntact`, `FailsOnlyAtEnd`) for any contents, framed or cut in any
way.  Neither is inductive: a reader in the middle of a message must be where the
message says.  `ContentInv` has witnesses for what no variable holds: `T`, all bytes
that were ever given to the stream, `p`, how many of them the reader has consumed,
and `off`, where in `T` each message ends.  The stream and what is pending are what
`T` has after `p` (`Carries`); the messages are laid out in `T` at those places
(`Laid`); and the reader is within the frame of the next message (`Within`): at its
start, behind some of its digits with `len` the number they amount to, before the
blank line, or before the content with `len` its length.  Other output, when it
comes, ends the part of `T` that this is about.

A length is printed and read digit by digit.  `Decimal` is a recursive function, and
the prover does not know that such a function exists, nor what it is.  Both are
shown by taking a least counterexample, which the library's theorems on well-founded
orders give for sets of numbers (`LeastNumber`): functions that satisfy the equation
exist up to every number and agree, hence one does for all; and the loop of
`ReadContent()` reads every number back (`DecimalReads`), with no intermediate value
that exceeds it, so that `len` does not wrap.

### BlockAllocator

`BlockAllocator_proofs` proves all seven properties of the run.  `IInv` consists of
what every variable may hold (`DataOK`, `ChunksOK`, `ObjectsOK`, `IteratorOK`) and of:
`BlocksInv`, each block has one owner and an allocator without blocks has no room;
`MemoryInv`, objects and chunks do not overlap, and those in an allocator's last block
end at or below its offset, so that what `Allocate()` returns next is free;
`BuildingInv`, the constructors that run are those of the objects under construction;
`LinksInv`, an allocator's chunks are in its own blocks and linked from `root` to
`current`; `ListInv`, the links climb some ranking; and `IteratorInv`, what an iterator
has passed and what it still has before it (`ToCome`) together are what its allocator
lists.

`Listed` follows the links by a recursive function.  As the links climb, there is
exactly one function that satisfies its equation (by least counterexample again), so
that after a step it suffices to exhibit one: the old function with an element
appended to the lists of the chunks that lead to the current one, and so on.
`AllocatorImplementsOwnedObjects` gives, for each action, the action of `OwnedObjects`
that it is.

### Holders

`Holders_proofs` treats `OneOf` and `Optional` in the same way.  The inductive
invariant (`IInv`, `OptIInv`) says that every live object that has a pointer owns a
cell with a value (of its kind), no two the same, every cell that is not free has
an owner, and objects that are not live have no pointer.  It gives `SoleOwner`,
`OptionalSoleOwner`, `KindMatches` and, action by action, the refinements to `Holders`
(`HoldsValues`, `OptionalHoldsValues`) and the equality of copies.  The refinements are
about what pointers lead to; the kind of a `OneOf` without a value is not part of
it (`OneOfIs.cfg`), and they allow an assignment of an object to itself to empty it.

### Codec

`Codec_proofs` proves, for any set of types that C++ could compile, all that the run
`codec` checks: `CodecTypeOK`, `AbortsOnEmptyOneOf`, `NothingInvented`,
`StaleOnlyWhereSilent`, `RoundTrip` and `Relayable` (`CodecTypes`, `EncodeAborts`,
`DecodeInventsNothing`, `DecodeKeepsTheRest`, `MessagesReturn`, `MessagesRelay`).
The hypothesis `Overloads` says which operator stands for
which overload; a model satisfies it by definition.  The invariant is `Life`
(the lemma `MessagesLive`, which only collects what the stages of a message do):
the JSON on its way is what `Encode()` made of a value that a
program built, read once, or what a peer sent, and the result is that of `Decode()`.
What remains is about `Decode()` and `Encode()` on any type and value.

A type is not made of smaller ones: a `SelectionRange` has an optional
`SelectionRange`.  Values and JSON are finite, and the inductions are on them.
`Sound(t, v)` says that whatever is inside `v`, at any depth, is of its type, and
`GoodJson(n, j)` that `j` is JSON no more than `n` containers deep.  `Decode()` either
goes into a part of the JSON, or stays with the same JSON at a type that its type
needs to be complete (a base, an alternative, what a name refers to), whose `Rank`
is smaller.  So what is shown of all types and JSON is shown for a least pair of
depth and rank (`LeastPair`): that decoding leaves a sound value in a sound value
(`DecodeSound`), and the four statements below.  `Encode()` is followed by the depth of
the value: it aborts where it meets an empty `OneOf`, and is sound JSON otherwise
(`EncodeSound`).  `DecodeParts` has invariants of its own for its loop (`LoopSound`,
`LoopGives`), which the vector, the tuple, the map and both halves of a structure
share.

- `DecodeOver`: what is decoded into an object is encoded as JSON that repeats what
  was received and, where that is silent, what the object said before (`Was`), if it
  was not fresh.  A base is decoded from all the members but has its own only, so its
  old encoding is compared with the structure's on the names of that base (`Said`);
  the names of two bases never meet, which is what `NamesAssumption` is for.
- `Return`: what was encoded, read again and decoded into a fresh object gives an
  equal value, if its kinds agree.  A base meets the whole object and not its own
  encoding; the statement is therefore about any object that has the members of the
  one encoded (`Alike`).  It has two parts: decoding succeeds whenever the kinds
  agree, even if a `OneOf` takes another alternative; and the value is equal if none
  does.  `Relayable` needs the first part alone, `RoundTrip` both.
- `Agree`: what was decoded into a fresh object has kinds that agree, since the
  structure and its first base have read the same member.  So it can be sent on.
- `EncodedNames`: a structure is encoded under its members' names only.

`StaleOnlyWhereSilent` is about old objects that can be encoded.  One with an empty
`OneOf` inside cannot, so there is nothing to compare its remains with; of those,
`CodecTypeOK` says that what is left is well typed.

### Orders

`Orders_proofs` proves `TotalOrder`, `RangesSplit` and `RangesTouch` for all positions.
These are not checked by a run: the operators have no state.

It also proves the three safety properties of `Generator` for every meta model.
`GeneratorInv` has one part for each sort.  `AliasInv` keeps, for the loop over the
stack, how far down the model it has come (`Unwound`): the bottom of the stack is the
model's first n aliases, all after those are taken, and whatever is on top was reached
from the one right after.  So when an alias is taken, what it uses was taken already
or stands, in the model, before that root (`Reversed`).  `StructureInv` keeps, for the
recursion, that each suspended `visit()` leads to those within it (`Nested`); a
structure is appended when all it refers to are sorted or suspended, and the
suspended ones lead to it (`Sorted`).  `Leads` is the least transitive relation, stated as
membership in all closed sets, which needs no recursion.  `EachOnce` is a fact about
finite sets: a sequence that has every element of a set, and none twice, is as long
as the set is large.

### Only model-checked

- Liveness: `FuturesAnswered`, `AllRead` and `Terminates`; the prover knows neither
  `ENABLED` nor fairness.
- What the violation runs and the further configurations show.

## Not modelled

- Two threads that use one session: a data race, there are no locks.
- A handler that waits for a future: see Fairness.
- The destruction of a session while it is in use.
- The references into its maps that `Receive()` keeps over callouts
  (`session.cc:69`): entries of an `unordered_map` stay where they are while others
  are inserted, and none of the two maps' entries is ever erased.  `CalloutsAlive`
  is about what an entry holds.
- More ids than `MaxId`: the counter is 64 bits wide.
- JSON text, jsoncpp, the messages of failures, and the buffers behind `Reader`
  and `Writer` (`BufferWriter` evaluates `&buffer[size]` when it writes no bytes).
- `Span`, `Result` and `traits.h`, which have no behaviour of their own; the
  printer and `ReplaceAll`, which format text.
- The templates and the file handling of the generator, and how it translates a
  type of the meta model.

## Plan

Done: all modules named above, their runs, and the proofs of every refinement and of
every safety property that a run checks.  What is left:

- The generator's translation of types and its collisions of names.
