# A verification project for stdx

stdx is an alternative standard library for Rust: allocators that are passed
explicitly, containers that report allocation failure instead of panicking, and
the macros around them. This directory holds TLA+ specifications of it, their
TLC configurations and their TLAPS proofs. Line numbers refer to the sources in
this repository; paths are written with the repository root as `src/`.

## 1. Inventory

The program is sequential. No component starts a thread, shares state between
threads or waits: `FixedBufferAllocator` is `Send` but not `Sync`, the arrays
need `&mut self`. Nothing is persisted. What is hard is of another kind: raw
memory whose owner is only known by convention, arithmetic in three units
(addresses, bytes, elements), requests any of which may fail, and long
sequences of legal calls.

| component | source | state | operations |
| --- | --- | --- | --- |
| FixedBufferAllocator | `src/src/alloc/fixed_buffer.rs` | `begin`, `end` | `from_raw_parts`, `from_slice`, `allocate`, `grow`, `shrink`, `deallocate` |
| VirtualMemoryAllocator | `src/src/alloc/vmem.rs` | a mapping and a FixedBufferAllocator over it | `new` (mmap), `allocate`, `deallocate`, the default `grow` and `shrink`, `Drop` (munmap) |
| Mallocator | `src/src/alloc/malloc.rs` | none (libc's heap) | `allocate` (posix_memalign), `deallocate` (free) |
| Array, RawArray | `src/core/src/array/mod.rs` | `data`, `length`, `capacity`, and the allocator (Array) | `with_capacity`, `reserve`, `push`, `push_within_capacity`, `pop`, `clear`, `append`, `insert`, `remove`, `swap_remove`, `truncate` and the unchecked forms |
| Soa derive | `src/soa/src/lib.rs` | none; the struct it generates has `len`, `cap`, `ptr`, `alloc` | parse, dispatch, generate accessors, `push`, `reserve` |
| declaration parser | `src/core/src/rust/mod.rs` | position in a token stream | `parse_type_decls` and the parsers of fields, variants, signatures, arguments |
| token streams | `src/core/src/rust/token_stream/` | a stream of tokens, from the compiler or at run time | conversion and iteration |
| String | `src/src/alloc/string.rs` | a byte array | `truncate`, `is_char_boundary`, views |
| Pool, Url | `src/src/alloc/pool.rs`, `src/src/url.rs` | | none yet |

How they interact:

- a container calls an allocator (`allocate`, `grow`) and keeps the pointer; the
  allocator never calls back. The caller must describe a block by the layout it
  was last given (`Allocator`'s contract, which the arrays state themselves at
  `src/core/src/array/mod.rs:65`);
- VirtualMemoryAllocator delegates to a FixedBufferAllocator over its mapping,
  and gets `grow` and `shrink` from the trait's defaults;
- the derive macro runs the declaration parser on a token stream, and the code
  it generates calls an allocator;
- String holds an array of bytes.

What makes each component correct, and what is hard about it:

- **FixedBufferAllocator.** Blocks the client holds are disjoint, aligned, in the
  slice, and keep their data; only the last block is reclaimed or resized. The
  allocator has no list of blocks: it recomputes which one is last from
  `begin`, a size and an alignment, so correctness depends on every earlier
  call. `usize` arithmetic near the limits.
- **Array.** The array is a sequence of the elements it was given; each element
  is alive in exactly one place; accesses stay in the block; a failed call
  changes nothing that shows. Byte and element units are mixed; drops may
  panic.
- **VirtualMemoryAllocator, Mallocator.** They keep the same contract; the
  mapping outlives the blocks; failures of the system calls, told by a result
  code or an address; requests of size zero.
- **Arrays that share an allocator.** What an array tells the allocator of its
  block is what the allocator gave it, whoever called in between; nobody sees
  another's bytes, or bytes that were never written.
- **Soa, parser, tokens.** Code is generated from what the source declares only;
  the parser accepts the declarations it documents, consumes each token once
  and terminates.
- **String.** Truncation never splits a character (of which there can be none
  yet, section 6).

## 2. Plan

1. `FixedBuffer` with `AllocatorContract`, runs and first proofs - done.
2. `Array` with `ArrayContract` and runs - done.
3. `SystemAllocators`: VirtualMemoryAllocator (a FixedBufferAllocator inside a
   mapping, default `grow` and `shrink`) and Mallocator side by side, together
   implementing `AllocatorContract` - done.
4. `RawArray`: arrays and other clients over one `FixedBuffer`, where `grow`
   really depends on which block is last - done.
5. `DeclarationParser` as a token-driven state machine, and `SoaDerive`, the
   macro that runs it - done.
6. Proofs for every invariant and action property of the allocators and the
   arrays that a run checks, and for the three refinements - done.
7. `DeclarationGrammar`, the files the parser is meant for, and from it proofs
   for every invariant of the parser and the macro - done.

What no theorem states is liveness (`Returns`), which stays with TLC.

Modules that are proved about declare their constants with named assumptions
and use no RECURSIVE operator.

## 3. Modules

| module | what it is |
| --- | --- |
| `AllocatorContract` | what `core::alloc::Allocator` promises: blocks of their own, aligned, inside a region, leading bytes kept by a resize |
| `FixedBuffer` | FixedBufferAllocator |
| `FixedBufferProofs` | theorems about it: types, the inductive invariant, blocks apart |
| `FixedBufferContractProofs` | more of them: alignment, bounds, data, calls on a block that is not the last, the contract |
| `MCFixedBuffer` | layouts and call sets for its runs |
| `SystemAllocators` | VirtualMemoryAllocator over FixedBuffer, and Mallocator, in one address space |
| `SystemAllocatorsProofs` | theorems about where their blocks lie, the data in them, and the contract of both together |
| `MCSystemAllocators` | handles, layouts and heap for its run |
| `ArrayContract` | an array as a sequence of elements, and what each call returns |
| `Array` | Array over its shared functions |
| `ArrayProofs` | the length of an Array within its capacity, failing calls harmless |
| `ArrayRefinement` | the mapping from Array to ArrayContract |
| `ArrayContractProofs` | who owns an element, and that Array implements ArrayContract |
| `MCArray` | methods and argument ranges for its runs |
| `RawArray` | RawArrays and other clients over one FixedBufferAllocator |
| `RawArrayProofs` | what an array knows of its block; blocks apart, elements stored, calls that leave others alone |
| `MCRawArray` | argument ranges for its run |
| `DeclarationParser` | the declaration parser over a stream of tokens |
| `DeclarationGrammar` | the files the parser is meant for: what the tokens of an item declare, and which items stop the parser |
| `GrammarProofs` | lemmas about streams of tokens, and about fields and variants in them |
| `SoaDerive` | the derive macro: the parser, then what is made of its result |
| `SoaDeriveProofs` | the parser and the macro are right about every file of the grammar |
| `MCSoaDerive` | items of Rust, as tokens and as the declarations they are |

### FixedBuffer

`begin` is the field of that name; `BufEnd` is `end` and `Base` the start of the
slice. `live` holds the blocks the client has, and `mem` says for each address
whose data lies there; both are needed to say what the allocator promises.
Addresses wrap at `WordSize`, as in a release build.

| code | model |
| --- | --- |
| `allocate` 70-95 | `Allocate`: `Start` is `begin_aligned`, `NewBegin` is `new_begin`, `Fits` the check against `end` |
| `grow` 97-141 | `Grow`: `Moved` (allocate, copy, deallocate) on another alignment, else `ResizedInPlace` when `IsLast` and `GrowthFits` |
| `shrink` 143-184 | `Shrink`: the same without `GrowthFits` |
| `deallocate` 186-201 | `Deallocate`: `Released` compares `PrevBegin` with the pointer |
| a client storing into its block | `Write` (external) |

An `AllocError` is a step that changes nothing. `Copied` copies
`old_layout.size()` bytes whatever the size of the new block, as lines 105-109
and 151-155 do. The constants `Calls` and `StackClient` restrict the client, not
the allocator: each run says what discipline makes its property true.

### SystemAllocators

It extends `FixedBuffer`, whose `[Base, BufEnd)` is the range mmap returns and
whose `begin` is the field of the `fba` inside the VirtualMemoryAllocator, and
adds `mapped`: whether there is such an allocator. Blocks and data of the
clients of both allocators are in the same `live` and `mem`; `HeapHandles` are
those of Mallocator.

| code | model |
| --- | --- |
| `VirtualMemoryAllocator::new` vmem.rs 19-31, `virtual_memory_alloc` 91-107 | `Create`, over the answers `Mappings` |
| `drop` vmem.rs 36-38, `virtual_memory_free` 110-112 | `Drop`, with `Unmapped` memory |
| `allocate`, `deallocate` vmem.rs 43-53 | `MappedAllocate`, `MappedDeallocate`: the FixedBufferAllocator's |
| core's default `grow` and `shrink` (allocate, copy the smaller size, deallocate) | `MappedResize`, `HeapResize` with `Replace` |
| `Mallocator::allocate`, `deallocate` malloc.rs 35-60 | `HeapAllocate`, `HeapDeallocate`, with `MallocAlign` |
| posix_memalign (external) | `Places`, any of them, or a failure at any time |
| a holder that leaks, as Array does for want of a `Drop` | `Forget` |

`Borrowed` says that clients hold a reference to the VirtualMemoryAllocator, so
that the borrow checker keeps it while a block is held. `Array` has such a
reference. `RawArray::with_capacity` does not ask for one (section 7).

### Array

`arr[a]` has the fields `length` and `capacity` of the source, the byte size of
the block (`block`), and what lies in it (`slot`, in units of the element size).
`inside` is the set of elements that were moved into arrays and neither came
back nor were dropped. `last` is the result of the last call. `fault` records
broken rules, each of which a property forbids: an access beyond the block
(`outside`), a copy that reads beyond it (`overrun`), a `grow` with a layout that
is not the block's (`layout`), an element dropped or returned that is not alive
(`dropped`), an arithmetic panic (`overflow`). What is read outside the block is
None, which stands for whatever is there; a write there leaves the block alone.
Runs go on after a fault.

The shared functions at lines 15-315 are the operators `Reserved`, `Pushed`,
`Popped`, `Appended`, `Inserted`, `Removed`, `SwappedOut` and `DroppedOf`, and
each method of `Array` (lines 351-636) is an action that calls them. Any
allocation may fail, and one that does not may grant more than was asked for,
by a number of bytes in `Excess`: the code takes the length of the block it gets
for the capacity (`Granted`, `Resized`, `Made`). `OverflowChecks` chooses between a debug build, where a
`usize` operation that overflows panics, and a release build, where it wraps.
`Fragile` are the elements whose `Drop` panics: `truncate` then stops at the
first, `clear` drops the rest all the same. A client is restricted by the set
`Calls` of methods it uses and by nothing else; the guards are those of the
code. `last` names the call with its index or size, so that the refinement
relates the removal of an element to the one at that index.

### RawArray

The methods of RawArray (lines 661-957) call the same shared functions. Array
asks what becomes of the elements in a block of their own, over an allocator
that may do anything; RawArray asks what becomes of the memory around it, over
the allocator there is. `begin` and `live` are FixedBuffer's, used through
`FBA`; `field[a]` holds `length` and `capacity`, and `data` is `live[a].ptr`.
`byte` is memory itself. Only the bytes somebody sees are followed, the elements
of an array and the data of another client; any other byte is None, so an
element that is None was never written. Reads and writes behind a block (`push`,
`remove`) happen as in the code.

| code | model |
| --- | --- |
| `reserve` 15-73 | `CanReserve` and `Reserved`, with `FirstBlock` and `LongerBlock` |
| `push` 80-104 and `RawArray::push` | `Pushed`, `Push` |
| `pop` 127-131 and `RawArray::pop` | `Popped`, `Pop` |
| `insert_unchecked` 212-242, `append` 150-182, the removes 248-297, `truncate` 300-315 and the methods around them | the actions of the same names |
| other clients of the allocator | `OtherCall`, `Fill` |

Elements are one byte wide and need no drop, and the build has overflow checks.
The allocator passed is always the same one, which is what the methods' Safety
sections ask for.

### DeclarationParser and SoaDerive

The parser is a nest of loops over iterators. `pc` is the innermost loop,
`streams` the tokens each active loop has left; entering a group pushes its
stream, and the end of it pops. A step is one turn of one loop, with the tokens
that turn takes. A returned error is `pc = "failed"`.

| code | model |
| --- | --- |
| `parse_type_decls` 59-148 | `SkipToken`, `BeginType`, `TypeAlias`, `Body`, `Finish` |
| `parse_struct_fields` 150-192, `parse_fn_args` 361-403 (the same text) | `FieldName`, `SkipInFields`, `FieldType`, `FieldsEnd` |
| `parse_enum_variants` 194-241 | `VariantFields`, `UnitVariant`, `SkipInVariants`, `VariantsEnd` |
| `parse_function_sig` 243-359 | `BeginSignature`, `Arguments`, `Arrow`, `ReturnType`, `SkipInSignature`, `SignatureEnd` |
| `soa_derive` 7-38 | `Expand` |

Names are members of a small set. The text of a type is the tokens it reads back
as: `push_str` puts nothing between two tokens (`PushText`), so that words in a
row become one (`Joined`), and a group is the three tokens `< group >` (`Text`).
`source` pairs each item's tokens with the
declarations it stands for, written down independently in `MCSoaDerive`; the
parser sees the tokens only, and `Sound` compares.

`DeclarationGrammar` relates the two for any tokens, without the parser's loops:
it says where the parts of an item stand. A field, for instance, is a piece of
its stream with a name, a colon and a type that holds no comma (`IsField`), no
group and no two words in a row (`IsType`), whose text is therefore its tokens; a
stream is one of fields when it can be cut into such pieces (`IsFields`), and
their names and the tokens of their types are what it declares (`FieldsOf`).
`ItemFrom` does this for a whole item, and says of which form an item is that
stops the parser. `IsFile` then holds of a file each of whose items declares
what it is said to mean, or is outside `Supported` and of such a form. Where
the parser would run into the next item (a struct without a body, section 7),
the grammar has the item at the end of a file only. TLC evaluates that the
files of SoaDeclarations are files of this grammar (`FilesAssumption`), so that
the grammar is neither empty nor that of another language.

## 4. Runs

A passing run finds no error; a violating run checks one statement that a
comment or a document of the repository makes and shows a behaviour of the code
that contradicts it.

| run | shows |
| --- | --- |
| FixedBufferStack | any sizes and alignments, a client that works on its topmost block: the inductive invariant, data, alignment, and the contract |
| FixedBufferSized | any order of calls, realigning included, with blocks no smaller than any alignment: only the last block is reclaimed or resized |
| SystemAllocators | a mapping made, used, dropped and made again beside libc's heap: blocks in memory that exists, aligned, with their data, one contract for both, and no sum of `allocate` overflows for a slice in the lower half of the address space (the largest reaches 31 of 32) |
| RawArrays | two arrays and another client at one allocator, every method in any order: an array knows its block, blocks stay apart, nobody's bytes change under them, every element shown was stored |
| FixedBufferNotLast | violated: a released block that is not the last lowers `begin` below held bytes |
| FixedBufferGrowPastEnd | violated: `grow` hands out memory beyond the slice |
| ArraySequence | one-byte elements, all methods but `push`, `append`, `insert`, `truncate`: an array is a sequence, every element alive once and dropped or returned at most once; none is taken from or stored outside the block, layouts right |
| ArrayAnyClient | every method, any order, two arrays of two-byte elements, debug arithmetic: length within capacity, room for as much as was asked, a failing call shows no change |
| ArrayPush | violated: an element pushed with success is in no array |
| ArrayElementUnits | violated: capacity in bytes used as a number of elements, a write behind the block |
| SoaDeclarations | files of up to three items: what the parser records is what the source declares, in order, or it refuses; what it supports it accepts whatever the neighbours are; it always ends; derive(Soa) generates code only for one struct, with exactly its fields |
| SoaPathArgument | violated: the comma in `M<T, m::U>` ends the field's type, and code is generated for an invented field |

**Bounds.** FixedBuffer: slices of 8 or 12 bytes, three handles (two are enough
for the violations), sizes 0 to 6 and alignments 1 to 4. Two blocks above a
third are what it takes for `PrevBegin` to pick the wrong one; a slice of 12
bytes fills up with the layouts given and every alignment gap occurs. `Base` is
not a multiple of 4, so that the first block of that alignment is padded.
`WordSize` is 64 or 32; in SystemAllocators the slice ends exactly at half of
it and one layout is as large as `isize::MAX` allows. There three handles share
the mapping and one is libc's, which has eight bytes: a block that fills them,
or one of two places. Alignments of 1, 2 and 4 lie below, at and above that of a
pointer. RawArrays: a slice of four bytes, two arrays, another client with blocks
of up to two bytes; layouts end at four bytes, which stands for `isize::MAX`,
so both the allocator and the array refuse. The first `push` takes half the
slice, and indices 0 to 2 are before, at and behind the end of an array.

Array: `Usize` of 8 or 16 makes every layout beyond 3 or 7 bytes fail as one
beyond `isize::MAX` does, so capacity is bounded by the code's own check;
blocks then hold up to three elements, enough for an element to be before,
at and behind the index of an operation. In ArraySequence the allocator grants
what was asked for or one byte more. There are as many elements as slots,
but for ArrayAnyClient, where an element that `append` copied fills the third.
Its sizes go up to four elements, which is one more than fits, and include one
whose byte length overflows; indices reach the end of a full array. There TLC
tells states apart by `Fields`: no method reads `fault` or `last`, nor do the
run's properties read what these were before a step. The first reservation of
`push` is 2 instead of 16 (`FirstPush`) to fit. Handles, elements and arrays are
symmetric.

Parser: all pairs of 11 supported and 8 refused items, and all triples of
supported ones; a third item is behind two boundaries, and no loop of the parser
looks further. Every branch of every loop is taken. Three more items are only
put last, where the search for a brace group has nothing to swallow (section 7).
The theorems of section 5 are about files of any length.

**Deadlock and fairness.** Deadlock is checked for the allocator and the arrays,
which always accept another call, and not for the macro, which ends. For the
allocator and the arrays no specification states fairness and no liveness is
claimed: every method is a bounded computation that returns, and the client is
under no obligation to call it. `MacroSpec` states weak fairness of its step:
it is a loop the compiler runs and waits for. `Returns` then says that no loop
turns without taking a token.

## 5. Proofs

`FixedBufferProofs` proves for every slice, word size, set of layouts and set of
handles:

- `TypeCorrect`: `Spec => []TypeOK`, with no assumption beyond those of the
  module (what core guarantees of slices and layouts);
- `Inductive`: `Compatible /\ Roomy /\ Spec => []IInv`, and its corollaries
  `Disjoint` (no two blocks share a byte) and `BelowBegin` (`begin` stays above
  what is held).

`Compatible` is the client discipline under which the test for the last block is
sound: the client works on its topmost block without realigning, or no layout
is smaller than another's alignment, but for empty ones, which then have to be
unaligned. `FixedBufferNotLast` shows that without it the property fails.
`Roomy` says the slice lies two layouts below the end of the address space.

Disjointness alone is not inductive: whether a release is harmless depends on
where `begin` is. `IInv` adds that held blocks of nonzero size end at or below
`begin`, that blocks start in the slice and have one of the layouts, and
`Ceiling`, that `begin` is past the slice by less than one layout (grow can
put it there), which with `Roomy` keeps the sums from wrapping. The heart is
arithmetic: a block that passes the test ends less than its alignment below
`begin` (`LastEndsNear`), so a held block above it would have to be smaller than
that alignment (`LastIsAbove`). `LastIsTopmost` applies this to a release,
`MovedBegin` to a realigning resize, which tests the old block once the new one
is there. Each operation has a lemma; `Replaced` is the frame they share.

`FixedBufferContractProofs` goes on from there:

- `Aligned` (`LiveAligned`), with no assumption at all: a new block is rounded
  to its alignment even where sums wrap, and a block resized in place keeps
  both its address and its alignment;
- `Bounded`, `InBuffer` (`LiveInBuffer`) and `Exact` (`NoOverflow`), for clients
  that do not call `grow`, in any order and with any layouts. The invariant
  `SliceInv` has `begin` and every block within the slice. That `shrink` keeps
  it (`ShrunkWithin`) is the arithmetic of the test for the last block: had
  `begin - size` wrapped, the address it is rounded to would lie above the
  slice. `Low` says that one layout fits above the slice; `LowerHalf` proves it
  for every layout core admits when the slice ends in the lower half of the
  address space. `InBuffer` shows that `grow` alone is to blame for
  FixedBufferGrowPastEnd;
- `Intactness` (`DataIntact`), under the assumptions of `Inductive`. `DataInv` adds
  that no more of a block is filled than it has; what a copy or a store
  overwrites is then above everything held, or the holder's own;
- `NoOp` (`NoOpUnlessLast`), under the same assumptions: a block that others lie
  above fails the test, and one that is realigned moves above everything held,
  after which `begin` cannot return to where it was (`MovedAbove`);
- `Implements` (`KeepsContract`), under the same assumptions: each operation is
  the one of the same meaning in `AllocatorContract`. That the block is
  grantable is read off the invariants of the state the step leads to
  (`NewIsGrantable`).

`SystemAllocatorsProofs` proves `InTheirMemory` (`BlocksInTheirMemory`) and
`SystemExact` (`NoOverflow`) from `Low` and `Borrowed`: the invariant `SystemInv`
is `SliceInv` for the blocks of the mapping, while it exists, and says that
blocks of Mallocator are in libc's heap, which needs of posix_memalign what
`Places` states.

It also proves `SystemIntact` (`DataIntact`), `SystemAligned`
(`LiveAligned`) and `SystemImplements` (`KeepsSystemContract`) for `Clients`:
they borrow the allocator, its mapping is `Low`, and the layouts are
`Compatible` for any order of calls. `HeldInv` adds to `SystemInv` that no two
blocks of either allocator share a byte, that the mapping's end at or below
`begin`, and that each holds its data. Blocks of different allocators are apart
because the heap and the mapping are, so only two blocks of the mapping need
the arithmetic of FixedBuffer (`ReleasedAbove`), and libc's need `Places`. The
copy of the default `grow` and `shrink` is one lemma for both (`ReplacedData`).
The alignment libc is asked for is a multiple of the layout's because one of
the layout's and a pointer's divides the other, both being powers of two
(`MallocAligned`; the assumption is in `HeapAssumption`).

`RawArrayProofs` proves `Known` (`BlockKnown`) for any number of arrays, clients
and sizes, with no assumption on the slice: what an array hands to `grow` as the
layout of its block is that layout, and its length is within the block.

`ArrayProofs` proves `WithinCapacity` (`LengthWithinCapacity`), `RoomGiven`
(`RoomAsAsked`) and `FailureHarmless` (`FailureKeepsContents`) for elements of any size, any client
and any allocator, given `OverflowChecks`. The invariant `ArrInv` adds that the
capacity is the block's size in bytes and a usize, so that `length - 1` is
exact, and that nothing is stored behind the block. A reservation records bytes
for elements, of which there are no fewer (`BytesCover`). A push can fail after
its reservation went well, the block then being larger: `ResizeFitting` shows
that this uncovers nothing.

`RawArrayProofs` also proves `TypesKept` (`TypeOK`), `KeptApart`
(`BlocksApart`), `ShowsStored` (`Initialised`) and `LeftAlone` (`Isolation`), for any
number of arrays, other clients and values, from `[]Headroom`: no sum of the
allocator wraps, which is so as long as `begin` is in the lower half of the
address space when layouts go up to `isize::MAX`. `NeverWraps` replaces this by
a condition on the slice alone, `Spacious`: it ends two of the largest layouts
below the top, as in the run. `grow` can take `begin` past the slice by one layout
(FixedBufferGrowPastEnd), hence two (`RoomInv`). The invariant `ShareInv` adds to what an
array knows of its block how blocks lie below `begin`, and that each visible
byte was stored. `Isolation` then rests on one thing: `push` stores behind its
block only after `reserve` grew it, which succeeds for the last block only, so
what lies behind it is behind everybody's.

`ArrayContractProofs` proves `Typed` (`TypeOK`), `Visibly` (`VisibleAlive`),
`Lossless` (`NothingLost`), `Faultless` (`LayoutKept`, `NoDoubleDrop`), `Contained`
(`InBounds`) and `Implements` (`KeepsContract`) for any number of arrays and
elements, in both builds, elements whose drop panics included, and any
allocator. Their clients are `Disciplined`: they call none of `push`, `append`,
`insert` and `truncate`, whose errors ArrayPush and section 7 show, `reserve` only
for one-byte elements (`LayoutKept`, section 7), and in a release build remove
nothing at `usize::MAX` (`LengthWithinCapacity`, section 7). Sizes and indices are
free otherwise, and arrays are emptied from full like any others: the copy that
then reads too far (`CopiesInBounds`, section 7) moves nothing into what is
visible. For one-byte elements nothing else is assumed, and `Contained` says
that the checks of the methods themselves keep every element in the block. For
wider ones (ArrayElementUnits) that is false; the other theorems then hold of a
client that is `Thrifty`, that is, whose `push_within_capacity` keeps to the
room it asked for when it made the array. `VisibleAlive` and `NothingLost` say
that the visible slots and the elements inside are in bijection; `Owned`, the
inductive invariant, adds that what is visible lies in the block (`Sound`) and
that no fault was recorded but a panic and a copy that read too far
(`Harmless`). A method rearranges the slots of one array and takes at most one
element out or in, or drops them all (`Rearranges`); each has a lemma that says
how, which serves both the invariant and the refinement. `Abstract` is what
ArrayContract sees: the sequence of the elements.

`SoaDeriveProofs` proves `ParserSound` (`Sound`), `ParserAccepts` (`Accepts`) and
`MacroCode` (`CodeOfSource`) for `Sources` that are files of the grammar
(`IsFile`): any number of items, fields and variants, over any tokens. That is
the only hypothesis, besides that a group holds a stream of tokens
(`TokenAssumption`).

- The grammar gives each item by positions. What it says of the tokens behind a
  place in an item, `ItemFrom`, `BodyFrom`, `SignatureFrom` and so on, is what a
  loop still has to read.
- The invariant `IInv` says, for each loop `pc` may be in, that the stream of
  each active loop is what is left of one item from some token on, followed by
  the items behind it (`Place`), that the rest of the item reads as the grammar
  has it, and that this rest completes what was recorded to what the file
  declares (`Expect`); or else that the file has an item outside `Supported`.
  For the parsers of fields and variants it names the cuts so far. `Sound` alone
  is not inductive: that what is recorded is a prefix says nothing of the
  declaration that is being read, nor of where the parser is.

Each action has a lemma (`StepFieldName`, ...). `MacroInv` adds that the
expansion is made of a parser that ended, from what it recorded then. `IInv`
quantifies over places, declarations and cuts without a bound, so TLC cannot
evaluate it; it checks what follows from it.

`GrammarProofs` has what this needs of sequences and of the grammar. Only
`FlattenSeq`, a recursive function, takes induction: that a concatenation exists,
is a sequence, and can be taken apart from the front (`FlattenCons`).
`SetInduction` is induction over the naturals for a set instead of a predicate,
which follows from the library's theorem that inclusion of finite sets is well
founded. All else that looks like recursion was avoided: fields are cuts of a
stream, not a head and a tail, so that one more field is one more cut
(`TypeFinish`, `VariantsFinish`), and names (`NameUnique`) and ends are found by
where they stand.

Only model-checked: `Returns`, a liveness property under weak fairness, which is
out of the prover's reach. What the proofs leave open about the parser is files
outside the grammar, where the properties can fail (`SoaPathArgument` and
section 7).

## 6. Not modelled

- A RawArray that is given another allocator than before: its unsafe methods
  forbid it. One that is given the allocator itself rather than a reference to
  it (section 7).
- RawArray over wider elements or elements with a `Drop`, and in a release
  build: the shared functions are modelled for these in Array.
- munmap is taken to succeed; its result is not looked at.
- Zero-sized element types: every offset is 0, `with_capacity` and `reserve`
  leave the capacity 0, and `push_within_capacity` always refuses.
- Array has no `Drop`; an array that goes out of scope leaks, which needs no
  model.
- Deref's mutable view: a client may overwrite visible elements in place, which
  changes no field of the array.
- The code derive(Soa) generates: it does not compile for any struct
  (`Self<A>` in `src/soa/src/lib.rs:144`, `self` used without a receiver at
  line 241, `grow` with two arguments at 185), so it has no behaviour. What can
  be checked is which input it is generated from.
- The dispatch of the token streams between the compiler's tokens and the
  run-time ones: one-line delegation. No run-time stream can be built from text
  (there is no `FromStr`), so the parser's own tests do not compile.
- String: no method adds a byte and the array it holds is private
  (`src/src/alloc/string.rs`), so every String a program can have is empty, and
  `truncate` has nothing to cut off. A model with contents would start from
  states the program cannot be in.
- Pool and Url have no operations.

## 7. Where the code and its documentation differ

Five runs show a disagreement by a counterexample; PROJECT.json lists them as
findings. Ten more are one change away from a run: with the constants replaced
as given and the property alone, TLC finds it violated. The operators named are
defined in the MC modules, the properties in the modules they are about.

| what the code does | run to vary | change | violated |
| --- | --- | --- | --- |
| `begin_aligned + size` wraps past the top of the address space and passes the check (`src/src/alloc/fixed_buffer.rs:83`); the comment at line 81 bounds an address by `isize::MAX` | FixedBufferSized | `WordSize = 32`, `Base = 24`, `BufEnd = 30`, `Calls <- NoCalls` | `LiveInBuffer` |
| a realigning `shrink` copies `old_layout.size()` bytes into the smaller block (`src/src/alloc/fixed_buffer.rs:154`), past the end of the slice | FixedBufferSized | `Calls <- ShrinkOnly` | `DataInSlice` |
| the default `grow` of VirtualMemoryAllocator (`src/src/alloc/vmem.rs:41`) releases the old block after the new one was granted; smaller than its alignment, it passes for the last, and `begin` drops below the new block | SystemAllocators | `Layouts <- UnevenLayouts` | `DataIntact` |
| the second `reserve` for elements wider than a byte passes `grow` a layout the block never had (`src/core/src/array/mod.rs:40`); line 65 says it is the layout of the block | ArrayElementUnits | `Calls <- Sizing` | `LayoutKept` |
| in a release build `with_capacity` multiplies without a check and succeeds without the room (`src/core/src/array/mod.rs:113`) | ArrayElementUnits | `Calls <- Sizing`, `Counts <- AnySize` | `RoomAsAsked` |
| `remove_unchecked` copies one element too many (`src/core/src/array/mod.rs:262`) and reads behind a full block; line 253 calls it safe | ArraySequence | none | `CopiesInBounds` |
| in a release build `remove` on an empty array computes `length - 1` before it checks the index (`src/core/src/array/mod.rs:572`), and the largest index passes for a pop; line 570 promises `None` | ArraySequence | `Indices <- AnyIndex` | `LengthWithinCapacity` |
| `truncate(n)` drops element n - 1, which it keeps (`src/core/src/array/mod.rs:305`) | ArraySequence | `Calls <- Truncating`, `Fragile <- NoElements` | `VisibleAlive` |
| a unit or tuple struct takes the next brace group of the file, of whatever item, for its fields (`src/core/src/rust/mod.rs:77`) | SoaDeclarations | `Sources <- BracelessFirst` | `Sound` |
| the tokens of a type are joined with nothing between them, so `&mut T` becomes `&mutT`, and a group becomes `<group>` (`src/core/src/rust/mod.rs:167`, 410) | SoaPathArgument | `Sources <- WideFields` | `CodeOfSource` |

Writing the model brought up others. Each is in the definitions above exactly as
the code has it:

- Releasing the topmost block is a no-op when padding of at least its alignment
  lies above it (`src/src/alloc/fixed_buffer.rs:194`): its memory is lost.
- `grow` compares with the difference of the sizes each time, so the last block
  can be grown again and again, ever further past the slice
  (`src/src/alloc/fixed_buffer.rs:132`, `GrowthFits`).
- `RawArray::with_capacity` is safe and takes the allocator by value
  (`src/core/src/array/mod.rs:697`). `with_capacity(n, vm)` with a
  VirtualMemoryAllocator drops it on return, and the array that comes back, which
  safe code can read and fill, lies in unmapped memory. In the model this is a
  client without `Borrowed`.
- `push` assigns to the place behind the block (`src/core/src/array/mod.rs:102`),
  which drops what is there as if it were an element.
- posix_memalign may answer null for a size of zero, which
  `src/src/alloc/malloc.rs:50` passes to `new_unchecked` (`Places`).
- `push` reserves on every call (`src/core/src/array/mod.rs:90`), although line 415
  says that pushes into reserved room do not allocate.
- `insert` does not raise `length` (`src/core/src/array/mod.rs:240`): the last
  element is lost (`Inserted`).
- `append` changes neither length (`src/core/src/array/mod.rs:181`); line 483 says
  that it leaves `other` empty (`Appended`).
- In a debug build `remove` and `swap_remove` on an empty array, and
  `truncate(0)`, panic where they subtract 1 (`src/core/src/array/mod.rs:572`,
  305); line 570 promises `None`.
- A signature without a body or a semicolon takes the next brace group of the
  file, of whatever item (`src/core/src/rust/mod.rs:296`).
- `pub` before anything but a function, `pub(crate)`, `pub` before a field, a
  `self` or `mut` argument, and a `const` item are errors
  (`src/core/src/rust/mod.rs:133`, 156, 367); the header promises type and
  function declarations (`Refused` in `MCSoaDerive`).
- derive(Soa) on a union panics at `decls[0]` (`src/soa/src/lib.rs:27`) where
  line 32 has a message for everything that is no struct with named fields
  (`Panic` in `Expanded`).
