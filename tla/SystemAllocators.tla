--------------------------- MODULE SystemAllocators ---------------------------
(***************************************************************************)
(* The two allocators that take their memory from the operating system,    *)
(* side by side in one address space.                                      *)
(*                                                                         *)
(* VirtualMemoryAllocator (src/alloc/vmem.rs) maps the range [Base, BufEnd)*)
(* and lets a FixedBufferAllocator hand it out; it forwards allocate and   *)
(* deallocate only, so that grow and shrink are core's defaults.           *)
(* Mallocator (src/alloc/malloc.rs) asks libc.  Its blocks lie anywhere in *)
(* Heap.  Both are used by clients that hold blocks in `live' and data in  *)
(* `mem', as in FixedBuffer.                                               *)
(***************************************************************************)
EXTENDS FixedBuffer

CONSTANTS
  HeapHandles,   \* the handles whose blocks come from Mallocator
  Heap,          \* the addresses libc hands out
  PtrAlign,      \* mem::align_of::<*mut u8>()
  Borrowed       \* do clients borrow the VirtualMemoryAllocator, as Array does?

MappedHandles == Handles \ HeapHandles

ASSUME HeapAssumption ==
  /\ HeapHandles \subseteq Handles
  /\ Heap \subseteq Address \ ({0} \union Buffer)
  /\ PtrAlign \in Nat \ {0}
  \* both are powers of two
  /\ \A l \in Layouts : l.align % PtrAlign = 0 \/ PtrAlign % l.align = 0
  /\ Borrowed \in BOOLEAN

VARIABLE mapped   \* is there a VirtualMemoryAllocator, with its mapping?

systemVars == <<begin, live, mem, mapped>>

SystemInit == Init /\ mapped = FALSE

-----------------------------------------------------------------------------
(* VirtualMemoryAllocator.                                                 *)

\* Mutant: the address is not compared with MAP_FAILED, the largest one.
MappingsUnchecked == {Base, WordSize - 1}

\* virtual_memory_alloc: where mmap puts the mapping, None for an AllocError.
\* It fails as it likes, and always for a size of zero.
Mappings == IF Buffer = {} THEN {None} ELSE {Base, None}

\* new
Create ==
  /\ ~mapped
  /\ \E addr \in Mappings :
       \/ /\ addr # None
          /\ mapped' = TRUE
          /\ begin' = addr
          /\ UNCHANGED <<live, mem>>
       \/ addr = None /\ UNCHANGED systemVars

\* virtual_memory_free: the memory is gone with whatever was in it.
Unmapped == [a \in Address |-> IF a \in Buffer THEN None ELSE mem[a]]

\* drop
Drop ==
  /\ mapped
  /\ Borrowed => \A h \in MappedHandles : ~IsLive(h)
  /\ mapped' = FALSE
  /\ mem' = Unmapped
  /\ UNCHANGED <<begin, live>>

MappedAllocate(h, l) ==
  /\ mapped /\ h \in MappedHandles
  /\ Allocate(h, l)
  /\ UNCHANGED mapped

MappedDeallocate(h) ==
  /\ mapped /\ h \in MappedHandles /\ IsLive(h)
  /\ begin' = Released(begin, live[h])
  /\ live' = [live EXCEPT ![h] = None]
  /\ mem' = Kept(h, live[h].ptr, 0)
  /\ UNCHANGED mapped

\* Mutant: what grow and shrink would be had they forgotten the copy.
ReplaceWithoutCopy(h, l, p) ==
  /\ live' = [live EXCEPT ![h] =
                NewBlock(p, l, Lesser(live[h].filled, l.size))]
  /\ mem' = Kept(h, p, l.size)

\* core's default grow and shrink once they have a new block at p: copy the
\* smaller of the two sizes, and give the old block back.
Replace(h, l, p) ==
  /\ live' = [live EXCEPT ![h] =
                NewBlock(p, l, Lesser(live[h].filled, l.size))]
  /\ mem' = Copied(h, live[h].ptr, p, Lesser(live[h].size, l.size))

MappedResize(h, l) ==
  /\ mapped /\ h \in MappedHandles /\ IsLive(h)
  /\ \/ /\ Fits(l)
        /\ Replace(h, l, Start(l))
        /\ begin' = Released(NewBegin(l), live[h])
        /\ UNCHANGED mapped
     \/ ~Fits(l) /\ UNCHANGED systemVars

-----------------------------------------------------------------------------
(* Mallocator.                                                             *)

\* Mutant: malloc's own alignment will do.
MallocAlignFixed(l) == PtrAlign

\* layout.align().next_multiple_of(PtrAlign)
MallocAlign(l) == ((l.align + PtrAlign - 1) \div PtrAlign) * PtrAlign

\* What posix_memalign may answer: aligned memory nobody holds; for a size of
\* zero null as well.
Places(l) ==
  {p \in Heap \union {0} :
     /\ p % MallocAlign(l) = 0
     /\ p .. p + l.size - 1 \subseteq Heap
     /\ p = 0 => l.size = 0
     /\ \A g \in Handles :
          IsLive(g) => (p .. p + l.size - 1) \intersect Bytes(live[g]) = {}}

\* Mutant: the result code of posix_memalign is not looked at, and memptr is
\* still null after a failure.
HeapAllocateUnchecked(h, l) ==
  /\ h \in HeapHandles /\ ~IsLive(h)
  /\ \E p \in Places(l) \union {0} :
       live' = [live EXCEPT ![h] = NewBlock(p, l, 0)]
  /\ UNCHANGED <<begin, mem, mapped>>

HeapAllocate(h, l) ==
  /\ h \in HeapHandles /\ ~IsLive(h)
  /\ \/ /\ \E p \in Places(l) : live' = [live EXCEPT ![h] = NewBlock(p, l, 0)]
        /\ UNCHANGED <<begin, mem, mapped>>
     \/ UNCHANGED systemVars

HeapDeallocate(h) ==
  /\ h \in HeapHandles /\ IsLive(h)
  /\ live' = [live EXCEPT ![h] = None]
  /\ mem' = Kept(h, live[h].ptr, 0)
  /\ UNCHANGED <<begin, mapped>>

HeapResize(h, l) ==
  /\ h \in HeapHandles /\ IsLive(h)
  /\ \/ /\ \E p \in Places(l) : Replace(h, l, p)
        /\ UNCHANGED <<begin, mapped>>
     \/ UNCHANGED systemVars

-----------------------------------------------------------------------------
(* The clients.                                                            *)

Fill(h) == Write(h) /\ UNCHANGED mapped

\* The holder goes away without giving the block back: Array has no Drop.
\* (In Heap that only leaves fewer places, and any request may fail there.)
Forget(h) ==
  /\ h \in MappedHandles /\ IsLive(h)
  /\ live' = [live EXCEPT ![h] = None]
  /\ mem' = Kept(h, live[h].ptr, 0)
  /\ UNCHANGED <<begin, mapped>>

SystemNext ==
  \/ Create
  \/ Drop
  \/ \E h \in Handles :
       \/ MappedDeallocate(h) \/ HeapDeallocate(h)
       \/ Fill(h) \/ Forget(h)
       \/ \E l \in Layouts :
            \/ MappedAllocate(h, l) \/ MappedResize(h, l)
            \/ HeapAllocate(h, l) \/ HeapResize(h, l)

SystemSpec == SystemInit /\ [][SystemNext]_systemVars

-----------------------------------------------------------------------------
(* Properties.                                                             *)

\* Every block a client holds lies in the memory of the allocator it came
\* from, a block of the VirtualMemoryAllocator inside a mapping that exists.
BlocksInTheirMemory ==
  \A h \in Handles :
    IsLive(h) =>
      \/ h \in HeapHandles /\ Bytes(live[h]) \subseteq Heap
      \/ h \in MappedHandles /\ mapped /\ Bytes(live[h]) \subseteq Buffer

\* Together the allocators keep the one contract of core::alloc::Allocator,
\* each over its own memory: no block of either overlaps another of either.
System ==
  INSTANCE AllocatorContract WITH Region <- Buffer \union Heap
KeepsSystemContract == System!Spec
=============================================================================
