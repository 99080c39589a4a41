------------------------------ MODULE KernelHeap ------------------------------
(***************************************************************************)
(* The kernel heap, KernelAllocator (src/mem/alloc.hpp): a singly linked   *)
(* list of HeapBlock headers laid out from heapStart, searched first-fit,  *)
(* never split, never merged.                                              *)
(*                                                                         *)
(* The list is the sequence chain, in the order the next pointers give:    *)
(* chain[i+1] is the block chain[i].next points to.  The payload of a      *)
(* block starts HeaderSize bytes after its address; a caller sees only     *)
(* that payload pointer.  The callers (Vector, Str, the ELF loader, the    *)
(* file systems) are abstracted to the set held of payload pointers they   *)
(* own: they free what they own, once, or a null pointer (the destructor   *)
(* of a moved-from Vector does).                                           *)
(*                                                                         *)
(* Each call is one step.  Until Process::run executes STI the kernel runs *)
(* with interrupts masked, so during boot nothing interleaves with a call. *)
(***************************************************************************)
EXTENDS Integers, Sequences

CONSTANTS
    HeapStart,      \* address of the linker symbol heapStart
    HeapEnd,        \* address of the linker symbol heapEnd
    HeaderSize,     \* sizeof(HeapBlock), packed: 9 on the target
    Word,           \* 2^w for w-bit pointers: addresses wrap at Word
    RequestSizes    \* the sizes callers ask for

\* The heap has room for the super block, and no request is so large that the
\* end of a block at heapEnd would wrap around the address space.
ASSUME HeapAssumption ==
    /\ HeapStart \in Nat \ {0}
    /\ HeapEnd \in Nat
    /\ HeaderSize \in Nat \ {0}
    /\ HeapStart + HeaderSize <= HeapEnd
    /\ Word \in Nat
    /\ RequestSizes \subseteq Nat
    /\ \A n \in RequestSizes : HeapEnd + HeaderSize + n < Word
    /\ HeapEnd + HeaderSize < Word

VARIABLES
    chain,      \* the HeapBlocks, in list order
    held        \* <<payload pointer, requested bytes>> owned by callers

vars == <<chain, held>>

NullPtr == 0

HeapBlock == [addr : Nat, size : Nat, inUse : BOOLEAN]

\* What currentBlock + 1 evaluates to.
Payload(b) == b.addr + HeaderSize

\* The first byte after a block: where alloc puts the block it appends.
EndOf(b) == b.addr + HeaderSize + b.size

-----------------------------------------------------------------------------

\* KernelAllocator::init: the empty super block, in use for ever.
Init ==
    /\ chain = << [addr |-> HeapStart, size |-> 0, inUse |-> TRUE] >>
    /\ held = {}

\* Mutants of Fits: a used block is handed out; a block too small is.
Fits_InUse(b, bytes)  == b.size >= bytes
Fits_AnySize(b, bytes) == ~b.inUse

\* The test at the head of the loop: the block is free and large enough.
Fits(b, bytes) == ~b.inUse /\ b.size >= bytes

\* Mutant of HasRoom: the header of the new block is forgotten.
HasRoom_NoHeader(next, bytes) == (next + bytes) % Word <= HeapEnd

\* The bound check before a block is appended, in Word arithmetic.
HasRoom(next, bytes) == (next + HeaderSize + bytes) % Word <= HeapEnd

\* The block the walk stops at: the first that fits.
FirstFit(i, bytes) ==
    /\ Fits(chain[i], bytes)
    /\ \A j \in 1 .. i - 1 : ~Fits(chain[j], bytes)

Last == chain[Len(chain)]

\* Mutant of AllocReuse: the block shrinks to the request and the rest is lost.
AllocReuse_Shrinks(bytes) ==
    \E i \in 1 .. Len(chain) :
        /\ FirstFit(i, bytes)
        /\ chain' = [chain EXCEPT ![i].inUse = TRUE, ![i].size = bytes]
        /\ held' = held \cup {<<Payload(chain[i]), bytes>>}

\* alloc hands out a block that was freed before, with its old size.
AllocReuse(bytes) ==
    \E i \in 1 .. Len(chain) :
        /\ FirstFit(i, bytes)
        /\ chain' = [chain EXCEPT ![i].inUse = TRUE]
        /\ held' = held \cup {<<Payload(chain[i]), bytes>>}

\* alloc reached the end of the list and appends a block behind the last one.
AllocAppend(bytes) ==
    /\ \A i \in 1 .. Len(chain) : ~Fits(chain[i], bytes)
    /\ HasRoom(EndOf(Last), bytes)
    /\ chain' = Append(chain, [addr |-> EndOf(Last), size |-> bytes, inUse |-> TRUE])
    /\ held' = held \cup {<<EndOf(Last) + HeaderSize, bytes>>}

\* alloc returns nullptr: nothing fits and the heap has no room behind the list.
AllocFail(bytes) ==
    /\ \A i \in 1 .. Len(chain) : ~Fits(chain[i], bytes)
    /\ ~HasRoom(EndOf(Last), bytes)
    /\ UNCHANGED vars

Alloc(bytes) == AllocReuse(bytes) \/ AllocAppend(bytes) \/ AllocFail(bytes)

\* Mutant of Free: the block behind is freed with it, as if merged.
Free_Neighbour(ptr) ==
    LET hdr == (ptr - HeaderSize) % Word
    IN  /\ chain' = [i \in DOMAIN chain |->
                        IF chain[i].addr = hdr \/ (i > 1 /\ chain[i - 1].addr = hdr)
                        THEN [chain[i] EXCEPT !.inUse = FALSE]
                        ELSE chain[i]]
        /\ held' = {h \in held : h[1] # ptr}

\* free clears inUse in the header before the pointer, whatever is there.  For
\* a null pointer that header lies at the top of the address space, outside the
\* heap.  Once paging is on that write faults and the kernel halts; the model
\* lets it go on, which only adds behaviours.
Free(ptr) ==
    LET hdr == (ptr - HeaderSize) % Word
    IN  /\ chain' = [i \in DOMAIN chain |->
                        IF chain[i].addr = hdr
                        THEN [chain[i] EXCEPT !.inUse = FALSE]
                        ELSE chain[i]]
        /\ held' = {h \in held : h[1] # ptr}

Next ==
    \/ \E bytes \in RequestSizes : Alloc(bytes)
    \/ \E h \in held : Free(h[1])
    \/ Free(NullPtr)

Spec == Init /\ [][Next]_vars

-----------------------------------------------------------------------------
\* Properties.

\* Types: the list holds HeapBlocks, the callers hold pointers they asked for.
TypeOK ==
    /\ chain \in Seq(HeapBlock)
    /\ held \subseteq Nat \X RequestSizes

\* The list starts at the super block at heapStart, every block lies behind
\* all the earlier ones, header and payload, and all of them inside the heap:
\* a write to one block's payload never reaches another block's header.
BlocksOrdered ==
    /\ Len(chain) >= 1
    /\ chain[1].addr = HeapStart
    /\ \A i, j \in 1 .. Len(chain) : i < j => EndOf(chain[i]) <= chain[j].addr
    /\ \A i \in 1 .. Len(chain) : EndOf(chain[i]) <= HeapEnd

\* alloc and free keep inUse in step with the callers: what a caller holds is
\* the payload of an in-use block that is large enough, and no in-use block
\* but the super block is without a holder (nothing leaks inside the heap).
UseMatchesHolders ==
    /\ \A h \in held : \E i \in 2 .. Len(chain) :
           /\ h[1] = Payload(chain[i])
           /\ chain[i].inUse
           /\ h[2] <= chain[i].size
    /\ \A i \in 2 .. Len(chain) :
           chain[i].inUse => \E h \in held : h[1] = Payload(chain[i])
    /\ chain[1].inUse

\* Two allocations that are alive at the same time never share a byte, and
\* never the same pointer, also when they are empty.
HeldDisjoint ==
    \A g, h \in held :
        g # h => \/ g[1] + g[2] <= h[1] /\ g[1] # h[1]
                 \/ h[1] + h[2] <= g[1] /\ g[1] # h[1]

\* A step that keeps every block of the list where it is and as large as it is.
BlocksStay ==
    /\ Len(chain) <= Len(chain')
    /\ \A i \in 1 .. Len(chain) :
          /\ chain'[i].addr = chain[i].addr
          /\ chain'[i].size = chain[i].size

\* A block never moves, never changes its size and never leaves the list: the
\* pointers other blocks and callers keep to it stay good.
BlocksPersist == [][BlocksStay]_vars

\* A pointer has one holder.
OneHolder == \A g, h \in held : g[1] = h[1] => g = h

\* The inductive invariant behind the properties above.
HeapInv == TypeOK /\ BlocksOrdered /\ UseMatchesHolders /\ OneHolder

\* The refinement mapping: the regions handed out are what the callers hold.
Abstract == INSTANCE AbstractHeap
            WITH HeapStart <- HeapStart, HeapEnd <- HeapEnd,
                 RequestSizes <- RequestSizes, held <- held

\* KernelAllocator implements an allocator: every call of alloc and free is a
\* step the abstract heap allows on the regions the callers hold, or none.
ImplementsAbstractHeap == Abstract!Spec
=============================================================================
