----------------------------- MODULE AddressSpaces -----------------------------
(***************************************************************************)
(* Physical frames, page tables and process address spaces: the frame      *)
(* bitmap (PhysicalFrameAllocator, src/mem/page.hpp), Mmu                   *)
(* (src/mem/mmu/mmu.hpp), the ELF loader (src/proc/ELF/loader.hpp),         *)
(* Process::run and ctxtSwitch (src/proc/process.cpp) and the Mmap system   *)
(* call (src/drivers/interrupts/sysc/handler.cpp).                          *)
(*                                                                         *)
(* A virtual address is its page number v; the directory entry it falls in *)
(* is v \div PagesPerTable, its slot in the table v % PagesPerTable.  The   *)
(* kernel's identity mappings (firstPageTable, the kernel heap, the         *)
(* framebuffer) are made at boot and shared by every directory: they are    *)
(* the one table KernelTable.                                               *)
(*                                                                         *)
(* Two contexts run kernel code.  System calls and Process::run run with    *)
(* interrupts masked: their steps (variable call) admit no other.  The      *)
(* loader is called by sched through a function pointer, with interrupts    *)
(* enabled: the timer may switch to another process between any two of its  *)
(* steps (variable load), also between the test and the set of a bit in     *)
(* allocFrame and between the read and the increment of nextPageTable.      *)
(***************************************************************************)
EXTENDS Integers, Sequences

CONSTANTS
    TotalFrames,    \* frames of physical memory
    KernelFrames,   \* frames below kernelEnd, marked used at boot
    MaxTables,      \* size of the pool Mmu::pageTables
    BootTables,     \* tables of the pool that the boot mappings took
    MaxDirs,        \* size of the pool Mmu::processDirectories
    PagesPerTable,  \* entries of a page table
    NumPdes,        \* entries of a directory
    KernelPdes,     \* directory entries present in the kernel's directory
    DriverImages,   \* images of the initramfs drivers, linked with entry 0
    ProcessImages,  \* images of sched and the processes of init.lst; an
                    \* image is its loadable segments, each the pages it covers
    HeapBase,       \* page of the initial heapBrk, 0x50000000
    HeapLimit,      \* bound on heapBrk in the model
    MmapSizes,      \* sizes, in pages, processes ask Mmap for
    StackBegin,     \* page of STACK_BEGIN
    StackPages      \* STACK_SIZE in pages

Frame == 0 .. TotalFrames - 1
Pde   == 0 .. NumPdes - 1
Slot  == 0 .. PagesPerTable - 1
Table == 0 .. MaxTables - 1     \* indices of Mmu::pageTables
Dir   == 0 .. MaxDirs           \* 0 is Mmu::pageDirectory, d > 0 is
                                \* Mmu::processDirectories[d - 1]
NullFrame   == 0                \* allocFrame's nullptr is the address of frame 0
NoFrame     == -1               \* a page table entry that is not present
NoTable     == -1               \* a directory entry that is not present
KernelTable == MaxTables        \* a directory entry of the kernel's mappings

PdeOf(v)  == v \div PagesPerTable
SlotOf(v) == v % PagesPerTable
StackPde  == PdeOf(StackBegin)

\* The pages of the images, the heaps and the stacks fall in directory entries
\* of their own, none of which the kernel's directory uses.
ASSUME LayoutAssumption ==
    /\ TotalFrames \in Nat /\ KernelFrames \in 1 .. TotalFrames
    /\ MaxTables \in Nat /\ BootTables \in 0 .. MaxTables
    /\ MaxDirs \in Nat \ {0} /\ PagesPerTable \in Nat \ {0} /\ NumPdes \in Nat
    /\ KernelPdes \subseteq Pde
    /\ DriverImages \cup ProcessImages \subseteq Seq(Seq(Nat)) /\ MmapSizes \subseteq Nat
    /\ HeapBase \in Nat /\ HeapLimit \in Nat
    /\ StackPages \in Nat \ {0} /\ StackBegin \in Nat /\ StackBegin >= StackPages
    /\ StackPde \in Pde \ KernelPdes
    /\ \A i \in 0 .. StackPages - 1 : PdeOf(StackBegin - i) = StackPde
    /\ \A img \in DriverImages \cup ProcessImages : img # <<>> /\
          \A s \in 1 .. Len(img) : img[s] # <<>> /\
             \A k \in 1 .. Len(img[s]) :
                 PdeOf(img[s][k]) \in Pde \ (KernelPdes \cup {StackPde})
    /\ \A v \in HeapBase .. HeapLimit :
          PdeOf(v) \in Pde \ (KernelPdes \cup {StackPde})

\* The linker scripts put every section at a page of its own, and images end
\* below the heap or begin above it: no two pages of an image coincide, and none
\* is a page Mmap hands out.
ASSUME ImageAssumption ==
    \A img \in DriverImages \cup ProcessImages : \A s \in 1 .. Len(img) :
        \A k \in 1 .. Len(img[s]) :
        /\ img[s][k] \notin HeapBase .. HeapLimit
        /\ \A r \in 1 .. Len(img) : \A l \in 1 .. Len(img[r]) :
               img[s][k] = img[r][l] => s = r /\ k = l

VARIABLES
    used,               \* frames whose bit is set in PhysicalFrameAllocator::bitmap
    nextPageTable,      \* Mmu::nextPageTable
    pageTables,         \* Mmu::pageTables
    nextDirectory,      \* Mmu::nextDirectory
    directories,        \* Mmu::pageDirectory and Mmu::processDirectories
    latestPid,          \* the pid getNewPid hands out next
    processes,          \* the process list
    activeProcessPid,
    activeDirectory,
    load,               \* the call of ElfExecutable::load in progress
    call,               \* the masked kernel call in progress: run or Mmap
    panicked,           \* kpanic was called
    raced               \* history: an allocation of the loader overlapped
                        \* one of a system call

memory == <<used, nextPageTable, pageTables, directories>>
vars == <<memory, nextDirectory, latestPid, processes, activeProcessPid,
          activeDirectory, load, call, panicked, raced>>

NoLoad == [phase |-> "idle", by |-> 0, pid |-> 0, dir |-> 0, entry |-> FALSE,
           segs |-> <<>>, todo |-> <<>>, frame |-> NoFrame, table |-> NoTable]
NoCall == [kind |-> "none", todo |-> 0, at |-> 0, pages |-> 0]

-----------------------------------------------------------------------------
\* PhysicalFrameAllocator and Mmu.

\* Frame f is the one allocFrame's scan of the bitmap stops at.
FirstFree(f) ==
    /\ f \in Frame \ used
    /\ \A g \in Frame : g < f => g \in used

OutOfFrames == Frame \subseteq used

\* markUsed.
MarkUsed_Forgotten(f) == UNCHANGED used \* Mutant of MarkUsed.
MarkUsed(f) == used' = used \cup {f}

Present(d, v) == directories[d][PdeOf(v)] # NoTable

\* mapPageIn where the directory entry is present.
MapInto(d, v, f) ==
    /\ pageTables' = [pageTables EXCEPT ![directories[d][PdeOf(v)]][SlotOf(v)] = f]
    /\ UNCHANGED <<directories, nextPageTable>>

\* mapPageIn with table t of the pool for a directory entry that is not
\* present: the table is cleared and entered, nextPageTable moves behind it.
MapWithTable(d, v, f, t) ==
    /\ nextPageTable' = t + 1
    /\ pageTables' = [pageTables EXCEPT
                        ![t] = [s \in Slot |-> IF s = SlotOf(v) THEN f ELSE NoFrame]]
    /\ directories' = [directories EXCEPT ![d][PdeOf(v)] = t]

\* mapPageIn as one step, where nothing can come between.
MapPageIn(d, v, f) ==
    \/ Present(d, v) /\ MapInto(d, v, f) /\ UNCHANGED panicked
    \/ /\ ~Present(d, v) /\ nextPageTable < MaxTables
       /\ MapWithTable(d, v, f, nextPageTable) /\ UNCHANGED panicked
    \/ /\ ~Present(d, v) /\ nextPageTable >= MaxTables
       /\ panicked' = TRUE /\ UNCHANGED <<pageTables, directories, nextPageTable>>

\* Mutants of NewDirectory: all of the caller's mappings are inherited; the
\* caller's stack is not.
NewDirectory_Caller  == directories[activeDirectory]
NewDirectory_NoStack == directories[0]

\* The directory createAddressSpace fills: the kernel's mappings, and the
\* stack entry of the directory that is active.
NewDirectory ==
    [directories[0] EXCEPT ![StackPde] = directories[activeDirectory][StackPde]]

-----------------------------------------------------------------------------

ProcAt(pid) == CHOOSE i \in 1 .. Len(processes) : processes[i].pid = pid

\* sched is the first process loaded that has an entry point.
IsSched(i) ==
    /\ processes[i].entry
    /\ \A j \in 1 .. i - 1 : ~processes[j].entry

Booting == activeProcessPid = 0
SchedLoaded == \E i \in 1 .. Len(processes) : processes[i].entry
SchedActive == \E i \in 1 .. Len(processes) :
                   IsSched(i) /\ processes[i].pid = activeProcessPid

\* No kernel call holds the processor with interrupts masked.
Unmasked == call.kind = "none" /\ ~panicked

\* kernelMain up to the first load: Mmu::init, the boot mappings, the frames
\* of the kernel marked used.
Init ==
    /\ used = 0 .. KernelFrames - 1
    /\ nextPageTable = BootTables
    /\ pageTables = [t \in Table |-> [s \in Slot |-> NoFrame]]
    /\ nextDirectory = 0
    /\ directories = [d \in Dir |-> [p \in Pde |->
                        IF d = 0 /\ p \in KernelPdes THEN KernelTable ELSE NoTable]]
    /\ latestPid = 1
    /\ processes = <<>>
    /\ activeProcessPid = 0
    /\ activeDirectory = 0
    /\ load = NoLoad
    /\ call = NoCall
    /\ panicked = FALSE
    /\ raced = FALSE

-----------------------------------------------------------------------------
\* ElfExecutable::load.

\* Boot loads the initramfs drivers, then sched; sched loads the processes of
\* init.lst.
MayLoad(img) ==
    \/ Booting /\ ~SchedLoaded
    \/ SchedActive /\ img \in ProcessImages

\* The Process object, its pid and its address space.
LoadBegin(img) ==
    /\ Unmasked /\ load.phase = "idle" /\ MayLoad(img)
    /\ latestPid' = latestPid + 1
    /\ \/ /\ nextDirectory >= MaxDirs
          /\ panicked' = TRUE
          /\ UNCHANGED <<nextDirectory, directories, load>>
       \/ /\ nextDirectory < MaxDirs
          /\ nextDirectory' = nextDirectory + 1
          /\ directories' = [directories EXCEPT ![nextDirectory + 1] = NewDirectory]
          /\ load' = [NoLoad EXCEPT !.phase = "find", !.by = activeProcessPid,
                        !.pid = latestPid, !.dir = nextDirectory + 1,
                        !.entry = img \in ProcessImages, !.segs = Tail(img), !.todo = Head(img)]
          /\ UNCHANGED panicked
    /\ UNCHANGED <<used, nextPageTable, pageTables, processes, activeProcessPid,
                   activeDirectory, call, raced>>

\* A step of the loader: its caller runs, and no masked call is in progress.
Loading(phase) ==
    Unmasked /\ load.phase = phase /\ activeProcessPid = load.by

\* allocFrame: the scan finds a bit that is clear, or there is none.
LoadFind ==
    /\ Loading("find")
    /\ \/ \E f \in Frame :
             /\ FirstFree(f)
             /\ load' = [load EXCEPT !.phase = "mark", !.frame = f]
             /\ UNCHANGED panicked
       \/ OutOfFrames /\ panicked' = TRUE /\ UNCHANGED load
    /\ UNCHANGED <<memory, nextDirectory, latestPid, processes, activeProcessPid,
                   activeDirectory, call, raced>>

\* allocFrame: the bit is set.
LoadMark ==
    /\ Loading("mark")
    /\ raced' = (raced \/ load.frame \in used)
    /\ MarkUsed(load.frame)
    /\ load' = [load EXCEPT !.phase = "table"]
    /\ UNCHANGED <<nextPageTable, pageTables, directories, nextDirectory, latestPid,
                   processes, activeProcessPid, activeDirectory, call, panicked>>

\* mapPageIn: the directory entry is tested and, if it is not present, a table
\* of the pool picked.
LoadTable ==
    /\ Loading("table")
    /\ \/ /\ Present(load.dir, Head(load.todo))
          /\ load' = [load EXCEPT !.phase = "map", !.table = NoTable]
          /\ UNCHANGED panicked
       \/ /\ ~Present(load.dir, Head(load.todo)) /\ nextPageTable < MaxTables
          /\ load' = [load EXCEPT !.phase = "map", !.table = nextPageTable]
          /\ UNCHANGED panicked
       \/ /\ ~Present(load.dir, Head(load.todo)) /\ nextPageTable >= MaxTables
          /\ panicked' = TRUE
          /\ UNCHANGED load
    /\ UNCHANGED <<memory, nextDirectory, latestPid, processes, activeProcessPid,
                   activeDirectory, call, raced>>

\* mapPageIn: the page is entered.  After the last page of the segment its
\* contents are copied.
LoadMap ==
    /\ Loading("map")
    /\ IF load.table = NoTable
       THEN MapInto(load.dir, Head(load.todo), load.frame) /\ UNCHANGED raced
       ELSE /\ MapWithTable(load.dir, Head(load.todo), load.frame, load.table)
            /\ raced' = (raced \/ nextPageTable # load.table)
    /\ load' = [load EXCEPT
                  !.phase = IF Len(load.todo) = 1 THEN "copy" ELSE "find",
                  !.todo = Tail(load.todo), !.frame = NoFrame, !.table = NoTable]
    /\ UNCHANGED <<used, nextDirectory, latestPid, processes, activeProcessPid,
                   activeDirectory, call, panicked>>

\* The masked part of load: into the new address space, copy, and back.
LoadCopy ==
    /\ Loading("copy")
    /\ load' = IF load.segs = <<>>
               THEN [load EXCEPT !.phase = "end"]
               ELSE [load EXCEPT !.phase = "find", !.todo = Head(load.segs),
                                 !.segs = Tail(load.segs)]
    /\ UNCHANGED <<memory, nextDirectory, latestPid, processes, activeProcessPid,
                   activeDirectory, call, panicked, raced>>

\* The saved state is filled in and the process enters the list.
LoadEnd ==
    /\ Loading("end")
    /\ processes' = Append(processes, [pid |-> load.pid, dir |-> load.dir,
                                       entry |-> load.entry, heapBrk |-> HeapBase])
    /\ load' = NoLoad
    /\ UNCHANGED <<memory, nextDirectory, latestPid, activeProcessPid,
                   activeDirectory, call, panicked, raced>>

-----------------------------------------------------------------------------
\* Process::run, called by kernelMain on sched.

RunBegin ==
    /\ Unmasked /\ Booting /\ load.phase = "idle"
    /\ \E i \in 1 .. Len(processes) :
          /\ IsSched(i)
          /\ directories' = [directories EXCEPT ![processes[i].dir][StackPde] = NoTable]
          /\ call' = [kind |-> "run", todo |-> StackPages, at |-> StackBegin, pages |-> i]
    /\ UNCHANGED <<used, nextPageTable, pageTables, nextDirectory, latestPid, processes,
                   activeProcessPid, activeDirectory, load, panicked, raced>>

\* One stack page.  run does not look at what allocFrame returns: without a
\* free frame it maps the null frame.
RunPage ==
    /\ call.kind = "run" /\ call.todo > 0 /\ ~panicked
    /\ \E f \in Frame :
          /\ \/ FirstFree(f) /\ MarkUsed(f)
             \/ OutOfFrames /\ f = NullFrame /\ UNCHANGED used
          /\ MapPageIn(processes[call.pages].dir, call.at, f)
    /\ call' = [call EXCEPT !.todo = @ - 1, !.at = @ - 1]
    /\ UNCHANGED <<nextDirectory, latestPid, processes, activeProcessPid,
                   activeDirectory, load, raced>>

RunEnd ==
    /\ call.kind = "run" /\ call.todo = 0 /\ ~panicked
    /\ activeProcessPid' = processes[call.pages].pid
    /\ activeDirectory' = processes[call.pages].dir
    /\ call' = NoCall
    /\ UNCHANGED <<memory, nextDirectory, latestPid, processes, load, panicked, raced>>

-----------------------------------------------------------------------------
\* System call Mmap, by the active process.

MmapBegin(pages) ==
    /\ Unmasked /\ ~Booting
    /\ LET p == processes[ProcAt(activeProcessPid)]
       IN  /\ p.heapBrk + pages <= HeapLimit
           /\ call' = [kind |-> "mmap", todo |-> pages, at |-> p.heapBrk, pages |-> pages]
    /\ UNCHANGED <<memory, nextDirectory, latestPid, processes, activeProcessPid,
                   activeDirectory, load, panicked, raced>>

\* Mutants of MmapGivesUp: allocFrame's result is not looked at; the check of
\* how many pages were mapped is missing.
MmapGivesUp_Unchecked ==
    /\ OutOfFrames
    /\ MapPageIn(processes[ProcAt(activeProcessPid)].dir, call.at, NullFrame)
    /\ call' = [call EXCEPT !.todo = @ - 1, !.at = @ + 1]
    /\ UNCHANGED used

MmapGivesUp_Succeeds ==
    OutOfFrames /\ call' = [call EXCEPT !.todo = 0] /\ UNCHANGED <<memory, panicked>>

\* Without a free frame the call returns 0: what is mapped so far stays mapped,
\* heapBrk stays where it was.
MmapGivesUp == OutOfFrames /\ call' = NoCall /\ UNCHANGED <<memory, panicked>>

\* One page.
MmapPage ==
    /\ call.kind = "mmap" /\ call.todo > 0 /\ ~panicked
    /\ \/ \E f \in Frame :
             /\ FirstFree(f)
             /\ MarkUsed(f)
             /\ MapPageIn(processes[ProcAt(activeProcessPid)].dir, call.at, f)
             /\ call' = [call EXCEPT !.todo = @ - 1, !.at = @ + 1]
       \/ MmapGivesUp
    /\ UNCHANGED <<nextDirectory, latestPid, processes, activeProcessPid,
                   activeDirectory, load, raced>>

\* Mutant of HeapBrkAfter: heapBrk stays.
HeapBrkAfter_Same(brk) == brk

\* The heapBrk the call leaves.
HeapBrkAfter(brk) == brk + call.pages

MmapEnd ==
    /\ call.kind = "mmap" /\ call.todo = 0 /\ ~panicked
    /\ processes' = [processes EXCEPT ![ProcAt(activeProcessPid)].heapBrk = HeapBrkAfter(@)]
    /\ call' = NoCall
    /\ UNCHANGED <<memory, nextDirectory, latestPid, activeProcessPid,
                   activeDirectory, load, panicked, raced>>

-----------------------------------------------------------------------------
\* Mmu::activeDirectory is set.
SetDirectory(d) == activeDirectory' = d

\* The timer: sched's handler switches between the first two processes of the
\* list; ctxtSwitch refuses a process without an entry point.

CtxtSwitch(i) ==
    /\ Unmasked /\ ~Booting /\ Len(processes) > 1
    /\ processes[i].pid # activeProcessPid
    /\ activeProcessPid' = processes[i].pid
    /\ \/ processes[i].entry /\ SetDirectory(processes[i].dir) /\ UNCHANGED panicked
       \/ ~processes[i].entry /\ panicked' = TRUE /\ UNCHANGED activeDirectory
    /\ UNCHANGED <<memory, nextDirectory, latestPid, processes, load, call, raced>>

Next ==
    \/ \E img \in DriverImages \cup ProcessImages : LoadBegin(img)
    \/ LoadFind \/ LoadMark \/ LoadTable \/ LoadMap \/ LoadCopy \/ LoadEnd
    \/ RunBegin \/ RunPage \/ RunEnd
    \/ \E pages \in MmapSizes : MmapBegin(pages)
    \/ MmapPage \/ MmapEnd
    \/ \E i \in {1, 2} : CtxtSwitch(i)

Spec == Init /\ [][Next]_vars
-----------------------------------------------------------------------------
\* Properties.

\* Two page table entries never hold the same frame, and a frame that is
\* entered anywhere is marked used: pages of two processes, or of one, never
\* alias.  The only way out are the two unprotected windows of the loader
\* (page.hpp:25, mmu.hpp:92), and frame 0 when allocFrame has nothing left.
FramePrivate ==
    raced \/
    \A t \in Table, s \in Slot :
        LET f == pageTables[t][s]
        IN  f \notin {NoFrame, NullFrame} =>
               /\ f \in used
               /\ \A u \in Table, r \in Slot : pageTables[u][r] = f => <<u, r>> = <<t, s>>

\* A table of the pool hangs in one directory entry only, except the stack
\* table that createAddressSpace hands down: mapping a page for one process
\* never maps it for another.
TablePrivate ==
    raced \/
    \A d, e \in Dir, p, q \in Pde :
        /\ directories[d][p] = directories[e][q]
        /\ directories[d][p] \in Table
        => <<d, p>> = <<e, q>> \/ (p = StackPde /\ q = StackPde)

\* The frames of the kernel are reachable through a pool table from the stack
\* of sched only, and only frame 0, when run found no free frame: neither an
\* image page nor a heap page ever is the kernel's memory.
KernelFramesUntouched ==
    \A d \in Dir, p \in Pde, s \in Slot :
        /\ directories[d][p] \in Table
        /\ pageTables[directories[d][p]][s] \in 0 .. KernelFrames - 1
        => p = StackPde /\ pageTables[directories[d][p]][s] = NullFrame /\ OutOfFrames

\* Every page below the heapBrk of a process, down to HeapBase, is mapped in its
\* directory: what Mmap returned stays backed, also when a later call ran out
\* of frames half-way.
HeapBacked ==
    raced \/
    \A i \in 1 .. Len(processes) : \A v \in HeapBase .. processes[i].heapBrk - 1 :
        LET t == directories[processes[i].dir][PdeOf(v)]
        IN  t \in Table /\ pageTables[t][SlotOf(v)] # NoFrame

\* The comment of createAddressSpace: when load is about to switch into the
\* new directory, the stack its caller runs on is the same in both.
CallerStackValid ==
    load.phase # "idle" =>
        directories[load.dir][StackPde] =
            directories[IF load.by = 0 THEN 0
                        ELSE processes[ProcAt(load.by)].dir][StackPde]

\* A page that is mapped keeps its frame for good: nothing is ever unmapped or
\* remapped under a process.
PageKeepsFrame(t, s) ==
    pageTables[t][s] # NoFrame => pageTables'[t][s] = pageTables[t][s]
PagesKept == [][raced' \/ \A t \in Table, s \in Slot : PageKeepsFrame(t, s)]_vars

\* The comment at mmu.hpp:62 speaks of a process "executing on their own process
\* stack": no two processes in the list have the same stack table.
StackPrivate ==
    \A i, j \in 1 .. Len(processes) :
        /\ i # j
        /\ directories[processes[i].dir][StackPde] # NoTable
        => directories[processes[i].dir][StackPde] # directories[processes[j].dir][StackPde]

=============================================================================
