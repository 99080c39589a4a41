-------------------------- MODULE AddressSpacesProofs --------------------------
(***************************************************************************)
(* Proofs about AddressSpaces: frames, page tables and heaps stay private   *)
(* to one process, for any amount of memory, any pools, any images and any  *)
(* interleaving of the loader with the system calls and the timer.          *)
(***************************************************************************)
EXTENDS AddressSpaces, SequenceTheorems, TLAPS

\* A page of process memory: in no directory entry of the kernel.
UserPage(v) == v \in Nat /\ PdeOf(v) \in Pde \ KernelPdes
ImagePage(v) == UserPage(v) /\ PdeOf(v) # StackPde

\* Directory d maps page v.
Mapped(d, v) ==
    /\ directories[d][PdeOf(v)] \in Table
    /\ pageTables[directories[d][PdeOf(v)]][SlotOf(v)] # NoFrame

\* The pages of a segment and of the segments after it, and that none of them
\* comes twice.
PagesOf(todo, segs) ==
    {todo[k] : k \in 1 .. Len(todo)} \cup
    UNION {{segs[s][k] : k \in 1 .. Len(segs[s])} : s \in 1 .. Len(segs)}
PagesOnce(todo, segs) ==
    /\ \A k, l \in 1 .. Len(todo) : todo[k] = todo[l] => k = l
    /\ \A s \in 1 .. Len(segs) : \A k \in 1 .. Len(segs[s]) :
          /\ \A l \in 1 .. Len(todo) : todo[l] # segs[s][k]
          /\ \A r \in 1 .. Len(segs) : \A l \in 1 .. Len(segs[r]) :
                segs[s][k] = segs[r][l] => s = r /\ k = l

\* The pages the loader has still to map.
LoadPages == PagesOf(load.todo, load.segs)

Indices == 1 .. Len(processes)

-----------------------------------------------------------------------------
\* The inductive invariant.  Its first six parts hold in every state; the last
\* three until the loader's windows have been hit (raced).

MemoryTypes ==
    /\ used \subseteq Frame /\ 0 .. KernelFrames - 1 \subseteq used
    /\ nextPageTable \in 0 .. MaxTables
    /\ pageTables \in [Table -> [Slot -> Frame \cup {NoFrame}]]
    /\ nextDirectory \in 0 .. MaxDirs
    /\ directories \in [Dir -> [Pde -> Table \cup {NoTable, KernelTable}]]
    /\ panicked \in BOOLEAN /\ raced \in BOOLEAN

\* The kernel's directory never changes, the kernel's mappings stand in its
\* entries only, and a directory that was not given out is empty.
DirectoryShape ==
    /\ \A p \in Pde : directories[0][p] = IF p \in KernelPdes THEN KernelTable ELSE NoTable
    /\ \A d \in Dir, p \in Pde : directories[d][p] = KernelTable => p \in KernelPdes
    /\ \A d \in Dir, p \in Pde : d > nextDirectory => directories[d][p] = NoTable

Process == [pid : Nat \ {0}, dir : 1 .. MaxDirs, entry : BOOLEAN, heapBrk : Nat]

\* Every process has a pid and a directory of its own, and the active directory
\* is that of the active process.
ProcessList ==
    /\ processes \in Seq(Process) /\ latestPid \in Nat \ {0} /\ activeProcessPid \in Nat
    /\ \A i \in Indices :
          /\ processes[i].pid < latestPid /\ processes[i].dir <= nextDirectory
          /\ processes[i].heapBrk \in {HeapBase} \cup HeapBase .. HeapLimit
    /\ \A i, j \in Indices :
          processes[i].pid = processes[j].pid \/ processes[i].dir = processes[j].dir => i = j
    /\ ~Booting => \E i \in Indices : processes[i].pid = activeProcessPid
    /\ ~panicked => IF Booting THEN activeDirectory = 0
                    ELSE \A i \in Indices : processes[i].pid = activeProcessPid =>
                             activeDirectory = processes[i].dir

Phases == {"idle", "find", "mark", "table", "map", "copy", "end"}

LoadRecord ==
    [phase : Phases, by : Nat, pid : Nat, dir : Dir, entry : BOOLEAN, segs : Seq(Seq(Nat)),
     todo : Seq(Nat), frame : Frame \cup {NoFrame}, table : Table \cup {NoTable}]

\* The load in progress: its directory and pid are nobody else's, its stack
\* entry is the caller's, its pages are image pages, its frame is no kernel frame.
\* While the kernel boots nothing runs beside the loader.
LoadState ==
    /\ load \in LoadRecord
    /\ load.phase # "map" => load.table = NoTable
    /\ load.phase # "idle" =>
          /\ load.dir \in 1 .. nextDirectory /\ load.pid \in 1 .. latestPid - 1
          /\ \A i \in Indices : processes[i].pid # load.pid /\ processes[i].dir # load.dir
          /\ \/ /\ load.by = 0
                /\ directories[load.dir][StackPde] = directories[0][StackPde]
             \/ \E i \in Indices :
                   /\ processes[i].pid = load.by
                   /\ directories[load.dir][StackPde] = directories[processes[i].dir][StackPde]
          /\ \A v \in LoadPages : ImagePage(v)
          /\ \A s \in 1 .. Len(load.segs) : load.segs[s] # <<>>
    /\ load.phase \in {"find", "mark", "table", "map"} => load.todo # <<>>
    /\ load.phase \in {"mark", "table", "map"} => load.frame \in KernelFrames .. TotalFrames - 1
    /\ load.phase \in {"table", "map"} => load.frame \in used
    /\ Booting =>
          /\ ~raced
          /\ load.phase = "mark" => load.frame \notin used
          /\ load.table # NoTable => load.table = nextPageTable

CallRecord == [kind : {"none", "run", "mmap"}, todo : Nat, at : Nat, pages : Nat]

\* The masked call in progress.
CallState ==
    /\ call \in CallRecord
    /\ call.kind = "run" =>
          /\ Booting /\ load.phase = "idle" /\ call.pages \in Indices
          /\ call.todo <= StackPages /\ call.at = StackBegin - StackPages + call.todo
    /\ call.kind = "mmap" =>
          /\ ~Booting
          /\ \A i \in Indices : processes[i].pid = activeProcessPid =>
                /\ processes[i].heapBrk + call.pages <= HeapLimit /\ call.todo <= call.pages
                /\ call.at = processes[i].heapBrk + call.pages - call.todo

\* Stack tables are taken during boot, before anything can race: no table that is
\* picked later, or was picked before, is one.
StackTables ==
    /\ \A d \in Dir : directories[d][StackPde] \in Table =>
          /\ directories[d][StackPde] < nextPageTable
          /\ load.table # NoTable => directories[d][StackPde] < load.table
    /\ \A d, e \in Dir, p \in Pde :
          p # StackPde /\ directories[d][p] \in Table => directories[d][p] # directories[e][StackPde]
    /\ Booting => \A d \in Dir : directories[d][StackPde] # NoTable =>
          call.kind = "run" /\ d = processes[call.pages].dir

\* A kernel frame in a table is frame 0 in a stack table, and memory is full.
KernelEntries ==
    \A t \in Table, s \in Slot : pageTables[t][s] \in 0 .. KernelFrames - 1 =>
        /\ pageTables[t][s] = NullFrame /\ OutOfFrames
        /\ \E d \in Dir : directories[d][StackPde] = t

\* Tables above nextPageTable are not in use, and a table hangs in one entry only.
TablesFresh ==
    /\ \A d \in Dir, p \in Pde : directories[d][p] \in Table => directories[d][p] < nextPageTable
    /\ \A t \in Table, s \in Slot : t >= nextPageTable => pageTables[t][s] = NoFrame
    /\ \A d, e \in Dir, p, q \in Pde :
          /\ directories[d][p] = directories[e][q]
          /\ directories[d][p] \in Table
          => (d = e /\ p = q) \/ (p = StackPde /\ q = StackPde)

\* A frame is in one entry only, is marked, and is not the one the loader holds.
FramesOnce ==
    \A t \in Table, s \in Slot : pageTables[t][s] \notin {NoFrame, NullFrame} =>
        /\ pageTables[t][s] \in used
        /\ load.phase \in {"table", "map"} => pageTables[t][s] # load.frame
        /\ \A u \in Table, r \in Slot : pageTables[u][r] = pageTables[t][s] => u = t /\ r = s

\* Heaps are mapped up to heapBrk, and during Mmap up to where it is.  Beyond, a
\* page is mapped only if a call ran out of frames there, for good.
Heaps ==
    \A i \in Indices : \A v \in HeapBase .. HeapLimit :
        LET end == IF call.kind = "mmap" /\ processes[i].pid = activeProcessPid
                   THEN call.at ELSE processes[i].heapBrk
        IN  /\ v < processes[i].heapBrk => Mapped(processes[i].dir, v)
            /\ ~panicked /\ v < end => Mapped(processes[i].dir, v)
            /\ ~panicked /\ v >= end /\ Mapped(processes[i].dir, v) => OutOfFrames

\* What the loader and run are going to map is not mapped, and no page of it
\* comes twice.
LoadAhead ==
    /\ \A v \in LoadPages : v \notin HeapBase .. HeapLimit /\ ~Mapped(load.dir, v)
    /\ \A v \in HeapBase .. HeapLimit : ~Mapped(load.dir, v)
RunAhead ==
    \A v \in StackBegin - StackPages + 1 .. call.at : ~Mapped(processes[call.pages].dir, v)
PagesAhead ==
    /\ load.phase # "idle" => LoadAhead /\ PagesOnce(load.todo, load.segs)
    /\ call.kind = "run" => RunAhead

SpaceInv ==
    /\ MemoryTypes /\ DirectoryShape /\ ProcessList /\ LoadState /\ CallState
    /\ StackTables /\ KernelEntries
    /\ ~raced => TablesFresh /\ FramesOnce /\ Heaps /\ PagesAhead

-----------------------------------------------------------------------------
\* Facts about addresses and about the sets the pools are indexed by.

LEMMA Constants ==
  /\ TotalFrames \in Nat /\ KernelFrames \in Nat /\ MaxTables \in Nat /\ MaxDirs \in Nat
  /\ NoFrame \notin Frame /\ NoTable \notin Table /\ KernelTable \notin Table
  /\ KernelTable # NoTable /\ NullFrame \in 0 .. KernelFrames - 1
  /\ 0 .. KernelFrames - 1 \subseteq Frame /\ NullFrame \in Frame
  /\ 0 \in Dir /\ StackPde \in Pde \ KernelPdes /\ KernelPdes \subseteq Pde
  /\ HeapBase \in Nat /\ HeapLimit \in Nat
  /\ StackBegin \in Nat /\ StackPages \in Nat \ {0} /\ StackBegin >= StackPages
  BY LayoutAssumption
  DEF Frame, NoFrame, NoTable, KernelTable, Table, NullFrame, Dir

\* A page is its directory entry and its slot.
LEMMA PageSplit ==
  /\ \A v \in Nat : SlotOf(v) \in Slot
  /\ \A v, w \in Nat : PdeOf(v) = PdeOf(w) /\ SlotOf(v) = SlotOf(w) => v = w
  <1>1. PagesPerTable \in Nat \ {0}
    BY LayoutAssumption
  <1>2. ASSUME NEW v \in Nat PROVE SlotOf(v) \in Slot
    BY <1>1 DEF SlotOf, Slot
  <1>3. ASSUME NEW v \in Nat, NEW w \in Nat, PdeOf(v) = PdeOf(w), SlotOf(v) = SlotOf(w)
        PROVE  v = w
    BY <1>1, <1>3 DEF SlotOf, PdeOf
  <1> QED
    BY <1>2, <1>3

\* The pages of heaps are user pages beside the stacks; so are those of stacks.
LEMMA HeapPages ==
  /\ \A v \in HeapBase .. HeapLimit : ImagePage(v)
  /\ \A v \in StackBegin - StackPages + 1 .. StackBegin : UserPage(v) /\ PdeOf(v) = StackPde
  <1>1. ASSUME NEW v \in HeapBase .. HeapLimit PROVE ImagePage(v)
    BY LayoutAssumption DEF ImagePage, UserPage
  <1>2. ASSUME NEW v \in StackBegin - StackPages + 1 .. StackBegin
        PROVE  UserPage(v) /\ PdeOf(v) = StackPde
    <2>1. StackBegin - v \in 0 .. StackPages - 1 /\ v \in Nat
      BY Constants
    <2>2. PdeOf(StackBegin - (StackBegin - v)) = StackPde
      BY <2>1, LayoutAssumption
    <2>3. StackBegin - (StackBegin - v) = v
      BY <2>1, Constants
    <2> QED
      BY <2>1, <2>2, <2>3, Constants DEF UserPage
  <1> QED
    BY <1>1, <1>2

-----------------------------------------------------------------------------
\* What mapPageIn does to the tables and directories, whichever way it goes.

\* Mapping with no race: into the table that is there, or with the next of the
\* pool.
MapFresh(d, v, f) ==
    \/ MapInto(d, v, f)
    \/ nextPageTable \in Table /\ MapWithTable(d, v, f, nextPageTable)

LEMMA MapEntries ==
  ASSUME MemoryTypes, NEW d \in Dir, NEW v, UserPage(v), NEW f \in Frame,
         MapInto(d, v, f)
  PROVE  /\ directories' = directories /\ nextPageTable' = nextPageTable
         /\ pageTables' \in [Table -> [Slot -> Frame \cup {NoFrame}]]
         /\ \A t \in Table, s \in Slot :
               pageTables'[t][s] = IF t = directories[d][PdeOf(v)] /\ s = SlotOf(v)
                                   THEN f ELSE pageTables[t][s]
  <1>1. SlotOf(v) \in Slot /\ PdeOf(v) \in Pde
    BY PageSplit DEF UserPage
  <1> QED
    BY <1>1 DEF MapInto, MemoryTypes

LEMMA MapTableEntries ==
  ASSUME MemoryTypes, NEW d \in Dir, NEW v, UserPage(v), NEW f \in Frame,
         NEW t \in Table, MapWithTable(d, v, f, t)
  PROVE  /\ nextPageTable' = t + 1 /\ nextPageTable' \in 0 .. MaxTables
         /\ directories' \in [Dir -> [Pde -> Table \cup {NoTable, KernelTable}]]
         /\ \A e \in Dir, p \in Pde :
               directories'[e][p] = IF e = d /\ p = PdeOf(v) THEN t ELSE directories[e][p]
         /\ pageTables' \in [Table -> [Slot -> Frame \cup {NoFrame}]]
         /\ \A u \in Table, s \in Slot :
               pageTables'[u][s] = IF u # t THEN pageTables[u][s]
                                   ELSE IF s = SlotOf(v) THEN f ELSE NoFrame
  <1>1. SlotOf(v) \in Slot /\ PdeOf(v) \in Pde
    BY PageSplit DEF UserPage
  <1>2. /\ directories' \in [Dir -> [Pde -> Table \cup {NoTable, KernelTable}]]
        /\ \A e \in Dir, p \in Pde :
               directories'[e][p] = IF e = d /\ p = PdeOf(v) THEN t ELSE directories[e][p]
    BY <1>1 DEF MapWithTable, MemoryTypes
  <1>3. /\ pageTables' \in [Table -> [Slot -> Frame \cup {NoFrame}]]
        /\ \A u \in Table, s \in Slot :
               pageTables'[u][s] = IF u # t THEN pageTables[u][s]
                                   ELSE IF s = SlotOf(v) THEN f ELSE NoFrame
    BY <1>1 DEF MapWithTable, MemoryTypes
  <1>4. nextPageTable' = t + 1 /\ nextPageTable' \in 0 .. MaxTables
    BY Constants DEF MapWithTable, Table
  <1> QED
    BY <1>2, <1>3, <1>4

LEMMA MapShape ==
  ASSUME MemoryTypes, DirectoryShape, NEW d \in 1 .. nextDirectory, NEW v, UserPage(v),
         NEW f \in Frame, nextDirectory' = nextDirectory,
         MapInto(d, v, f) \/ \E t \in Table : MapWithTable(d, v, f, t)
  PROVE  DirectoryShape'
  <1>1. d \in Dir /\ d # 0 /\ ~(d > nextDirectory) /\ PdeOf(v) \in Pde \ KernelPdes
    BY Constants DEF Dir, MemoryTypes, UserPage
  <1>2. CASE MapInto(d, v, f)
    BY <1>1, <1>2, MapEntries DEF DirectoryShape
  <1>3. ASSUME NEW t \in Table, MapWithTable(d, v, f, t) PROVE DirectoryShape'
    <2>1. \A e \in Dir, p \in Pde :
             directories'[e][p] = IF e = d /\ p = PdeOf(v) THEN t ELSE directories[e][p]
      BY <1>1, <1>3, MapTableEntries
    <2>2. t # KernelTable
      BY Constants
    <2> QED
      BY <1>1, <2>1, <2>2, Constants DEF DirectoryShape
  <1> QED
    BY <1>2, <1>3

\* Mapping an image or heap page leaves the stack tables alone, also when the
\* loader does so with a table that another call took meanwhile: stack tables
\* are older than any table it can have picked.
LEMMA MapBesideStacks ==
  ASSUME MemoryTypes, StackTables, KernelEntries, NEW d \in Dir, NEW v, ImagePage(v),
         NEW f \in KernelFrames .. TotalFrames - 1, used \subseteq used', used' \subseteq Frame,
         load'.table = NoTable \/ load'.table = load.table,
         Booting' => Booting /\ call' = call /\ processes' = processes,
         \/ MapInto(d, v, f)
         \/ \E t \in Table : /\ MapWithTable(d, v, f, t)
                             /\ \A e \in Dir : directories[e][StackPde] \in Table =>
                                                 directories[e][StackPde] < t
  PROVE  StackTables' /\ KernelEntries'
  <1>1. /\ UserPage(v) /\ PdeOf(v) \in Pde /\ PdeOf(v) # StackPde /\ StackPde \in Pde
        /\ f \in Frame /\ f \notin 0 .. KernelFrames - 1 /\ SlotOf(v) \in Slot
    BY Constants, PageSplit DEF ImagePage, UserPage, Frame
  <1>2. OutOfFrames => OutOfFrames'
    BY DEF OutOfFrames
  <1>3. CASE MapInto(d, v, f)
    <2>1. directories' = directories /\ nextPageTable' = nextPageTable
      BY <1>1, <1>3, MapEntries
    <2>2. \A t \in Table, s \in Slot : pageTables'[t][s] \in {pageTables[t][s], f}
      BY <1>1, <1>3, MapEntries
    <2>3. StackTables'
      BY <2>1 DEF StackTables
    <2>4. KernelEntries'
      BY <1>1, <1>2, <2>1, <2>2 DEF KernelEntries
    <2> QED
      BY <2>3, <2>4
  <1>4. ASSUME NEW t \in Table, MapWithTable(d, v, f, t),
               \A e \in Dir : directories[e][StackPde] \in Table => directories[e][StackPde] < t
        PROVE  StackTables' /\ KernelEntries'
    <2>1. /\ nextPageTable' = t + 1 /\ t \in Nat
          /\ \A e \in Dir, p \in Pde :
                directories'[e][p] = IF e = d /\ p = PdeOf(v) THEN t ELSE directories[e][p]
          /\ \A u \in Table, s \in Slot :
                pageTables'[u][s] = IF u # t THEN pageTables[u][s]
                                    ELSE IF s = SlotOf(v) THEN f ELSE NoFrame
      BY <1>1, <1>4, MapTableEntries DEF Table
    <2>2. \A e \in Dir : /\ directories'[e][StackPde] = directories[e][StackPde]
                         /\ directories[e][StackPde] # t
      BY <1>1, <1>4, <2>1
    <2>3. StackTables'
      <3>1. \A e \in Dir : directories'[e][StackPde] \in Table =>
              /\ directories'[e][StackPde] < nextPageTable'
              /\ load'.table # NoTable => directories'[e][StackPde] < load'.table
        BY <1>4, <2>1, <2>2 DEF StackTables, Table
      <3>2. \A c, e \in Dir, p \in Pde :
              p # StackPde /\ directories'[c][p] \in Table =>
                 directories'[c][p] # directories'[e][StackPde]
        BY <1>1, <2>1, <2>2 DEF StackTables
      <3>3. Booting' => \A e \in Dir : directories'[e][StackPde] # NoTable =>
                           call'.kind = "run" /\ e = processes'[call'.pages].dir
        BY <2>2 DEF StackTables
      <3> QED
        BY <3>1, <3>2, <3>3 DEF StackTables
    <2>4. KernelEntries'
      <3> SUFFICES ASSUME NEW u \in Table, NEW s \in Slot,
                          pageTables'[u][s] \in 0 .. KernelFrames - 1
                   PROVE  /\ pageTables'[u][s] = NullFrame /\ OutOfFrames'
                          /\ \E e \in Dir : directories'[e][StackPde] = u
        BY DEF KernelEntries
      <3>1. u # t /\ pageTables'[u][s] = pageTables[u][s]
        BY <1>1, <2>1 DEF NoFrame
      <3>2. /\ pageTables[u][s] = NullFrame /\ OutOfFrames
            /\ \E e \in Dir : directories[e][StackPde] = u
        BY <3>1 DEF KernelEntries
      <3> QED
        BY <1>2, <2>2, <3>1, <3>2
    <2> QED
      BY <2>3, <2>4
  <1> QED
    BY <1>3, <1>4

\* A table that is taken from the pool is in no directory and empty.
LEMMA MapTablesFresh ==
  ASSUME MemoryTypes, DirectoryShape, TablesFresh, NEW d \in Dir, NEW v, UserPage(v),
         NEW f \in Frame, MapFresh(d, v, f)
  PROVE  TablesFresh'
  <1>1. PdeOf(v) \in Pde /\ SlotOf(v) \in Slot
    BY PageSplit DEF UserPage
  <1>2. CASE MapInto(d, v, f)
    <2>1. /\ directories' = directories /\ nextPageTable' = nextPageTable
          /\ \A t \in Table, s \in Slot :
                pageTables'[t][s] = IF t = directories[d][PdeOf(v)] /\ s = SlotOf(v)
                                    THEN f ELSE pageTables[t][s]
      BY <1>2, MapEntries
    <2>2. directories[d][PdeOf(v)] \in Table => directories[d][PdeOf(v)] < nextPageTable
      BY <1>1 DEF TablesFresh
    <2>3. \A t \in Table, s \in Slot : t >= nextPageTable' => pageTables'[t][s] = NoFrame
      BY <2>1, <2>2 DEF TablesFresh, MemoryTypes, Table
    <2> QED
      BY <2>1, <2>3 DEF TablesFresh
  <1>3. CASE nextPageTable \in Table /\ MapWithTable(d, v, f, nextPageTable)
    <2> DEFINE t == nextPageTable
    <2>1. /\ nextPageTable' = t + 1 /\ t \in Nat /\ t \in Table
          /\ \A e \in Dir, p \in Pde :
                directories'[e][p] = IF e = d /\ p = PdeOf(v) THEN t ELSE directories[e][p]
          /\ \A u \in Table, s \in Slot :
                pageTables'[u][s] = IF u # t THEN pageTables[u][s]
                                    ELSE IF s = SlotOf(v) THEN f ELSE NoFrame
      BY <1>3, MapTableEntries DEF Table
    <2>2. \A e \in Dir, p \in Pde : directories[e][p] # t
      BY <2>1 DEF TablesFresh
    <2> HIDE DEF t
    <2>3. \A e \in Dir, p \in Pde : directories'[e][p] \in Table =>
             directories'[e][p] < nextPageTable'
      BY <2>1 DEF TablesFresh, Table, t
    <2>4. \A u \in Table, s \in Slot : u >= nextPageTable' => pageTables'[u][s] = NoFrame
      BY <2>1 DEF TablesFresh, Table, t
    <2>5. \A e, c \in Dir, p, q \in Pde :
             /\ directories'[e][p] = directories'[c][q]
             /\ directories'[e][p] \in Table
             => (e = c /\ p = q) \/ (p = StackPde /\ q = StackPde)
      BY <2>1, <2>2 DEF TablesFresh
    <2> QED
      BY <2>3, <2>4, <2>5 DEF TablesFresh
  <1> QED
    BY <1>2, <1>3 DEF MapFresh

\* A frame that was free, or frame 0, is entered in one place.
LEMMA MapFramesOnce ==
  ASSUME MemoryTypes, FramesOnce, NEW d \in Dir, NEW v, UserPage(v), NEW f \in Frame,
         MapFresh(d, v, f), used \subseteq used',
         \/ f = NullFrame
         \/ /\ f \in used' /\ \A t \in Table, s \in Slot : pageTables[t][s] # f
            /\ load'.phase \in {"table", "map"} => f # load'.frame,
         load'.phase \in {"table", "map"} =>
             load.phase \in {"table", "map"} /\ load'.frame = load.frame
  PROVE  FramesOnce'
  <1> DEFINE Only(t0) == \A t \in Table, s \in Slot :
                            \/ t = t0 /\ s = SlotOf(v) /\ pageTables'[t][s] = f
                            \/ pageTables'[t][s] \in {pageTables[t][s], NoFrame}
  <1>1. PICK t0 : Only(t0)
    <2>1. CASE MapInto(d, v, f)
      <3>1. Only(directories[d][PdeOf(v)])
        BY <2>1, MapEntries
      <3> QED
        BY <3>1
    <2>2. CASE nextPageTable \in Table /\ MapWithTable(d, v, f, nextPageTable)
      <3>1. Only(nextPageTable)
        BY <2>2, MapTableEntries
      <3> QED
        BY <3>1
    <2> QED
      BY <2>1, <2>2 DEF MapFresh
  <1> SUFFICES ASSUME NEW t \in Table, NEW s \in Slot,
                      pageTables'[t][s] \notin {NoFrame, NullFrame}
               PROVE  /\ pageTables'[t][s] \in used'
                      /\ load'.phase \in {"table", "map"} => pageTables'[t][s] # load'.frame
                      /\ \A u \in Table, r \in Slot :
                            pageTables'[u][r] = pageTables'[t][s] => u = t /\ r = s
    BY DEF FramesOnce
  <1>2. CASE t = t0 /\ s = SlotOf(v) /\ pageTables'[t][s] = f
    BY <1>1, <1>2 DEF FramesOnce
  <1>3. CASE pageTables'[t][s] = pageTables[t][s]
    BY <1>1, <1>3 DEF FramesOnce
  <1> QED
    BY <1>1, <1>2, <1>3

\* Mapping a page in a directory maps that page there, and no page elsewhere.
LEMMA MapMapped ==
  ASSUME MemoryTypes, TablesFresh, NEW d \in Dir, NEW v, UserPage(v), NEW f \in Frame,
         MapFresh(d, v, f),
         \A e \in Dir, p \in Pde :
             directories[e][p] = directories[d][PdeOf(v)] /\ directories[e][p] \in Table =>
                 e = d /\ p = PdeOf(v)
  PROVE  /\ \A e \in Dir : \A w : UserPage(w) =>
               /\ Mapped(e, w) /\ (e # d \/ MapInto(d, v, f) \/ ~Present(d, v)) => Mapped(e, w)'
               /\ Mapped(e, w)' => Mapped(e, w) \/ (e = d /\ w = v)
         /\ directories[d][PdeOf(v)] \in Table \/ ~MapInto(d, v, f) => Mapped(d, v)'
  <1>1. PdeOf(v) \in Pde /\ SlotOf(v) \in Slot /\ v \in Nat /\ f # NoFrame
    BY PageSplit, Constants DEF UserPage
  <1>2. ASSUME NEW w, UserPage(w)
        PROVE  /\ PdeOf(w) \in Pde /\ SlotOf(w) \in Slot
               /\ PdeOf(v) = PdeOf(w) /\ SlotOf(v) = SlotOf(w) => w = v
    BY <1>1, <1>2, PageSplit DEF UserPage
  <1>3. CASE MapInto(d, v, f)
    <2>1. /\ directories' = directories
          /\ \A t \in Table, s \in Slot :
                pageTables'[t][s] = IF t = directories[d][PdeOf(v)] /\ s = SlotOf(v)
                                    THEN f ELSE pageTables[t][s]
      BY <1>3, MapEntries
    <2> QED
      BY <1>1, <1>2, <1>3, <2>1 DEF Mapped
  <1>4. CASE nextPageTable \in Table /\ MapWithTable(d, v, f, nextPageTable)
    <2> DEFINE t == nextPageTable
    <2>1. /\ t \in Table
          /\ \A e \in Dir, p \in Pde :
                directories'[e][p] = IF e = d /\ p = PdeOf(v) THEN t ELSE directories[e][p]
          /\ \A u \in Table, s \in Slot :
                pageTables'[u][s] = IF u # t THEN pageTables[u][s]
                                    ELSE IF s = SlotOf(v) THEN f ELSE NoFrame
      BY <1>4, MapTableEntries
    <2>2. \A e \in Dir, p \in Pde : directories[e][p] # t
      BY <2>1 DEF TablesFresh, Table
    <2>3. ~MapInto(d, v, f)
      <3>1. nextPageTable' # nextPageTable
        BY <1>4 DEF MapWithTable, Table
      <3> QED
        BY <3>1 DEF MapInto
    <2> HIDE DEF t
    <2>4. Mapped(d, v)'
      BY <1>1, <2>1 DEF Mapped
    <2>5. ASSUME NEW e \in Dir, NEW w, UserPage(w), ~(e = d /\ PdeOf(w) = PdeOf(v))
          PROVE  Mapped(e, w)' <=> Mapped(e, w)
      BY <1>2, <2>1, <2>2, <2>5 DEF Mapped
    <2>6. ASSUME NEW w, UserPage(w), PdeOf(w) = PdeOf(v)
          PROVE  Mapped(d, w)' => w = v
      BY <1>2, <2>1, <2>6 DEF Mapped
    <2>7. ASSUME NEW w, PdeOf(w) = PdeOf(v), Mapped(d, w) PROVE Present(d, v)
      BY <2>7, Constants DEF Mapped, Present
    <2> QED
      BY <2>3, <2>4, <2>5, <2>6, <2>7
  <1> QED
    BY <1>3, <1>4 DEF MapFresh

-----------------------------------------------------------------------------
\* kernelMain before the first load.
LEMMA SpaceInitInv == Init => SpaceInv
  <1> SUFFICES ASSUME Init PROVE SpaceInv
    OBVIOUS
  <1>1. MemoryTypes
    BY LayoutAssumption, Constants DEF Init, MemoryTypes, Frame
  <1>2. DirectoryShape
    BY Constants DEF Init, DirectoryShape
  <1>3. processes = <<>> /\ Len(processes) = 0 /\ Indices = {} /\ Booting
    BY DEF Init, Indices, Booting
  <1>4. ProcessList
    <2>1. <<>> \in Seq(Process)
      OBVIOUS
    <2> QED
      BY <1>3, <2>1 DEF Init, ProcessList, Booting
  <1>5. /\ load.phase = "idle" /\ load.table = NoTable /\ load \in LoadRecord
        /\ call.kind = "none" /\ call \in CallRecord /\ ~raced
    BY Constants DEF Init, NoLoad, NoCall, LoadRecord, CallRecord, Phases
  <1>6. LoadState /\ CallState
    BY <1>5 DEF LoadState, CallState
  <1>7. \A d \in Dir, p \in Pde : directories[d][p] \notin Table
    BY Constants DEF Init
  <1>8. \A t \in Table, s \in Slot : pageTables[t][s] = NoFrame
    BY DEF Init
  <1>9. StackTables
    BY <1>5, <1>7, Constants DEF Init, StackTables
  <1>10. KernelEntries /\ FramesOnce
    BY <1>8 DEF KernelEntries, FramesOnce, NoFrame
  <1>11. TablesFresh
    BY <1>7, <1>8 DEF TablesFresh
  <1>12. Heaps /\ PagesAhead
    BY <1>3, <1>5 DEF Heaps, PagesAhead
  <1> QED
    BY <1>1, <1>2, <1>4, <1>6, <1>9, <1>10, <1>11, <1>12 DEF SpaceInv

\* A step that leaves the memory management's own state alone.
LEMMA SameMemory ==
  ASSUME SpaceInv, UNCHANGED <<memory, nextDirectory, raced>>, panicked' \in BOOLEAN
  PROVE  /\ MemoryTypes' /\ DirectoryShape' /\ KernelEntries' /\ (~raced => TablesFresh')
         /\ \A d, v : Mapped(d, v)' <=> Mapped(d, v)
         /\ OutOfFrames' <=> OutOfFrames
  <1>1. UNCHANGED <<used, nextPageTable, pageTables, directories, nextDirectory, raced>>
    BY DEF memory
  <1>2. MemoryTypes'
    BY <1>1 DEF SpaceInv, MemoryTypes
  <1>3. DirectoryShape'
    BY <1>1 DEF SpaceInv, DirectoryShape
  <1>4. KernelEntries'
    BY <1>1 DEF SpaceInv, KernelEntries, OutOfFrames
  <1>5. ~raced => TablesFresh'
    BY <1>1 DEF SpaceInv, TablesFresh
  <1> QED
    BY <1>1, <1>2, <1>3, <1>4, <1>5 DEF Mapped, OutOfFrames

\* A step of the loader that changes nothing but its own state, or panics.
LEMMA LoadOnly ==
  ASSUME SpaceInv, call.kind = "none", panicked' \in BOOLEAN, panicked => panicked',
         UNCHANGED <<memory, nextDirectory, latestPid, processes, activeProcessPid,
                     activeDirectory, call, raced>>,
         LoadState', load'.table # NoTable => load'.table = nextPageTable,
         ~raced => FramesOnce' /\ PagesAhead'
  PROVE  SpaceInv'
  <1>1. /\ MemoryTypes' /\ DirectoryShape' /\ KernelEntries' /\ (~raced => TablesFresh')
        /\ \A d, v : Mapped(d, v)' <=> Mapped(d, v)
        /\ OutOfFrames' <=> OutOfFrames
    BY SameMemory
  <1>2. ProcessList'
    BY DEF SpaceInv, ProcessList, Booting, Indices
  <1>3. CallState'
    BY DEF SpaceInv, CallState
  <1>4. StackTables'
    BY DEF SpaceInv, StackTables, Booting, memory
  <1>5. ~raced => Heaps'
    BY <1>1 DEF SpaceInv, Heaps, Indices
  <1> QED
    BY <1>1, <1>2, <1>3, <1>4, <1>5 DEF SpaceInv

\* The entries of the process list.
LEMMA ProcessEntries ==
  ASSUME ProcessList
  PROVE  \A i \in Indices :
            /\ processes[i] \in Process /\ processes[i].dir \in 1 .. MaxDirs
            /\ processes[i].dir \in Dir /\ processes[i].pid \in Nat \ {0}
            /\ processes[i].heapBrk \in Nat
  <1>1. ASSUME NEW i \in Indices PROVE processes[i] \in Process
    BY ElementOfSeq DEF ProcessList, Indices
  <1> QED
    BY <1>1, Constants DEF Process, Dir

-----------------------------------------------------------------------------
\* The steps of the loader.

\* A step of the loader leaves the pages it has still to map as they are.
LEMMA SameLoadPages ==
  ASSUME load'.todo = load.todo, load'.segs = load.segs PROVE LoadPages' = LoadPages
  BY DEF LoadPages

\* Which pages are still to map.
LEMMA PagesOfElements ==
  ASSUME NEW todo, NEW segs, NEW v
  PROVE  v \in PagesOf(todo, segs) <=>
            \/ \E k \in 1 .. Len(todo) : v = todo[k]
            \/ \E s \in 1 .. Len(segs) : \E k \in 1 .. Len(segs[s]) : v = segs[s][k]
  BY DEF PagesOf

\* Going on to the next segment.
LEMMA NextSegment ==
  ASSUME NEW todo, NEW segs \in Seq(Seq(Nat)), segs # <<>>
  PROVE  /\ PagesOf(Head(segs), Tail(segs)) \subseteq PagesOf(todo, segs)
         /\ PagesOnce(todo, segs) => PagesOnce(Head(segs), Tail(segs))
  <1>1. /\ Len(segs) >= 1 /\ Head(segs) = segs[1]
        /\ Len(segs) \in Nat /\ Len(Tail(segs)) = Len(segs) - 1
        /\ \A s \in 1 .. Len(Tail(segs)) : Tail(segs)[s] = segs[s + 1] /\ s + 1 \in 1 .. Len(segs)
    BY HeadTailProperties, EmptySeq, LenProperties
  <1> DEFINE tail == Tail(segs)
  <1> HIDE DEF tail
  <1>2. ASSUME NEW v \in PagesOf(segs[1], tail) PROVE v \in PagesOf(todo, segs)
    <2>1. CASE \E k \in 1 .. Len(segs[1]) : v = segs[1][k]
      BY <1>1, <2>1, PagesOfElements
    <2>2. ASSUME NEW s \in 1 .. Len(tail), NEW k \in 1 .. Len(tail[s]), v = tail[s][k]
          PROVE  v \in PagesOf(todo, segs)
      <3>1. s + 1 \in 1 .. Len(segs) /\ tail[s] = segs[s + 1]
        BY <1>1 DEF tail
      <3> QED
        BY <2>2, <3>1, PagesOfElements
    <2> QED
      BY <1>2, <2>1, <2>2, PagesOfElements
  <1>3. ASSUME PagesOnce(todo, segs) PROVE PagesOnce(segs[1], tail)
    <2>1. \A k, l \in 1 .. Len(segs[1]) : segs[1][k] = segs[1][l] => k = l
      BY <1>1, <1>3 DEF PagesOnce
    <2>2. ASSUME NEW s \in 1 .. Len(tail), NEW k \in 1 .. Len(tail[s])
          PROVE  /\ \A l \in 1 .. Len(segs[1]) : segs[1][l] # tail[s][k]
                 /\ \A r \in 1 .. Len(tail) : \A l \in 1 .. Len(tail[r]) :
                       tail[s][k] = tail[r][l] => s = r /\ k = l
      <3>1. s + 1 \in 1 .. Len(segs) /\ tail[s] = segs[s + 1] /\ s + 1 # 1 /\ 1 \in 1 .. Len(segs)
        BY <1>1 DEF tail
      <3>2. \A l \in 1 .. Len(segs[1]) : segs[1][l] # tail[s][k]
        BY <1>3, <2>2, <3>1 DEF PagesOnce
      <3>3. ASSUME NEW r \in 1 .. Len(tail), NEW l \in 1 .. Len(tail[r]), tail[s][k] = tail[r][l]
            PROVE  s = r /\ k = l
        <4>1. r + 1 \in 1 .. Len(segs) /\ tail[r] = segs[r + 1]
          BY <1>1 DEF tail
        <4>2. /\ k \in 1 .. Len(segs[s + 1]) /\ l \in 1 .. Len(segs[r + 1])
              /\ segs[s + 1][k] = segs[r + 1][l]
          BY <2>2, <3>1, <3>3, <4>1
        <4>3. s + 1 = r + 1 /\ k = l
          BY <1>3, <3>1, <4>1, <4>2 DEF PagesOnce
        <4> QED
          BY <4>3
      <3> QED
        BY <3>2, <3>3
    <2> QED
      BY <2>1, <2>2 DEF PagesOnce
  <1> QED
    BY <1>1, <1>2, <1>3 DEF tail

LEMMA LoadFindInv == SpaceInv /\ LoadFind => SpaceInv'
  <1> SUFFICES ASSUME SpaceInv, LoadFind PROVE SpaceInv'
    OBVIOUS
  <1>1. /\ load.phase = "find" /\ call.kind = "none" /\ ~panicked
        /\ UNCHANGED <<memory, nextDirectory, latestPid, processes, activeProcessPid,
                       activeDirectory, call, raced>>
    BY DEF LoadFind, Loading, Unmasked
  <1>2. UNCHANGED <<used, nextPageTable, pageTables, directories>>
    BY <1>1 DEF memory
  <1>3. CASE \E f \in Frame :
               /\ FirstFree(f)
               /\ load' = [load EXCEPT !.phase = "mark", !.frame = f]
               /\ UNCHANGED panicked
    <2>1. PICK f \in Frame : /\ FirstFree(f) /\ UNCHANGED panicked
                             /\ load' = [load EXCEPT !.phase = "mark", !.frame = f]
      BY <1>3
    <2>2. f \notin used /\ f \in KernelFrames .. TotalFrames - 1
      BY <2>1, Constants DEF FirstFree, SpaceInv, MemoryTypes, Frame
    <2>3. load \in LoadRecord /\ load.table = NoTable
      BY <1>1 DEF SpaceInv, LoadState
    <2>4. /\ load' \in LoadRecord /\ load'.phase = "mark" /\ load'.frame = f
          /\ load'.by = load.by /\ load'.pid = load.pid /\ load'.dir = load.dir
          /\ load'.segs = load.segs /\ load'.todo = load.todo /\ load'.table = NoTable
      BY <2>1, <2>3 DEF LoadRecord, Phases
    <2>5. LoadPages' = LoadPages
      BY <2>4, SameLoadPages
    <2>6. LoadState'
      BY <1>1, <1>2, <2>2, <2>4, <2>5
      DEF SpaceInv, LoadState, Booting, Indices
    <2>7. ~raced => FramesOnce' /\ PagesAhead'
      <3>1. ~raced => FramesOnce'
        BY <1>2, <2>4 DEF SpaceInv, FramesOnce
      <3>2. ~raced => PagesAhead'
        BY <1>1, <1>2, <2>4, <2>5 DEF SpaceInv, PagesAhead, LoadAhead, Mapped
      <3> QED
        BY <3>1, <3>2
    <2> QED
      BY <1>1, <2>1, <2>4, <2>6, <2>7, LoadOnly DEF SpaceInv, MemoryTypes
  <1>4. CASE OutOfFrames /\ panicked' = TRUE /\ UNCHANGED load
    <2>1. LoadState'
      BY <1>1, <1>2, <1>4 DEF SpaceInv, LoadState, Booting, Indices, LoadPages
    <2>2. ~raced => FramesOnce' /\ PagesAhead'
      BY <1>1, <1>2, <1>4 DEF SpaceInv, FramesOnce, PagesAhead, LoadAhead, Mapped, LoadPages
    <2>3. load'.table = NoTable
      BY <1>1, <1>4 DEF SpaceInv, LoadState
    <2> QED
      BY <1>1, <1>4, <2>1, <2>2, <2>3, LoadOnly
  <1> QED
    BY <1>3, <1>4 DEF LoadFind

LEMMA LoadTableInv == SpaceInv /\ LoadTable => SpaceInv'
  <1> SUFFICES ASSUME SpaceInv, LoadTable PROVE SpaceInv'
    OBVIOUS
  <1>1. /\ load.phase = "table" /\ call.kind = "none" /\ ~panicked
        /\ UNCHANGED <<memory, nextDirectory, latestPid, processes, activeProcessPid,
                       activeDirectory, call, raced>>
    BY DEF LoadTable, Loading, Unmasked
  <1>2. UNCHANGED <<used, nextPageTable, pageTables, directories>>
    BY <1>1 DEF memory
  <1>3. load \in LoadRecord /\ load.table = NoTable
    BY <1>1 DEF SpaceInv, LoadState
  <1>4. ASSUME NEW t \in Table \cup {NoTable}, t # NoTable => t = nextPageTable,
               UNCHANGED panicked, load' = [load EXCEPT !.phase = "map", !.table = t]
        PROVE  SpaceInv'
    <2>1. /\ load' \in LoadRecord /\ load'.phase = "map" /\ load'.table = t
          /\ load'.by = load.by /\ load'.pid = load.pid /\ load'.dir = load.dir
          /\ load'.segs = load.segs /\ load'.todo = load.todo /\ load'.frame = load.frame
      BY <1>3, <1>4 DEF LoadRecord, Phases
    <2>2. LoadPages' = LoadPages
      BY <2>1, SameLoadPages
    <2>3. LoadState'
      BY <1>1, <1>2, <1>4, <2>1, <2>2 DEF SpaceInv, LoadState, Booting, Indices
    <2>4. ~raced => FramesOnce'
      BY <1>1, <1>2, <2>1 DEF SpaceInv, FramesOnce
    <2>5. ~raced => PagesAhead'
      BY <1>1, <1>2, <2>1, <2>2 DEF SpaceInv, PagesAhead, LoadAhead, Mapped
    <2> QED
      BY <1>1, <1>4, <2>1, <2>3, <2>4, <2>5, LoadOnly DEF SpaceInv, MemoryTypes
  <1>5. CASE panicked' = TRUE /\ UNCHANGED load
    <2>1. LoadState'
      BY <1>1, <1>2, <1>5 DEF SpaceInv, LoadState, Booting, Indices, LoadPages
    <2>2. ~raced => FramesOnce' /\ PagesAhead'
      BY <1>1, <1>2, <1>5 DEF SpaceInv, FramesOnce, PagesAhead, LoadAhead, Mapped, LoadPages
    <2> QED
      BY <1>1, <1>3, <1>5, <2>1, <2>2, LoadOnly
  <1>6. nextPageTable < MaxTables => nextPageTable \in Table
    BY Constants DEF SpaceInv, MemoryTypes, Table
  <1> QED
    BY <1>4, <1>5, <1>6 DEF LoadTable

\* The next segment becomes the one to map.
LEMMA LoadCopyInv == SpaceInv /\ LoadCopy => SpaceInv'
  <1> SUFFICES ASSUME SpaceInv, LoadCopy PROVE SpaceInv'
    OBVIOUS
  <1>1. /\ load.phase = "copy" /\ call.kind = "none" /\ ~panicked
        /\ UNCHANGED <<memory, nextDirectory, latestPid, processes, activeProcessPid,
                       activeDirectory, call, raced, panicked>>
    BY DEF LoadCopy, Loading, Unmasked
  <1>2. UNCHANGED <<used, nextPageTable, pageTables, directories>>
    BY <1>1 DEF memory
  <1>3. load \in LoadRecord /\ load.table = NoTable
    BY <1>1 DEF SpaceInv, LoadState
  <1>4. CASE load.segs = <<>>
    <2>1. /\ load' \in LoadRecord /\ load'.phase = "end" /\ load'.table = NoTable
          /\ load'.by = load.by /\ load'.pid = load.pid /\ load'.dir = load.dir
          /\ load'.segs = load.segs /\ load'.todo = load.todo /\ load'.frame = load.frame
      BY <1>3, <1>4 DEF LoadCopy, LoadRecord, Phases
    <2>2. LoadPages' = LoadPages
      BY <2>1, SameLoadPages
    <2>3. LoadState'
      BY <1>1, <1>2, <2>1, <2>2 DEF SpaceInv, LoadState, Booting, Indices
    <2>4. ~raced => FramesOnce'
      BY <1>2, <2>1 DEF SpaceInv, FramesOnce
    <2>5. ~raced => PagesAhead'
      BY <1>1, <1>2, <2>1, <2>2 DEF SpaceInv, PagesAhead, LoadAhead, Mapped
    <2> QED
      BY <1>1, <2>1, <2>3, <2>4, <2>5, LoadOnly DEF SpaceInv, MemoryTypes
  <1>5. CASE load.segs # <<>>
    <2>1. /\ load.segs \in Seq(Seq(Nat)) /\ Head(load.segs) = load.segs[1]
          /\ Head(load.segs) \in Seq(Nat) /\ Tail(load.segs) \in Seq(Seq(Nat))
          /\ 1 \in 1 .. Len(load.segs) /\ Len(Tail(load.segs)) = Len(load.segs) - 1
          /\ \A s \in 1 .. Len(Tail(load.segs)) :
                Tail(load.segs)[s] = load.segs[s + 1] /\ s + 1 \in 1 .. Len(load.segs)
      <3>1. load.segs \in Seq(Seq(Nat))
        BY <1>3 DEF LoadRecord
      <3> QED
        BY <1>5, <3>1, HeadTailProperties, EmptySeq, LenProperties
    <2>2. /\ load' \in LoadRecord /\ load'.phase = "find" /\ load'.table = NoTable
          /\ load'.by = load.by /\ load'.pid = load.pid /\ load'.dir = load.dir
          /\ load'.segs = Tail(load.segs) /\ load'.todo = Head(load.segs)
      BY <1>3, <1>5, <2>1 DEF LoadCopy, LoadRecord, Phases
    <2>3. /\ LoadPages' \subseteq LoadPages
          /\ PagesOnce(load.todo, load.segs) => PagesOnce(load'.todo, load'.segs)
      BY <1>5, <2>1, <2>2, NextSegment DEF LoadPages
    <2>4. \A s \in 1 .. Len(load.segs) : load.segs[s] # <<>>
      BY <1>1 DEF SpaceInv, LoadState
    <2>5. load'.todo # <<>> /\ \A s \in 1 .. Len(load'.segs) : load'.segs[s] # <<>>
      BY <2>1, <2>2, <2>4
    <2>6. \A v \in LoadPages' : ImagePage(v)
      BY <1>1, <2>3 DEF SpaceInv, LoadState
    <2>7. LoadState'
      BY <1>1, <1>2, <2>2, <2>5, <2>6 DEF SpaceInv, LoadState, Booting, Indices
    <2>8. ~raced => FramesOnce'
      BY <1>2, <2>2 DEF SpaceInv, FramesOnce
    <2>9. ~raced => PagesAhead'
      <3>1. \A v : Mapped(load.dir, v)' <=> Mapped(load.dir, v)
        BY <1>2, <2>2 DEF Mapped
      <3> QED
        BY <1>1, <2>2, <2>3, <3>1 DEF SpaceInv, PagesAhead, LoadAhead
    <2> QED
      BY <1>1, <2>2, <2>7, <2>8, <2>9, LoadOnly DEF SpaceInv, MemoryTypes
  <1> QED
    BY <1>4, <1>5

\* Going on to the next page of a segment.
LEMMA NextPage ==
  ASSUME NEW todo \in Seq(Nat), NEW segs, todo # <<>>
  PROVE  /\ Head(todo) \in PagesOf(todo, segs)
         /\ PagesOf(Tail(todo), segs) \subseteq PagesOf(todo, segs)
         /\ PagesOnce(todo, segs) =>
               PagesOnce(Tail(todo), segs) /\ Head(todo) \notin PagesOf(Tail(todo), segs)
  <1>1. /\ 1 \in 1 .. Len(todo) /\ Head(todo) = todo[1] /\ Len(todo) \in Nat
        /\ Len(Tail(todo)) = Len(todo) - 1
        /\ \A k \in 1 .. Len(Tail(todo)) : Tail(todo)[k] = todo[k + 1] /\ k + 1 \in 1 .. Len(todo)
    BY HeadTailProperties, EmptySeq, LenProperties
  <1> DEFINE tail == Tail(todo)
  <1>2. \A k \in 1 .. Len(tail) : tail[k] = todo[k + 1] /\ k + 1 \in 1 .. Len(todo) /\ k + 1 # 1
    BY <1>1
  <1> HIDE DEF tail
  <1>3. todo[1] \in PagesOf(todo, segs)
    BY <1>1, PagesOfElements
  <1>4. ASSUME NEW v \in PagesOf(tail, segs) PROVE v \in PagesOf(todo, segs)
    <2>1. CASE \E k \in 1 .. Len(tail) : v = tail[k]
      BY <1>2, <2>1, PagesOfElements
    <2>2. CASE \E s \in 1 .. Len(segs) : \E k \in 1 .. Len(segs[s]) : v = segs[s][k]
      BY <2>2, PagesOfElements
    <2> QED
      BY <1>4, <2>1, <2>2, PagesOfElements
  <1>5. ASSUME PagesOnce(todo, segs)
        PROVE  PagesOnce(tail, segs) /\ todo[1] \notin PagesOf(tail, segs)
    <2>1. \A k, l \in 1 .. Len(tail) : tail[k] = tail[l] => k = l
      <3> SUFFICES ASSUME NEW k \in 1 .. Len(tail), NEW l \in 1 .. Len(tail), tail[k] = tail[l]
                   PROVE  k = l
        OBVIOUS
      <3>1. k + 1 = l + 1
        BY <1>2, <1>5 DEF PagesOnce
      <3> QED
        BY <3>1
    <2>2. PagesOnce(tail, segs)
      BY <1>2, <1>5, <2>1 DEF PagesOnce
    <2>3. \A k \in 1 .. Len(tail) : todo[1] # tail[k]
      BY <1>1, <1>2, <1>5 DEF PagesOnce
    <2>4. \A s \in 1 .. Len(segs) : \A k \in 1 .. Len(segs[s]) : todo[1] # segs[s][k]
      BY <1>1, <1>5 DEF PagesOnce
    <2> QED
      BY <2>2, <2>3, <2>4, PagesOfElements
  <1> QED
    BY <1>1, <1>3, <1>4, <1>5 DEF tail

LEMMA LoadMarkInv == SpaceInv /\ LoadMark => SpaceInv'
  <1> SUFFICES ASSUME SpaceInv, LoadMark PROVE SpaceInv'
    OBVIOUS
  <1>1. /\ load.phase = "mark" /\ call.kind = "none" /\ ~panicked
        /\ raced' = (raced \/ load.frame \in used) /\ used' = used \cup {load.frame}
        /\ load' = [load EXCEPT !.phase = "table"]
        /\ UNCHANGED <<nextPageTable, pageTables, directories, nextDirectory, latestPid,
                       processes, activeProcessPid, activeDirectory, call, panicked>>
    BY DEF LoadMark, Loading, Unmasked, MarkUsed
  <1>2. load \in LoadRecord /\ load.table = NoTable /\ load.frame \in KernelFrames .. TotalFrames - 1
    BY <1>1 DEF SpaceInv, LoadState
  <1>3. /\ load' \in LoadRecord /\ load'.phase = "table" /\ load'.table = NoTable
        /\ load'.by = load.by /\ load'.pid = load.pid /\ load'.dir = load.dir
        /\ load'.segs = load.segs /\ load'.todo = load.todo /\ load'.frame = load.frame
    BY <1>1, <1>2 DEF LoadRecord, Phases
  <1>4. LoadPages' = LoadPages
    BY <1>3, SameLoadPages
  <1>5. MemoryTypes'
    BY <1>1, <1>2, Constants DEF SpaceInv, MemoryTypes, Frame
  <1>6. DirectoryShape'
    BY <1>1 DEF SpaceInv, DirectoryShape
  <1>7. ProcessList'
    BY <1>1 DEF SpaceInv, ProcessList, Booting, Indices
  <1>8. LoadState'
    <2>1. Booting' => ~raced'
      BY <1>1 DEF SpaceInv, LoadState, Booting
    <2>2. load'.frame \in used'
      BY <1>1, <1>3
    <2> QED
      BY <1>1, <1>2, <1>3, <1>4, <2>1, <2>2 DEF SpaceInv, LoadState, Indices
  <1>9. CallState'
    BY <1>1, <1>3 DEF SpaceInv, CallState
  <1>10. StackTables'
    BY <1>1, <1>2, <1>3 DEF SpaceInv, StackTables, Booting
  <1>11. OutOfFrames => OutOfFrames'
    BY <1>1 DEF OutOfFrames
  <1>12. KernelEntries'
    BY <1>1, <1>11 DEF SpaceInv, KernelEntries
  <1>13. ASSUME ~raced' PROVE TablesFresh' /\ FramesOnce' /\ Heaps' /\ PagesAhead'
    <2>1. ~raced /\ load.frame \notin used
      BY <1>1, <1>13
    <2>2. TablesFresh'
      BY <1>1, <2>1 DEF SpaceInv, TablesFresh
    <2>3. FramesOnce'
      BY <1>1, <1>3, <2>1 DEF SpaceInv, FramesOnce
    <2>4. \A d, v : Mapped(d, v)' <=> Mapped(d, v)
      BY <1>1 DEF Mapped
    <2>5. Heaps'
      BY <1>1, <1>11, <2>1, <2>4 DEF SpaceInv, Heaps, Indices
    <2>6. PagesAhead'
      BY <1>1, <1>3, <1>4, <2>1, <2>4 DEF SpaceInv, PagesAhead, LoadAhead
    <2> QED
      BY <2>2, <2>3, <2>5, <2>6
  <1> QED
    BY <1>5, <1>6, <1>7, <1>8, <1>9, <1>10, <1>12, <1>13 DEF SpaceInv

\* Without a race the frame is the loader's own and the table is fresh; with one
\* only the stacks and the kernel's frames are still known to be safe.
LEMMA LoadMapInv == SpaceInv /\ LoadMap => SpaceInv'
  <1> SUFFICES ASSUME SpaceInv, LoadMap PROVE SpaceInv'
    OBVIOUS
  <1> DEFINE d == load.dir
             v == Head(load.todo)
             f == load.frame
  <1>1. /\ load.phase = "map" /\ call.kind = "none" /\ ~panicked
        /\ UNCHANGED <<used, nextDirectory, latestPid, processes, activeProcessPid,
                       activeDirectory, call, panicked>>
    BY DEF LoadMap, Loading, Unmasked
  <1>2. /\ MemoryTypes /\ DirectoryShape /\ StackTables /\ KernelEntries
        /\ load \in LoadRecord /\ load.todo \in Seq(Nat) /\ load.todo # <<>>
        /\ d \in 1 .. nextDirectory /\ f \in KernelFrames .. TotalFrames - 1 /\ f \in used
    BY <1>1 DEF SpaceInv, LoadState, LoadRecord
  <1>3. d \in Dir /\ f \in Frame /\ f # NullFrame /\ f # NoFrame
    BY <1>2, Constants DEF MemoryTypes, Dir, Frame, NullFrame, NoFrame
  <1>4. /\ v \in LoadPages /\ PagesOf(Tail(load.todo), load.segs) \subseteq LoadPages
        /\ PagesOnce(load.todo, load.segs) =>
              /\ PagesOnce(Tail(load.todo), load.segs)
              /\ v \notin PagesOf(Tail(load.todo), load.segs)
    BY <1>2, NextPage DEF LoadPages
  <1>5. ImagePage(v) /\ UserPage(v) /\ PdeOf(v) \in Pde /\ PdeOf(v) # StackPde /\ StackPde \in Pde
    BY <1>1, <1>4, Constants DEF SpaceInv, LoadState, ImagePage, UserPage
  <1>6. /\ load' \in LoadRecord /\ load'.phase \in {"copy", "find"} /\ load'.table = NoTable
        /\ load'.phase = "find" => load'.todo # <<>>
        /\ load'.by = load.by /\ load'.pid = load.pid /\ load'.dir = d
        /\ load'.segs = load.segs /\ load'.todo = Tail(load.todo)
    <2>1. Tail(load.todo) \in Seq(Nat) /\ Len(Tail(load.todo)) = Len(load.todo) - 1
      BY <1>2, HeadTailProperties
    <2>2. ASSUME Len(load.todo) # 1 PROVE Tail(load.todo) # <<>>
      <3>1. Len(load.todo) - 1 # 0
        BY <1>2, <2>2, LenProperties
      <3>2. Len(<<>>) = 0
        OBVIOUS
      <3> QED
        BY <2>1, <3>1, <3>2
    <2> QED
      BY <1>2, <2>1, <2>2 DEF LoadMap, LoadRecord, Phases
  <1>7. \/ load.table = NoTable /\ MapInto(d, v, f) /\ raced' = raced
        \/ /\ load.table \in Table /\ MapWithTable(d, v, f, load.table)
           /\ raced' = (raced \/ nextPageTable # load.table)
    BY <1>2 DEF LoadMap, LoadRecord
  <1>8. MapInto(d, v, f) \/ \E t \in Table : MapWithTable(d, v, f, t)
    BY <1>7
  <1>9. ~raced' => ~raced /\ MapFresh(d, v, f)
    BY <1>7 DEF MapFresh
  <1> HIDE DEF d, v, f
  <1>10. MemoryTypes'
    <2>1. /\ pageTables' \in [Table -> [Slot -> Frame \cup {NoFrame}]]
          /\ directories' \in [Dir -> [Pde -> Table \cup {NoTable, KernelTable}]]
          /\ nextPageTable' \in 0 .. MaxTables
      BY <1>2, <1>3, <1>5, <1>8, MapEntries, MapTableEntries DEF MemoryTypes
    <2>2. raced' \in BOOLEAN
      BY <1>2, <1>7 DEF MemoryTypes
    <2> QED
      BY <1>1, <1>2, <2>1, <2>2 DEF MemoryTypes
  <1>11. DirectoryShape'
    BY <1>1, <1>2, <1>3, <1>5, <1>8, MapShape
  <1>12. StackTables' /\ KernelEntries'
    <2>1. load.table \in Table => \A e \in Dir :
             directories[e][StackPde] \in Table => directories[e][StackPde] < load.table
      BY <1>2, Constants DEF StackTables
    <2>2. Booting' => Booting /\ call' = call /\ processes' = processes
      BY <1>1 DEF Booting
    <2>3. used \subseteq used' /\ used' \subseteq Frame
      BY <1>1, <1>2 DEF MemoryTypes
    <2>4. f \in KernelFrames .. TotalFrames - 1
      BY <1>2 DEF f
    <2> QED
      BY <1>2, <1>3, <1>5, <1>6, <1>7, <2>1, <2>2, <2>3, <2>4, MapBesideStacks
  <1>13. \A e \in Dir : directories'[e][StackPde] = directories[e][StackPde]
    BY <1>2, <1>3, <1>5, <1>8, MapEntries, MapTableEntries
  <1>14. ProcessList'
    BY <1>1 DEF SpaceInv, ProcessList, Booting, Indices
  <1>15. CallState'
    BY <1>1 DEF SpaceInv, CallState
  <1>16. LoadState'
    <2>1. Booting' => ~raced'
      BY <1>1, <1>7, Constants DEF SpaceInv, LoadState, Booting
    <2>2. LoadPages' \subseteq LoadPages
      BY <1>4, <1>6 DEF LoadPages
    <2>3. \A i \in Indices : processes[i].dir \in Dir
      BY ProcessEntries DEF SpaceInv
    <2>4. \/ /\ load.by = 0
             /\ directories'[d][StackPde] = directories'[0][StackPde]
          \/ \E i \in Indices :
                /\ processes[i].pid = load.by
                /\ directories'[d][StackPde] = directories'[processes[i].dir][StackPde]
      BY <1>1, <1>3, <1>13, <2>3, Constants DEF SpaceInv, LoadState, d
    <2> QED
      BY <1>1, <1>6, <2>1, <2>2, <2>4 DEF SpaceInv, LoadState, Indices, d
  <1>17. ASSUME ~raced' PROVE TablesFresh' /\ FramesOnce' /\ Heaps' /\ PagesAhead'
    <2>1. ~raced /\ MapFresh(d, v, f) /\ TablesFresh /\ FramesOnce /\ Heaps /\ PagesAhead
      BY <1>9, <1>17 DEF SpaceInv
    <2>2. TablesFresh'
      BY <1>2, <1>3, <1>5, <2>1, MapTablesFresh
    <2>3. FramesOnce'
      <3>1. \A t \in Table, s \in Slot : pageTables[t][s] # f
        BY <1>1, <1>3, <2>1 DEF FramesOnce, f
      <3>2. f \in used'
        BY <1>1, <1>2 DEF f
      <3> QED
        BY <1>1, <1>2, <1>3, <1>5, <1>6, <2>1, <3>1, <3>2, MapFramesOnce
    <2>4. \A e \in Dir, p \in Pde :
             directories[e][p] = directories[d][PdeOf(v)] /\ directories[e][p] \in Table =>
                 e = d /\ p = PdeOf(v)
      BY <1>3, <1>5, <2>1 DEF TablesFresh
    <2>5. \A e \in Dir : \A w : UserPage(w) =>
             /\ Mapped(e, w) /\ e # d => Mapped(e, w)'
             /\ Mapped(e, w)' => Mapped(e, w) \/ (e = d /\ w = v)
      BY <1>2, <1>3, <1>5, <2>1, <2>4, MapMapped
    <2>6. \A w \in HeapBase .. HeapLimit : UserPage(w)
      BY HeapPages DEF ImagePage
    <2>7. Heaps'
      <3>1. \A i \in Indices : processes[i].dir \in Dir /\ processes[i].dir # d
        BY <1>1, ProcessEntries DEF SpaceInv, LoadState, d
      <3>2. \A i \in Indices, w \in HeapBase .. HeapLimit :
               Mapped(processes[i].dir, w)' <=> Mapped(processes[i].dir, w)
        <4>1. \A e \in Dir : \A w : UserPage(w) /\ e # d => (Mapped(e, w)' <=> Mapped(e, w))
          BY <2>5
        <4>2. \A e, w : Mapped(e, w)' <=>
                 /\ directories'[e][PdeOf(w)] \in Table
                 /\ pageTables'[directories'[e][PdeOf(w)]][SlotOf(w)] # NoFrame
          BY DEF Mapped
        <4> QED
          BY <1>1, <2>6, <3>1, <4>1, <4>2
      <3> QED
        BY <1>1, <2>1, <3>2 DEF Heaps, OutOfFrames, Indices
    <2>8. LoadAhead'
      <3>1. LoadPages' = PagesOf(Tail(load.todo), load.segs)
        BY <1>6 DEF LoadPages
      <3>2. PagesOnce(load.todo, load.segs) /\ LoadAhead
        BY <1>1, <2>1 DEF PagesAhead
      <3>3. v \in LoadPages /\ v \notin HeapBase .. HeapLimit /\ v \notin LoadPages'
        BY <1>4, <3>1, <3>2 DEF LoadAhead, v
      <3>4. \A w \in LoadPages' : w \in LoadPages /\ UserPage(w) /\ w # v
        BY <1>1, <1>4, <3>1, <3>3 DEF SpaceInv, LoadState, ImagePage
      <3>5. ASSUME NEW w, UserPage(w), ~Mapped(d, w), w # v PROVE ~Mapped(d, w)'
        <4>1. ASSUME NEW e \in Dir, e = d PROVE Mapped(e, w)' => Mapped(e, w)
          BY <2>5, <3>5, <4>1
        <4>2. d' = d
          BY <1>6 DEF d
        <4> QED
          BY <1>3, <3>5, <4>1, <4>2 DEF Mapped
      <3>6. \A w \in LoadPages' : ~Mapped(load.dir, w)'
        BY <1>6, <3>2, <3>4, <3>5 DEF LoadAhead, d, Mapped
      <3>7. \A w \in HeapBase .. HeapLimit : ~Mapped(load.dir, w)'
        BY <1>6, <2>6, <3>2, <3>3, <3>5 DEF LoadAhead, d, Mapped
      <3> QED
        BY <3>2, <3>4, <3>6, <3>7 DEF LoadAhead
    <2>9. PagesAhead'
      BY <1>1, <1>4, <1>6, <2>1, <2>8 DEF PagesAhead
    <2> QED
      BY <2>2, <2>3, <2>7, <2>9
  <1> QED
    BY <1>10, <1>11, <1>12, <1>14, <1>15, <1>16, <1>17 DEF SpaceInv

\* Nothing in progress.
LEMMA Nothing ==
  /\ NoLoad \in LoadRecord /\ NoLoad.phase = "idle" /\ NoLoad.table = NoTable
  /\ NoCall \in CallRecord /\ NoCall.kind = "none"
  BY Constants DEF NoLoad, NoCall, LoadRecord, CallRecord, Phases

\* The new process enters the list with an empty heap.
LEMMA LoadEndInv == SpaceInv /\ LoadEnd => SpaceInv'
  <1> SUFFICES ASSUME SpaceInv, LoadEnd PROVE SpaceInv'
    OBVIOUS
  <1> DEFINE new == [pid |-> load.pid, dir |-> load.dir, entry |-> load.entry,
                     heapBrk |-> HeapBase]
             n == Len(processes) + 1
  <1>1. /\ load.phase = "end" /\ call.kind = "none" /\ ~panicked /\ load' = NoLoad
        /\ processes' = Append(processes, new)
        /\ UNCHANGED <<memory, nextDirectory, latestPid, activeProcessPid,
                       activeDirectory, call, panicked, raced>>
    BY DEF LoadEnd, Loading, Unmasked
  <1>2. UNCHANGED <<used, nextPageTable, pageTables, directories>>
    BY <1>1 DEF memory
  <1>3. /\ load \in LoadRecord /\ load.dir \in 1 .. nextDirectory /\ load.pid \in 1 .. latestPid - 1
        /\ \A i \in Indices : processes[i].pid # load.pid /\ processes[i].dir # load.dir
        /\ latestPid \in Nat /\ nextDirectory \in 0 .. MaxDirs /\ processes \in Seq(Process)
    BY <1>1 DEF SpaceInv, LoadState, ProcessList, MemoryTypes
  <1>4. /\ new \in Process /\ new.pid = load.pid /\ new.dir = load.dir /\ new.heapBrk = HeapBase
        /\ new.pid < latestPid /\ new.dir <= nextDirectory /\ load.dir \in Dir
    BY <1>3, Constants DEF Process, LoadRecord, Dir
  <1>5. /\ processes' \in Seq(Process) /\ n \in Indices' /\ processes'[n] = new
        /\ \A i \in Indices : i \in Indices' /\ processes'[i] = processes[i]
        /\ \A i \in Indices' : i = n \/ i \in Indices
    <2>1. Append(processes, new) \in Seq(Process) /\ Len(processes) \in Nat
      BY <1>3, <1>4, AppendProperties, LenProperties
    <2>2. /\ Len(Append(processes, new)) = Len(processes) + 1
          /\ \A i \in 1 .. Len(processes) : Append(processes, new)[i] = processes[i]
          /\ Append(processes, new)[Len(processes) + 1] = new
      BY <1>3, <1>4, AppendProperties
    <2> QED
      BY <1>1, <2>1, <2>2 DEF Indices
  <1> HIDE DEF new, n
  <1>6. /\ MemoryTypes' /\ DirectoryShape' /\ KernelEntries' /\ (~raced => TablesFresh')
        /\ \A d, v : Mapped(d, v)' <=> Mapped(d, v)
        /\ OutOfFrames' <=> OutOfFrames
    BY <1>1, SameMemory DEF SpaceInv, MemoryTypes
  <1>7. ProcessList'
    <2>1. \A i \in Indices' :
             /\ processes'[i].pid < latestPid /\ processes'[i].dir <= nextDirectory
             /\ processes'[i].heapBrk \in {HeapBase} \cup HeapBase .. HeapLimit
      BY <1>4, <1>5 DEF SpaceInv, ProcessList
    <2>2. \A i, j \in Indices' :
             processes'[i].pid = processes'[j].pid \/ processes'[i].dir = processes'[j].dir => i = j
      BY <1>3, <1>4, <1>5 DEF SpaceInv, ProcessList
    <2>3. ~Booting => \E i \in Indices' : processes'[i].pid = activeProcessPid
      BY <1>5 DEF SpaceInv, ProcessList
    <2>4. ~Booting => new.pid # activeProcessPid
      BY <1>3, <1>4 DEF SpaceInv, ProcessList
    <2>5. ~panicked => IF Booting THEN activeDirectory = 0
                       ELSE \A i \in Indices' : processes'[i].pid = activeProcessPid =>
                                activeDirectory = processes'[i].dir
      BY <1>5, <2>4 DEF SpaceInv, ProcessList
    <2> QED
      BY <1>1, <1>5, <2>1, <2>2, <2>3, <2>5 DEF SpaceInv, ProcessList, Booting
  <1>8. LoadState'
    BY <1>1, Nothing DEF SpaceInv, LoadState, Booting
  <1>9. CallState'
    BY <1>1 DEF SpaceInv, CallState
  <1>10. StackTables'
    <2>1. load'.table = NoTable
      BY <1>1, Nothing
    <2> QED
      BY <1>1, <1>2, <2>1 DEF SpaceInv, StackTables, Booting
  <1>11. ASSUME ~raced PROVE FramesOnce' /\ Heaps' /\ PagesAhead'
    <2>1. FramesOnce'
      BY <1>1, <1>2, <1>11, Nothing DEF SpaceInv, FramesOnce
    <2>2. PagesAhead'
      BY <1>1, Nothing DEF PagesAhead
    <2>3. \A v \in HeapBase .. HeapLimit : ~Mapped(load.dir, v)
      BY <1>1, <1>11 DEF SpaceInv, PagesAhead, LoadAhead
    <2>4. ASSUME NEW i \in Indices', NEW v \in HeapBase .. HeapLimit
          PROVE  /\ v < processes'[i].heapBrk => Mapped(processes'[i].dir, v)
                 /\ ~panicked /\ v >= processes'[i].heapBrk /\ Mapped(processes'[i].dir, v) =>
                        OutOfFrames
      <3>1. CASE i = n
        BY <1>4, <1>5, <2>3, <3>1, Constants
      <3>2. CASE i \in Indices
        BY <1>1, <1>5, <1>11, <3>2 DEF SpaceInv, Heaps
      <3> QED
        BY <1>5, <3>1, <3>2
    <2>5. Heaps'
      BY <1>1, <1>2, <1>6, <2>4 DEF Heaps, Mapped
    <2> QED
      BY <2>1, <2>2, <2>5
  <1> QED
    BY <1>1, <1>6, <1>7, <1>8, <1>9, <1>10, <1>11 DEF SpaceInv

\* The segments of an image.
LEMMA ImagePages ==
  ASSUME NEW img \in DriverImages \cup ProcessImages
  PROVE  /\ Head(img) \in Seq(Nat) /\ Head(img) # <<>> /\ Tail(img) \in Seq(Seq(Nat))
         /\ \A s \in 1 .. Len(Tail(img)) : Tail(img)[s] # <<>>
         /\ \A v \in PagesOf(Head(img), Tail(img)) : ImagePage(v) /\ v \notin HeapBase .. HeapLimit
         /\ PagesOnce(Head(img), Tail(img))
  <1>1. /\ img \in Seq(Seq(Nat)) /\ img # <<>>
        /\ \A s \in 1 .. Len(img) : img[s] # <<>> /\
             \A k \in 1 .. Len(img[s]) :
                 PdeOf(img[s][k]) \in Pde \ (KernelPdes \cup {StackPde})
    BY LayoutAssumption
  <1>2. /\ Head(img) = img[1] /\ 1 \in 1 .. Len(img) /\ Tail(img) \in Seq(Seq(Nat))
        /\ \A s \in 1 .. Len(Tail(img)) : Tail(img)[s] = img[s + 1] /\ s + 1 \in 1 .. Len(img)
    BY <1>1, HeadTailProperties, EmptySeq, LenProperties
  <1>3. \A s \in 1 .. Len(img) : img[s] \in Seq(Nat)
    BY <1>1, ElementOfSeq
  <1>4. Len(<<>>) = 0 /\ 1 .. Len(<<>>) = {}
    OBVIOUS
  <1>5. /\ PagesOf(Head(img), Tail(img)) \subseteq PagesOf(<<>>, img)
        /\ PagesOnce(<<>>, img) => PagesOnce(Head(img), Tail(img))
    BY <1>1, NextSegment
  <1>6. PagesOnce(<<>>, img)
    BY <1>4, ImageAssumption DEF PagesOnce
  <1>7. ASSUME NEW v \in PagesOf(<<>>, img) PROVE ImagePage(v) /\ v \notin HeapBase .. HeapLimit
    <2>1. PICK s \in 1 .. Len(img) : \E k \in 1 .. Len(img[s]) : v = img[s][k]
      BY <1>4, <1>7, PagesOfElements
    <2>2. PICK k \in 1 .. Len(img[s]) : v = img[s][k]
      BY <2>1
    <2>3. v \in Nat
      BY <1>3, <2>2, ElementOfSeq
    <2> QED
      BY <1>1, <2>2, <2>3, ImageAssumption DEF ImagePage, UserPage
  <1> QED
    BY <1>1, <1>2, <1>3, <1>5, <1>6, <1>7

\* A new address space: the kernel's entries and the caller's stack.
LEMMA LoadBeginInv ==
  ASSUME SpaceInv, NEW img \in DriverImages \cup ProcessImages, LoadBegin(img) PROVE SpaceInv'
  <1> DEFINE D == nextDirectory + 1
  <1>1. /\ load.phase = "idle" /\ call.kind = "none" /\ ~panicked /\ latestPid' = latestPid + 1
        /\ UNCHANGED <<used, nextPageTable, pageTables, processes, activeProcessPid,
                       activeDirectory, call, raced>>
    BY DEF LoadBegin, Unmasked
  <1>2. /\ latestPid \in Nat \ {0} /\ activeProcessPid \in Nat /\ nextDirectory \in 0 .. MaxDirs
        /\ \A i \in Indices : /\ processes[i].pid < latestPid /\ processes[i].dir <= nextDirectory
                              /\ processes[i].pid \in Nat /\ processes[i].dir \in Dir
        /\ load.table = NoTable
    BY <1>1, ProcessEntries DEF SpaceInv, ProcessList, MemoryTypes, LoadState
  <1>3. /\ IF Booting THEN activeDirectory = 0
           ELSE \E i \in Indices : processes[i].pid = activeProcessPid
                                    /\ activeDirectory = processes[i].dir
        /\ activeDirectory \in Dir /\ activeDirectory # D
    <2>1. IF Booting THEN activeDirectory = 0
          ELSE \E i \in Indices : processes[i].pid = activeProcessPid
                                   /\ activeDirectory = processes[i].dir
      BY <1>1 DEF SpaceInv, ProcessList
    <2> QED
      BY <1>2, <2>1, Constants DEF Dir
  <1>4. ProcessList'
    <2>1. \A i \in Indices : processes[i].pid < latestPid'
      BY <1>1, <1>2
    <2>2. nextDirectory' \in Nat /\ nextDirectory' >= nextDirectory
      BY <1>2 DEF LoadBegin
    <2>3. \A i \in Indices : processes[i].dir <= nextDirectory'
      BY <1>2, <2>2 DEF Dir
    <2>4. latestPid' \in Nat \ {0}
      BY <1>1, <1>2
    <2> QED
      BY <1>1, <2>1, <2>3, <2>4 DEF SpaceInv, ProcessList, Booting, Indices
  <1>5. CASE nextDirectory >= MaxDirs /\ panicked' = TRUE
             /\ UNCHANGED <<nextDirectory, directories, load>>
    <2>1. /\ MemoryTypes' /\ DirectoryShape' /\ KernelEntries' /\ (~raced => TablesFresh')
          /\ \A d, v : Mapped(d, v)' <=> Mapped(d, v)
          /\ OutOfFrames' <=> OutOfFrames
      BY <1>1, <1>5, SameMemory DEF memory
    <2>2. LoadState'
      BY <1>1, <1>5 DEF SpaceInv, LoadState, Booting
    <2>3. CallState'
      BY <1>1 DEF SpaceInv, CallState
    <2>4. StackTables'
      BY <1>1, <1>5 DEF SpaceInv, StackTables, Booting
    <2>5. ~raced => FramesOnce'
      BY <1>1, <1>5 DEF SpaceInv, FramesOnce
    <2>6. ~raced => Heaps'
      BY <1>1, <1>5, <2>1 DEF SpaceInv, Heaps, Indices
    <2>7. PagesAhead'
      BY <1>1, <1>5 DEF PagesAhead
    <2> QED
      BY <1>1, <1>4, <2>1, <2>2, <2>3, <2>4, <2>5, <2>6, <2>7 DEF SpaceInv
  <1>6. ASSUME nextDirectory < MaxDirs, nextDirectory' = D, UNCHANGED panicked,
               directories' = [directories EXCEPT ![D] = NewDirectory],
               load' = [NoLoad EXCEPT !.phase = "find", !.by = activeProcessPid,
                          !.pid = latestPid, !.dir = D, !.entry = img \in ProcessImages,
                          !.segs = Tail(img), !.todo = Head(img)]
        PROVE  SpaceInv'
    <2>1. D \in 1 .. MaxDirs /\ D \in Dir /\ D # 0 /\ D > nextDirectory
      BY <1>2, <1>6, Constants DEF Dir
    <2>2. /\ load' \in LoadRecord /\ load'.phase = "find" /\ load'.table = NoTable
          /\ load'.by = activeProcessPid /\ load'.pid = latestPid /\ load'.dir = D
          /\ load'.segs = Tail(img) /\ load'.todo = Head(img)
      <3> DEFINE entry == img \in ProcessImages
      <3>1. entry \in BOOLEAN
        OBVIOUS
      <3>2. Head(img) \in Seq(Nat) /\ Tail(img) \in Seq(Seq(Nat))
        BY ImagePages
      <3>3. load' = [phase |-> "find", by |-> activeProcessPid, pid |-> latestPid, dir |-> D,
                     entry |-> entry, segs |-> Tail(img), todo |-> Head(img),
                     frame |-> NoFrame, table |-> NoTable]
        BY <1>6 DEF NoLoad
      <3> HIDE DEF entry, D
      <3> QED
        BY <1>2, <2>1, <3>1, <3>2, <3>3 DEF LoadRecord, Phases
    <2>3. /\ directories' \in [Dir -> [Pde -> Table \cup {NoTable, KernelTable}]]
          /\ \A e \in Dir, p \in Pde : directories'[e][p] =
                IF e # D THEN directories[e][p]
                ELSE IF p = StackPde THEN directories[activeDirectory][StackPde]
                ELSE directories[0][p]
      BY <1>3, <1>6, <2>1, Constants DEF SpaceInv, MemoryTypes, NewDirectory
    <2> HIDE DEF D
    <2>4. \A p \in Pde : /\ directories[0][p] = IF p \in KernelPdes THEN KernelTable ELSE NoTable
                         /\ directories[D][p] = NoTable
      BY <2>1 DEF SpaceInv, DirectoryShape
    <2>5. StackPde \in Pde \ KernelPdes /\ NoTable \notin Table /\ KernelTable \notin Table
          /\ KernelTable # NoTable /\ 0 \in Dir
      BY Constants
    <2>6. MemoryTypes'
      BY <1>1, <1>6, <2>1, <2>3, Constants DEF SpaceInv, MemoryTypes
    <2>7. DirectoryShape'
      <3>1. \A p \in Pde : directories'[0][p] = directories[0][p]
        BY <2>1, <2>3, <2>5
      <3>2. \A d \in Dir, p \in Pde : directories'[d][p] = KernelTable => p \in KernelPdes
        BY <1>3, <2>3, <2>4, <2>5 DEF SpaceInv, DirectoryShape
      <3>3. \A d \in Dir, p \in Pde : d > nextDirectory' => directories'[d][p] = NoTable
        <4> SUFFICES ASSUME NEW d \in Dir, NEW p \in Pde, d > nextDirectory'
                     PROVE  directories'[d][p] = NoTable
          OBVIOUS
        <4>1. d # D /\ d > nextDirectory
          BY <1>2, <1>6, Constants DEF Dir, D
        <4> QED
          BY <2>3, <4>1 DEF SpaceInv, DirectoryShape
      <3> QED
        BY <2>4, <3>1, <3>2, <3>3 DEF DirectoryShape
    <2>8. LoadPages' = PagesOf(Head(img), Tail(img))
      BY <2>2 DEF LoadPages
    <2>9. LoadState'
      <3>1. load'.dir \in 1 .. nextDirectory' /\ load'.pid \in 1 .. latestPid' - 1
        BY <1>1, <1>2, <1>6, <2>1, <2>2
      <3>2. \A i \in Indices' : processes'[i].pid # load'.pid /\ processes'[i].dir # load'.dir
        BY <1>1, <1>2, <2>2 DEF Indices, D, Dir
      <3>3. \/ /\ load'.by = 0
               /\ directories'[D][StackPde] = directories'[0][StackPde]
            \/ \E i \in Indices' :
                  /\ processes'[i].pid = load'.by
                  /\ directories'[D][StackPde] = directories'[processes'[i].dir][StackPde]
        <4>1. CASE Booting
          BY <1>3, <2>1, <2>2, <2>3, <2>5, <4>1 DEF Booting
        <4>2. CASE ~Booting
          <5>1. PICK i \in Indices : processes[i].pid = activeProcessPid
                                     /\ activeDirectory = processes[i].dir
            BY <1>3, <4>2
          <5>2. directories'[D][StackPde] = directories'[processes[i].dir][StackPde]
            BY <1>3, <2>1, <2>3, <2>5, <5>1
          <5> QED
            BY <1>1, <2>2, <5>1, <5>2 DEF Indices
        <4> QED
          BY <4>1, <4>2
      <3>4. \A v \in LoadPages' : ImagePage(v)
        BY <2>8, ImagePages
      <3>5. load'.todo # <<>> /\ \A s \in 1 .. Len(load'.segs) : load'.segs[s] # <<>>
        BY <2>2, ImagePages
      <3> QED
        BY <1>1, <2>2, <3>1, <3>2, <3>3, <3>4, <3>5 DEF SpaceInv, LoadState, Booting
    <2>10. CallState'
      BY <1>1 DEF SpaceInv, CallState
    <2>11. StackTables'
      <3>1. \A d \in Dir : \E e \in Dir : directories'[d][StackPde] = directories[e][StackPde]
        BY <1>3, <2>3, <2>5
      <3>2. \A d \in Dir, p \in Pde : p # StackPde /\ directories'[d][p] \in Table =>
               directories'[d][p] = directories[d][p]
        BY <2>3, <2>4, <2>5
      <3>3. Booting => \A d \in Dir : directories[d][StackPde] = NoTable
        BY <1>1 DEF SpaceInv, StackTables
      <3>4. \A d \in Dir : directories'[d][StackPde] \in Table =>
               directories'[d][StackPde] < nextPageTable'
        BY <1>1, <3>1 DEF SpaceInv, StackTables
      <3>5. \A d, e \in Dir, p \in Pde :
               p # StackPde /\ directories'[d][p] \in Table =>
                  directories'[d][p] # directories'[e][StackPde]
        BY <3>1, <3>2 DEF SpaceInv, StackTables
      <3>6. Booting => \A d \in Dir : directories'[d][StackPde] = NoTable
        BY <3>1, <3>3
      <3> QED
        BY <1>1, <2>2, <3>4, <3>5, <3>6 DEF StackTables, Booting
    <2>12. KernelEntries'
      <3>1. \A t \in Table, d \in Dir : directories[d][StackPde] = t =>
               directories'[d][StackPde] = t
        BY <2>3, <2>4, <2>5
      <3> QED
        BY <1>1, <3>1 DEF SpaceInv, KernelEntries, OutOfFrames
    <2>13. ASSUME ~raced' PROVE TablesFresh' /\ FramesOnce' /\ Heaps' /\ PagesAhead'
      <3>1. ~raced
        BY <1>1, <2>13
      <3>2. TablesFresh'
        <4>1. \A d \in Dir, p \in Pde : directories'[d][p] \in Table =>
                 directories'[d][p] < nextPageTable'
          BY <1>1, <1>3, <2>3, <2>4, <2>5, <3>1 DEF SpaceInv, TablesFresh
        <4>2. \A d, e \in Dir, p, q \in Pde :
                 /\ directories'[d][p] = directories'[e][q]
                 /\ directories'[d][p] \in Table
                 => (d = e /\ p = q) \/ (p = StackPde /\ q = StackPde)
          BY <1>3, <2>3, <2>4, <2>5, <3>1 DEF SpaceInv, TablesFresh
        <4> QED
          BY <1>1, <3>1, <4>1, <4>2 DEF SpaceInv, TablesFresh
      <3>3. FramesOnce'
        BY <1>1, <2>2, <3>1 DEF SpaceInv, FramesOnce
      <3>4. Heaps'
        <4>1. \A i \in Indices, v \in HeapBase .. HeapLimit :
                 directories'[processes[i].dir][PdeOf(v)] = directories[processes[i].dir][PdeOf(v)]
          BY <1>2, <2>1, <2>3, HeapPages DEF ImagePage, UserPage, Dir
        <4> QED
          BY <1>1, <1>6, <3>1, <4>1 DEF SpaceInv, Heaps, Indices, Mapped, OutOfFrames
      <3>5. \A v : ImagePage(v) => directories'[D][PdeOf(v)] \notin Table
        BY <2>1, <2>3, <2>4, <2>5 DEF ImagePage, UserPage
      <3>6. LoadAhead'
        BY <2>2, <2>8, <3>5, ImagePages, HeapPages DEF LoadAhead, Mapped
      <3>7. PagesOnce(load.todo, load.segs)'
        <4>1. PagesOnce(load'.todo, load'.segs)
          BY <2>2, ImagePages
        <4> QED
          BY <4>1 DEF PagesOnce
      <3> QED
        BY <1>1, <3>2, <3>3, <3>4, <3>6, <3>7 DEF PagesAhead
    <2> QED
      BY <1>4, <2>6, <2>7, <2>9, <2>10, <2>11, <2>12, <2>13 DEF SpaceInv
  <1> QED
    BY <1>5, <1>6 DEF LoadBegin

-----------------------------------------------------------------------------
\* mapPageIn as the masked calls use it.

\* The frame the scan of the bitmap stops at is no frame of the kernel, and no
\* page table holds it.
LEMMA FreeFrame ==
  ASSUME MemoryTypes, NEW f, FirstFree(f)
  PROVE  /\ f \in KernelFrames .. TotalFrames - 1 /\ f \in Frame /\ f \notin used
         /\ f # NullFrame /\ f # NoFrame /\ ~OutOfFrames
         /\ FramesOnce => \A t \in Table, s \in Slot : pageTables[t][s] # f
  <1>1. f \in Frame /\ f \notin used /\ f \notin 0 .. KernelFrames - 1
    BY DEF FirstFree, MemoryTypes
  <1>2. f \in KernelFrames .. TotalFrames - 1 /\ f # NullFrame /\ f # NoFrame
    BY <1>1, Constants DEF Frame
  <1> QED
    BY <1>1, <1>2 DEF OutOfFrames, FramesOnce

\* It panics, or it maps the page, and only that page.
LEMMA MapPageInCases ==
  ASSUME MemoryTypes, DirectoryShape, NEW d \in Dir, NEW v, UserPage(v), NEW f \in Frame,
         MapPageIn(d, v, f), ~panicked
  PROVE  \/ panicked' /\ UNCHANGED <<pageTables, directories, nextPageTable>>
         \/ /\ ~panicked' /\ MapFresh(d, v, f)
            /\ directories[d][PdeOf(v)] \in Table \/ ~MapInto(d, v, f)
            /\ MapInto(d, v, f) \/ ~Present(d, v)
  <1>1. PdeOf(v) \in Pde \ KernelPdes
    BY DEF UserPage
  <1>2. CASE Present(d, v) /\ MapInto(d, v, f) /\ UNCHANGED panicked
    BY <1>1, <1>2 DEF MapFresh, Present, MemoryTypes, DirectoryShape
  <1>3. CASE /\ ~Present(d, v) /\ nextPageTable < MaxTables
             /\ MapWithTable(d, v, f, nextPageTable) /\ UNCHANGED panicked
    <2>1. nextPageTable \in Table
      BY <1>3, Constants DEF MemoryTypes, Table
    <2>2. nextPageTable' # nextPageTable
      BY <1>3, <2>1 DEF MapWithTable, Table
    <2> QED
      BY <1>3, <2>1, <2>2 DEF MapFresh, MapInto
  <1> QED
    BY <1>2, <1>3 DEF MapPageIn

-----------------------------------------------------------------------------
\* The steps of run: nothing runs beside it, so nothing has raced.

LEMMA RunBeginInv == SpaceInv /\ RunBegin => SpaceInv'
  <1> SUFFICES ASSUME SpaceInv, RunBegin PROVE SpaceInv'
    OBVIOUS
  <1>1. /\ call.kind = "none" /\ ~panicked /\ Booting /\ load.phase = "idle"
        /\ UNCHANGED <<used, nextPageTable, pageTables, nextDirectory, latestPid, processes,
                       activeProcessPid, activeDirectory, load, panicked, raced>>
    BY DEF RunBegin, Unmasked
  <1>2. PICK i \in Indices :
          /\ directories' = [directories EXCEPT ![processes[i].dir][StackPde] = NoTable]
          /\ call' = [kind |-> "run", todo |-> StackPages, at |-> StackBegin, pages |-> i]
    BY DEF RunBegin, Indices
  <1>3. \A d \in Dir : directories[d][StackPde] = NoTable
    BY <1>1 DEF SpaceInv, StackTables
  <1>4. processes[i].dir \in Dir /\ StackPde \in Pde
    BY ProcessEntries, Constants DEF SpaceInv
  <1>5. directories' = directories
    <2>1. directories \in [Dir -> [Pde -> Table \cup {NoTable, KernelTable}]]
      BY DEF SpaceInv, MemoryTypes
    <2> QED
      BY <1>2, <1>3, <1>4, <2>1
  <1>6. UNCHANGED memory
    BY <1>1, <1>5 DEF memory
  <1>7. /\ MemoryTypes' /\ DirectoryShape' /\ KernelEntries' /\ (~raced => TablesFresh')
        /\ \A d, v : Mapped(d, v)' <=> Mapped(d, v)
        /\ OutOfFrames' <=> OutOfFrames
    BY <1>1, <1>6, SameMemory DEF SpaceInv, MemoryTypes
  <1>8. ProcessList'
    BY <1>1 DEF SpaceInv, ProcessList, Booting, Indices
  <1>9. LoadState'
    BY <1>1, <1>5 DEF SpaceInv, LoadState, Booting
  <1>10. /\ call' \in CallRecord /\ call'.kind = "run" /\ call'.pages = i
         /\ call'.todo = StackPages /\ call'.at = StackBegin /\ i \in Indices'
    BY <1>1, <1>2, Constants DEF CallRecord, Indices
  <1>11. CallState'
    BY <1>1, <1>10, Constants DEF CallState, Booting
  <1>12. StackTables'
    BY <1>1, <1>3, <1>5 DEF SpaceInv, StackTables
  <1>13. ~raced => FramesOnce'
    BY <1>1, <1>5 DEF SpaceInv, FramesOnce
  <1>14. ~raced => Heaps'
    BY <1>1, <1>7, <1>10 DEF SpaceInv, Heaps, Indices
  <1>15. RunAhead'
    <2>1. \A v \in StackBegin - StackPages + 1 .. call'.at : PdeOf(v) = StackPde
      BY <1>10, HeapPages
    <2>2. processes'[call'.pages].dir = processes[i].dir
      BY <1>1, <1>10
    <2> QED
      BY <1>3, <1>4, <1>5, <2>1, <2>2, Constants DEF RunAhead, Mapped
  <1>16. PagesAhead'
    BY <1>1, <1>15 DEF PagesAhead
  <1> QED
    BY <1>1, <1>7, <1>8, <1>9, <1>11, <1>12, <1>13, <1>14, <1>16 DEF SpaceInv

LEMMA RunPageInv == SpaceInv /\ RunPage => SpaceInv'
  <1> SUFFICES ASSUME SpaceInv, RunPage PROVE SpaceInv'
    OBVIOUS
  <1>1. PICK f \in Frame :
          /\ \/ FirstFree(f) /\ used' = used \cup {f}
             \/ OutOfFrames /\ f = NullFrame /\ used' = used
          /\ MapPageIn(processes[call.pages].dir, call.at, f)
    BY DEF RunPage, MarkUsed
  <1>2. PICK d : d = processes[call.pages].dir
    OBVIOUS
  <1>3. PICK v : v = call.at
    OBVIOUS
  <1>4. /\ call.kind = "run" /\ ~panicked /\ call.todo > 0
        /\ call' = [call EXCEPT !.todo = @ - 1, !.at = @ - 1]
        /\ UNCHANGED <<nextDirectory, latestPid, processes, activeProcessPid,
                       activeDirectory, load, raced>>
    BY DEF RunPage
  <1>5. /\ Booting /\ load.phase = "idle" /\ call.pages \in Indices /\ ~raced
        /\ call \in CallRecord /\ call.todo <= StackPages
        /\ call.at = StackBegin - StackPages + call.todo /\ load.table = NoTable
    BY <1>4 DEF SpaceInv, CallState, LoadState
  <1>6. /\ call' \in CallRecord /\ call'.kind = "run" /\ call'.pages = call.pages
        /\ call'.todo = call.todo - 1 /\ call'.at = call.at - 1
        /\ call.todo - 1 \in Nat /\ call.todo \in Nat /\ call.at \in Nat
    <2>1. call.todo - 1 \in Nat /\ call.todo \in Nat /\ call.at \in Nat
      BY <1>4, <1>5 DEF CallRecord
    <2>2. call.at - 1 \in Nat
      BY <1>5, <2>1, Constants
    <2> QED
      BY <1>4, <1>5, <2>1, <2>2 DEF CallRecord
  <1>7. /\ MemoryTypes /\ DirectoryShape /\ StackTables /\ KernelEntries
        /\ TablesFresh /\ FramesOnce /\ Heaps /\ RunAhead
    BY <1>4, <1>5 DEF SpaceInv, PagesAhead
  <1>8. d \in 1 .. nextDirectory /\ d \in Dir
    BY <1>2, <1>5, ProcessEntries DEF SpaceInv, ProcessList, MemoryTypes, Dir
  <1>9. /\ v \in StackBegin - StackPages + 1 .. StackBegin /\ UserPage(v) /\ PdeOf(v) = StackPde
        /\ v \in Nat
    <2>1. v \in StackBegin - StackPages + 1 .. StackBegin
      BY <1>3, <1>4, <1>5, Constants DEF CallRecord
    <2> QED
      BY <2>1, HeapPages DEF UserPage
  <1>10. MapPageIn(d, v, f)
    BY <1>1, <1>2, <1>3
  <1>11. \/ f = NullFrame /\ OutOfFrames /\ used' = used
         \/ /\ f \in used' /\ used' = used \cup {f} /\ f \notin 0 .. KernelFrames - 1
            /\ \A t \in Table, s \in Slot : pageTables[t][s] # f
    BY <1>1, <1>7, FreeFrame, Constants
  <1>12. used \subseteq used' /\ used' \subseteq Frame /\ (OutOfFrames => OutOfFrames')
    BY <1>1, <1>7 DEF MemoryTypes, OutOfFrames
  <1>13. ProcessList' /\ LoadState' /\ CallState' /\ panicked' \in BOOLEAN
    <2>1. LoadState'
      BY <1>4, <1>5 DEF SpaceInv, LoadState, Booting
    <2>2. CallState'
      <3>1. call'.todo <= StackPages /\ call'.at = StackBegin - StackPages + call'.todo
        BY <1>5, <1>6, Constants
      <3> QED
        BY <1>4, <1>5, <1>6, <3>1 DEF CallState, Booting, Indices
    <2>3. ASSUME NEW b \in BOOLEAN, panicked' = b PROVE ProcessList'
      BY <1>4 DEF SpaceInv, ProcessList, Booting, Indices
    <2>4. panicked' \in BOOLEAN
      BY <1>7, <1>10 DEF MapPageIn, MemoryTypes
    <2> QED
      BY <2>1, <2>2, <2>3, <2>4
  <1>14. \A w \in StackBegin - StackPages + 1 .. call'.at :
            w \in StackBegin - StackPages + 1 .. call.at /\ UserPage(w) /\ w # v
    <2>1. call.at \in Nat /\ call'.at = call.at - 1 /\ call.at <= StackBegin
      BY <1>3, <1>5, <1>6, <1>9, Constants DEF CallRecord
    <2>2. ASSUME NEW w \in StackBegin - StackPages + 1 .. call'.at
          PROVE  /\ w \in StackBegin - StackPages + 1 .. call.at /\ w # v
                 /\ w \in StackBegin - StackPages + 1 .. StackBegin
      BY <1>3, <2>1, Constants
    <2> QED
      BY <2>2, HeapPages
  <1>15. CASE panicked' /\ UNCHANGED <<pageTables, directories, nextPageTable>>
    <2>1. MemoryTypes' /\ DirectoryShape'
      BY <1>4, <1>7, <1>12, <1>15 DEF MemoryTypes, DirectoryShape
    <2>2. StackTables'
      BY <1>4, <1>5, <1>6, <1>7, <1>15 DEF StackTables
    <2>3. KernelEntries'
      BY <1>7, <1>12, <1>15 DEF KernelEntries
    <2>4. TablesFresh' /\ FramesOnce'
      BY <1>4, <1>5, <1>7, <1>12, <1>15 DEF TablesFresh, FramesOnce
    <2>5. Heaps'
      BY <1>4, <1>7, <1>15 DEF Heaps, Indices, Mapped
    <2>6. PagesAhead'
      BY <1>4, <1>5, <1>6, <1>7, <1>14, <1>15 DEF PagesAhead, RunAhead, Mapped
    <2> QED
      BY <1>13, <2>1, <2>2, <2>3, <2>4, <2>5, <2>6 DEF SpaceInv
  <1>16. CASE /\ ~panicked' /\ MapFresh(d, v, f)
              /\ directories[d][PdeOf(v)] \in Table \/ ~MapInto(d, v, f)
              /\ MapInto(d, v, f) \/ ~Present(d, v)
    <2>1. MapInto(d, v, f) \/ \E t \in Table : MapWithTable(d, v, f, t)
      BY <1>16 DEF MapFresh
    <2>2. MemoryTypes'
      <3>1. /\ pageTables' \in [Table -> [Slot -> Frame \cup {NoFrame}]]
            /\ directories' \in [Dir -> [Pde -> Table \cup {NoTable, KernelTable}]]
            /\ nextPageTable' \in 0 .. MaxTables
        BY <1>7, <1>8, <1>9, <2>1, MapEntries, MapTableEntries DEF MemoryTypes
      <3> QED
        BY <1>4, <1>7, <1>12, <1>13, <3>1 DEF MemoryTypes
    <2>3. DirectoryShape'
      BY <1>4, <1>7, <1>8, <1>9, <2>1, MapShape
    <2>4. TablesFresh'
      BY <1>7, <1>8, <1>9, <1>16, MapTablesFresh
    <2>5. FramesOnce'
      BY <1>4, <1>5, <1>7, <1>8, <1>9, <1>11, <1>12, <1>16, MapFramesOnce
    <2>6. \A e \in Dir : directories[e][StackPde] # NoTable => e = d
      BY <1>2, <1>5, <1>7 DEF StackTables
    <2>7. /\ \A e \in Dir, p \in Pde : e # d \/ p # StackPde => directories'[e][p] = directories[e][p]
          /\ directories[d][StackPde] # NoTable => directories'[d][StackPde] = directories[d][StackPde]
          /\ \A t \in Table, s \in Slot :
                \/ pageTables'[t][s] \in {pageTables[t][s], NoFrame}
                \/ pageTables'[t][s] = f /\ t = directories'[d][StackPde]
      <3>1. CASE MapInto(d, v, f)
        BY <1>7, <1>8, <1>9, <3>1, MapEntries
      <3>2. CASE ~Present(d, v) /\ nextPageTable \in Table /\ MapWithTable(d, v, f, nextPageTable)
        <4>1. directories[d][StackPde] = NoTable /\ StackPde \in Pde
          BY <1>9, <3>2, Constants DEF Present
        <4> QED
          BY <1>7, <1>8, <1>9, <3>2, <4>1, MapTableEntries
      <3> QED
        BY <1>16, <3>1, <3>2 DEF MapFresh
    <2>8. StackTables'
      <3>1. \A e \in Dir : directories'[e][StackPde] \in Table =>
               directories'[e][StackPde] < nextPageTable'
        BY <2>4, Constants DEF TablesFresh
      <3>2. \A c, e \in Dir, p \in Pde :
               p # StackPde /\ directories'[c][p] \in Table =>
                  directories'[c][p] # directories'[e][StackPde]
        BY <2>4, Constants DEF TablesFresh
      <3>3. \A e \in Dir : directories'[e][StackPde] # NoTable => e = d
        BY <2>6, <2>7, Constants
      <3> QED
        BY <1>2, <1>4, <1>5, <1>6, <3>1, <3>2, <3>3 DEF StackTables
    <2>9. KernelEntries'
      <3> SUFFICES ASSUME NEW t \in Table, NEW s \in Slot,
                          pageTables'[t][s] \in 0 .. KernelFrames - 1
                   PROVE  /\ pageTables'[t][s] = NullFrame /\ OutOfFrames'
                          /\ \E e \in Dir : directories'[e][StackPde] = t
        BY DEF KernelEntries
      <3>1. CASE pageTables'[t][s] = pageTables[t][s]
        <4>1. /\ pageTables[t][s] = NullFrame /\ OutOfFrames
              /\ \E e \in Dir : directories[e][StackPde] = t
          BY <1>7, <3>1 DEF KernelEntries
        <4>2. \A e \in Dir : directories[e][StackPde] = t => directories'[e][StackPde] = t
          BY <2>7, Constants
        <4> QED
          BY <1>12, <3>1, <4>1, <4>2
      <3>2. CASE pageTables'[t][s] = f /\ t = directories'[d][StackPde]
        BY <1>8, <1>11, <1>12, <3>2
      <3>3. pageTables'[t][s] # NoFrame
        BY Constants
      <3> QED
        BY <2>7, <3>1, <3>2, <3>3
    <2>10. \A e \in Dir, p \in Pde :
              directories[e][p] = directories[d][PdeOf(v)] /\ directories[e][p] \in Table =>
                  e = d /\ p = PdeOf(v)
      BY <1>7, <1>8, <1>9, <2>6, Constants DEF TablesFresh
    <2>11. \A e \in Dir : \A w : UserPage(w) /\ w # v => (Mapped(e, w)' <=> Mapped(e, w))
      BY <1>7, <1>8, <1>9, <1>16, <2>10, MapMapped
    <2>12. Heaps'
      <3>1. \A w \in HeapBase .. HeapLimit : UserPage(w) /\ w # v
        BY <1>9, HeapPages DEF ImagePage
      <3>2. ASSUME NEW i \in Indices, NEW w \in HeapBase .. HeapLimit
            PROVE  Mapped(processes[i].dir, w)' <=> Mapped(processes[i].dir, w)
        <4>1. processes[i].dir \in Dir
          BY ProcessEntries DEF SpaceInv
        <4>2. ASSUME NEW e \in Dir, e = processes[i].dir PROVE Mapped(e, w)' <=> Mapped(e, w)
          BY <2>11, <3>1
        <4> QED
          BY <1>4, <4>1, <4>2 DEF Mapped
      <3> QED
        BY <1>4, <1>6, <1>7, <1>12, <1>16, <3>2 DEF Heaps, Indices
    <2>13. RunAhead'
      <3>1. \A w \in StackBegin - StackPages + 1 .. call'.at : ~Mapped(d, w)'
        BY <1>2, <1>7, <1>8, <1>14, <2>11 DEF RunAhead
      <3>2. processes'[call'.pages].dir = d
        BY <1>2, <1>4, <1>6
      <3> QED
        BY <3>1, <3>2 DEF RunAhead, Mapped
    <2>14. PagesAhead'
      BY <1>4, <1>5, <2>13 DEF PagesAhead
    <2> QED
      BY <1>13, <2>2, <2>3, <2>4, <2>5, <2>8, <2>9, <2>12, <2>14 DEF SpaceInv
  <1> QED
    BY <1>4, <1>7, <1>8, <1>9, <1>10, <1>15, <1>16, MapPageInCases

\* The first process becomes active.
LEMMA RunEndInv == SpaceInv /\ RunEnd => SpaceInv'
  <1> SUFFICES ASSUME SpaceInv, RunEnd PROVE SpaceInv'
    OBVIOUS
  <1>1. /\ call.kind = "run" /\ ~panicked /\ call' = NoCall
        /\ activeProcessPid' = processes[call.pages].pid
        /\ activeDirectory' = processes[call.pages].dir
        /\ UNCHANGED <<memory, nextDirectory, latestPid, processes, load, panicked, raced>>
    BY DEF RunEnd
  <1>2. UNCHANGED <<used, nextPageTable, pageTables, directories>>
    BY <1>1 DEF memory
  <1>3. Booting /\ load.phase = "idle" /\ call.pages \in Indices /\ load.table = NoTable
    BY <1>1 DEF SpaceInv, CallState, LoadState
  <1>4. processes[call.pages].pid \in Nat \ {0} /\ ~Booting'
    BY <1>1, <1>3, ProcessEntries DEF SpaceInv, Booting
  <1>5. /\ MemoryTypes' /\ DirectoryShape' /\ KernelEntries' /\ (~raced => TablesFresh')
        /\ \A d, v : Mapped(d, v)' <=> Mapped(d, v)
        /\ OutOfFrames' <=> OutOfFrames
    BY <1>1, SameMemory DEF SpaceInv, MemoryTypes
  <1>6. ProcessList'
    <2>1. \A i \in Indices : processes[i].pid = processes[call.pages].pid => i = call.pages
      BY <1>3 DEF SpaceInv, ProcessList
    <2> QED
      BY <1>1, <1>3, <1>4, <2>1 DEF SpaceInv, ProcessList, Indices
  <1>7. LoadState'
    BY <1>1, <1>2, <1>3, <1>4 DEF SpaceInv, LoadState
  <1>8. CallState'
    BY <1>1, Nothing DEF CallState
  <1>9. StackTables'
    BY <1>1, <1>2, <1>4 DEF SpaceInv, StackTables
  <1>10. ~raced => FramesOnce'
    BY <1>1, <1>2 DEF SpaceInv, FramesOnce
  <1>11. ~raced => Heaps'
    BY <1>1, <1>5, Nothing DEF SpaceInv, Heaps, Indices
  <1>12. PagesAhead'
    BY <1>1, <1>3, Nothing DEF PagesAhead
  <1> QED
    BY <1>1, <1>5, <1>6, <1>7, <1>8, <1>9, <1>10, <1>11, <1>12 DEF SpaceInv

-----------------------------------------------------------------------------
\* The steps of Mmap and of the timer.

\* The search of the list finds the process with the pid, if there is one.
LEMMA ProcAtFinds ==
  ASSUME ProcessList, NEW pid, \E i \in Indices : processes[i].pid = pid
  PROVE  /\ ProcAt(pid) \in Indices /\ processes[ProcAt(pid)].pid = pid
         /\ \A i \in Indices : processes[i].pid = pid => i = ProcAt(pid)
  <1>1. ProcAt(pid) \in Indices /\ processes[ProcAt(pid)].pid = pid
    BY DEF ProcAt, Indices
  <1> QED
    BY <1>1 DEF ProcessList

\* A step of a system call that changes nothing but its own state.
LEMMA CallOnly ==
  ASSUME SpaceInv, ~Booting,
         UNCHANGED <<memory, nextDirectory, latestPid, processes, activeProcessPid,
                     activeDirectory, load, panicked, raced>>,
         CallState', call'.kind # "run", ~raced => Heaps'
  PROVE  SpaceInv'
  <1>1. UNCHANGED <<used, nextPageTable, pageTables, directories>>
    BY DEF memory
  <1>2. /\ MemoryTypes' /\ DirectoryShape' /\ KernelEntries' /\ (~raced => TablesFresh')
        /\ \A d, v : Mapped(d, v)' <=> Mapped(d, v)
    BY SameMemory DEF SpaceInv, MemoryTypes
  <1>3. ProcessList'
    BY DEF SpaceInv, ProcessList, Booting, Indices
  <1>4. LoadPages' = LoadPages
    BY SameLoadPages
  <1>5. LoadState'
    BY <1>1, <1>4 DEF SpaceInv, LoadState, Booting, Indices
  <1>6. StackTables'
    BY <1>1 DEF SpaceInv, StackTables, Booting
  <1>7. ~raced => FramesOnce'
    BY <1>1 DEF SpaceInv, FramesOnce
  <1>8. ~raced => PagesAhead'
    BY <1>1, <1>4 DEF SpaceInv, PagesAhead, LoadAhead, Mapped
  <1> QED
    BY <1>2, <1>3, <1>5, <1>6, <1>7, <1>8 DEF SpaceInv

LEMMA MmapBeginInv ==
  ASSUME SpaceInv, NEW pages \in MmapSizes, MmapBegin(pages) PROVE SpaceInv'
  <1> DEFINE k == ProcAt(activeProcessPid)
  <1>1. /\ call.kind = "none" /\ ~panicked /\ ~Booting
        /\ processes[k].heapBrk + pages <= HeapLimit
        /\ call' = [kind |-> "mmap", todo |-> pages, at |-> processes[k].heapBrk, pages |-> pages]
        /\ UNCHANGED <<memory, nextDirectory, latestPid, processes, activeProcessPid,
                       activeDirectory, load, panicked, raced>>
    BY DEF MmapBegin, Unmasked
  <1>2. /\ k \in Indices /\ processes[k].pid = activeProcessPid
        /\ \A i \in Indices : processes[i].pid = activeProcessPid => i = k
    BY <1>1, ProcAtFinds DEF SpaceInv, ProcessList
  <1> HIDE DEF k
  <1>3. processes[k].heapBrk \in Nat /\ pages \in Nat
    BY <1>2, ProcessEntries, LayoutAssumption DEF SpaceInv
  <1>4. /\ call' \in CallRecord /\ call'.kind = "mmap" /\ call'.todo = pages
        /\ call'.at = processes[k].heapBrk /\ call'.pages = pages
    BY <1>1, <1>3 DEF CallRecord
  <1>5. CallState'
    <2>1. \A i \in Indices : processes[i].pid = activeProcessPid =>
             /\ processes[i].heapBrk + call'.pages <= HeapLimit /\ call'.todo <= call'.pages
             /\ call'.at = processes[i].heapBrk + call'.pages - call'.todo
      BY <1>1, <1>2, <1>3, <1>4
    <2> QED
      BY <1>1, <1>4, <2>1 DEF CallState, Booting, Indices
  <1>6. ASSUME ~raced PROVE Heaps'
    <2>1. \A i \in Indices : processes[i].pid = activeProcessPid => call'.at = processes[i].heapBrk
      BY <1>2, <1>4
    <2>2. \A d, v : Mapped(d, v)' <=> Mapped(d, v)
      BY <1>1 DEF Mapped, memory
    <2>3. OutOfFrames' <=> OutOfFrames
      BY <1>1 DEF OutOfFrames, memory
    <2> QED
      BY <1>1, <1>4, <1>6, <2>1, <2>2, <2>3 DEF SpaceInv, Heaps, Indices
  <1> QED
    BY <1>1, <1>4, <1>5, <1>6, CallOnly

\* The page is mapped for the caller only, or the call panics or gives up.
LEMMA MmapPageInv == SpaceInv /\ MmapPage => SpaceInv'
  <1> SUFFICES ASSUME SpaceInv, MmapPage PROVE SpaceInv'
    OBVIOUS
  <1>1. PICK k : k = ProcAt(activeProcessPid)
    OBVIOUS
  <1>2. /\ call.kind = "mmap" /\ ~panicked /\ call.todo > 0 /\ ~Booting
        /\ UNCHANGED <<nextDirectory, latestPid, processes, activeProcessPid,
                       activeDirectory, load, raced>>
    BY DEF MmapPage, SpaceInv, CallState
  <1>3. /\ k \in Indices /\ processes[k].pid = activeProcessPid
        /\ \A i \in Indices : processes[i].pid = activeProcessPid => i = k
    BY <1>1, <1>2, ProcAtFinds DEF SpaceInv, ProcessList
  <1>4. /\ call \in CallRecord /\ call.todo <= call.pages
        /\ processes[k].heapBrk + call.pages <= HeapLimit
        /\ call.at = processes[k].heapBrk + call.pages - call.todo
        /\ call.todo \in Nat /\ call.pages \in Nat /\ call.at \in Nat
    BY <1>2, <1>3 DEF SpaceInv, CallState, CallRecord
  <1>5. processes[k].heapBrk \in Nat /\ processes[k].heapBrk >= HeapBase
    BY <1>3, ProcessEntries, Constants DEF SpaceInv, ProcessList
  <1>6. CASE MmapGivesUp
    <2>1. OutOfFrames /\ call' = NoCall /\ UNCHANGED <<memory, panicked>>
      BY <1>6 DEF MmapGivesUp
    <2>2. CallState'
      BY <2>1, Nothing DEF CallState
    <2>3. ASSUME ~raced PROVE Heaps'
      <3>1. \A d, v : Mapped(d, v)' <=> Mapped(d, v)
        BY <2>1 DEF Mapped, memory
      <3>2. OutOfFrames'
        BY <2>1 DEF OutOfFrames, memory
      <3> QED
        BY <1>2, <2>1, <2>3, <3>1, <3>2, Nothing DEF SpaceInv, Heaps, Indices
    <2> QED
      BY <1>2, <2>1, <2>2, <2>3, Nothing, CallOnly
  <1>7. ASSUME NEW f \in Frame, FirstFree(f), MarkUsed(f),
               MapPageIn(processes[k].dir, call.at, f),
               call' = [call EXCEPT !.todo = @ - 1, !.at = @ + 1]
        PROVE  SpaceInv'
    <2>1. PICK d : d = processes[k].dir
      OBVIOUS
    <2>2. PICK v : v = call.at
      OBVIOUS
    <2>3. MapPageIn(d, v, f) /\ used' = used \cup {f}
      BY <1>7, <2>1, <2>2 DEF MarkUsed
    <2>4. MemoryTypes /\ DirectoryShape /\ StackTables /\ KernelEntries
      BY DEF SpaceInv
    <2>5. /\ f \in KernelFrames .. TotalFrames - 1 /\ f \in Frame /\ f \notin used
          /\ FramesOnce => \A t \in Table, s \in Slot : pageTables[t][s] # f
      BY <1>7, <2>4, FreeFrame
    <2>6. d \in 1 .. nextDirectory /\ d \in Dir
      BY <1>3, <2>1, ProcessEntries DEF SpaceInv, ProcessList, MemoryTypes, Dir
    <2>7. v \in HeapBase .. HeapLimit /\ ImagePage(v) /\ UserPage(v)
      <3>1. v \in HeapBase .. HeapLimit
        BY <1>2, <1>4, <1>5, <2>2, Constants
      <3> QED
        BY <3>1, HeapPages DEF ImagePage
    <2>8. /\ call' \in CallRecord /\ call'.kind = "mmap" /\ call'.pages = call.pages
          /\ call'.todo = call.todo - 1 /\ call'.at = call.at + 1
          /\ call.todo - 1 \in Nat
      <3>1. call.todo - 1 \in Nat /\ call.at + 1 \in Nat
        BY <1>2, <1>4
      <3> QED
        BY <1>2, <1>4, <1>7, <3>1 DEF CallRecord
    <2>9. used \subseteq used' /\ used' \subseteq Frame /\ f \in used' /\ (OutOfFrames => OutOfFrames')
      BY <2>3, <2>4, <2>5 DEF MemoryTypes, OutOfFrames
    <2>10. panicked' \in BOOLEAN
      BY <2>3, <2>4 DEF MapPageIn, MemoryTypes
    <2>11. ProcessList'
      BY <1>2, <2>10 DEF SpaceInv, ProcessList, Booting, Indices
    <2>12. CallState'
      <3>1. \A i \in Indices : processes[i].pid = activeProcessPid =>
               /\ processes[i].heapBrk + call'.pages <= HeapLimit /\ call'.todo <= call'.pages
               /\ call'.at = processes[i].heapBrk + call'.pages - call'.todo
        BY <1>3, <1>4, <1>5, <2>8
      <3> QED
        BY <1>2, <2>8, <3>1 DEF CallState, Booting, Indices
    <2>13. LoadPages' = LoadPages
      BY <1>2, SameLoadPages
    <2>14. CASE panicked' /\ UNCHANGED <<pageTables, directories, nextPageTable>>
      <3>1. MemoryTypes' /\ DirectoryShape'
        BY <1>2, <2>4, <2>9, <2>10, <2>14 DEF MemoryTypes, DirectoryShape
      <3>2. LoadState'
        BY <1>2, <2>9, <2>13, <2>14 DEF SpaceInv, LoadState, Booting, Indices
      <3>3. StackTables'
        BY <1>2, <2>4, <2>14 DEF StackTables, Booting
      <3>4. KernelEntries'
        BY <2>4, <2>9, <2>14 DEF KernelEntries
      <3>5. ~raced => TablesFresh' /\ FramesOnce'
        BY <1>2, <2>9, <2>14 DEF SpaceInv, TablesFresh, FramesOnce
      <3>6. ~raced => Heaps'
        BY <1>2, <2>14 DEF SpaceInv, Heaps, Indices, Mapped
      <3>7. ~raced => PagesAhead'
        BY <1>2, <2>8, <2>13, <2>14 DEF SpaceInv, PagesAhead, LoadAhead, Mapped
      <3> QED
        BY <1>2, <2>11, <2>12, <3>1, <3>2, <3>3, <3>4, <3>5, <3>6, <3>7 DEF SpaceInv
    <2>15. CASE /\ ~panicked' /\ MapFresh(d, v, f)
                /\ directories[d][PdeOf(v)] \in Table \/ ~MapInto(d, v, f)
                /\ MapInto(d, v, f) \/ ~Present(d, v)
      <3>1. MapInto(d, v, f) \/ \E t \in Table : MapWithTable(d, v, f, t)
        BY <2>15 DEF MapFresh
      <3>2. MemoryTypes'
        <4>1. /\ pageTables' \in [Table -> [Slot -> Frame \cup {NoFrame}]]
              /\ directories' \in [Dir -> [Pde -> Table \cup {NoTable, KernelTable}]]
              /\ nextPageTable' \in 0 .. MaxTables
          BY <2>4, <2>6, <2>7, <3>1, MapEntries, MapTableEntries DEF MemoryTypes
        <4> QED
          BY <1>2, <2>4, <2>9, <2>10, <4>1 DEF MemoryTypes
      <3>3. DirectoryShape'
        BY <1>2, <2>4, <2>6, <2>7, <3>1, MapShape
      <3>4. StackTables' /\ KernelEntries'
        <4>1. \A e \in Dir : directories[e][StackPde] \in Table =>
                 directories[e][StackPde] < nextPageTable
          BY <2>4 DEF StackTables
        <4>2. \/ MapInto(d, v, f)
              \/ \E t \in Table : /\ MapWithTable(d, v, f, t)
                                  /\ \A e \in Dir : directories[e][StackPde] \in Table =>
                                                      directories[e][StackPde] < t
          BY <2>15, <4>1 DEF MapFresh
        <4>3. ~Booting' /\ load'.table = load.table
          BY <1>2 DEF Booting
        <4> QED
          BY <2>4, <2>5, <2>6, <2>7, <2>9, <4>2, <4>3, MapBesideStacks
      <3>5. \A e \in Dir : directories'[e][StackPde] = directories[e][StackPde]
        <4>1. PdeOf(v) # StackPde /\ StackPde \in Pde
          BY <2>7, Constants DEF ImagePage
        <4> QED
          BY <2>4, <2>6, <2>7, <3>1, <4>1, MapEntries, MapTableEntries
      <3>6. LoadState'
        <4>1. \A i \in Indices : processes[i].dir \in Dir
          BY ProcessEntries DEF SpaceInv
        <4>2. load.phase # "idle" =>
                \/ /\ load.by = 0
                   /\ directories'[load.dir][StackPde] = directories'[0][StackPde]
                \/ \E i \in Indices :
                      /\ processes[i].pid = load.by
                      /\ directories'[load.dir][StackPde] = directories'[processes[i].dir][StackPde]
          BY <3>5, <4>1, Constants DEF SpaceInv, LoadState, LoadRecord
        <4> QED
          BY <1>2, <2>9, <2>13, <4>2 DEF SpaceInv, LoadState, Booting, Indices
      <3>7. ASSUME ~raced' PROVE TablesFresh' /\ FramesOnce' /\ Heaps' /\ PagesAhead'
        <4>1. ~raced /\ TablesFresh /\ FramesOnce /\ Heaps /\ PagesAhead
          BY <1>2, <3>7 DEF SpaceInv
        <4>2. TablesFresh'
          BY <2>4, <2>5, <2>6, <2>7, <2>15, <4>1, MapTablesFresh
        <4>3. FramesOnce'
          <5>1. load'.phase \in {"table", "map"} => f # load'.frame
            BY <1>2, <2>5 DEF SpaceInv, LoadState
          <5> QED
            BY <1>2, <2>4, <2>5, <2>6, <2>7, <2>9, <2>15, <4>1, <5>1, MapFramesOnce
        <4>4. \A e \in Dir, p \in Pde :
                 directories[e][p] = directories[d][PdeOf(v)] /\ directories[e][p] \in Table =>
                     e = d /\ p = PdeOf(v)
          BY <2>6, <2>7, <4>1 DEF TablesFresh, ImagePage, UserPage
        <4>5. /\ \A e \in Dir : \A w : UserPage(w) /\ Mapped(e, w) => Mapped(e, w)'
              /\ \A e \in Dir : \A w : UserPage(w) /\ Mapped(e, w)' => Mapped(e, w) \/ (e = d /\ w = v)
              /\ Mapped(d, v)'
          BY <2>4, <2>5, <2>6, <2>7, <2>15, <4>1, <4>4, MapMapped
        <4>6. \A w \in HeapBase .. HeapLimit : UserPage(w)
          BY HeapPages DEF ImagePage
        <4>7. Heaps'
          <5>1. ASSUME NEW i \in Indices, NEW w \in HeapBase .. HeapLimit
                PROVE  /\ Mapped(processes[i].dir, w) => Mapped(processes[i].dir, w)'
                       /\ Mapped(processes[i].dir, w)' =>
                             Mapped(processes[i].dir, w) \/ (i = k /\ w = v)
                       /\ i = k /\ w = v => Mapped(processes[i].dir, w)'
            <6>1. processes[i].dir \in Dir /\ (processes[i].dir = d => i = k)
                  /\ processes'[i].dir = processes[i].dir
              BY <1>2, <1>3, <2>1, ProcessEntries DEF SpaceInv, ProcessList
            <6>2. ASSUME NEW e \in Dir, e = processes[i].dir
                  PROVE  /\ Mapped(e, w) => Mapped(e, w)'
                         /\ Mapped(e, w)' => Mapped(e, w) \/ (i = k /\ w = v)
                         /\ i = k /\ w = v => Mapped(e, w)'
              <7>1. (e = d => i = k) /\ (i = k => e = d)
                BY <2>1, <6>1, <6>2
              <7> QED
                BY <4>5, <4>6, <7>1
            <6> QED
              BY <6>1, <6>2 DEF Mapped
          <5>2. ASSUME NEW i \in Indices, NEW w \in HeapBase .. HeapLimit
                PROVE  LET end == IF processes[i].pid = activeProcessPid
                                  THEN call'.at ELSE processes[i].heapBrk
                       IN  /\ w < processes[i].heapBrk => Mapped(processes[i].dir, w)'
                           /\ w < end => Mapped(processes[i].dir, w)'
                           /\ w >= end /\ Mapped(processes[i].dir, w)' => OutOfFrames'
            <6>1. CASE i = k
              <7>1. /\ w < processes[k].heapBrk => Mapped(processes[k].dir, w)
                    /\ w < call.at => Mapped(processes[k].dir, w)
                    /\ w >= call.at /\ Mapped(processes[k].dir, w) => OutOfFrames
                BY <1>2, <1>3, <4>1 DEF Heaps
              <7>2. w < call.at + 1 => w < call.at \/ w = v
                BY <1>4, <2>2, Constants
              <7>3. w >= call.at + 1 => w >= call.at /\ w # v
                BY <1>4, <2>2, Constants
              <7> QED
                BY <1>3, <2>8, <2>9, <5>1, <6>1, <7>1, <7>2, <7>3
            <6>2. CASE i # k
              <7>1. /\ w < processes[i].heapBrk => Mapped(processes[i].dir, w)
                    /\ w >= processes[i].heapBrk /\ Mapped(processes[i].dir, w) => OutOfFrames
                BY <1>2, <1>3, <4>1, <6>2 DEF Heaps
              <7> QED
                BY <1>3, <2>9, <5>1, <6>2, <7>1
            <6> QED
              BY <6>1, <6>2
          <5> QED
            BY <1>2, <2>8, <5>2 DEF Heaps, Indices
        <4>8. ASSUME load.phase # "idle" PROVE LoadAhead'
          <5>1. load.dir \in Dir /\ load.dir # d /\ \A w \in LoadPages : UserPage(w)
            BY <1>3, <2>1, <4>8 DEF SpaceInv, LoadState, LoadRecord, ImagePage
          <5>2. ASSUME NEW e \in Dir, e = load.dir, NEW w, UserPage(w), ~Mapped(load.dir, w)
                PROVE  ~Mapped(e, w)'
            BY <4>5, <5>1, <5>2
          <5>3. \A w : UserPage(w) /\ ~Mapped(load.dir, w) => ~Mapped(load.dir, w)'
            BY <1>2, <5>1, <5>2 DEF Mapped
          <5> QED
            BY <1>2, <2>13, <4>1, <4>6, <4>8, <5>1, <5>3 DEF PagesAhead, LoadAhead
        <4>9. PagesAhead'
          BY <1>2, <2>8, <4>1, <4>8 DEF PagesAhead
        <4> QED
          BY <4>2, <4>3, <4>7, <4>9
      <3> QED
        BY <2>11, <2>12, <3>2, <3>3, <3>4, <3>6, <3>7 DEF SpaceInv
    <2> QED
      BY <1>2, <2>3, <2>4, <2>6, <2>7, <2>14, <2>15, MapPageInCases
  <1> QED
    BY <1>1, <1>6, <1>7 DEF MmapPage

\* heapBrk moves to where the mapping has got to.
LEMMA MmapEndInv == SpaceInv /\ MmapEnd => SpaceInv'
  <1> SUFFICES ASSUME SpaceInv, MmapEnd PROVE SpaceInv'
    OBVIOUS
  <1>1. PICK k : k = ProcAt(activeProcessPid)
    OBVIOUS
  <1>2. /\ call.kind = "mmap" /\ ~panicked /\ call.todo = 0 /\ ~Booting /\ call' = NoCall
        /\ processes' = [processes EXCEPT ![k].heapBrk = @ + call.pages]
        /\ UNCHANGED <<memory, nextDirectory, latestPid, activeProcessPid,
                       activeDirectory, load, panicked, raced>>
    BY <1>1 DEF MmapEnd, HeapBrkAfter, SpaceInv, CallState
  <1>3. UNCHANGED <<used, nextPageTable, pageTables, directories>>
    BY <1>2 DEF memory
  <1>4. /\ k \in Indices /\ processes[k].pid = activeProcessPid
        /\ \A i \in Indices : processes[i].pid = activeProcessPid => i = k
    BY <1>1, <1>2, ProcAtFinds DEF SpaceInv, ProcessList
  <1>5. /\ call.pages \in Nat /\ processes[k].heapBrk + call.pages <= HeapLimit
        /\ call.at = processes[k].heapBrk + call.pages
    <2>1. call.pages \in Nat /\ call.at \in Nat
      BY DEF SpaceInv, CallState, CallRecord
    <2>2. processes[k].heapBrk \in Nat
      BY <1>4, ProcessEntries DEF SpaceInv
    <2>3. /\ processes[k].heapBrk + call.pages <= HeapLimit
          /\ call.at = processes[k].heapBrk + call.pages - call.todo
      BY <1>2, <1>4 DEF SpaceInv, CallState
    <2> QED
      BY <1>2, <2>1, <2>2, <2>3
  <1>6. /\ processes[k].heapBrk \in Nat /\ processes[k].heapBrk >= HeapBase
        /\ call.at \in HeapBase .. HeapLimit
    <2>1. processes[k].heapBrk \in Nat /\ processes[k].heapBrk >= HeapBase
      BY <1>4, ProcessEntries, Constants DEF SpaceInv, ProcessList
    <2> QED
      BY <1>5, <2>1, Constants
  <1>7. /\ processes' \in Seq(Process) /\ Indices' = Indices
        /\ \A i \in Indices : /\ processes'[i].pid = processes[i].pid
                              /\ processes'[i].dir = processes[i].dir
                              /\ processes'[i].heapBrk = IF i = k THEN call.at ELSE processes[i].heapBrk
    <2> DEFINE new == [processes[k] EXCEPT !.heapBrk = call.at]
    <2>1. /\ new \in Process /\ new.pid = processes[k].pid /\ new.dir = processes[k].dir
          /\ new.heapBrk = call.at
      <3>1. processes[k] \in Process /\ call.at \in Nat
        BY <1>4, <1>6, ProcessEntries, Constants DEF SpaceInv
      <3> QED
        BY <3>1 DEF Process
    <2>2. processes' = [processes EXCEPT ![k] = new]
      BY <1>2, <1>5
    <2>3. processes \in Seq(Process) /\ k \in 1 .. Len(processes)
      BY <1>4 DEF SpaceInv, ProcessList, Indices
    <2> HIDE DEF new
    <2>4. /\ [processes EXCEPT ![k] = new] \in Seq(Process)
          /\ Len([processes EXCEPT ![k] = new]) = Len(processes)
          /\ \A j \in 1 .. Len(processes) :
                [processes EXCEPT ![k] = new][j] = IF j = k THEN new ELSE processes[j]
      BY <2>1, <2>3, ExceptSeq
    <2> QED
      BY <2>1, <2>2, <2>4 DEF Indices
  <1>8. /\ MemoryTypes' /\ DirectoryShape' /\ KernelEntries' /\ (~raced => TablesFresh')
        /\ \A d, v : Mapped(d, v)' <=> Mapped(d, v)
        /\ OutOfFrames' <=> OutOfFrames
    BY <1>2, SameMemory DEF SpaceInv, MemoryTypes
  <1>9. ProcessList'
    BY <1>2, <1>6, <1>7 DEF SpaceInv, ProcessList, Booting
  <1>10. LoadPages' = LoadPages
    BY <1>2, SameLoadPages
  <1>11. LoadState'
    BY <1>2, <1>3, <1>7, <1>10 DEF SpaceInv, LoadState, Booting
  <1>12. CallState'
    BY <1>2, Nothing DEF CallState
  <1>13. StackTables'
    BY <1>2, <1>3 DEF SpaceInv, StackTables, Booting
  <1>14. ASSUME ~raced PROVE FramesOnce' /\ Heaps' /\ PagesAhead'
    <2>1. FramesOnce'
      BY <1>2, <1>3, <1>14 DEF SpaceInv, FramesOnce
    <2>2. ASSUME NEW i \in Indices, NEW v \in HeapBase .. HeapLimit
          PROVE  /\ v < processes'[i].heapBrk => Mapped(processes[i].dir, v)
                 /\ v >= processes'[i].heapBrk /\ Mapped(processes[i].dir, v) => OutOfFrames
      BY <1>2, <1>4, <1>7, <1>14 DEF SpaceInv, Heaps
    <2>3. \A i \in Indices : \A v : Mapped(processes[i].dir, v)' <=> Mapped(processes[i].dir, v)
      BY <1>3, <1>7 DEF Mapped
    <2>4. Heaps'
      BY <1>2, <1>7, <1>8, <2>2, <2>3, Nothing DEF Heaps
    <2>5. PagesAhead'
      BY <1>2, <1>3, <1>10, <1>14, Nothing DEF SpaceInv, PagesAhead, LoadAhead, Mapped
    <2> QED
      BY <2>1, <2>4, <2>5
  <1> QED
    BY <1>2, <1>8, <1>9, <1>11, <1>12, <1>13, <1>14 DEF SpaceInv

LEMMA CtxtSwitchInv ==
  ASSUME SpaceInv, NEW i \in {1, 2}, CtxtSwitch(i) PROVE SpaceInv'
  <1>1. /\ call.kind = "none" /\ ~panicked /\ ~Booting /\ Len(processes) > 1
        /\ activeProcessPid' = processes[i].pid
        /\ \/ activeDirectory' = processes[i].dir /\ UNCHANGED panicked
           \/ panicked' = TRUE
        /\ UNCHANGED <<memory, nextDirectory, latestPid, processes, load, call, raced>>
    BY DEF CtxtSwitch, Unmasked, SetDirectory
  <1>2. UNCHANGED <<used, nextPageTable, pageTables, directories>>
    BY <1>1 DEF memory
  <1>3. i \in Indices /\ processes[i].pid \in Nat \ {0} /\ ~Booting'
    <2>1. Len(processes) \in Nat
      BY LenProperties DEF SpaceInv, ProcessList
    <2>2. i \in Indices
      BY <1>1, <2>1 DEF Indices
    <2> QED
      BY <1>1, <2>2, ProcessEntries DEF SpaceInv, Booting
  <1>4. panicked' \in BOOLEAN
    BY <1>1 DEF SpaceInv, MemoryTypes
  <1>5. /\ MemoryTypes' /\ DirectoryShape' /\ KernelEntries' /\ (~raced => TablesFresh')
        /\ \A d, v : Mapped(d, v)' <=> Mapped(d, v)
        /\ OutOfFrames' <=> OutOfFrames
    BY <1>1, <1>4, SameMemory
  <1>6. ProcessList'
    <2>1. \A j \in Indices : processes[j].pid = processes[i].pid => j = i
      BY <1>3 DEF SpaceInv, ProcessList
    <2> QED
      BY <1>1, <1>3, <2>1 DEF SpaceInv, ProcessList, Indices
  <1>7. LoadPages' = LoadPages
    BY <1>1, SameLoadPages
  <1>8. LoadState'
    BY <1>1, <1>2, <1>3, <1>7 DEF SpaceInv, LoadState, Indices
  <1>9. CallState'
    BY <1>1 DEF SpaceInv, CallState
  <1>10. StackTables'
    BY <1>1, <1>2, <1>3 DEF SpaceInv, StackTables
  <1>11. ~raced => FramesOnce'
    BY <1>1, <1>2 DEF SpaceInv, FramesOnce
  <1>12. ~raced => Heaps'
    BY <1>1, <1>5 DEF SpaceInv, Heaps, Indices
  <1>13. ~raced => PagesAhead'
    BY <1>1, <1>2, <1>7 DEF SpaceInv, PagesAhead, LoadAhead, Mapped
  <1> QED
    BY <1>1, <1>5, <1>6, <1>8, <1>9, <1>10, <1>11, <1>12, <1>13 DEF SpaceInv

-----------------------------------------------------------------------------
\* The invariant and what it gives.

LEMMA SpaceNextInv == SpaceInv /\ [Next]_vars => SpaceInv'
  <1> SUFFICES ASSUME SpaceInv, [Next]_vars PROVE SpaceInv'
    OBVIOUS
  <1>1. CASE UNCHANGED vars
    <2>1. UNCHANGED <<used, nextPageTable, pageTables, directories, nextDirectory, latestPid,
                      processes, activeProcessPid, activeDirectory, load, call, panicked, raced>>
      BY <1>1 DEF vars, memory
    <2>2. MemoryTypes' /\ DirectoryShape' /\ ProcessList' /\ LoadState' /\ CallState'
      BY <2>1 DEF SpaceInv, MemoryTypes, DirectoryShape, ProcessList, LoadState, CallState,
                  Booting, Indices, LoadPages
    <2>3. StackTables' /\ KernelEntries' /\ (~raced => TablesFresh' /\ FramesOnce')
      BY <2>1 DEF SpaceInv, StackTables, KernelEntries, OutOfFrames, TablesFresh, FramesOnce, Booting
    <2>4. ~raced => Heaps' /\ PagesAhead'
      BY <2>1 DEF SpaceInv, Heaps, PagesAhead, LoadAhead, RunAhead, Mapped, OutOfFrames, Indices,
                  LoadPages
    <2> QED
      BY <2>1, <2>2, <2>3, <2>4 DEF SpaceInv
  <1>2. CASE \E img \in DriverImages \cup ProcessImages : LoadBegin(img)
    BY <1>2, LoadBeginInv
  <1>3. CASE LoadFind \/ LoadMark \/ LoadTable \/ LoadMap \/ LoadCopy \/ LoadEnd
    BY <1>3, LoadFindInv, LoadMarkInv, LoadTableInv, LoadMapInv, LoadCopyInv, LoadEndInv
  <1>4. CASE RunBegin \/ RunPage \/ RunEnd
    BY <1>4, RunBeginInv, RunPageInv, RunEndInv
  <1>5. CASE (\E pages \in MmapSizes : MmapBegin(pages)) \/ MmapPage \/ MmapEnd
    BY <1>5, MmapBeginInv, MmapPageInv, MmapEndInv
  <1>6. CASE \E i \in {1, 2} : CtxtSwitch(i)
    BY <1>6, CtxtSwitchInv
  <1> QED
    BY <1>1, <1>2, <1>3, <1>4, <1>5, <1>6 DEF Next

\* The inductive invariant holds in every reachable state, for every amount of
\* memory, every size of the pools, every set of images and of Mmap sizes.
THEOREM SpaceInvariant == Spec => []SpaceInv
  BY SpaceInitInv, SpaceNextInv, PTL DEF Spec

\* No two page table entries hold the same frame, unless the loader's windows
\* in allocFrame or mapPageIn were hit.
THEOREM FramesArePrivate == Spec => []FramePrivate
  <1>1. SpaceInv => FramePrivate
    BY DEF SpaceInv, FramesOnce, FramePrivate
  <1> QED
    BY <1>1, SpaceInvariant, PTL

\* mapPageIn never maps a page for a second process: a table of the pool hangs
\* in one directory entry only, the stack table that is handed down excepted.
THEOREM TablesArePrivate == Spec => []TablePrivate
  <1>1. SpaceInv => TablePrivate
    BY DEF SpaceInv, TablesFresh, TablePrivate
  <1> QED
    BY <1>1, SpaceInvariant, PTL

\* The kernel's own frames are never mapped for a process, raced or not, except
\* frame 0 in sched's stack when run finds memory full.
THEOREM KernelFramesAreSafe == Spec => []KernelFramesUntouched
  <1>1. SpaceInv => KernelFramesUntouched
    <2> SUFFICES ASSUME SpaceInv, NEW d \in Dir, NEW p \in Pde, NEW s \in Slot,
                        directories[d][p] \in Table,
                        pageTables[directories[d][p]][s] \in 0 .. KernelFrames - 1
                 PROVE  p = StackPde /\ pageTables[directories[d][p]][s] = NullFrame /\ OutOfFrames
      BY DEF KernelFramesUntouched
    <2>1. /\ pageTables[directories[d][p]][s] = NullFrame /\ OutOfFrames
          /\ \E e \in Dir : directories[e][StackPde] = directories[d][p]
      BY DEF SpaceInv, KernelEntries
    <2>2. p = StackPde
      BY <2>1 DEF SpaceInv, StackTables
    <2> QED
      BY <2>1, <2>2
  <1> QED
    BY <1>1, SpaceInvariant, PTL

\* What Mmap returned stays backed, also when a later call ran out of frames.
THEOREM HeapsAreBacked == Spec => []HeapBacked
  <1>1. SpaceInv => HeapBacked
    <2> SUFFICES ASSUME SpaceInv, ~raced, NEW i \in Indices,
                        NEW v \in HeapBase .. processes[i].heapBrk - 1
                 PROVE  Mapped(processes[i].dir, v)
      BY DEF HeapBacked, Mapped, Indices
    <2>1. v \in HeapBase .. HeapLimit /\ v < processes[i].heapBrk
      <3>1. processes[i].heapBrk \in {HeapBase} \cup HeapBase .. HeapLimit
        BY DEF SpaceInv, ProcessList
      <3> QED
        BY <3>1, Constants
    <2> QED
      BY <2>1 DEF SpaceInv, Heaps
  <1> QED
    BY <1>1, SpaceInvariant, PTL

\* When load switches into the address space it builds, its caller's stack is
\* mapped there as it is in the caller's own directory.
THEOREM CallerStackIsValid == Spec => []CallerStackValid
  <1>1. SpaceInv => CallerStackValid
    <2> SUFFICES ASSUME SpaceInv, load.phase # "idle"
                 PROVE  directories[load.dir][StackPde] =
                          directories[IF load.by = 0 THEN 0
                                      ELSE processes[ProcAt(load.by)].dir][StackPde]
      BY DEF CallerStackValid
    <2>1. CASE load.by = 0 /\ directories[load.dir][StackPde] = directories[0][StackPde]
      BY <2>1
    <2>2. ASSUME NEW i \in Indices, processes[i].pid = load.by,
                 directories[load.dir][StackPde] = directories[processes[i].dir][StackPde]
          PROVE  /\ load.by # 0
                 /\ directories[load.dir][StackPde] =
                       directories[processes[ProcAt(load.by)].dir][StackPde]
      <3>1. ProcessList /\ processes[i].pid \in Nat \ {0}
        BY ProcessEntries DEF SpaceInv
      <3>2. i = ProcAt(load.by)
        BY <2>2, <3>1, ProcAtFinds
      <3> QED
        BY <2>2, <3>1, <3>2
    <2> QED
      BY <2>1, <2>2 DEF SpaceInv, LoadState
  <1> QED
    BY <1>1, SpaceInvariant, PTL

\* Mapping a page that is not mapped changes no entry that holds a frame.
LEMMA MapKeeps ==
  ASSUME MemoryTypes, TablesFresh, NEW d \in Dir, NEW v, UserPage(v), NEW f \in Frame,
         MapFresh(d, v, f), ~Mapped(d, v)
  PROVE  \A t \in Table, s \in Slot : PageKeepsFrame(t, s)
  <1>1. CASE MapInto(d, v, f)
    <2>1. \A t \in Table, s \in Slot :
             pageTables'[t][s] = IF t = directories[d][PdeOf(v)] /\ s = SlotOf(v)
                                 THEN f ELSE pageTables[t][s]
      BY <1>1, MapEntries
    <2> QED
      BY <2>1 DEF Mapped, PageKeepsFrame
  <1>2. CASE nextPageTable \in Table /\ MapWithTable(d, v, f, nextPageTable)
    <2>1. \A u \in Table, s \in Slot : u # nextPageTable => pageTables'[u][s] = pageTables[u][s]
      BY <1>2, MapTableEntries
    <2>2. \A s \in Slot : pageTables[nextPageTable][s] = NoFrame
      BY <1>2 DEF TablesFresh, Table
    <2> QED
      BY <2>1, <2>2 DEF PageKeepsFrame
  <1> QED
    BY <1>1, <1>2 DEF MapFresh

\* Nothing is ever unmapped or remapped under a process: an entry that holds a
\* frame keeps it, whatever the loader, run or Mmap map next.
THEOREM MappedPagesAreKept == Spec => PagesKept
  <1> DEFINE Kept == raced' \/ \A t \in Table, s \in Slot : PageKeepsFrame(t, s)
  <1>1. SpaceInv /\ [Next]_vars => [Kept]_vars
    <2> SUFFICES ASSUME SpaceInv, Next, ~raced' PROVE \A t \in Table, s \in Slot : PageKeepsFrame(t, s)
      OBVIOUS
    <2>1. CASE UNCHANGED pageTables
      BY <2>1 DEF PageKeepsFrame
    <2>2. MemoryTypes /\ DirectoryShape /\ ProcessList
      BY DEF SpaceInv
    <2>3. CASE LoadMap
      <3>1. PICK d : d = load.dir
        OBVIOUS
      <3>2. PICK v : v = Head(load.todo)
        OBVIOUS
      <3>3. /\ load.phase = "map" /\ load \in LoadRecord /\ d \in Dir /\ load.frame \in Frame
            /\ load.todo \in Seq(Nat) /\ load.todo # <<>>
        <4>1. load.phase = "map"
          BY <2>3 DEF LoadMap, Loading
        <4>2. load \in LoadRecord /\ load.frame \in KernelFrames .. TotalFrames - 1 /\ load.todo # <<>>
          BY <4>1 DEF SpaceInv, LoadState
        <4> QED
          BY <3>1, <4>1, <4>2, Constants DEF LoadRecord, Frame
      <3>4. ~raced /\ MapFresh(d, v, load.frame)
        BY <2>3, <3>1, <3>2, <3>3 DEF LoadMap, LoadRecord, MapFresh
      <3>5. v \in LoadPages
        BY <3>2, <3>3, NextPage DEF LoadPages
      <3>6. UserPage(v) /\ ~Mapped(d, v) /\ TablesFresh
        BY <3>1, <3>3, <3>4, <3>5 DEF SpaceInv, LoadState, PagesAhead, LoadAhead, ImagePage
      <3> QED
        BY <2>2, <3>3, <3>4, <3>6, MapKeeps
    <2>4. CASE RunPage
      <3>1. PICK d : d = processes[call.pages].dir
        OBVIOUS
      <3>2. PICK v : v = call.at
        OBVIOUS
      <3>3. PICK f \in Frame : MapPageIn(d, v, f)
        BY <2>4, <3>1, <3>2 DEF RunPage
      <3>4. call.kind = "run" /\ call.todo > 0 /\ ~panicked /\ ~raced
        BY <2>4 DEF RunPage
      <3>5. call.pages \in Indices /\ call \in CallRecord /\ call.todo <= StackPages
            /\ call.at = StackBegin - StackPages + call.todo
        BY <3>4 DEF SpaceInv, CallState
      <3>6. v \in StackBegin - StackPages + 1 .. call.at /\ v \in StackBegin - StackPages + 1 .. StackBegin
        BY <3>2, <3>4, <3>5, Constants DEF CallRecord
      <3>7. d \in Dir /\ UserPage(v)
        BY <2>2, <3>1, <3>5, <3>6, ProcessEntries, HeapPages
      <3>8. ~Mapped(d, v) /\ TablesFresh
        BY <3>1, <3>4, <3>6 DEF SpaceInv, PagesAhead, RunAhead
      <3>9. UNCHANGED pageTables \/ MapFresh(d, v, f)
        BY <2>2, <3>3, <3>4, <3>7, MapPageInCases
      <3> QED
        BY <2>1, <2>2, <3>7, <3>8, <3>9, MapKeeps
    <2>5. CASE MmapPage
      <3>1. PICK k : k = ProcAt(activeProcessPid)
        OBVIOUS
      <3>2. PICK v : v = call.at
        OBVIOUS
      <3>3. call.kind = "mmap" /\ call.todo > 0 /\ ~panicked /\ ~raced /\ ~Booting
        BY <2>5 DEF MmapPage, SpaceInv, CallState
      <3>4. k \in Indices /\ processes[k].pid = activeProcessPid
        BY <2>2, <3>1, <3>3, ProcAtFinds DEF ProcessList
      <3>5. processes[k].dir \in Dir /\ processes[k].heapBrk \in Nat
            /\ processes[k].heapBrk >= HeapBase
        BY <2>2, <3>4, ProcessEntries, Constants DEF ProcessList
      <3>6. /\ call \in CallRecord /\ call.todo <= call.pages
            /\ processes[k].heapBrk + call.pages <= HeapLimit
            /\ call.at = processes[k].heapBrk + call.pages - call.todo
        BY <3>3, <3>4 DEF SpaceInv, CallState
      <3>7. v \in HeapBase .. HeapLimit /\ UserPage(v) /\ v >= call.at
        <4>1. v \in HeapBase .. HeapLimit /\ v >= call.at
          BY <3>2, <3>3, <3>5, <3>6, Constants DEF CallRecord
        <4> QED
          BY <4>1, HeapPages DEF ImagePage
      <3>8. ASSUME NEW f \in Frame, FirstFree(f), MapPageIn(processes[k].dir, v, f)
            PROVE  \A t \in Table, s \in Slot : PageKeepsFrame(t, s)
        <4>1. ~OutOfFrames
          BY <2>2, <3>8, FreeFrame
        <4>2. ~Mapped(processes[k].dir, v) /\ TablesFresh
          BY <3>3, <3>4, <3>7, <4>1 DEF SpaceInv, Heaps
        <4>3. UNCHANGED pageTables \/ MapFresh(processes[k].dir, v, f)
          BY <2>2, <3>3, <3>5, <3>7, <3>8, MapPageInCases
        <4> QED
          BY <2>1, <2>2, <3>5, <3>7, <4>2, <4>3, MapKeeps
      <3>9. CASE MmapGivesUp
        BY <2>1, <3>9 DEF MmapGivesUp, memory
      <3> QED
        BY <2>5, <3>1, <3>2, <3>8, <3>9 DEF MmapPage
    <2>6. ASSUME NEW img \in DriverImages \cup ProcessImages, LoadBegin(img) PROVE UNCHANGED pageTables
      BY <2>6 DEF LoadBegin
    <2>7. LoadFind \/ LoadMark \/ LoadTable \/ LoadCopy \/ LoadEnd => UNCHANGED pageTables
      BY DEF LoadFind, LoadMark, LoadTable, LoadCopy, LoadEnd, memory
    <2>8. RunBegin \/ RunEnd \/ MmapEnd => UNCHANGED pageTables
      BY DEF RunBegin, RunEnd, MmapEnd, memory
    <2>9. ASSUME NEW pages \in MmapSizes, MmapBegin(pages) PROVE UNCHANGED pageTables
      BY <2>9 DEF MmapBegin, memory
    <2>10. ASSUME NEW i \in {1, 2}, CtxtSwitch(i) PROVE UNCHANGED pageTables
      BY <2>10 DEF CtxtSwitch, memory
    <2> QED
      BY <2>1, <2>3, <2>4, <2>5, <2>6, <2>7, <2>8, <2>9, <2>10 DEF Next
  <1> QED
    BY <1>1, SpaceInvariant, PTL DEF Spec, PagesKept

=============================================================================
