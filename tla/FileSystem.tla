------------------------------ MODULE FileSystem ------------------------------
(***************************************************************************)
(* The file layer (src/drivers/fs/fs.hpp) with the drivers behind it       *)
(* (dev, virtkrn, boot, and what it sees of FAT32 and ext2), the file      *)
(* system calls, the keyboard handler and ElfExecutable::fromFile.         *)
(*                                                                         *)
(* System calls and the keyboard handler run with interrupts masked: one   *)
(* step each.  The loader runs in sched's context with interrupts enabled, *)
(* so its open is cut where another actor can get in: between the load and *)
(* the store of latestFd, between the driver's open and the look at        *)
(* fdMapping, and between reading the length of fdMapping and storing the  *)
(* new entry and the new length.                                           *)
(*                                                                         *)
(* fs is the state of the layer as one record, and the operations map such *)
(* a record to the next, so that a handler is their composition.           *)
(* fdMapping is the array of a Map: the first len elements of arr are its  *)
(* entries, the rest is what earlier entries left in memory.               *)
(***************************************************************************)
EXTENDS Integers, Sequences, FiniteSets

CONSTANTS
    Procs,          \* processes that make file calls
    Paths,          \* the paths they open, as records: see PathType
    LoaderPaths,    \* the paths sched asks the loader for
    Disks,          \* for each disk, the root drivers that find their magic on it
    MaxOpens,       \* bound on calls of open
    MaxCopies,      \* bound on writes to stdout
    StdinSize       \* 4096

VARIABLES
    fs,         \* mountpoints, latestFd, fdMapping, heap blocks, stdin
    holds,      \* history: [who, fd, path] for descriptors returned and not closed
    loader,     \* where ElfExecutable::fromFile is, and its locals
    raced,      \* history: the loader used something that changed since it read it
    halted      \* kpanic was called

vars == <<fs, holds, loader, raced, halted>>

\* The mount points' keys: strlen and getFolderNestage of each.
MpKeys == {"/", "/dev/", "/boot/", "/krn/virt/"}
KeyLen == [k \in MpKeys |-> CASE k = "/" -> 1 [] k = "/dev/" -> 5
                              [] k = "/boot/" -> 6 [] k = "/krn/virt/" -> 10]
Nestage == [k \in MpKeys |-> CASE k = "/" -> 1 [] k = "/krn/virt/" -> 3 [] OTHER -> 2]

\* The names the drivers know, and one that none of them knows.
Names == {"stdin", "stdout", "stdlog", "func.rap", "sector", "file", "nothing"}

\* A path: the keys it begins with, its length, and what follows the deepest
\* key.  A path that begins with no key is one that does not start with '/'; beside
\* "/" it can begin with one key only.
PathType == [under : {{}, {"/"}} \cup {{"/", k} : k \in MpKeys}, len : Nat, rest : Names]

ASSUME FsAssumption ==
    /\ StdinSize \in Nat /\ StdinSize >= 2
    /\ MaxOpens \in Nat /\ MaxCopies \in Nat
    /\ Paths \subseteq PathType /\ LoaderPaths \subseteq Paths
    /\ Disks \subseteq SUBSET {"ext2", "fat32"}
    /\ "loader" \notin Procs

\* "/dev/stdin", "/dev/stdout": what the keyboard handler opens.
DevStdin == [under |-> {"/", "/dev/"}, len |-> 10, rest |-> "stdin"]
DevStdout == [under |-> {"/", "/dev/"}, len |-> 11, rest |-> "stdout"]

\* The mount points FileSystem::init is left with, in the order it registers
\* the candidates: a root driver is one only if it finds its magic on the disk.
Mounted(roots) ==
    LET Root(drv) == IF drv \in roots THEN <<[k |-> "/", drv |-> drv]>> ELSE <<>>
    IN  Root("ext2") \o <<[k |-> "/dev/", drv |-> "dev"]>> \o Root("fat32")
        \o <<[k |-> "/boot/", drv |-> "boot"], [k |-> "/krn/virt/", drv |-> "virtkrn"]>>

DevFiles == {"stdin", "stdout", "stdlog"}
Nul == "nul"            \* the byte 0
NoFd == 0

Entries(f) == SubSeq(f.arr, 1, f.len)
Keys(f) == {f.arr[i].fd : i \in 1 .. f.len}
Put(arr, i, e) == IF i > Len(arr) THEN Append(arr, e) ELSE [arr EXCEPT ![i] = e]

-----------------------------------------------------------------------------
\* Operations on the layer's state.

\* mountPointMatches compares only when the path is at least as long as the
\* key: a shorter path matches every longer key.
Matches(k, p) == k \in p.under \/ p.len < KeyLen[k]

\* Mutant of Route: the first mount point that matches wins.
Route_First(f, p) == CHOOSE i \in 1 .. Len(f.mounts) :
    /\ Matches(f.mounts[i].k, p)
    /\ \A j \in 1 .. i - 1 : ~Matches(f.mounts[j].k, p)

\* The mount point open chooses: of those that match the ones nested deepest,
\* of these the last (lastMpLen stays 0, so an equal one replaces).
Route(f, p) == CHOOSE i \in 1 .. Len(f.mounts) :
    /\ Matches(f.mounts[i].k, p)
    /\ \A j \in 1 .. Len(f.mounts) :
           Matches(f.mounts[j].k, p) =>
               \/ Nestage[f.mounts[j].k] < Nestage[f.mounts[i].k]
               \/ Nestage[f.mounts[j].k] = Nestage[f.mounts[i].k] /\ j <= i

\* What a driver's open can return: whether the file exists, and how many heap
\* blocks its fsData stands for (Garbage: fsData is not set).  A driver skips the
\* length of its key, so with a shorter path it compares whatever follows the
\* path in memory.
Garbage == -1
Knows(k, p, names) == IF p.len < KeyLen[k] THEN BOOLEAN ELSE {p.rest \in names}

DevOpen(p) ==
    {[exists |-> e, data |-> 2] : e \in Knows("/dev/", p, DevFiles)}
VirtKrnOpen(p) ==
    {[exists |-> e, data |-> IF e THEN 2 ELSE Garbage] : e \in Knows("/krn/virt/", p, {"func.rap"})}
BootOpen(p) ==
    {[exists |-> e, data |-> IF e THEN 1 ELSE Garbage] : e \in Knows("/boot/", p, {"sector"})}
Fat32Open(p) == {[exists |-> p.rest = "file", data |-> 1]}
\* ext2 reads the block groups and returns a File it never wrote.
Ext2Open(p) == {[exists |-> e, data |-> Garbage] : e \in BOOLEAN}

DriverOpen(drv, p) ==
    CASE drv = "dev" -> DevOpen(p) [] drv = "virtkrn" -> VirtKrnOpen(p)
      [] drv = "boot" -> BootOpen(p) [] drv = "fat32" -> Fat32Open(p)
      [] drv = "ext2" -> Ext2Open(p)

Blocks(d) == IF d = Garbage THEN 0 ELSE d

\* open up to the driver: the MountPoint block is allocated in any case; a
\* path without '/', or no mount point, ends the call.
NoRoute(f, p) == p.under = {} \/ f.mounts = <<>>
Opened(f, fd, p) ==
    LET mp == f.mounts[Route(f, p)]
    IN  {[fd |-> fd, drv |-> mp.drv, path |-> p, exists |-> r.exists, data |-> r.data] :
             r \in DriverOpen(mp.drv, p)}

\* The end of open: fdMapping[currentFd] = added assigns to the copy that
\* Expected points to, so an entry that is there stays as it is.
Enter(f, e) ==
    IF e.fd \in Keys(f) THEN f
    ELSE [f EXCEPT !.arr = Put(f.arr, f.len + 1, e), !.len = f.len + 1]

\* FileSystem::open as a whole: the possible next states with the result.
Open(f, p) ==
    LET g == [f EXCEPT !.latestFd = f.latestFd + 1, !.blocks = f.blocks + 1,
                       !.opens = f.opens + 1]
    IN  IF NoRoute(f, p) THEN {[f |-> g, fd |-> NoFd]}
        ELSE {[f |-> Enter([g EXCEPT !.blocks = @ + Blocks(e.data)], e),
               fd |-> IF e.exists THEN e.fd ELSE NoFd] : e \in Opened(f, f.latestFd, p)}

\* Map::operator[] and rmkey take the first entry with the key.
IndexOf(f, fd) == CHOOSE i \in 1 .. f.len :
    f.arr[i].fd = fd /\ \A j \in 1 .. i - 1 : f.arr[j].fd # fd

\* Mutants of Close: the name block is not freed; the last entry goes instead.
Close_OneBlock(f, fd) ==
    LET i == IndexOf(f, fd)
    IN  [f EXCEPT !.blocks = @ - (IF f.arr[i].data > 0 THEN 1 ELSE 0),
                  !.arr = [j \in DOMAIN f.arr |->
                              IF j \in i .. f.len - 1 THEN f.arr[j + 1] ELSE f.arr[j]],
                  !.len = @ - 1]
Close_PopBack(f, fd) ==
    [f EXCEPT !.blocks = @ - Blocks(f.arr[IndexOf(f, fd)].data), !.len = @ - 1]

\* FileSystem::close of a descriptor that is in fdMapping.  dev and virtkrn free
\* the name and fsData, boot and FAT32 fsData; ext2 frees what it never set.
Close(f, fd) ==
    LET i == IndexOf(f, fd)
    IN  [f EXCEPT !.blocks = @ - Blocks(f.arr[i].data),
                  !.arr = [j \in DOMAIN f.arr |->
                              IF j \in i .. f.len - 1 THEN f.arr[j + 1] ELSE f.arr[j]],
                  !.len = @ - 1]

\* Mutant of StdinWrite: the buffer is used to its last byte.
StdinWrite_Full(f, c) ==
    LET full == f.cursor >= StdinSize
        buf  == IF full THEN [i \in 0 .. StdinSize - 1 |-> Nul] ELSE f.stdin
        at   == IF full THEN 0 ELSE f.cursor
    IN  [f EXCEPT !.stdin = [buf EXCEPT ![at] = c], !.cursor = at + 1]

\* StdinDevSubDriver::write of one character.
StdinWrite(f, c) ==
    LET full == f.cursor + 1 >= StdinSize
        buf  == IF full THEN [i \in 0 .. StdinSize - 1 |-> Nul] ELSE f.stdin
        at   == IF full THEN 0 ELSE f.cursor
    IN  [f EXCEPT !.stdin = [buf EXCEPT ![at] = c], !.cursor = at + 1]

\* StdoutDevSubDriver::write prints, and leaves a copy for the log on the heap.
StdoutWrite(f) == [f EXCEPT !.blocks = @ + 1, !.copies = @ + 1]

\* What a driver's write does to the layer: only dev has state here.
DevWrite(f, rest, c) ==
    CASE rest = "stdin" -> StdinWrite(f, c) [] rest = "stdout" -> StdoutWrite(f) [] OTHER -> f

\* FileSystem::write of one character: a missing descriptor is an error.
Write(f, fd, c) ==
    IF fd \notin Keys(f) THEN f
    ELSE LET e == f.arr[IndexOf(f, fd)]
         IN  IF e.drv = "dev" THEN DevWrite(f, e.path.rest, c) ELSE f

-----------------------------------------------------------------------------
\* The actions.

Init ==
    /\ fs = [mounts |-> <<>>, latestFd |-> 1, arr |-> <<>>, len |-> 0,
             blocks |-> 0, opens |-> 0, copies |-> 0,
             stdin |-> [i \in 0 .. StdinSize - 1 |-> Nul], cursor |-> 0]
    /\ holds = {}
    /\ loader = [pc |-> "idle", fd |-> NoFd, path |-> DevStdin, at |-> 0, seen |-> <<>>]
    /\ raced = FALSE
    /\ halted = FALSE

\* FileSystem::init, at boot: roots are the drivers that find their magic on the
\* disk.  Each mount point takes two blocks, besides the buffers of the drivers that
\* look at the drive (getPriority), which are not counted; without a root it panics.
FsInit(roots) ==
    /\ ~halted /\ fs.mounts = <<>> /\ fs.latestFd = 1 /\ loader.pc = "idle"
    /\ fs' = [fs EXCEPT !.mounts = Mounted(roots), !.blocks = 2 * Len(Mounted(roots))]
    /\ halted' = (roots = {})
    /\ UNCHANGED <<holds, loader, raced>>

\* System calls, from process p.  A process uses the descriptors that open
\* returned to it, descriptors that are closed already, and 0.
Stale == (1 .. fs.latestFd - 1) \ Keys(fs)
Own(p) == {h.fd : h \in {g \in holds : g.who = p}}

SysOpen(p, path) ==
    /\ ~halted /\ fs.opens < MaxOpens
    /\ \E r \in Open(fs, path) :
           /\ fs' = r.f
           /\ holds' = IF r.fd = NoFd THEN holds
                       ELSE holds \cup {[who |-> p, fd |-> r.fd, path |-> path]}
    /\ UNCHANGED <<loader, raced, halted>>

SysClose(p, fd) ==
    /\ ~halted
    /\ IF fd = NoFd \/ fd \notin Keys(fs)
       THEN halted' = (fd # NoFd) /\ UNCHANGED <<fs, holds>>
       ELSE /\ fs' = Close(fs, fd)
            /\ holds' = {h \in holds : ~(h.who = p /\ h.fd = fd)}
            /\ UNCHANGED halted
    /\ UNCHANGED <<loader, raced>>

\* read looks the descriptor up without asking whether it is there.
SysRead(p, fd) ==
    /\ ~halted
    /\ halted' = (fd # NoFd /\ fd \notin Keys(fs))
    /\ UNCHANGED <<fs, holds, loader, raced>>

SysWrite(p, fd, c) ==
    /\ ~halted
    /\ fs' = Write(fs, fd, c) /\ fs'.copies <= MaxCopies
    /\ UNCHANGED <<holds, loader, raced, halted>>

\* Mutants of KeyPress: stdin is not closed; stdin is closed twice.
KeyPress_NoClose(c) ==
    /\ ~halted /\ fs.opens + 1 < MaxOpens /\ fs.copies < MaxCopies
    /\ \E i \in Open(fs, DevStdin) :
           IF i.fd = NoFd THEN halted' = TRUE /\ fs' = i.f
           ELSE \E o \in Open(Write(i.f, i.fd, c), DevStdout) :
                    /\ fs' = Close(Write(o.f, o.fd, c), o.fd)
                    /\ UNCHANGED halted
    /\ UNCHANGED <<holds, loader, raced>>
KeyPress_Twice(c) ==
    /\ ~halted /\ fs.opens + 1 < MaxOpens /\ fs.copies < MaxCopies
    /\ \E i \in Open(fs, DevStdin) :
           IF i.fd = NoFd THEN halted' = TRUE /\ fs' = i.f
           ELSE \E o \in Open(Write(i.f, i.fd, c), DevStdout) :
                    fs' = Close(Write(o.f, o.fd, c), i.fd) /\ halted' = TRUE
    /\ UNCHANGED <<holds, loader, raced>>

\* keyboardHandler for a key that is a character (the branch for '\b' changes
\* only a copy of stdin, which it frees).  It is open, write, open, write, close,
\* close; close(stdout) looks up a descriptor of its own, or is given 0.
KeyPress(c) ==
    /\ ~halted /\ fs.opens + 1 < MaxOpens /\ fs.copies < MaxCopies
    /\ \E i \in Open(fs, DevStdin) :
           IF i.fd = NoFd THEN halted' = TRUE /\ fs' = i.f
           ELSE \E o \in Open(Write(i.f, i.fd, c), DevStdout) :
                    LET w == Write(o.f, o.fd, c)
                        s == IF o.fd = NoFd THEN w ELSE Close(w, o.fd)
                    IN  IF i.fd \in Keys(s)
                        THEN fs' = Close(s, i.fd) /\ UNCHANGED halted
                        ELSE fs' = s /\ halted' = TRUE
    /\ UNCHANGED <<holds, loader, raced>>

\* fromFile: open reads latestFd ...
LoadFd(path) ==
    /\ ~halted /\ loader.pc = "idle" /\ fs.opens < MaxOpens
    /\ loader' = [loader EXCEPT !.pc = "store", !.fd = fs.latestFd, !.path = path]
    /\ UNCHANGED <<fs, holds, raced, halted>>

\* ... and stores it, incremented.
LoadStore ==
    /\ ~halted /\ loader.pc = "store"
    /\ fs' = [fs EXCEPT !.latestFd = loader.fd + 1, !.blocks = @ + 1, !.opens = @ + 1]
    /\ raced' = (raced \/ fs.latestFd # loader.fd)
    /\ loader' = [loader EXCEPT !.pc = "open"]
    /\ UNCHANGED <<holds, halted>>

\* It opens the file with the driver, asks fdMapping for the descriptor, and
\* pushBack reads the length.
LoadOpen ==
    /\ ~halted /\ loader.pc = "open" /\ ~NoRoute(fs, loader.path)
    /\ \E e \in Opened(fs, loader.fd, loader.path) :
           /\ fs' = [fs EXCEPT !.blocks = @ + Blocks(e.data)]
           /\ loader' = [pc |-> IF e.fd \in Keys(fs) THEN "assign" ELSE "push", fd |-> e.fd,
                         path |-> e.path, at |-> fs.len, seen |-> <<e>> \o Entries(fs)]
    /\ UNCHANGED <<holds, raced, halted>>

\* open found no mount point: fromFile returns 1.
LoadNoRoute ==
    /\ ~halted /\ loader.pc = "open" /\ NoRoute(fs, loader.path)
    /\ loader' = [loader EXCEPT !.pc = "idle"]
    /\ UNCHANGED <<fs, holds, raced, halted>>

\* pushBack stores the entry and the length it computed.  What lies between the
\* length now and the slot is what the array held before.
LoadPush ==
    /\ ~halted /\ loader.pc = "push"
    /\ LET e == Head(loader.seen)
       IN  /\ fs' = [fs EXCEPT !.arr = Put(fs.arr, loader.at + 1, e), !.len = loader.at + 1]
           /\ raced' = (raced \/ Entries(fs) # Tail(loader.seen))
           /\ loader' = [loader EXCEPT !.pc = IF e.exists THEN "read" ELSE "idle",
                                       !.seen = <<>>]
           /\ holds' = IF e.exists
                       THEN holds \cup {[who |-> "loader", fd |-> e.fd, path |-> e.path]}
                       ELSE holds
    /\ UNCHANGED halted

\* The descriptor is there already: the assignment is lost, the descriptor is
\* returned nevertheless.
LoadAssign ==
    /\ ~halted /\ loader.pc = "assign"
    /\ LET e == Head(loader.seen)
       IN  /\ loader' = [loader EXCEPT !.pc = IF e.exists THEN "read" ELSE "idle",
                                       !.seen = <<>>]
           /\ holds' = IF e.exists
                       THEN holds \cup {[who |-> "loader", fd |-> e.fd, path |-> e.path]}
                       ELSE holds
    /\ UNCHANGED <<fs, raced, halted>>

\* fromFile reads the file and returns; it never closes the descriptor.
LoadRead ==
    /\ ~halted /\ loader.pc = "read"
    /\ halted' = (loader.fd \notin Keys(fs))
    /\ loader' = [loader EXCEPT !.pc = "idle"]
    /\ UNCHANGED <<fs, holds, raced>>

Calls(p) ==
    \/ \E path \in Paths : SysOpen(p, path)
    \/ \E fd \in Own(p) \cup Stale \cup {NoFd} :
           \/ SysClose(p, fd)
           \/ SysRead(p, fd)
           \/ SysWrite(p, fd, "a")

Load ==
    \/ \E path \in LoaderPaths : LoadFd(path)
    \/ LoadStore \/ LoadOpen \/ LoadNoRoute \/ LoadPush \/ LoadAssign \/ LoadRead

Next ==
    \/ \E roots \in Disks : FsInit(roots)
    \/ \E p \in Procs : Calls(p)
    \/ KeyPress("a")
    \/ Load

Spec == Init /\ [][Next]_vars

-----------------------------------------------------------------------------
\* Properties.

\* The descriptors callers hold and the entries of fdMapping that exist match
\* one to one, and each leads to the file its holder opened.  Only the loader's
\* windows (raced) break it: a descriptor is then given out twice, and reads,
\* writes and the close of one holder go to the other's file.
DescriptorsMatch ==
    ~raced =>
        /\ \A i, j \in 1 .. fs.len : fs.arr[i].fd = fs.arr[j].fd => i = j
        /\ \A h \in holds : \E i \in 1 .. fs.len :
               fs.arr[i].fd = h.fd /\ fs.arr[i].path = h.path /\ fs.arr[i].exists
        /\ \A i \in 1 .. fs.len :
               fs.arr[i].exists => \E h \in holds : h.fd = fs.arr[i].fd
        /\ \A g, h \in holds : g.fd = h.fd => g = h

\* What stays on the heap is exactly: two blocks per mount point, the MountPoint
\* of every call of open, a copy of every write to stdout, and the fsData of the
\* entries, those of failed opens included: nobody got a descriptor for these.
\* An entry's fsData is no block, one or two.
BlocksAccounted ==
    LET inFlight == IF loader.pc = "push" THEN Blocks(Head(loader.seen).data) ELSE 0
        WithBlocks(n) == Cardinality({i \in 1 .. fs.len : Blocks(fs.arr[i].data) >= n})
    IN  ~raced =>
            fs.blocks = 2 * Len(fs.mounts) + fs.opens + fs.copies + inFlight
                        + WithBlocks(1) + WithBlocks(2)

\* A path as long as the longest key reaches the driver of the deepest mount
\* point it lies under, and of two roots the one mounted last.  A shorter path
\* matches keys it does not begin with, and is not covered.
Routed ==
    \A i \in 1 .. fs.len :
        LET e == fs.arr[i]
            below == {j \in 1 .. Len(fs.mounts) : fs.mounts[j].k \in e.path.under}
        IN  e.path.len >= KeyLen["/krn/virt/"] =>
                \E j \in below :
                    /\ fs.mounts[j].drv = e.drv
                    /\ \A m \in below :
                           \/ KeyLen[fs.mounts[m].k] < KeyLen[fs.mounts[j].k]
                           \/ fs.mounts[m].k = fs.mounts[j].k /\ m <= j

\* A read of all of stdin is a terminated string, however many keys were hit:
\* the handler's strlen on its copy, and every reader, relies on it.
StdinTerminated == fs.stdin[StdinSize - 1] = Nul

\* A key press leaves the open files as they are, also when it arrives in the
\* middle of the loader's open.
KeyLeavesDescriptors ==
    [][(~raced /\ fs'.opens = fs.opens + 2) => Entries(fs') = Entries(fs)]_vars

\* With the file system mounted, the only way into kpanic is a process that reads
\* or closes a descriptor that is closed already: neither the keyboard handler
\* nor the loader ends there, unless a descriptor was given out twice.
PanicsOnlyOnStale ==
    [][(halted' /\ ~halted /\ ~raced /\ fs.mounts # <<>>) =>
           \E p \in Procs, fd \in Stale : SysClose(p, fd) \/ SysRead(p, fd)]_vars
=============================================================================
