--------------------------------- MODULE Disk ---------------------------------
(***************************************************************************)
(* The ATA PIO driver behind Storage (src/drivers/storage), and the two    *)
(* file systems that use it: FAT32 (src/drivers/fs/FAT32) on the drive     *)
(* Storage selected at boot, and the boot file system (src/drivers/fs/boot)*)
(* that reaches the other drive by switching Storage over and back.        *)
(*                                                                         *)
(* The loader calls FAT32 with interrupts enabled; a process does so in a  *)
(* system call, with interrupts masked: once its call has begun nobody     *)
(* else moves.  A transfer of a sector is three steps: the registers are   *)
(* written, the command is given, the data is moved.                       *)
(*                                                                         *)
(* A sector is two cells of 256 bytes, and a cell is one FAT entry, one    *)
(* directory entry or one piece of data.  Sizes and lengths count cells.   *)
(***************************************************************************)
EXTENDS Integers, Sequences, FiniteSets, SequencesExt, FiniteSetsExt

CONSTANTS
    Procs,          \* processes that make file calls
    Machines,       \* the contents of the two drives a machine may have
    Paths,          \* what is opened on FAT32: sequences of components
    ReadLens,       \* lengths given to read
    WriteLens,      \* lengths given to write, even
    BaseMax,        \* 8
    ExtMax,         \* 3
    MaxOpens,       \* bound on opened files
    MaxWrites,      \* bound on writes to the boot drive
    MaxChain        \* clusters of a directory that the reference looks at

ASSUME DiskAssumption ==
    /\ MaxOpens \in Nat /\ MaxWrites \in Nat /\ MaxChain \in Nat
    /\ BaseMax \in Nat \ {0} /\ ExtMax \in Nat
    /\ ReadLens \subseteq Nat /\ WriteLens \subseteq {2 * n : n \in 1 .. 4}
    /\ IsFiniteSet(Procs) /\ "loader" \notin Procs
    /\ \A x \in Machines : DOMAIN x = {"master", "slave"}
    /\ \A p \in Paths : p \in Seq({p[i] : i \in DOMAIN p})

VARIABLES
    disk,           \* the sectors of each drive; <<>> is a drive that is not there
    driveSelect,    \* AtaPioStorageDriver::driveSelect
    ata,            \* the controller: drive and sector in its registers, data pending
    volume,         \* Fat32::bootSector and dataRegionStart
    call,           \* per actor, the call it is in
    file,           \* per actor, the File it holds and what read last gave it
    heap,           \* blocks allocated, opens and writes so far
    mixed,          \* history: another actor used the controller during a transfer
    halted          \* kpanic was called

vars == <<disk, driveSelect, ata, volume, call, file, heap, mixed, halted>>

Actors == Procs \cup {"loader"}
Eoc == 99           \* an entry >= 0x0FFFFFF8
NoVolume == [data |-> 0, reserved |-> 0, spc |-> 0, root |-> 0]
NoFile == [fs |-> "none", exists |-> FALSE, path |-> <<>>, cluster |-> 0,
           dir |-> FALSE, size |-> 0, len |-> 0, got |-> <<>>, done |-> FALSE]
Idle == [op |-> "idle", io |-> "ready", phase |-> "", want |-> 0, path |-> <<>>,
         rest |-> <<>>, cluster |-> 0, buf |-> <<>>, out |-> <<>>, left |-> 0]

\* The kinds of cells: the two halves of a boot sector, a directory entry
\* (attr "end" is a name that starts with 0, "deleted" one with 0xE5, "lfn" the
\* attributes of a long name), a FAT entry, data.
Label(name) == [k |-> "label", name |-> name]
Bpb(reserved, fats, fatSize, spc, root) ==
    [k |-> "bpb", reserved |-> reserved, fats |-> fats, fatSize |-> fatSize,
     spc |-> spc, root |-> root]
DirEntry(name, attr, cluster, size) ==
    [k |-> "entry", name |-> name, attr |-> attr, cluster |-> cluster, size |-> size]
FatEntry(next) == [k |-> "next", next |-> next]
Data(v) == [k |-> "data", v |-> v]

\* A drive that is there has sectors of two cells, the first of them a boot
\* sector, and that of a FAT32 volume does not have clusters of no sectors.
ASSUME VolumeAssumption ==
    \A x \in Machines : \A d \in DOMAIN x : x[d] # <<>> =>
        /\ 0 \in DOMAIN x[d] /\ DOMAIN x[d] \subseteq Nat
        /\ \A s \in DOMAIN x[d] : x[d][s] = <<x[d][s][1], x[d][s][2]>>
        /\ x[d][0][1] = Label("fat32") => x[d][0][2].spc \in Nat \ {0}

-----------------------------------------------------------------------------
\* FAT32's arithmetic on volume v: a cluster's first sector, and where its FAT
\* entry is.
ClusterToSector(v, c) == v.data + (c - 2) * v.spc
ClusterSize(v) == 2 * v.spc
FatSector(v, c) == v.reserved + c \div 2
FatCell(sector, c) == sector[(c % 2) + 1].next
Ends(next) == next >= Eoc

\* makeFatName: what is in front of the first dot and what is behind it, in upper
\* case; an empty or a long name has no FAT name.
Upper(s) == [i \in DOMAIN s |-> CASE s[i] = "a" -> "A" [] s[i] = "b" -> "B" [] OTHER -> s[i]]
NoName == <<>>
FatName(n) ==
    LET dots == {i \in DOMAIN n : n[i] = "."}
        base == IF dots = {} THEN n ELSE SubSeq(n, 1, Min(dots) - 1)
        ext  == IF dots = {} THEN <<>> ELSE SubSeq(n, Min(dots) + 1, Len(n))
    IN  IF Len(base) \in 1 .. BaseMax /\ Len(ext) <= ExtMax
        THEN <<Upper(base), Upper(ext)>> ELSE NoName

\* findDirEntryInDir over the entries of one cluster: where the loop leaves it,
\* at the entry that ends the directory or at the one that is looked for; 0 when
\* it comes to the end of the cluster.  A volume label is an entry like any other.
\* Mutant of Scan: deleted entries are compared as well.
Scan_Deleted(entries, name) ==
    LET stops == {i \in DOMAIN entries :
                     \/ entries[i].attr = "end"
                     \/ entries[i].attr # "lfn" /\ Upper(entries[i].name[1]) = name[1]
                        /\ Upper(entries[i].name[2]) = name[2]}
    IN  IF stops = {} THEN 0 ELSE Min(stops)
Scan(entries, name) ==
    LET stops == {i \in DOMAIN entries :
                     \/ entries[i].attr = "end"
                     \/ /\ entries[i].attr \notin {"deleted", "lfn"}
                        /\ Upper(entries[i].name[1]) = name[1]
                        /\ Upper(entries[i].name[2]) = name[2]}
    IN  IF stops = {} THEN 0 ELSE Min(stops)

-----------------------------------------------------------------------------
\* Boot.

Init ==
    /\ disk \in Machines
    /\ driveSelect = "master" /\ volume = NoVolume
    /\ ata = [drive |-> "master", sector |-> 0, drq |-> FALSE]
    /\ call = [a \in Actors |-> Idle] /\ file = [a \in Actors |-> NoFile]
    /\ heap = [blocks |-> 0, opens |-> 0, lost |-> 0, writes |-> 0]
    /\ mixed = [a \in Actors |-> FALSE]
    /\ halted = FALSE

\* Storage::init: the ATA driver wins, and its init leaves a drive with RivBoot
\* on it for the other one.  It frees buf + 1, so its block is never free again.
AtaInit == driveSelect' = IF disk["master"][0][1] = Label("RivBoot") THEN "slave" ELSE "master"
StorageInit ==
    /\ ~halted /\ heap.blocks = 0
    /\ IF disk["master"] = <<>> THEN halted' = TRUE /\ UNCHANGED <<driveSelect, heap>>
       ELSE /\ AtaInit
            /\ heap' = [heap EXCEPT !.blocks = 1]
            /\ UNCHANGED halted
    /\ UNCHANGED <<disk, ata, volume, call, file, mixed>>

\* Fat32::getPriority and init, when FAT32 is mounted: the boot sector is kept.
FatMount ==
    /\ ~halted /\ heap.blocks = 1 /\ volume = NoVolume
    /\ IF disk[driveSelect] = <<>> THEN halted' = TRUE /\ UNCHANGED <<volume, heap>>
       ELSE LET b == disk[driveSelect][0]
            IN  /\ b[1] = Label("fat32")
                /\ volume' = [data |-> b[2].reserved + b[2].fats * b[2].fatSize,
                              reserved |-> b[2].reserved, spc |-> b[2].spc, root |-> b[2].root]
                /\ heap' = [heap EXCEPT !.blocks = @ + 1]
                /\ UNCHANGED halted
    /\ UNCHANGED <<disk, driveSelect, ata, call, file, mixed>>

-----------------------------------------------------------------------------
\* Who may move: with a process in a call interrupts are masked.
Masked == {p \in Procs : call[p].op # "idle"}
Runs(a) == ~halted /\ (Masked = {} \/ a \in Masked)
MayCall(a) == ~halted /\ Masked = {} /\ call[a].op = "idle" /\ volume # NoVolume

Other(d) == IF d = "master" THEN "slave" ELSE "master"
SelectNextDrive == driveSelect' = Other(driveSelect)

\* Next frames of a call: fetch a cluster from its first sector, or the FAT
\* sector that holds the cluster's entry.
Fetch(f, c) == [f EXCEPT !.phase = "cluster", !.cluster = c, !.buf = <<>>, !.io = "ready",
                         !.want = ClusterToSector(volume, c)]
FetchFat(f) == [f EXCEPT !.phase = "fat", !.want = FatSector(volume, f.cluster), !.io = "ready"]

\* findDirEntryInDir of the next component in directory cluster c: with a name
\* FAT cannot have it fails at once, else it takes a buffer.
Find(f, c) == IF FatName(Head(f.rest)) = NoName THEN Idle
              ELSE Fetch([f EXCEPT !.op = "open"], c)

\* The call of a ends; a failed open leaves its FileData on the heap.
OpenFails(a) ==
    file' = [file EXCEPT ![a] = [NoFile EXCEPT !.fs = "fat32", !.path = call[a].path, !.done = TRUE]]

\* A path of slashes only is the root directory.
IsRootPath(path) == path = <<>>

\* Fat32::open.  Its FileData is a block, taken before anything else.  The heap has
\* room for it and for the buffers.
FatOpen(a, path) ==
    LET f == IF IsRootPath(path) THEN Idle
             ELSE Find([Idle EXCEPT !.path = path, !.rest = path], volume.root)
    IN  /\ MayCall(a) /\ heap.opens < MaxOpens /\ ~file[a].exists
        /\ call' = [call EXCEPT ![a] = f]
        /\ file' = [file EXCEPT ![a] =
               [NoFile EXCEPT !.fs = "fat32", !.path = path, !.done = f = Idle,
                              !.exists = IsRootPath(path), !.dir = IsRootPath(path),
                              !.cluster = IF IsRootPath(path) THEN volume.root ELSE 0]]
        /\ heap' = [heap EXCEPT !.blocks = @ + (IF f = Idle THEN 1 ELSE 2),
                                !.opens = @ + 1,
                                !.lost = @ + (IF ~IsRootPath(path) /\ f = Idle THEN 1 ELSE 0)]
        /\ UNCHANGED <<disk, driveSelect, ata, volume, mixed, halted>>

\* Fat32::read: the buffer is taken even when nothing is to be read.
FatRead(a, len) ==
    LET n == Min({len, file[a].size})
    IN  /\ MayCall(a) /\ file[a].fs = "fat32" /\ file[a].exists
        /\ IF file[a].dir \/ n = 0
           THEN /\ file' = [file EXCEPT ![a].len = len, ![a].got = <<>>]
                /\ UNCHANGED <<call, heap>>
           ELSE /\ call' = [call EXCEPT ![a] =
                       Fetch([Idle EXCEPT !.op = "read", !.left = n], file[a].cluster)]
                /\ file' = [file EXCEPT ![a].len = len, ![a].got = <<>>, ![a].done = FALSE]
                /\ heap' = [heap EXCEPT !.blocks = @ + 1]
        /\ UNCHANGED <<disk, driveSelect, ata, volume, mixed, halted>>

\* BootFileSystem::open of "sector=n".
BootOpen(a, n) ==
    /\ MayCall(a) /\ heap.opens < MaxOpens /\ ~file[a].exists
    /\ file' = [file EXCEPT ![a] = [NoFile EXCEPT !.fs = "boot", !.exists = TRUE, !.size = 2,
                                                  !.cluster = n, !.done = TRUE]]
    /\ heap' = [heap EXCEPT !.blocks = @ + 1, !.opens = @ + 1]
    /\ UNCHANGED <<disk, driveSelect, ata, volume, call, mixed, halted>>

\* BootFileSystem::read: over to the other drive, and one sector.
BootRead(a, len) ==
    /\ MayCall(a) /\ file[a].fs = "boot" /\ len > 0
    /\ SelectNextDrive
    /\ call' = [call EXCEPT ![a] = [Idle EXCEPT !.op = "bootread", !.want = file[a].cluster]]
    /\ file' = [file EXCEPT ![a].len = len, ![a].got = <<>>, ![a].done = FALSE]
    /\ UNCHANGED <<disk, ata, volume, heap, mixed, halted>>

\* Mutant of BootWrite: the other drive is not selected.
BootWrite_NoSelect(a, len) ==
    /\ MayCall(a) /\ file[a].fs = "boot" /\ heap.writes < MaxWrites
    /\ call' = [call EXCEPT ![a] =
           [Idle EXCEPT !.op = IF len \div 2 < 2 THEN "merge" ELSE "store",
                        !.want = file[a].cluster, !.left = len \div 2,
                        !.out = IF len \div 2 < 2 THEN <<>> ELSE <<Data("new"), Data("new")>>]]
    /\ file' = [file EXCEPT ![a].len = len]
    /\ heap' = [heap EXCEPT !.writes = @ + 1]
    /\ UNCHANGED <<disk, driveSelect, ata, volume, mixed, halted>>

\* BootFileSystem::write passes half the length on; writeSector of less than a
\* sector reads the sector first.
BootWrite(a, len) ==
    /\ MayCall(a) /\ file[a].fs = "boot" /\ heap.writes < MaxWrites
    /\ SelectNextDrive
    /\ call' = [call EXCEPT ![a] =
           [Idle EXCEPT !.op = IF len \div 2 < 2 THEN "merge" ELSE "store",
                        !.want = file[a].cluster, !.left = len \div 2,
                        !.out = IF len \div 2 < 2 THEN <<>> ELSE <<Data("new"), Data("new")>>]]
    /\ file' = [file EXCEPT ![a].len = len]
    /\ heap' = [heap EXCEPT !.writes = @ + 1]
    /\ UNCHANGED <<disk, ata, volume, mixed, halted>>

\* Fat32::close, BootFileSystem::close.
Close(a) ==
    /\ MayCall(a) /\ file[a].exists
    /\ file' = [file EXCEPT ![a] = NoFile]
    /\ heap' = [heap EXCEPT !.blocks = @ - 1]
    /\ UNCHANGED <<disk, driveSelect, ata, volume, call, mixed, halted>>

-----------------------------------------------------------------------------
\* AtaPioStorageDriver: readSector and writeSector.

\* The drive and the sector go into the registers.
Address(a) ==
    /\ Runs(a) /\ call[a].op # "idle" /\ call[a].io = "ready"
    /\ ata' = [ata EXCEPT !.drive = driveSelect, !.sector = call[a].want]
    /\ call' = [call EXCEPT ![a].io = "addressed"]
    /\ mixed' = [b \in Actors |-> mixed[b] \/ (b # a /\ call[b].io # "ready")]
    /\ UNCHANGED <<disk, driveSelect, volume, file, heap, halted>>

\* The command.  Reading asks whether a drive answers; writing waits for it, and
\* both wait for ever for a sector the drive does not have.
Command(a) ==
    /\ Runs(a) /\ call[a].io = "addressed"
    /\ LET there == disk[ata.drive] # <<>>
       IN  /\ ata' = [ata EXCEPT !.drq = ata.sector \in DOMAIN disk[ata.drive]]
           /\ halted' = (~there /\ call[a].op # "store")
    /\ call' = [call EXCEPT ![a].io = "commanded"]
    /\ UNCHANGED <<disk, driveSelect, volume, file, heap, mixed>>

\* The data comes in, into what the call does next with it.  It waits for the
\* controller for ever when somebody else fetched the data.
Receives(a, op, phase) ==
    /\ Runs(a) /\ call[a].op = op /\ call[a].phase = phase /\ call[a].io = "commanded"
    /\ ata.drq /\ ata' = [ata EXCEPT !.drq = FALSE]
    /\ ~mixed[a]
Sector == disk[ata.drive][ata.sector]
Loaded(a) == call[a].buf \o Sector
Whole(a) == Len(Loaded(a)) = ClusterSize(volume)

\* Another actor's transfer came in between: the buffer holds its sector, or parts
\* of it.  What the call makes of that is not followed further.
Confused(a) ==
    /\ Runs(a) /\ call[a].io = "commanded" /\ mixed[a] /\ ata.drq
    /\ ata' = [ata EXCEPT !.drq = FALSE]
    /\ call' = [call EXCEPT ![a].io = "confused"]
    /\ UNCHANGED <<disk, driveSelect, volume, file, heap, mixed, halted>>

\* readCluster: the next sector of the cluster.
NextSector(a, op) ==
    /\ Receives(a, op, "cluster") /\ ~Whole(a)
    /\ call' = [call EXCEPT ![a].buf = Loaded(a), ![a].io = "ready",
                           ![a].want = ClusterToSector(volume, call[a].cluster) + Len(Loaded(a)) \div 2]
    /\ UNCHANGED <<disk, driveSelect, volume, file, heap, mixed, halted>>

-----------------------------------------------------------------------------
\* Fat32::open: findDirEntryInDir and resolvePath, a cluster at a time.

\* The next component of the path; slashes between them count as one.
AfterFirst(f) == [f EXCEPT !.rest = Tail(@)]

\* The component is found: it is the file, or a directory the path goes on in.
OpenFound(a, e) ==
    IF Len(call[a].rest) = 1
    THEN /\ file' = [file EXCEPT ![a] =
                [NoFile EXCEPT !.fs = "fat32", !.exists = TRUE, !.path = call[a].path, !.done = TRUE,
                               !.cluster = e.cluster, !.dir = e.attr = "dir", !.size = e.size]]
         /\ call' = [call EXCEPT ![a] = Idle]
         /\ heap' = [heap EXCEPT !.blocks = @ - 1]
    ELSE LET f == IF e.attr = "dir" THEN Find(AfterFirst(call[a]), e.cluster)
                  ELSE Idle
         IN  /\ call' = [call EXCEPT ![a] = f]
             /\ IF f = Idle
                THEN OpenFails(a) /\ heap' = [heap EXCEPT !.blocks = @ - 1, !.lost = @ + 1]
                ELSE UNCHANGED <<file, heap>>

\* Mutant of OpenMissing: the buffer is not freed.
OpenMissing_Keeps(a) ==
    /\ call' = [call EXCEPT ![a] = Idle] /\ OpenFails(a)
    /\ heap' = [heap EXCEPT !.lost = @ + 1]

\* The buffer is freed and the file does not exist.
OpenMissing(a) ==
    /\ call' = [call EXCEPT ![a] = Idle] /\ OpenFails(a)
    /\ heap' = [heap EXCEPT !.blocks = @ - 1, !.lost = @ + 1]

\* A cluster of the directory is there.
OpenScan(a) ==
    LET entries == Loaded(a)
        i == Scan(entries, FatName(Head(call[a].rest)))
    IN  /\ Receives(a, "open", "cluster") /\ Whole(a)
        /\ CASE i = 0 -> call' = [call EXCEPT ![a] = FetchFat(@)] /\ UNCHANGED <<file, heap>>
             [] i # 0 /\ entries[i].attr = "end" -> OpenMissing(a)
             [] i # 0 /\ entries[i].attr # "end" -> OpenFound(a, entries[i])
        /\ UNCHANGED <<disk, driveSelect, volume, mixed, halted>>

\* Mutant of OpenFollow: the loop goes on with the cluster it has.
OpenFollow_Same(a) ==
    LET next == FatCell(Sector, call[a].cluster)
    IN  /\ Receives(a, "open", "fat")
        /\ IF Ends(next) THEN OpenMissing(a)
           ELSE call' = [call EXCEPT ![a] = Fetch(@, call[a].cluster)] /\ UNCHANGED <<file, heap>>
        /\ UNCHANGED <<disk, driveSelect, volume, mixed, halted>>

\* The FAT says where the directory goes on.
OpenFollow(a) ==
    LET next == FatCell(Sector, call[a].cluster)
    IN  /\ Receives(a, "open", "fat")
        /\ IF Ends(next) THEN OpenMissing(a)
           ELSE call' = [call EXCEPT ![a] = Fetch(@, next)] /\ UNCHANGED <<file, heap>>
        /\ UNCHANGED <<disk, driveSelect, volume, mixed, halted>>

-----------------------------------------------------------------------------
\* Fat32::read.

ReadEnds(a, out) ==
    /\ call' = [call EXCEPT ![a] = Idle]
    /\ file' = [file EXCEPT ![a].got = out, ![a].done = TRUE]
    /\ heap' = [heap EXCEPT !.blocks = @ - 1]

\* Mutant of Chunk: a whole cluster is copied each time.
Chunk_Whole(left, size) == size
Chunk(left, size) == Min({left, size})

\* A cluster is there: copy of it what is still wanted.
ReadCopy(a) ==
    LET n == Chunk(call[a].left, ClusterSize(volume))
        out == call[a].out \o SubSeq(Loaded(a), 1, n)
    IN  /\ Receives(a, "read", "cluster") /\ Whole(a)
        /\ IF call[a].left <= n THEN ReadEnds(a, out)
           ELSE /\ call' = [call EXCEPT ![a] =
                       FetchFat([call[a] EXCEPT !.out = out, !.left = @ - n])]
                /\ UNCHANGED <<file, heap>>
        /\ UNCHANGED <<disk, driveSelect, volume, mixed, halted>>

\* The file goes on in the next cluster, or its chain is shorter than its size.
ReadFollow(a) ==
    LET next == FatCell(Sector, call[a].cluster)
    IN  /\ Receives(a, "read", "fat")
        /\ IF Ends(next) THEN ReadEnds(a, call[a].out)
           ELSE call' = [call EXCEPT ![a] = Fetch(@, next)] /\ UNCHANGED <<file, heap>>
        /\ UNCHANGED <<disk, driveSelect, volume, mixed, halted>>

-----------------------------------------------------------------------------
\* The boot file system's transfers.

\* read takes len for a number of words; with 256 and more, as here, where lengths
\* count cells, it is given the whole sector.
BootReceive(a) ==
    /\ Receives(a, "bootread", "")
    /\ file' = [file EXCEPT ![a].got = Sector, ![a].done = TRUE]
    /\ SelectNextDrive
    /\ call' = [call EXCEPT ![a] = Idle]
    /\ UNCHANGED <<disk, volume, heap, mixed, halted>>

\* writeSector puts the new bytes in front of what the sector held.
BootMerge(a) ==
    /\ Receives(a, "merge", "")
    /\ call' = [call EXCEPT ![a] =
           [call[a] EXCEPT !.op = "store", !.io = "ready",
               !.out = [i \in 1 .. 2 |-> IF i <= call[a].left THEN Data("new") ELSE Sector[i]]]]
    /\ UNCHANGED <<disk, driveSelect, volume, file, heap, mixed, halted>>

\* The sector is written, and Storage goes back to the first drive.
BootStore(a) ==
    /\ Receives(a, "store", "")
    /\ disk' = [disk EXCEPT ![ata.drive][ata.sector] = call[a].out]
    /\ SelectNextDrive
    /\ call' = [call EXCEPT ![a] = Idle]
    /\ UNCHANGED <<volume, file, heap, mixed, halted>>

\* The drive reports an error once it has the data: the kernel stops, Storage still
\* on the other drive.
BootStoreFails(a) ==
    /\ Receives(a, "store", "")
    /\ halted' = TRUE
    /\ UNCHANGED <<disk, driveSelect, volume, call, file, heap, mixed>>

-----------------------------------------------------------------------------
Transfer(a) ==
    \/ Address(a) \/ Command(a) \/ Confused(a)
    \/ NextSector(a, "open") \/ NextSector(a, "read")
    \/ OpenScan(a) \/ OpenFollow(a) \/ ReadCopy(a) \/ ReadFollow(a)
    \/ BootReceive(a) \/ BootMerge(a) \/ BootStore(a) \/ BootStoreFails(a)

FatCalls(a) == (\E path \in Paths : FatOpen(a, path)) \/ (\E len \in ReadLens : FatRead(a, len))
\* Only processes close files and use the boot file system.
BootCalls(a) ==
    \/ \E n \in {0} : BootOpen(a, n)
    \/ \E len \in ReadLens : BootRead(a, len)
    \/ \E len \in WriteLens : BootWrite(a, len)
    \/ Close(a)

Next ==
    \/ StorageInit \/ FatMount
    \/ \E a \in Actors : FatCalls(a) \/ Transfer(a)
    \/ \E p \in Procs : BootCalls(p)

\* A process in a call goes on; the loader does when it can move again and again,
\* since the timer gives sched its turn between the calls of the processes.
Fairness == SF_vars(Transfer("loader")) /\ \A p \in Procs : WF_vars(Transfer(p))
Spec == Init /\ [][Next]_vars /\ Fairness

-----------------------------------------------------------------------------
\* The volume as a whole: the reference the steps are compared with.

Home == IF disk["master"] # <<>> /\ disk["master"][0][1] = Label("fat32") THEN "master" ELSE "slave"
\* Cell j of cluster c.
ClusterCell(x, v, c, j) == x[ClusterToSector(v, c) + (j - 1) \div 2][((j - 1) % 2) + 1]
\* The k-th cluster of a chain, behind d.  The first is followed whatever it is;
\* behind the end the chain stays where it is.
Behind(x, v, k, d) == IF k > 1 /\ Ends(d) THEN d ELSE FatCell(x[FatSector(v, d)], d)
\* The clusters of the chain that starts at c, by their place in it.
Clusters(x, v, c) ==
    LET at[k \in Nat] == IF k = 0 THEN c ELSE Behind(x, v, k, at[k - 1])
    IN  at
\* How many of the first n clusters the chain has.
ChainLen(w, n) == Min({n} \cup {k \in 1 .. n : Ends(w[k])})
\* The first n cells of the chain that starts at c.
ChainCells(x, v, c, n) ==
    [j \in 1 .. n |-> ClusterCell(x, v, Clusters(x, v, c)[(j - 1) \div ClusterSize(v)],
                                  ((j - 1) % ClusterSize(v)) + 1)]

NotFound == DirEntry(<<<<>>, <<>>>>, "end", 0, 0)
Undecided == DirEntry(<<<<>>, <<>>>>, "undecided", 0, 0)
Root(v) == DirEntry(<<<<>>, <<>>>>, "dir", v.root, 0)
\* Where a search for the name n is over: at the end of the directory, or at a
\* live entry with that name.
Stops(e, n) ==
    \/ e.attr = "end"
    \/ e.attr \notin {"lfn", "deleted"} /\ <<Upper(e.name[1]), Upper(e.name[2])>> = FatName(n)
StopsIn(x, v, c, n) == {j \in 1 .. ClusterSize(v) : Stops(ClusterCell(x, v, c, j), n)}
FirstStop(x, v, c, n) == ClusterCell(x, v, c, Min(StopsIn(x, v, c, n)))
\* The entry with that name in the directory, of which MaxChain clusters are
\* looked at: with more, and nothing in those, the reference does not decide.
Lookup(x, v, dir, n) ==
    LET w     == Clusters(x, v, dir.cluster)
        holds == {k \in 0 .. ChainLen(w, MaxChain) - 1 : StopsIn(x, v, w[k], n) # {}}
        e     == FirstStop(x, v, w[Min(holds)], n)
    IN  IF dir = Undecided THEN Undecided
        ELSE IF dir.attr # "dir" \/ FatName(n) = NoName THEN NotFound
        ELSE IF holds # {} THEN (IF e.attr = "end" THEN NotFound ELSE e)
        ELSE IF \E k \in 1 .. MaxChain : Ends(w[k]) THEN NotFound ELSE Undecided
\* What the first i components of a path lead to, and the path.
Steps(x, v, path) ==
    LET at[i \in Nat] == IF i = 0 THEN Root(v) ELSE Lookup(x, v, at[i - 1], path[i])
    IN  at
Resolve(x, v, path) == Steps(x, v, path)[Len(path)]

-----------------------------------------------------------------------------
\* Properties.

\* open finds what the path leads to: through directories of several clusters,
\* behind deleted entries and long names, whatever the case of the name, and
\* nothing else.  Only a transfer another actor got into (mixed) is not covered.
PathsResolve ==
    \A a \in Actors :
        LET f == file[a]
            e == Resolve(disk[Home], volume, f.path)
        IN  f.fs = "fat32" /\ f.done /\ ~mixed[a] /\ e # Undecided =>
                IF e = NotFound THEN ~f.exists
                ELSE f.exists /\ f.cluster = e.cluster /\ f.size = e.size /\ f.dir = (e.attr = "dir")

\* A read returns the file's bytes, up to the length asked for, its size and its
\* chain, also when processes use both drives between two sectors of it.
ReadAgrees ==
    \A a \in Actors :
        LET f == file[a]
            n == Min({f.len, f.size})
            w == Clusters(disk[Home], volume, f.cluster)
        IN  f.fs = "fat32" /\ f.exists /\ f.done /\ ~f.dir /\ ~mixed[a]
                /\ f.len > 0 /\ f.size \in Nat \ {0} =>
                f.got = ChainCells(disk[Home], volume, f.cluster,
                                   Min({n, ChainLen(w, n) * ClusterSize(volume)}))

\* What is on the heap is what is in use: a FileData per open file, a buffer per
\* call; and what is lost: the ATA driver's first buffer, the boot sector, and the
\* FileData of each failed open.
BlocksReturned ==
    heap.blocks = (IF heap.blocks = 0 THEN 0 ELSE 1) + (IF volume = NoVolume THEN 0 ELSE 1)
                  + heap.lost + Cardinality({a \in Actors : file[a].exists})
                  + Cardinality({a \in Actors : call[a].op = "open"})
                  + Cardinality({a \in Actors : call[a].op \in {"open", "read"}})

\* No write reaches the drive of the file system, and one of less than two
\* sectors leaves the second half of the sector as it was: write passes len / 2.
WritesConfined ==
    [][disk' = disk \/
       \E p \in Procs :
           LET boot == Other(Home) IN
           /\ call[p].op = "store" /\ disk'[Home] = disk[Home]
           /\ \A s \in DOMAIN disk[boot] :
                  \/ disk'[boot][s] = disk[boot][s]
                  \/ s = file[p].cluster /\ (file[p].len < 4 => disk'[boot][s][2] = disk[boot][s][2])]_vars

\* A call of the loader ends, unless the kernel stops or a process took the data
\* the loader waits for.
LoaderDone ==
    call["loader"].op # "idle" ~>
        call["loader"].op = "idle" \/ mixed["loader"] \/ halted
        \/ \E p \in Procs : call[p].op = "store" /\ disk[ata.drive] = <<>>
=============================================================================
