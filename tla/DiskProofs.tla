------------------------------ MODULE DiskProofs ------------------------------
(***************************************************************************)
(* Proofs about Disk: what the file systems take from the heap comes back, *)
(* no write reaches the drive of the file system, open finds what a path   *)
(* leads to, and read returns the file's bytes, for any processes, any     *)
(* drives and any interleaving of their transfers.                         *)
(***************************************************************************)
EXTENDS Disk, FiniteSetTheorems, SequenceTheorems, WellFoundedInduction, TLAPS

Drives == {"master", "slave"}
BootOps == {"bootread", "merge", "store"}
Ops == {"idle", "open", "read"} \cup BootOps
Ios == {"ready", "addressed", "commanded", "confused"}
CallFields == {"op", "io", "phase", "want", "path", "rest", "cluster", "buf", "out", "left"}
FileFields == {"fs", "exists", "path", "cluster", "dir", "size", "len", "got", "done"}
HeapShape(h) == DOMAIN h = {"blocks", "opens", "lost", "writes"} /\ h.opens \in Nat /\ h.writes \in Nat
HeapOK(h) == HeapShape(h) /\ h.blocks \in Nat /\ h.lost \in Nat

CallOK(c) ==
    /\ DOMAIN c = CallFields /\ c.op \in Ops /\ c.io \in Ios
    /\ c.op = "idle" => c.io = "ready"
FileOK(f) == DOMAIN f = FileFields /\ f.exists \in BOOLEAN

\* Types, of what the properties tell apart: what is read from a disk is left open.
DiskTypes ==
    /\ DOMAIN disk = Drives /\ driveSelect \in Drives
    /\ DOMAIN ata = {"drive", "sector", "drq"} /\ ata.drq \in BOOLEAN
    /\ call = [a \in Actors |-> call[a]] /\ \A a \in Actors : CallOK(call[a])
    /\ file = [a \in Actors |-> file[a]] /\ \A a \in Actors : FileOK(file[a])
    /\ HeapOK(heap) /\ halted \in BOOLEAN

\* The blocks that actors have: a FileData for an open file, a FileData and a
\* buffer during open, a buffer during read.
Files == {a \in Actors : file[a].exists}
Opening == {a \in Actors : call[a].op = "open"}
Buffered == {a \in Actors : call[a].op \in {"open", "read"}}
Accounts ==
    /\ heap.blocks = 0 => volume = NoVolume /\ heap.lost = 0
    /\ volume = NoVolume => heap.lost = 0 /\ \A a \in Actors : call[a].op = "idle" /\ ~file[a].exists
    /\ \A a \in Actors : call[a].op = "open" => ~file[a].exists
    /\ BlocksReturned

\* The drive that Storage::init selects.
First == IF disk["master"][0][1] = Label("RivBoot") THEN "slave" ELSE "master"

\* Where the process in a call is: the registers are its own, and what it is going
\* to write keeps the half of the sector that it was not given.
Transferring(p) ==
    /\ call[p].io \in {"addressed", "commanded"} =>
          ata.drive = driveSelect /\ ata.sector = call[p].want
    /\ call[p].io = "commanded" /\ ata.drq => ata.sector \in DOMAIN disk[ata.drive]
    /\ call[p].op \in BootOps => call[p].want = file[p].cluster
    /\ call[p].op = "merge" => call[p].left = 1
    /\ call[p].op = "store" =>
          /\ call[p].out[1] = Data("new")
          /\ file[p].len < 4 => call[p].out[2] = disk[Other(Home)][call[p].want][2]

\* Storage is on the file system's drive except in a call of the boot file system,
\* and one process at a time is in a call.
DriveInv ==
    /\ \A p, q \in Masked : p = q
    /\ call["loader"].op \notin BootOps
    /\ \A d \in Drives : disk[d] = <<>> \/ 0 \in DOMAIN disk[d]
    /\ volume = NoVolume => disk \in Machines /\ (heap.blocks = 1 => driveSelect = First)
    /\ volume # NoVolume =>
          driveSelect = IF \E p \in Procs : call[p].op \in BootOps THEN Other(Home) ELSE Home
    /\ \A p \in Masked : Transferring(p)

DiskInv == DiskTypes /\ Accounts /\ DriveInv

-----------------------------------------------------------------------------
\* Records of calls and files.

LEMMA Records ==
  /\ CallOK(Idle) /\ Idle.op = "idle" /\ Idle.io = "ready"
  /\ FileOK(NoFile) /\ ~NoFile.exists
  BY DEF CallOK, Idle, CallFields, Ops, Ios, FileOK, NoFile, FileFields

\* Calls that fetch a sector next keep what they are.
LEMMA Fetches ==
  ASSUME NEW f, CallOK(f), NEW c
  PROVE  /\ CallOK(Fetch(f, c)) /\ Fetch(f, c).op = f.op /\ Fetch(f, c).io = "ready"
         /\ CallOK(FetchFat(f)) /\ FetchFat(f).op = f.op /\ FetchFat(f).io = "ready"
  BY DEF CallOK, Fetch, FetchFat, CallFields, Ios

LEMMA Finds ==
  ASSUME NEW f, CallOK(f), NEW c
  PROVE  Find(f, c) = Idle \/ (CallOK(Find(f, c)) /\ Find(f, c).op = "open" /\ Find(f, c).io = "ready")
  <1> DEFINE g == [f EXCEPT !.op = "open"]
  <1>1. CallOK(g) /\ g.op = "open"
    BY DEF CallOK, CallFields, Ops
  <1> QED
    BY <1>1, Fetches DEF Find

LEMMA ActorsFinite == IsFiniteSet(Actors) /\ "loader" \in Actors /\ Procs \subseteq Actors /\ "loader" \notin Procs
  <1>1. IsFiniteSet({"loader"})
    BY FS_Singleton
  <1> QED
    BY <1>1, FS_Union, DiskAssumption DEF Actors

-----------------------------------------------------------------------------
\* The heap.

Num(b) == IF b THEN 1 ELSE 0

\* A set of actors changes in one element at most.
LEMMA Counts ==
  ASSUME NEW S \in SUBSET Actors, NEW T \in SUBSET Actors, NEW a \in Actors,
         \A b \in Actors : b # a => (b \in S <=> b \in T)
  PROVE  /\ Cardinality(S) \in Nat /\ Cardinality(T) \in Nat
         /\ Cardinality(T) = Cardinality(S) + Num(a \in T) - Num(a \in S)
  <1>1. IsFiniteSet(S) /\ IsFiniteSet(T) /\ Cardinality(S) \in Nat /\ Cardinality(T) \in Nat
    BY ActorsFinite, FS_Subset, FS_CardinalityType
  <1>2. CASE a \in S <=> a \in T
    <2>1. S = T
      BY <1>2
    <2> QED
      BY <1>1, <1>2, <2>1 DEF Num
  <1>3. CASE a \in T /\ a \notin S
    <2>1. T = S \cup {a}
      BY <1>3
    <2>2. Cardinality(T) = Cardinality(S) + 1
      BY <1>1, <1>3, <2>1, FS_AddElement
    <2> QED
      BY <1>1, <1>3, <2>2 DEF Num
  <1>4. CASE a \in S /\ a \notin T
    <2>1. T = S \ {a}
      BY <1>4
    <2>2. Cardinality(T) = Cardinality(S) - 1
      BY <1>1, <1>4, <2>1, FS_RemoveElement
    <2> QED
      BY <1>1, <1>4, <2>2 DEF Num
  <1> QED
    BY <1>2, <1>3, <1>4

\* The blocks of an actor in call c with file f.
Taken(c, f) == Num(f.exists) + Num(c.op = "open") + Num(c.op \in {"open", "read"})

\* A step that changes the call and the file of a only.
Moves(a) ==
    /\ call' = [call EXCEPT ![a] = call'[a]] /\ CallOK(call'[a])
    /\ file' = [file EXCEPT ![a] = file'[a]] /\ FileOK(file'[a])
    /\ call'[a].op = "open" => ~file'[a].exists
\* The heap goes along with them.
Balanced(a) ==
    /\ heap'.lost \in Nat
    /\ heap'.blocks = heap.blocks + (heap'.lost - heap.lost)
                      + Taken(call'[a], file'[a]) - Taken(call[a], file[a])

\* A step of one actor that takes and gives back what its call and file say.
LEMMA ActorStep ==
  ASSUME DiskTypes, Accounts, volume # NoVolume, UNCHANGED volume, NEW a \in Actors, Moves(a),
         Balanced(a)
  PROVE  /\ call' = [b \in Actors |-> call'[b]] /\ \A b \in Actors : CallOK(call'[b])
         /\ file' = [b \in Actors |-> file'[b]] /\ \A b \in Actors : FileOK(file'[b])
         /\ heap'.blocks \in Nat /\ heap'.lost \in Nat
         /\ Accounts'
  <1> DEFINE c == call'[a]
             f == file'[a]
  <1>1. /\ call' = [b \in Actors |-> IF b = a THEN c ELSE call[b]]
        /\ file' = [b \in Actors |-> IF b = a THEN f ELSE file[b]]
    BY DEF DiskTypes, Moves
  <1>2. /\ \A b \in Actors : call'[b] = IF b = a THEN c ELSE call[b]
        /\ \A b \in Actors : file'[b] = IF b = a THEN f ELSE file[b]
    BY <1>1
  <1>3. /\ Cardinality(Files) \in Nat /\ Cardinality(Files') \in Nat
        /\ Cardinality(Files') = Cardinality(Files) + Num(f.exists) - Num(file[a].exists)
    <2>1. Files \in SUBSET Actors /\ Files' \in SUBSET Actors
          /\ \A b \in Actors : b # a => (b \in Files <=> b \in Files')
      BY <1>2 DEF Files
    <2>2. (a \in Files' <=> f.exists) /\ (a \in Files <=> file[a].exists)
      BY <1>2 DEF Files
    <2> QED
      BY <2>1, <2>2, Counts DEF Num
  <1>4. /\ Cardinality(Opening) \in Nat /\ Cardinality(Opening') \in Nat
        /\ Cardinality(Opening') = Cardinality(Opening) + Num(c.op = "open") - Num(call[a].op = "open")
    <2>1. Opening \in SUBSET Actors /\ Opening' \in SUBSET Actors
          /\ \A b \in Actors : b # a => (b \in Opening <=> b \in Opening')
      BY <1>2 DEF Opening
    <2>2. (a \in Opening' <=> c.op = "open") /\ (a \in Opening <=> call[a].op = "open")
      BY <1>2 DEF Opening
    <2> QED
      BY <2>1, <2>2, Counts DEF Num
  <1>5. /\ Cardinality(Buffered) \in Nat /\ Cardinality(Buffered') \in Nat
        /\ Cardinality(Buffered') = Cardinality(Buffered) + Num(c.op \in {"open", "read"})
                                    - Num(call[a].op \in {"open", "read"})
    <2>1. Buffered \in SUBSET Actors /\ Buffered' \in SUBSET Actors
          /\ \A b \in Actors : b # a => (b \in Buffered <=> b \in Buffered')
      BY <1>2 DEF Buffered
    <2>2. /\ a \in Buffered' <=> c.op \in {"open", "read"}
          /\ a \in Buffered <=> call[a].op \in {"open", "read"}
      BY <1>2 DEF Buffered
    <2> QED
      BY <2>1, <2>2, Counts DEF Num
  <1>6. heap.blocks \in Nat /\ heap.lost \in Nat /\ heap.blocks # 0
    BY DEF DiskTypes, HeapOK, Accounts
  <1>7. heap.blocks = 2 + heap.lost + Cardinality(Files) + Cardinality(Opening) + Cardinality(Buffered)
    BY <1>3, <1>4, <1>5, <1>6 DEF Accounts, BlocksReturned, Files, Opening, Buffered
  <1>8. heap'.blocks = 2 + heap'.lost + Cardinality(Files') + Cardinality(Opening') + Cardinality(Buffered')
    BY <1>3, <1>4, <1>5, <1>6, <1>7 DEF Balanced, Taken, Num
  <1>9. heap'.blocks \in Nat /\ heap'.lost \in Nat /\ heap'.blocks # 0
    BY <1>3, <1>4, <1>5, <1>6, <1>8 DEF Balanced
  <1>10. BlocksReturned'
    BY <1>3, <1>4, <1>5, <1>8, <1>9 DEF BlocksReturned, Files, Opening, Buffered
  <1>11. \A b \in Actors : call'[b].op = "open" => ~file'[b].exists
    BY <1>2 DEF Accounts, Moves
  <1>12. Accounts'
    BY <1>9, <1>10, <1>11 DEF Accounts
  <1>13. call' = [b \in Actors |-> call'[b]] /\ file' = [b \in Actors |-> file'[b]]
    BY <1>1
  <1>14. \A b \in Actors : CallOK(call'[b]) /\ FileOK(file'[b])
    BY <1>2 DEF DiskTypes, Moves
  <1> QED
    BY <1>9, <1>12, <1>13, <1>14

-----------------------------------------------------------------------------
\* The drives.

\* A step of one actor that leaves the drives and the selection alone.
LEMMA DriveKept ==
  ASSUME DiskTypes, DriveInv, NEW a \in Actors, Runs(a), volume # NoVolume,
         UNCHANGED <<disk, driveSelect, volume>>,
         Moves(a), call'[a].op \in BootOps <=> call[a].op \in BootOps,
         a \in Procs /\ call'[a].op # "idle" => Transferring(a)'
  PROVE  DriveInv'
  <1>1. \A b \in Actors : b # a => call'[b] = call[b]
    BY DEF DiskTypes, Moves
  <1>2. "loader" \in Actors /\ Procs \subseteq Actors /\ "loader" \notin Procs
    BY ActorsFinite
  <1>3. Masked \subseteq {a}
    BY DEF Runs, DriveInv
  <1>4. Masked' \subseteq {a}
    <2> SUFFICES ASSUME NEW p \in Procs, call'[p].op # "idle", p # a PROVE FALSE
      BY DEF Masked
    <2>1. call[p].op # "idle"
      BY <1>1, <1>2
    <2> QED
      BY <1>3, <2>1 DEF Masked
  <1>5. \A p \in Procs : call'[p].op \in BootOps <=> call[p].op \in BootOps
    BY <1>1, <1>2
  <1>6. call'["loader"].op \notin BootOps
    BY <1>1, <1>2 DEF DriveInv
  <1>7. ASSUME NEW p \in Masked' PROVE Transferring(p)'
    <2>1. p = a /\ p \in Procs /\ call'[p].op # "idle"
      BY <1>1, <1>4 DEF Masked
    <2>2. Transferring(a)'
      BY <2>1
    <2> QED
      BY <2>1, <2>2
  <1>8. Home' = Home
    BY DEF Home
  <1> QED
    BY <1>4, <1>5, <1>6, <1>7, <1>8 DEF DriveInv

\* A call that is about to begin a transfer for FAT32 claims nothing.
LEMMA ReadyTransfers ==
  ASSUME NEW p, call'[p].io = "ready", call'[p].op \notin BootOps
  PROVE  Transferring(p)'
  BY DEF Transferring, BootOps

\* The two together.
LEMMA StepOK ==
  ASSUME DiskInv, NEW a \in Actors, Runs(a), volume # NoVolume,
         UNCHANGED <<disk, driveSelect, volume>>, Moves(a), Balanced(a),
         HeapShape(heap'),
         DOMAIN ata' = {"drive", "sector", "drq"}, ata'.drq \in BOOLEAN, halted' \in BOOLEAN,
         call'[a].op \in BootOps <=> call[a].op \in BootOps,
         a \in Procs /\ call'[a].op # "idle" => Transferring(a)'
  PROVE  DiskInv'
  <1>1. DiskTypes /\ Accounts /\ DriveInv
    BY DEF DiskInv
  <1>2. /\ call' = [b \in Actors |-> call'[b]] /\ \A b \in Actors : CallOK(call'[b])
        /\ file' = [b \in Actors |-> file'[b]] /\ \A b \in Actors : FileOK(file'[b])
        /\ heap'.blocks \in Nat /\ heap'.lost \in Nat
        /\ Accounts'
    BY <1>1, ActorStep
  <1>3. DriveInv'
    BY <1>1, DriveKept
  <1>4. HeapOK(heap')
    BY <1>2 DEF HeapOK
  <1>5. DiskTypes'
    BY <1>1, <1>2, <1>4 DEF DiskTypes
  <1> QED
    BY <1>2, <1>3, <1>5 DEF DiskInv

\* What a step of an actor finds.
LEMMA ActorState ==
  ASSUME DiskInv, NEW a \in Actors
  PROVE  /\ CallOK(call[a]) /\ FileOK(file[a])
         /\ call[a].op # "idle" => volume # NoVolume
         /\ call[a].io # "ready" => call[a].op # "idle"
         /\ call[a].op = "open" => ~file[a].exists
         /\ HeapOK(heap) /\ heap.blocks \in Nat /\ heap.lost \in Nat
         /\ DOMAIN ata = {"drive", "sector", "drq"} /\ ata.drq \in BOOLEAN /\ halted \in BOOLEAN
  BY DEF DiskInv, DiskTypes, Accounts, CallOK, HeapOK

\* Assignments to an actor's call or file.
LEMMA Assigned ==
  ASSUME DiskInv, NEW a \in Actors
  PROVE  /\ \A c : call' = [call EXCEPT ![a] = c] => call'[a] = c /\ call' = [call EXCEPT ![a] = call'[a]]
         /\ \A f : file' = [file EXCEPT ![a] = f] => file'[a] = f /\ file' = [file EXCEPT ![a] = file'[a]]
         /\ UNCHANGED call => call' = [call EXCEPT ![a] = call'[a]]
         /\ UNCHANGED file => file' = [file EXCEPT ![a] = file'[a]]
  <1>1. call = [b \in Actors |-> call[b]] /\ file = [b \in Actors |-> file[b]]
    BY DEF DiskInv, DiskTypes
  <1>2. DOMAIN call = Actors /\ DOMAIN file = Actors
    BY <1>1
  <1>3. [call EXCEPT ![a] = call[a]] = call
    BY <1>1
  <1>4. [file EXCEPT ![a] = file[a]] = file
    BY <1>1
  <1> QED
    BY <1>2, <1>3, <1>4

\* The call goes on, or the call and the file both.
LEMMA MovesCall ==
  ASSUME DiskInv, NEW a \in Actors, NEW c, CallOK(c), call' = [call EXCEPT ![a] = c],
         UNCHANGED file, c.op = "open" => ~file[a].exists
  PROVE  Moves(a) /\ call'[a] = c /\ file'[a] = file[a]
  <1>1. call'[a] = c /\ call' = [call EXCEPT ![a] = call'[a]]
    BY Assigned
  <1>2. file' = [file EXCEPT ![a] = file'[a]] /\ file'[a] = file[a] /\ FileOK(file[a])
    BY Assigned, ActorState
  <1> QED
    BY <1>1, <1>2 DEF Moves

LEMMA MovesBoth ==
  ASSUME DiskInv, NEW a \in Actors, NEW c, CallOK(c), call' = [call EXCEPT ![a] = c],
         NEW f, FileOK(f), file' = [file EXCEPT ![a] = f], c.op = "open" => ~f.exists
  PROVE  Moves(a) /\ call'[a] = c /\ file'[a] = f
  <1>1. call'[a] = c /\ call' = [call EXCEPT ![a] = call'[a]]
    BY Assigned
  <1>2. file'[a] = f /\ file' = [file EXCEPT ![a] = file'[a]]
    BY Assigned
  <1> QED
    BY <1>1, <1>2 DEF Moves

\* A step that leaves the heap alone, and what the actor has of it.
LEMMA HeapKept ==
  ASSUME DiskInv, NEW a \in Actors, UNCHANGED heap, Moves(a),
         call'[a].op = call[a].op, file'[a].exists = file[a].exists
  PROVE  Balanced(a) /\ HeapShape(heap')
  <1>1. HeapOK(heap) /\ heap.blocks \in Nat /\ heap.lost \in Nat
    BY ActorState
  <1>2. Taken(call'[a], file'[a]) = Taken(call[a], file[a]) /\ Taken(call[a], file[a]) \in Int
    BY DEF Taken, Num
  <1> QED
    BY <1>1, <1>2 DEF Balanced, HeapOK

\* A step of a FAT32 call that is about to begin a transfer, or ends.
LEMMA FatStep ==
  ASSUME DiskInv, NEW a \in Actors, Runs(a), volume # NoVolume,
         UNCHANGED <<disk, driveSelect, volume, halted>>,
         ata' = ata \/ ata' = [ata EXCEPT !.drq = FALSE],
         Moves(a), Balanced(a), HeapShape(heap'),
         call[a].op \notin BootOps, call'[a].op \notin BootOps, call'[a].io = "ready"
  PROVE  DiskInv'
  <1>1. DOMAIN ata' = {"drive", "sector", "drq"} /\ ata'.drq \in BOOLEAN /\ halted' \in BOOLEAN
    BY ActorState
  <1>2. Transferring(a)'
    BY ReadyTransfers
  <1> QED
    BY <1>1, <1>2, StepOK

-----------------------------------------------------------------------------
\* The driver's steps.

\* A process in the middle of a transfer, and the claims about it.
LEMMA InTransfer ==
  ASSUME DiskInv, NEW a \in Procs, call[a].op # "idle"
  PROVE  Transferring(a)
  BY DEF Masked, DiskInv, DriveInv

LEMMA AddressStep ==
  ASSUME DiskInv, NEW a \in Actors, Address(a)
  PROVE  DiskInv'
  <1> DEFINE c == [call[a] EXCEPT !.io = "addressed"]
  <1>1. /\ Runs(a) /\ call[a].op # "idle" /\ UNCHANGED <<disk, driveSelect, volume, halted>>
        /\ UNCHANGED file /\ UNCHANGED heap
        /\ ata' = [ata EXCEPT !.drive = driveSelect, !.sector = call[a].want]
        /\ call' = [call EXCEPT ![a] = c]
    BY DEF Address
  <1>2. CallOK(c) /\ c = [call[a] EXCEPT !.io = "addressed"] /\ c.op = call[a].op /\ c.io = "addressed"
        /\ c.want = call[a].want /\ c.left = call[a].left /\ c.out = call[a].out
    BY <1>1, ActorState DEF CallOK, CallFields, Ios
  <1>3. /\ ata'.drive = driveSelect /\ ata'.sector = call[a].want /\ ata'.drq = ata.drq
        /\ DOMAIN ata' = {"drive", "sector", "drq"} /\ ata'.drq \in BOOLEAN /\ halted' \in BOOLEAN
    BY <1>1, ActorState
  <1>4. volume # NoVolume
    BY <1>1, ActorState
  <1> HIDE DEF c
  <1>5. Moves(a) /\ call'[a] = c /\ file'[a] = file[a]
    <2>1. c.op = "open" => ~file[a].exists
      BY <1>2, ActorState
    <2> QED
      BY <1>1, <1>2, <2>1, MovesCall
  <1>6. Balanced(a) /\ HeapShape(heap')
    BY <1>1, <1>2, <1>5, HeapKept
  <1>7. ASSUME a \in Procs PROVE Transferring(a)'
    <2>1. Transferring(a)
      BY <1>1, <1>7, InTransfer
    <2>2. Home' = Home
      BY <1>1 DEF Home
    <2> QED
      BY <1>1, <1>2, <1>3, <1>5, <2>1, <2>2 DEF Transferring
  <1> QED
    BY <1>1, <1>2, <1>3, <1>4, <1>5, <1>6, <1>7, StepOK

LEMMA CommandStep ==
  ASSUME DiskInv, NEW a \in Actors, Command(a)
  PROVE  DiskInv'
  <1> DEFINE c == [call[a] EXCEPT !.io = "commanded"]
             there == ata.sector \in DOMAIN disk[ata.drive]
  <1>1. /\ Runs(a) /\ call[a].io = "addressed" /\ UNCHANGED <<disk, driveSelect, volume>>
        /\ UNCHANGED file /\ UNCHANGED heap
        /\ ata' = [ata EXCEPT !.drq = there] /\ halted' \in BOOLEAN
        /\ call' = [call EXCEPT ![a] = c]
    BY DEF Command
  <1>2. call[a].op # "idle" /\ volume # NoVolume
    BY <1>1, ActorState
  <1>3. CallOK(c) /\ c.op = call[a].op /\ c.io = "commanded"
        /\ c.want = call[a].want /\ c.left = call[a].left /\ c.out = call[a].out
    BY <1>1, <1>2, ActorState DEF CallOK, CallFields, Ios
  <1>4. /\ ata'.drive = ata.drive /\ ata'.sector = ata.sector /\ ata'.drq = there
        /\ DOMAIN ata' = {"drive", "sector", "drq"} /\ ata'.drq \in BOOLEAN
    BY <1>1, ActorState
  <1> HIDE DEF c
  <1>5. Moves(a) /\ call'[a] = c /\ file'[a] = file[a]
    <2>1. c.op = "open" => ~file[a].exists
      BY <1>3, ActorState
    <2> QED
      BY <1>1, <1>3, <2>1, MovesCall
  <1>6. Balanced(a) /\ HeapShape(heap')
    BY <1>1, <1>3, <1>5, HeapKept
  <1>7. ASSUME a \in Procs PROVE Transferring(a)'
    <2>1. Transferring(a)
      BY <1>2, <1>7, InTransfer
    <2>2. Home' = Home
      BY <1>1 DEF Home
    <2> QED
      BY <1>1, <1>3, <1>4, <1>5, <2>1, <2>2 DEF Transferring
  <1> QED
    BY <1>1, <1>2, <1>3, <1>4, <1>5, <1>6, <1>7, StepOK

LEMMA ConfusedStep ==
  ASSUME DiskInv, NEW a \in Actors, Confused(a)
  PROVE  DiskInv'
  <1> DEFINE c == [call[a] EXCEPT !.io = "confused"]
  <1>1. /\ Runs(a) /\ call[a].io = "commanded" /\ UNCHANGED <<disk, driveSelect, volume, halted>>
        /\ UNCHANGED file /\ UNCHANGED heap
        /\ ata' = [ata EXCEPT !.drq = FALSE]
        /\ call' = [call EXCEPT ![a] = c]
    BY DEF Confused
  <1>2. call[a].op # "idle" /\ volume # NoVolume
    BY <1>1, ActorState
  <1>3. CallOK(c) /\ c.op = call[a].op /\ c.io = "confused"
        /\ c.want = call[a].want /\ c.left = call[a].left /\ c.out = call[a].out
    BY <1>1, <1>2, ActorState DEF CallOK, CallFields, Ios
  <1>4. DOMAIN ata' = {"drive", "sector", "drq"} /\ ata'.drq \in BOOLEAN /\ halted' \in BOOLEAN
    BY <1>1, ActorState
  <1> HIDE DEF c
  <1>5. Moves(a) /\ call'[a] = c /\ file'[a] = file[a]
    <2>1. c.op = "open" => ~file[a].exists
      BY <1>3, ActorState
    <2> QED
      BY <1>1, <1>3, <2>1, MovesCall
  <1>6. Balanced(a) /\ HeapShape(heap')
    BY <1>1, <1>3, <1>5, HeapKept
  <1>7. ASSUME a \in Procs PROVE Transferring(a)'
    <2>1. Transferring(a)
      BY <1>2, <1>7, InTransfer
    <2>2. Home' = Home
      BY <1>1 DEF Home
    <2> QED
      BY <1>1, <1>3, <1>5, <2>1, <2>2 DEF Transferring
  <1> QED
    BY <1>1, <1>2, <1>3, <1>4, <1>5, <1>6, <1>7, StepOK

-----------------------------------------------------------------------------
\* FAT32's steps.

\* A sector came in for a.
Received(a, op) ==
    /\ Runs(a) /\ call[a].op = op /\ ata' = [ata EXCEPT !.drq = FALSE]
    /\ UNCHANGED <<disk, driveSelect, volume, halted>>

LEMMA FatGoesOn ==
  ASSUME DiskInv, NEW a \in Actors, NEW op \in {"open", "read"}, Received(a, op),
         UNCHANGED file, UNCHANGED heap,
         NEW c, CallOK(c), c.op = op, c.io = "ready", call' = [call EXCEPT ![a] = c]
  PROVE  DiskInv'
  <1>1. Runs(a) /\ call[a].op = op /\ volume # NoVolume /\ op \notin BootOps
        /\ (c.op = "open" => ~file[a].exists)
    BY ActorState DEF Received, BootOps
  <1>2. Moves(a) /\ call'[a] = c /\ file'[a] = file[a]
    BY <1>1, MovesCall
  <1>3. Balanced(a) /\ HeapShape(heap')
    BY <1>1, <1>2, HeapKept
  <1> QED
    BY <1>1, <1>2, <1>3, FatStep DEF Received

\* The buffer goes back; the FileData of an open stays with the file or is lost.
LEMMA FatEnds ==
  ASSUME DiskInv, NEW a \in Actors, NEW op \in {"open", "read"}, Received(a, op),
         NEW f, FileOK(f), file' = [file EXCEPT ![a] = f], call' = [call EXCEPT ![a] = Idle],
         op = "read" => f.exists = file[a].exists,
         HeapShape(heap'), heap'.blocks = heap.blocks - 1,
         heap'.lost = heap.lost + (IF op = "open" /\ ~f.exists THEN 1 ELSE 0)
  PROVE  DiskInv'
  <1> DEFINE l == IF op = "open" /\ ~f.exists THEN 1 ELSE 0
  <1>1. Runs(a) /\ call[a].op = op /\ volume # NoVolume /\ op \notin BootOps
        /\ (op = "open" => ~file[a].exists) /\ FileOK(file[a])
    BY ActorState DEF Received, BootOps
  <1>2. Moves(a) /\ call'[a] = Idle /\ file'[a] = f
    BY <1>1, MovesBoth, Records
  <1>3. /\ heap.blocks \in Nat /\ heap.lost \in Nat
        /\ heap'.blocks = heap.blocks - 1 /\ heap'.lost = heap.lost + l
    BY ActorState
  <1>4. CASE op = "open"
    <2>1. Taken(call[a], file[a]) = 2 /\ Taken(Idle, f) = 1 - l
      BY <1>1, <1>4, Records DEF Taken, Num, FileOK
    <2>2. Balanced(a)
      BY <1>2, <1>3, <2>1 DEF Balanced
    <2> QED
      BY <1>1, <1>2, <1>3, <2>2, FatStep, Records DEF Received, BootOps
  <1>5. CASE op = "read"
    <2>1. Taken(call[a], file[a]) = Taken(Idle, f) + 1 /\ Taken(Idle, f) \in Int
      BY <1>1, <1>5, Records DEF Taken, Num, FileOK
    <2>2. Balanced(a)
      BY <1>2, <1>3, <1>5, <2>1 DEF Balanced
    <2> QED
      BY <1>1, <1>2, <1>3, <2>2, FatStep, Records DEF Received, BootOps
  <1> QED
    BY <1>4, <1>5

LEMMA NextSectorStep ==
  ASSUME DiskInv, NEW a \in Actors, NEW op \in {"open", "read"}, NextSector(a, op)
  PROVE  DiskInv'
  <1> DEFINE c == [call[a] EXCEPT !.buf = Loaded(a), !.io = "ready",
                           !.want = ClusterToSector(volume, call[a].cluster) + Len(Loaded(a)) \div 2]
  <1>1. Received(a, op) /\ UNCHANGED file /\ UNCHANGED heap
    BY DEF NextSector, Receives, Received
  <1>2. call' = [call EXCEPT ![a] = c]
    BY DEF NextSector
  <1>3. CallOK(c) /\ c.op = op /\ c.io = "ready"
    BY <1>1, ActorState DEF CallOK, CallFields, Ios, Received
  <1> QED
    BY <1>1, <1>2, <1>3, FatGoesOn

\* A failed open.
LEMMA OpenMissingStep ==
  ASSUME DiskInv, NEW a \in Actors, Received(a, "open"), call' = [call EXCEPT ![a] = Idle],
         OpenFails(a), heap' = [heap EXCEPT !.blocks = @ - 1, !.lost = @ + 1]
  PROVE  DiskInv'
  <1> DEFINE f == [NoFile EXCEPT !.fs = "fat32", !.path = call[a].path, !.done = TRUE]
  <1>1. FileOK(f) /\ ~f.exists
    BY DEF FileOK, NoFile, FileFields
  <1>2. file' = [file EXCEPT ![a] = f]
    BY DEF OpenFails
  <1>3. HeapShape(heap') /\ heap'.blocks = heap.blocks - 1 /\ heap'.lost = heap.lost + 1
    BY ActorState DEF HeapOK, HeapShape
  <1> HIDE DEF f
  <1> QED
    BY <1>1, <1>2, <1>3, FatEnds

LEMMA OpenFoundStep ==
  ASSUME DiskInv, NEW a \in Actors, Received(a, "open"), NEW e, OpenFound(a, e)
  PROVE  DiskInv'
  <1>1. CASE Len(call[a].rest) = 1
    <2> DEFINE f == [NoFile EXCEPT !.fs = "fat32", !.exists = TRUE, !.path = call[a].path,
                        !.done = TRUE, !.cluster = e.cluster, !.dir = e.attr = "dir", !.size = e.size]
    <2>1. FileOK(f) /\ f.exists
      BY DEF FileOK, NoFile, FileFields
    <2>2. /\ file' = [file EXCEPT ![a] = f] /\ call' = [call EXCEPT ![a] = Idle]
          /\ heap' = [heap EXCEPT !.blocks = @ - 1]
      BY <1>1 DEF OpenFound
    <2>3. HeapShape(heap') /\ heap'.blocks = heap.blocks - 1 /\ heap'.lost = heap.lost /\ heap.lost + 0 = heap.lost
      BY <2>2, ActorState DEF HeapOK, HeapShape
    <2> HIDE DEF f
    <2> QED
      BY <2>1, <2>2, <2>3, FatEnds
  <1>2. CASE Len(call[a].rest) # 1
    <2> DEFINE f == IF e.attr = "dir" THEN Find(AfterFirst(call[a]), e.cluster) ELSE Idle
    <2>1. /\ call' = [call EXCEPT ![a] = f]
          /\ IF f = Idle THEN OpenFails(a) /\ heap' = [heap EXCEPT !.blocks = @ - 1, !.lost = @ + 1]
             ELSE UNCHANGED <<file, heap>>
      BY <1>2 DEF OpenFound
    <2>2. f = Idle \/ (CallOK(f) /\ f.op = "open" /\ f.io = "ready")
      <3>1. CallOK(AfterFirst(call[a]))
        BY ActorState DEF CallOK, AfterFirst, CallFields
      <3> QED
        BY <3>1, Finds
    <2> HIDE DEF f
    <2>3. CASE f = Idle
      BY <2>1, <2>3, OpenMissingStep
    <2>4. CASE f # Idle
      BY <2>1, <2>2, <2>4, FatGoesOn
    <2> QED
      BY <2>3, <2>4
  <1> QED
    BY <1>1, <1>2

LEMMA OpenScanStep ==
  ASSUME DiskInv, NEW a \in Actors, OpenScan(a)
  PROVE  DiskInv'
  <1> DEFINE entries == Loaded(a)
             i == Scan(entries, FatName(Head(call[a].rest)))
  <1>1. Received(a, "open")
    BY DEF OpenScan, Receives, Received
  <1>2. \/ call' = [call EXCEPT ![a] = FetchFat(@)] /\ UNCHANGED <<file, heap>>
        \/ OpenMissing(a)
        \/ OpenFound(a, entries[i])
    BY DEF OpenScan
  <1> HIDE DEF i, entries
  <1>3. CASE call' = [call EXCEPT ![a] = FetchFat(@)] /\ UNCHANGED <<file, heap>>
    <2> DEFINE c == FetchFat(call[a])
    <2>1. call' = [call EXCEPT ![a] = c]
      BY <1>3
    <2>2. CallOK(c) /\ c.op = "open" /\ c.io = "ready"
      BY <1>1, ActorState, Fetches DEF Received
    <2> HIDE DEF c
    <2> QED
      BY <1>1, <1>3, <2>1, <2>2, FatGoesOn
  <1>4. CASE OpenMissing(a)
    BY <1>1, <1>4, OpenMissingStep DEF OpenMissing
  <1>5. CASE OpenFound(a, entries[i])
    BY <1>1, <1>5, OpenFoundStep
  <1> QED
    BY <1>2, <1>3, <1>4, <1>5

LEMMA OpenFollowStep ==
  ASSUME DiskInv, NEW a \in Actors, OpenFollow(a)
  PROVE  DiskInv'
  <1> DEFINE c == Fetch(call[a], FatCell(Sector, call[a].cluster))
  <1>1. Received(a, "open")
    BY DEF OpenFollow, Receives, Received
  <1>2. OpenMissing(a) \/ (call' = [call EXCEPT ![a] = c] /\ UNCHANGED <<file, heap>>)
    BY DEF OpenFollow
  <1>3. CallOK(c) /\ c.op = "open" /\ c.io = "ready"
    BY <1>1, ActorState, Fetches DEF Received
  <1> HIDE DEF c
  <1>4. CASE OpenMissing(a)
    BY <1>1, <1>4, OpenMissingStep DEF OpenMissing
  <1>5. CASE call' = [call EXCEPT ![a] = c] /\ UNCHANGED <<file, heap>>
    BY <1>1, <1>3, <1>5, FatGoesOn
  <1> QED
    BY <1>2, <1>4, <1>5

LEMMA ReadEndsStep ==
  ASSUME DiskInv, NEW a \in Actors, Received(a, "read"), NEW out, ReadEnds(a, out)
  PROVE  DiskInv'
  <1> DEFINE f == [file[a] EXCEPT !.got = out, !.done = TRUE]
  <1>1. FileOK(f) /\ f.exists = file[a].exists
    BY ActorState DEF FileOK, FileFields
  <1>2. file' = [file EXCEPT ![a] = f] /\ call' = [call EXCEPT ![a] = Idle]
    BY DEF ReadEnds
  <1>3. HeapShape(heap') /\ heap'.blocks = heap.blocks - 1 /\ heap'.lost = heap.lost /\ heap.lost + 0 = heap.lost
    BY ActorState DEF ReadEnds, HeapOK, HeapShape
  <1> HIDE DEF f
  <1> QED
    BY <1>1, <1>2, <1>3, FatEnds

LEMMA ReadCopyStep ==
  ASSUME DiskInv, NEW a \in Actors, ReadCopy(a)
  PROVE  DiskInv'
  <1> DEFINE n == Chunk(call[a].left, ClusterSize(volume))
             out == call[a].out \o SubSeq(Loaded(a), 1, n)
             g == [call[a] EXCEPT !.out = out, !.left = @ - n]
             c == FetchFat(g)
  <1>1. Received(a, "read")
    BY DEF ReadCopy, Receives, Received
  <1>2. ReadEnds(a, out) \/ (call' = [call EXCEPT ![a] = c] /\ UNCHANGED <<file, heap>>)
    BY DEF ReadCopy
  <1>3. CallOK(g) /\ g.op = "read"
    BY <1>1, ActorState DEF CallOK, CallFields, Received
  <1> HIDE DEF g, out
  <1>4. CallOK(c) /\ c.op = "read" /\ c.io = "ready"
    BY <1>3, Fetches
  <1> HIDE DEF c
  <1>5. CASE ReadEnds(a, out)
    BY <1>1, <1>5, ReadEndsStep
  <1>6. CASE call' = [call EXCEPT ![a] = c] /\ UNCHANGED <<file, heap>>
    BY <1>1, <1>4, <1>6, FatGoesOn
  <1> QED
    BY <1>2, <1>5, <1>6

LEMMA ReadFollowStep ==
  ASSUME DiskInv, NEW a \in Actors, ReadFollow(a)
  PROVE  DiskInv'
  <1> DEFINE c == Fetch(call[a], FatCell(Sector, call[a].cluster))
  <1>1. Received(a, "read")
    BY DEF ReadFollow, Receives, Received
  <1>2. ReadEnds(a, call[a].out) \/ (call' = [call EXCEPT ![a] = c] /\ UNCHANGED <<file, heap>>)
    BY DEF ReadFollow
  <1>3. CallOK(c) /\ c.op = "read" /\ c.io = "ready"
    BY <1>1, ActorState, Fetches DEF Received
  <1> HIDE DEF c
  <1>4. CASE ReadEnds(a, call[a].out)
    BY <1>1, <1>4, ReadEndsStep
  <1>5. CASE call' = [call EXCEPT ![a] = c] /\ UNCHANGED <<file, heap>>
    BY <1>1, <1>3, <1>5, FatGoesOn
  <1> QED
    BY <1>2, <1>4, <1>5

-----------------------------------------------------------------------------
\* Calls.

\* A call that leaves the drives alone begins.
LEMMA CallBegins ==
  ASSUME DiskInv, NEW a \in Actors, MayCall(a),
         UNCHANGED <<disk, driveSelect, ata, volume, halted>>,
         Moves(a), Balanced(a), HeapShape(heap'),
         call'[a].op \notin BootOps, call'[a].io = "ready"
  PROVE  DiskInv'
  <1>1. Runs(a) /\ volume # NoVolume /\ call[a].op \notin BootOps
    BY DEF MayCall, Runs, BootOps
  <1> QED
    BY <1>1, FatStep

LEMMA FatOpenStep ==
  ASSUME DiskInv, NEW a \in Actors, NEW path, FatOpen(a, path)
  PROVE  DiskInv'
  <1> DEFINE g == [Idle EXCEPT !.path = path, !.rest = path]
             c == IF IsRootPath(path) THEN Idle ELSE Find(g, volume.root)
             f == [NoFile EXCEPT !.fs = "fat32", !.path = path, !.done = c = Idle,
                                 !.exists = IsRootPath(path), !.dir = IsRootPath(path),
                                 !.cluster = IF IsRootPath(path) THEN volume.root ELSE 0]
             n == IF c = Idle THEN 1 ELSE 2
             l == IF ~IsRootPath(path) /\ c = Idle THEN 1 ELSE 0
  <1>1. MayCall(a) /\ ~file[a].exists /\ call' = [call EXCEPT ![a] = c]
        /\ file' = [file EXCEPT ![a] = f]
        /\ UNCHANGED <<disk, driveSelect, ata, volume, halted>>
    BY DEF FatOpen
  <1>2. heap' = [heap EXCEPT !.blocks = @ + n, !.opens = @ + 1, !.lost = @ + l]
    BY DEF FatOpen
  <1>3. CallOK(c) /\ c.io = "ready" /\ (c = Idle \/ c.op = "open") /\ (IsRootPath(path) => c = Idle)
    <2>1. CallOK(g)
      BY Records DEF CallOK, Idle, CallFields, Ops, Ios
    <2> HIDE DEF g
    <2> QED
      BY <2>1, Records, Finds
  <1>4. FileOK(f) /\ (f.exists <=> IsRootPath(path))
    BY DEF FileOK, NoFile, FileFields, IsRootPath
  <1> HIDE DEF c, f
  <1>5. heap'.blocks = heap.blocks + n /\ heap'.lost = heap.lost + l /\ HeapShape(heap')
        /\ heap.blocks \in Nat /\ heap.lost \in Nat
    <2>1. n \in Int /\ l \in Nat /\ HeapOK(heap)
      BY ActorState
    <2> HIDE DEF n, l
    <2> QED
      BY <1>2, <2>1 DEF HeapOK, HeapShape
  <1>6. Moves(a) /\ call'[a] = c /\ file'[a] = f
    <2>1. c.op = "open" => ~f.exists
      BY <1>3, <1>4, Records
    <2>2. CallOK(c) /\ FileOK(f)
      BY <1>3, <1>4
    <2>3. call' = [call EXCEPT ![a] = c]
      BY <1>1
    <2>4. file' = [file EXCEPT ![a] = f]
      BY <1>1
    <2> QED
      BY <2>1, <2>2, <2>3, <2>4, MovesBoth
  <1>7. Balanced(a)
    <2>1. call[a].op = "idle" /\ Taken(call[a], file[a]) = 0
      BY <1>1 DEF MayCall, Taken, Num
    <2>2. n = l + Taken(c, f) /\ l \in Nat /\ Taken(c, f) \in Int
      BY <1>3, <1>4, Records DEF Taken, Num
    <2> HIDE DEF n, l
    <2> QED
      BY <1>5, <1>6, <2>1, <2>2 DEF Balanced
  <1>8. c.op \notin BootOps
    BY <1>3, Records DEF BootOps
  <1> QED
    BY <1>1, <1>3, <1>5, <1>6, <1>7, <1>8, CallBegins

LEMMA FatReadStep ==
  ASSUME DiskInv, NEW a \in Actors, NEW len, FatRead(a, len)
  PROVE  DiskInv'
  <1> DEFINE n == Min({len, file[a].size})
  <1>1. MayCall(a) /\ UNCHANGED <<disk, driveSelect, ata, volume, halted>>
    BY DEF FatRead
  <1>2. call[a].op = "idle" /\ call[a].io = "ready"
    BY <1>1, ActorState DEF MayCall
  <1>3. CASE file[a].dir \/ n = 0
    <2> DEFINE f == [file[a] EXCEPT !.len = len, !.got = <<>>]
    <2>1. file' = [file EXCEPT ![a] = f] /\ UNCHANGED call /\ UNCHANGED heap
      BY <1>3 DEF FatRead
    <2>2. FileOK(f) /\ f.exists = file[a].exists
      BY ActorState DEF FileOK, FileFields
    <2> HIDE DEF f
    <2>3. Moves(a) /\ call'[a] = call[a] /\ file'[a] = f
      <3>1. call' = [call EXCEPT ![a] = call'[a]]
        BY <2>1, Assigned
      <3>2. file'[a] = f /\ file' = [file EXCEPT ![a] = file'[a]]
        BY <2>1, Assigned
      <3>3. CallOK(call[a])
        BY ActorState
      <3> QED
        BY <1>2, <2>1, <2>2, <3>1, <3>2, <3>3 DEF Moves
    <2>4. Balanced(a) /\ HeapShape(heap')
      BY <2>1, <2>2, <2>3, HeapKept
    <2> QED
      BY <1>1, <1>2, <2>3, <2>4, CallBegins DEF BootOps
  <1>4. CASE ~(file[a].dir \/ n = 0)
    <2> DEFINE f == [file[a] EXCEPT !.len = len, !.got = <<>>, !.done = FALSE]
               g == [Idle EXCEPT !.op = "read", !.left = n]
               c == Fetch(g, file[a].cluster)
    <2>1. /\ file' = [file EXCEPT ![a] = f] /\ call' = [call EXCEPT ![a] = c]
          /\ heap' = [heap EXCEPT !.blocks = @ + 1]
      BY <1>4 DEF FatRead
    <2>2. FileOK(f) /\ f.exists = file[a].exists
      BY ActorState DEF FileOK, FileFields
    <2>3. CallOK(g) /\ g.op = "read"
      BY DEF CallOK, Idle, CallFields, Ops, Ios
    <2> HIDE DEF f, g
    <2>4. CallOK(c) /\ c.op = "read" /\ c.io = "ready"
      BY <2>3, Fetches
    <2> HIDE DEF c
    <2>5. Moves(a) /\ call'[a] = c /\ file'[a] = f
      BY <2>1, <2>2, <2>4, MovesBoth
    <2>6. HeapShape(heap') /\ heap'.blocks = heap.blocks + 1 /\ heap'.lost = heap.lost
          /\ heap.blocks \in Nat /\ heap.lost \in Nat
      BY <2>1, ActorState DEF HeapOK, HeapShape
    <2>7. Taken(c, f) = Taken(call[a], file[a]) + 1 /\ Taken(call[a], file[a]) \in Int
      BY <1>2, <2>2, <2>4 DEF Taken, Num
    <2>8. Balanced(a)
      BY <2>5, <2>6, <2>7 DEF Balanced
    <2> QED
      BY <1>1, <2>4, <2>5, <2>6, <2>8, CallBegins DEF BootOps
  <1> QED
    BY <1>3, <1>4

LEMMA BootOpenStep ==
  ASSUME DiskInv, NEW a \in Actors, NEW n, BootOpen(a, n)
  PROVE  DiskInv'
  <1> DEFINE f == [NoFile EXCEPT !.fs = "boot", !.exists = TRUE, !.size = 2,
                                 !.cluster = n, !.done = TRUE]
  <1>1. MayCall(a) /\ UNCHANGED <<disk, driveSelect, ata, volume, halted>> /\ UNCHANGED call
        /\ ~file[a].exists /\ file' = [file EXCEPT ![a] = f]
        /\ heap' = [heap EXCEPT !.blocks = @ + 1, !.opens = @ + 1]
    BY DEF BootOpen
  <1>2. call[a].op = "idle" /\ call[a].io = "ready" /\ CallOK(call[a])
    BY <1>1, ActorState DEF MayCall, CallOK
  <1>3. FileOK(f) /\ f.exists
    BY DEF FileOK, NoFile, FileFields
  <1> HIDE DEF f
  <1>4. Moves(a) /\ call'[a] = call[a] /\ file'[a] = f
    <2>1. call' = [call EXCEPT ![a] = call'[a]]
      BY <1>1, Assigned
    <2>2. file'[a] = f /\ file' = [file EXCEPT ![a] = file'[a]]
      BY <1>1, Assigned
    <2> QED
      BY <1>1, <1>2, <1>3, <2>1, <2>2 DEF Moves
  <1>5. HeapShape(heap') /\ heap'.blocks = heap.blocks + 1 /\ heap'.lost = heap.lost
        /\ heap.blocks \in Nat /\ heap.lost \in Nat
    BY <1>1, ActorState DEF HeapOK, HeapShape
  <1>6. Taken(call[a], f) = 1 /\ Taken(call[a], file[a]) = 0
    BY <1>1, <1>2, <1>3 DEF Taken, Num
  <1>7. Balanced(a)
    BY <1>4, <1>5, <1>6 DEF Balanced
  <1> QED
    BY <1>1, <1>2, <1>4, <1>5, <1>7, CallBegins DEF BootOps

LEMMA CloseStep ==
  ASSUME DiskInv, NEW a \in Actors, Close(a)
  PROVE  DiskInv'
  <1>1. MayCall(a) /\ UNCHANGED <<disk, driveSelect, ata, volume, halted>> /\ UNCHANGED call
        /\ file[a].exists /\ file' = [file EXCEPT ![a] = NoFile]
        /\ heap' = [heap EXCEPT !.blocks = @ - 1]
    BY DEF Close
  <1>2. call[a].op = "idle" /\ call[a].io = "ready" /\ CallOK(call[a])
    BY <1>1, ActorState DEF MayCall, CallOK
  <1>3. Moves(a) /\ call'[a] = call[a] /\ file'[a] = NoFile
    <2>1. call' = [call EXCEPT ![a] = call'[a]]
      BY <1>1, Assigned
    <2>2. file'[a] = NoFile /\ file' = [file EXCEPT ![a] = file'[a]]
      BY <1>1, Assigned
    <2> QED
      BY <1>1, <1>2, Records, <2>1, <2>2 DEF Moves
  <1>4. HeapShape(heap') /\ heap'.blocks = heap.blocks - 1 /\ heap'.lost = heap.lost
        /\ heap.blocks \in Nat /\ heap.lost \in Nat
    BY <1>1, ActorState DEF HeapOK, HeapShape
  <1>5. Taken(call[a], NoFile) = 0 /\ Taken(call[a], file[a]) = 1
    BY <1>1, <1>2, Records DEF Taken, Num
  <1>6. Balanced(a)
    BY <1>3, <1>4, <1>5 DEF Balanced
  <1> QED
    BY <1>1, <1>2, <1>3, <1>4, <1>6, CallBegins DEF BootOps

-----------------------------------------------------------------------------
\* The boot file system: calls that switch the drive.

LEMMA Homes == Home \in Drives /\ Other(Home) \in Drives /\ Home # Other(Home) /\ Other(Other(Home)) = Home
  BY DEF Home, Other, Drives

\* Storage is switched over for a call that begins.
LEMMA BootBegins ==
  ASSUME DiskInv, NEW a \in Procs, MayCall(a), SelectNextDrive,
         UNCHANGED <<disk, ata, volume, halted>>, Moves(a), Balanced(a), HeapShape(heap'),
         call'[a].op \in BootOps, Transferring(a)'
  PROVE  DiskInv'
  <1>1. a \in Actors /\ "loader" \in Actors /\ Procs \subseteq Actors /\ "loader" \notin Procs
    BY ActorsFinite
  <1>2. DiskTypes /\ Accounts /\ DriveInv /\ volume # NoVolume /\ Masked = {}
    BY DEF DiskInv, MayCall
  <1>3. /\ call' = [b \in Actors |-> call'[b]] /\ \A b \in Actors : CallOK(call'[b])
        /\ file' = [b \in Actors |-> file'[b]] /\ \A b \in Actors : FileOK(file'[b])
        /\ heap'.blocks \in Nat /\ heap'.lost \in Nat
        /\ Accounts'
    BY <1>1, <1>2, ActorStep
  <1>4. \A b \in Actors : b # a => call'[b] = call[b]
    BY <1>1, <1>2 DEF DiskTypes, Moves
  <1>5. Masked' \subseteq {a}
    BY <1>1, <1>2, <1>4 DEF Masked
  <1>6. driveSelect = Home /\ Home' = Home
    BY <1>2 DEF DriveInv, Masked, BootOps, Home
  <1>7. driveSelect' = Other(Home)
    BY <1>6 DEF SelectNextDrive
  <1>8. call'["loader"].op \notin BootOps
    BY <1>1, <1>2, <1>4 DEF DriveInv
  <1>9. DriveInv'
    BY <1>1, <1>2, <1>5, <1>6, <1>7, <1>8 DEF DriveInv
  <1>10. DiskTypes'
    BY <1>2, <1>3, <1>7, Homes DEF DiskTypes, HeapOK
  <1> QED
    BY <1>3, <1>9, <1>10 DEF DiskInv

LEMMA BootReadStep ==
  ASSUME DiskInv, NEW a \in Procs, NEW len, BootRead(a, len)
  PROVE  DiskInv'
  <1> DEFINE c == [Idle EXCEPT !.op = "bootread", !.want = file[a].cluster]
             f == [file[a] EXCEPT !.len = len, !.got = <<>>, !.done = FALSE]
  <1>1. MayCall(a) /\ SelectNextDrive /\ UNCHANGED <<disk, ata, volume, halted>> /\ UNCHANGED heap
        /\ call' = [call EXCEPT ![a] = c] /\ file' = [file EXCEPT ![a] = f] /\ a \in Actors
    BY ActorsFinite DEF BootRead
  <1>2. CallOK(c) /\ c.op = "bootread" /\ c.io = "ready" /\ c.want = file[a].cluster
    BY DEF CallOK, Idle, CallFields, Ops, BootOps, Ios
  <1>3. FileOK(f) /\ f.exists = file[a].exists /\ f.cluster = file[a].cluster
    BY <1>1, ActorState DEF FileOK, FileFields
  <1> HIDE DEF c, f
  <1>4. Moves(a) /\ call'[a] = c /\ file'[a] = f
    BY <1>1, <1>2, <1>3, MovesBoth
  <1>5. Balanced(a) /\ HeapShape(heap')
    <2>1. Taken(c, f) = Taken(call[a], file[a]) /\ Taken(call[a], file[a]) \in Int
      BY <1>1, <1>2, <1>3 DEF Taken, Num, MayCall
    <2>2. HeapOK(heap)
      BY <1>1, ActorState
    <2> QED
      BY <1>1, <1>4, <2>1, <2>2 DEF Balanced, HeapOK
  <1>6. Transferring(a)'
    BY <1>2, <1>3, <1>4 DEF Transferring
  <1> QED
    BY <1>1, <1>2, <1>4, <1>5, <1>6, BootBegins DEF BootOps

LEMMA BootWriteStep ==
  ASSUME DiskInv, NEW a \in Procs, NEW len \in WriteLens, BootWrite(a, len)
  PROVE  DiskInv'
  <1> DEFINE half == len \div 2
             c == [Idle EXCEPT !.op = IF half < 2 THEN "merge" ELSE "store",
                               !.want = file[a].cluster, !.left = half,
                               !.out = IF half < 2 THEN <<>> ELSE <<Data("new"), Data("new")>>]
             f == [file[a] EXCEPT !.len = len]
  <1>1. MayCall(a) /\ SelectNextDrive /\ UNCHANGED <<disk, ata, volume, halted>>
        /\ call' = [call EXCEPT ![a] = c] /\ file' = [file EXCEPT ![a] = f] /\ a \in Actors
        /\ heap' = [heap EXCEPT !.writes = @ + 1]
    BY ActorsFinite DEF BootWrite
  <1>2. half \in Nat /\ half >= 1 /\ (len < 4 => half < 2)
    BY DiskAssumption
  <1> HIDE DEF half
  <1>3. CallOK(c) /\ c.op \in BootOps /\ c.op \in {"merge", "store"} /\ c.io = "ready" /\ c.want = file[a].cluster
    BY DEF CallOK, Idle, CallFields, Ops, BootOps, Ios
  <1>4. /\ c.op = "merge" => c.left = 1
        /\ c.op = "store" => half >= 2 /\ c.out[1] = Data("new")
    BY <1>2 DEF Idle
  <1>5. FileOK(f) /\ f.exists = file[a].exists /\ f.cluster = file[a].cluster /\ f.len = len
    BY <1>1, ActorState DEF FileOK, FileFields
  <1> HIDE DEF c, f
  <1>6. Moves(a) /\ call'[a] = c /\ file'[a] = f
    <2>1. c.op # "open"
      BY <1>3
    <2> QED
      BY <1>1, <1>3, <1>5, <2>1, MovesBoth
  <1>7. Balanced(a) /\ HeapShape(heap')
    <2>1. Taken(c, f) = Taken(call[a], file[a]) /\ Taken(call[a], file[a]) \in Int
      BY <1>1, <1>3, <1>5 DEF Taken, Num, MayCall
    <2>2. HeapOK(heap)
      BY <1>1, ActorState
    <2> QED
      BY <1>1, <1>6, <2>1, <2>2 DEF Balanced, HeapOK, HeapShape
  <1>8. Transferring(a)'
    BY <1>2, <1>3, <1>4, <1>5, <1>6 DEF Transferring
  <1> QED
    BY <1>1, <1>3, <1>6, <1>7, <1>8, BootBegins

\* What a call of the boot file system finds when its sector is there.
LEMMA BootState ==
  ASSUME DiskInv, NEW a \in Actors, call[a].op \in BootOps
  PROVE  /\ a \in Procs /\ a \in Masked /\ Masked \subseteq {a} /\ volume # NoVolume
         /\ driveSelect = Other(Home) /\ Transferring(a)
  <1>1. a \in Procs /\ call[a].op # "idle"
    BY DEF DiskInv, DriveInv, BootOps, Actors
  <1>2. a \in Masked /\ Masked \subseteq {a} /\ volume # NoVolume
    BY <1>1, ActorState DEF DiskInv, DriveInv, Masked
  <1> QED
    BY <1>1, <1>2 DEF DiskInv, DriveInv

\* Storage is switched back when it ends.
LEMMA BootEnds ==
  ASSUME DiskInv, NEW a \in Actors, call[a].op \in BootOps, call' = [call EXCEPT ![a] = Idle],
         Moves(a), file'[a].exists = file[a].exists, SelectNextDrive,
         UNCHANGED volume, UNCHANGED heap, UNCHANGED halted, ata' = [ata EXCEPT !.drq = FALSE],
         Home' = Home, DOMAIN disk' = Drives, \A d \in Drives : disk'[d] = <<>> \/ 0 \in DOMAIN disk'[d]
  PROVE  DiskInv'
  <1>1. "loader" \in Actors /\ Procs \subseteq Actors /\ "loader" \notin Procs
    BY ActorsFinite
  <1>2. DiskTypes /\ Accounts /\ DriveInv
    BY DEF DiskInv
  <1>3. a \in Procs /\ Masked \subseteq {a} /\ volume # NoVolume /\ driveSelect = Other(Home)
    BY BootState
  <1>4. call'[a] = Idle
    BY Assigned
  <1>5. Balanced(a)
    <2>1. Taken(Idle, file'[a]) = Taken(call[a], file[a]) /\ Taken(call[a], file[a]) \in Int
      BY Records DEF Taken, Num, BootOps
    <2> QED
      BY <1>4, <2>1, ActorState DEF Balanced
  <1>6. /\ call' = [b \in Actors |-> call'[b]] /\ \A b \in Actors : CallOK(call'[b])
        /\ file' = [b \in Actors |-> file'[b]] /\ \A b \in Actors : FileOK(file'[b])
        /\ heap'.blocks \in Nat /\ heap'.lost \in Nat
        /\ Accounts'
    BY <1>2, <1>3, <1>5, ActorStep
  <1>7. \A b \in Actors : b # a => call'[b] = call[b]
    BY <1>2 DEF DiskTypes, Moves
  <1>8. Masked' = {}
    BY <1>1, <1>3, <1>4, <1>7, Records DEF Masked
  <1>9. driveSelect' = Home'
    BY <1>3, Homes DEF SelectNextDrive
  <1>10. call'["loader"].op \notin BootOps /\ \A p \in Procs : call'[p].op \notin BootOps
    BY <1>1, <1>2, <1>7, <1>8 DEF DriveInv, Masked, BootOps
  <1>11. DriveInv'
    BY <1>3, <1>8, <1>9, <1>10 DEF DriveInv
  <1>12. DiskTypes'
    BY <1>2, <1>6, <1>9, Homes DEF DiskTypes, HeapOK
  <1> QED
    BY <1>6, <1>11, <1>12 DEF DiskInv

LEMMA BootReceiveStep ==
  ASSUME DiskInv, NEW a \in Actors, BootReceive(a)
  PROVE  DiskInv'
  <1> DEFINE f == [file[a] EXCEPT !.got = Sector, !.done = TRUE]
  <1>1. /\ call[a].op = "bootread" /\ ata' = [ata EXCEPT !.drq = FALSE] /\ SelectNextDrive
        /\ file' = [file EXCEPT ![a] = f] /\ call' = [call EXCEPT ![a] = Idle]
        /\ UNCHANGED disk /\ UNCHANGED volume /\ UNCHANGED heap /\ UNCHANGED halted
    BY DEF BootReceive, Receives
  <1>2. FileOK(f) /\ f.exists = file[a].exists
    BY ActorState DEF FileOK, FileFields
  <1> HIDE DEF f
  <1>3. Moves(a) /\ file'[a] = f
    BY <1>1, <1>2, Records, MovesBoth
  <1>4. /\ Home' = Home /\ DOMAIN disk' = Drives
        /\ \A d \in Drives : disk'[d] = <<>> \/ 0 \in DOMAIN disk'[d]
    BY <1>1 DEF Home, DiskInv, DiskTypes, DriveInv
  <1> QED
    BY <1>1, <1>2, <1>3, <1>4, BootEnds DEF BootOps

LEMMA BootMergeStep ==
  ASSUME DiskInv, NEW a \in Actors, BootMerge(a)
  PROVE  DiskInv'
  <1> DEFINE o == [i \in 1 .. 2 |-> IF i <= call[a].left THEN Data("new") ELSE Sector[i]]
             c == [call[a] EXCEPT !.op = "store", !.io = "ready", !.out = o]
  <1>1. /\ Runs(a) /\ call[a].op = "merge" /\ call[a].io = "commanded"
        /\ ata' = [ata EXCEPT !.drq = FALSE] /\ call' = [call EXCEPT ![a] = c]
        /\ UNCHANGED <<disk, driveSelect, volume, halted>> /\ UNCHANGED file /\ UNCHANGED heap
    BY DEF BootMerge, Receives
  <1>2. volume # NoVolume /\ driveSelect = Other(Home) /\ Transferring(a) /\ call[a].op \in BootOps
    BY <1>1, BootState DEF BootOps
  <1>3. call[a].left = 1 /\ call[a].want = file[a].cluster
        /\ Sector = disk[Other(Home)][call[a].want]
    BY <1>1, <1>2 DEF Transferring, Sector
  <1>4. o[1] = Data("new") /\ o[2] = disk[Other(Home)][call[a].want][2]
    BY <1>3
  <1> HIDE DEF o
  <1>5. CallOK(c) /\ c.op = "store" /\ c.io = "ready" /\ c.want = call[a].want /\ c.out = o
    BY ActorState DEF CallOK, CallFields, Ops, Ios, BootOps
  <1> HIDE DEF c
  <1>6. Moves(a) /\ call'[a] = c /\ file'[a] = file[a]
    BY <1>1, <1>5, MovesCall
  <1>7. Balanced(a) /\ HeapShape(heap')
    <2>1. Taken(c, file[a]) = Taken(call[a], file[a]) /\ Taken(call[a], file[a]) \in Int
      BY <1>1, <1>5 DEF Taken, Num
    <2>2. HeapOK(heap)
      BY ActorState
    <2> QED
      BY <1>1, <1>6, <2>1, <2>2 DEF Balanced, HeapOK
  <1>8. DOMAIN ata' = {"drive", "sector", "drq"} /\ ata'.drq \in BOOLEAN /\ halted' \in BOOLEAN
    BY <1>1, ActorState
  <1>9. Transferring(a)'
    <2>1. Home' = Home
      BY <1>1 DEF Home
    <2> QED
      BY <1>1, <1>3, <1>4, <1>5, <1>6, <2>1 DEF Transferring
  <1> QED
    BY <1>1, <1>2, <1>5, <1>6, <1>7, <1>8, <1>9, StepOK DEF BootOps

\* What a write does to the drives: one sector of the boot drive gets what the
\* call put together.
LEMMA Stores ==
  ASSUME DiskInv, NEW a \in Actors, BootStore(a)
  PROVE  LET boot == Other(Home)
             s == call[a].want
         IN  /\ a \in Procs /\ call[a].op = "store" /\ s = file[a].cluster
             /\ disk' = [disk EXCEPT ![boot] = [disk[boot] EXCEPT ![s] = call[a].out]]
             /\ disk[boot] # <<>> /\ call[a].out[1] = Data("new")
             /\ file[a].len < 4 => call[a].out[2] = disk[boot][s][2]
  <1>1. /\ call[a].op = "store" /\ call[a].io = "commanded" /\ ata.drq
        /\ disk' = [disk EXCEPT ![ata.drive][ata.sector] = call[a].out]
    BY DEF BootStore, Receives
  <1>2. a \in Procs /\ driveSelect = Other(Home) /\ Transferring(a)
    BY <1>1, BootState DEF BootOps
  <1>3. /\ ata.drive = Other(Home) /\ ata.sector = call[a].want /\ call[a].want = file[a].cluster
        /\ disk[Other(Home)] # <<>> /\ call[a].out[1] = Data("new")
        /\ file[a].len < 4 => call[a].out[2] = disk[Other(Home)][call[a].want][2]
    BY <1>1, <1>2 DEF Transferring, BootOps
  <1> QED
    BY <1>1, <1>2, <1>3

\* The file system's drive is what it was, and is told apart as it was.
LEMMA HomeKept ==
  ASSUME DiskInv, NEW a \in Actors, BootStore(a)
  PROVE  /\ DOMAIN disk' = Drives /\ disk'[Home] = disk[Home] /\ Home' = Home
         /\ \A d \in Drives : disk'[d] = <<>> \/ 0 \in DOMAIN disk'[d]
  <1> DEFINE boot == Other(Home)
             s == call[a].want
  <1>1. /\ disk' = [disk EXCEPT ![boot] = [disk[boot] EXCEPT ![s] = call[a].out]]
        /\ disk[boot] # <<>> /\ call[a].out[1] = Data("new")
    BY Stores
  <1>2. DOMAIN disk = Drives /\ \A d \in Drives : disk[d] = <<>> \/ 0 \in DOMAIN disk[d]
    BY DEF DiskInv, DiskTypes, DriveInv
  <1>3. boot \in Drives /\ Home \in Drives /\ Home # boot
    BY Homes
  <1>4. /\ DOMAIN disk' = Drives /\ disk'[boot] = [disk[boot] EXCEPT ![s] = call[a].out]
        /\ \A d \in Drives : d # boot => disk'[d] = disk[d]
    BY <1>1, <1>2, <1>3
  <1>5. 0 \in DOMAIN disk[boot] /\ 0 \in DOMAIN disk'[boot]
    BY <1>1, <1>2, <1>3, <1>4
  <1>6. disk'[Home] = disk[Home]
    BY <1>3, <1>4
  <1>7. \A d \in Drives : disk'[d] = <<>> \/ 0 \in DOMAIN disk'[d]
    BY <1>2, <1>4, <1>5
  <1>8. Home' = Home
    <2>1. CASE Home = "master"
      BY <1>6, <2>1 DEF Home
    <2>2. CASE Home = "slave"
      <3>1. boot = "master"
        BY <2>2 DEF Other
      <3>2. disk["master"][0][1] # Label("fat32")
        BY <1>1, <2>2, <3>1 DEF Home
      <3>3. disk'["master"][0] = IF s = 0 THEN call[a].out ELSE disk["master"][0]
        BY <1>4, <1>5, <3>1
      <3>4. Data("new") # Label("fat32")
        BY DEF Data, Label
      <3>5. disk'["master"][0][1] # Label("fat32")
        BY <1>1, <3>2, <3>3, <3>4
      <3> QED
        BY <2>2, <3>5 DEF Home
    <2> QED
      BY <1>3, <2>1, <2>2 DEF Drives
  <1> QED
    BY <1>4, <1>6, <1>7, <1>8

LEMMA BootStoreStep ==
  ASSUME DiskInv, NEW a \in Actors, BootStore(a)
  PROVE  DiskInv'
  <1>1. /\ call[a].op = "store" /\ ata' = [ata EXCEPT !.drq = FALSE] /\ SelectNextDrive
        /\ call' = [call EXCEPT ![a] = Idle]
        /\ UNCHANGED volume /\ UNCHANGED file /\ UNCHANGED heap /\ UNCHANGED halted
    BY DEF BootStore, Receives
  <1>2. Moves(a) /\ file'[a] = file[a]
    BY <1>1, Records, MovesCall
  <1>3. /\ Home' = Home /\ DOMAIN disk' = Drives
        /\ \A d \in Drives : disk'[d] = <<>> \/ 0 \in DOMAIN disk'[d]
    BY HomeKept
  <1> QED
    BY <1>1, <1>2, <1>3, BootEnds DEF BootOps

\* The kernel stops; nothing else changes but the data register.
LEMMA BootStoreFailsStep ==
  ASSUME DiskInv, NEW a \in Actors, BootStoreFails(a)
  PROVE  DiskInv'
  <1> DEFINE c == call[a]
  <1>1. /\ Runs(a) /\ c.io = "commanded" /\ UNCHANGED <<disk, driveSelect, volume>>
        /\ UNCHANGED call /\ UNCHANGED file /\ UNCHANGED heap /\ halted' = TRUE
        /\ ata' = [ata EXCEPT !.drq = FALSE]
    BY DEF BootStoreFails, Receives
  <1>2. c.op # "idle" /\ volume # NoVolume /\ CallOK(c)
    BY <1>1, ActorState
  <1>3. call' = [call EXCEPT ![a] = c]
    BY <1>1, Assigned
  <1>4. DOMAIN ata' = {"drive", "sector", "drq"} /\ ata'.drq \in BOOLEAN /\ halted' \in BOOLEAN
    BY <1>1, ActorState
  <1>5. Moves(a) /\ call'[a] = c /\ file'[a] = file[a]
    <2>1. c.op = "open" => ~file[a].exists
      BY ActorState
    <2> QED
      BY <1>1, <1>2, <1>3, <2>1, MovesCall
  <1>6. Balanced(a) /\ HeapShape(heap')
    BY <1>1, <1>5, HeapKept
  <1>7. ASSUME a \in Procs PROVE Transferring(a)'
    <2>1. Transferring(a)
      BY <1>2, <1>7, InTransfer
    <2>2. Home' = Home
      BY <1>1 DEF Home
    <2>3. ata'.drive = ata.drive /\ ata'.sector = ata.sector
      BY <1>1, ActorState
    <2> QED
      BY <1>1, <1>5, <2>1, <2>2, <2>3 DEF Transferring
  <1> QED
    BY <1>1, <1>2, <1>3, <1>4, <1>5, <1>6, <1>7, StepOK

-----------------------------------------------------------------------------
\* Boot.

\* Nobody has anything of the heap before the volume is mounted.
LEMMA NobodyYet ==
  ASSUME \A a \in Actors : call[a].op = "idle" /\ ~file[a].exists
  PROVE  /\ Cardinality({a \in Actors : file[a].exists}) = 0
         /\ Cardinality({a \in Actors : call[a].op = "open"}) = 0
         /\ Cardinality({a \in Actors : call[a].op \in {"open", "read"}}) = 0
         /\ Masked = {}
  <1>1. /\ {a \in Actors : file[a].exists} = {} /\ {a \in Actors : call[a].op = "open"} = {}
        /\ {a \in Actors : call[a].op \in {"open", "read"}} = {} /\ Masked = {}
    BY ActorsFinite DEF Masked
  <1> QED
    BY <1>1, FS_EmptySet

LEMMA InitOK == Init => DiskInv
  <1> SUFFICES ASSUME Init PROVE DiskInv
    OBVIOUS
  <1>1. /\ call = [a \in Actors |-> Idle] /\ file = [a \in Actors |-> NoFile]
        /\ volume = NoVolume /\ disk \in Machines /\ driveSelect = "master" /\ halted = FALSE
        /\ ata = [drive |-> "master", sector |-> 0, drq |-> FALSE]
        /\ heap = [blocks |-> 0, opens |-> 0, lost |-> 0, writes |-> 0]
    BY DEF Init
  <1>2. \A a \in Actors : call[a] = Idle /\ file[a] = NoFile
    BY <1>1
  <1>3. DiskTypes
    <2>1. call = [a \in Actors |-> call[a]] /\ file = [a \in Actors |-> file[a]]
      BY <1>1
    <2>2. \A a \in Actors : CallOK(call[a]) /\ FileOK(file[a])
      BY <1>2, Records
    <2>3. HeapOK(heap) /\ DOMAIN ata = {"drive", "sector", "drq"} /\ ata.drq \in BOOLEAN
      BY <1>1 DEF HeapOK, HeapShape
    <2>4. DOMAIN disk = Drives /\ driveSelect \in Drives
      BY <1>1, DiskAssumption DEF Drives
    <2> QED
      BY <1>1, <2>1, <2>2, <2>3, <2>4 DEF DiskTypes
  <1>4. \A a \in Actors : call[a].op = "idle" /\ ~file[a].exists
    BY <1>2, Records
  <1>5. Accounts
    <2>1. heap.blocks = 0 /\ heap.lost = 0
      BY <1>1
    <2> QED
      BY <1>1, <1>4, <2>1, NobodyYet DEF Accounts, BlocksReturned
  <1>6. DriveInv
    <2>1. Masked = {}
      BY <1>4, NobodyYet
    <2>2. call["loader"].op \notin BootOps
      BY <1>4, ActorsFinite DEF BootOps
    <2>3. \A d \in Drives : disk[d] = <<>> \/ 0 \in DOMAIN disk[d]
      BY <1>1, DiskAssumption, VolumeAssumption DEF Drives
    <2>4. heap.blocks = 0
      BY <1>1
    <2> QED
      BY <1>1, <2>1, <2>2, <2>3, <2>4 DEF DriveInv
  <1> QED
    BY <1>3, <1>5, <1>6 DEF DiskInv

LEMMA StorageInitStep ==
  ASSUME DiskInv, StorageInit
  PROVE  DiskInv'
  <1>1. DiskTypes /\ Accounts /\ DriveInv /\ heap.blocks = 0
        /\ UNCHANGED <<disk, ata, volume>> /\ UNCHANGED call /\ UNCHANGED file
    BY DEF DiskInv, StorageInit
  <1>2. volume = NoVolume /\ heap.lost = 0 /\ \A a \in Actors : call[a].op = "idle" /\ ~file[a].exists
    BY <1>1 DEF Accounts
  <1>3. CASE disk["master"] = <<>>
    <2>1. halted' = TRUE /\ UNCHANGED driveSelect /\ UNCHANGED heap
      BY <1>3 DEF StorageInit
    <2>2. DiskTypes'
      BY <1>1, <2>1 DEF DiskTypes
    <2>3. Accounts'
      BY <1>1, <2>1 DEF Accounts, BlocksReturned
    <2>4. DriveInv'
      BY <1>1, <1>2, <2>1, NobodyYet DEF DriveInv, First, Masked
    <2> QED
      BY <2>2, <2>3, <2>4 DEF DiskInv
  <1>4. CASE disk["master"] # <<>>
    <2>1. driveSelect' = First /\ heap' = [heap EXCEPT !.blocks = 1] /\ UNCHANGED halted
      BY <1>4 DEF StorageInit, AtaInit, First
    <2>2. HeapOK(heap') /\ heap'.blocks = 1 /\ heap'.lost = 0
      BY <1>1, <1>2, <2>1 DEF DiskTypes, HeapOK, HeapShape
    <2>3. DiskTypes'
      BY <1>1, <2>1, <2>2 DEF DiskTypes, First, Drives
    <2>4. Accounts'
      <3>1. BlocksReturned'
        BY <1>1, <1>2, <2>2, NobodyYet DEF BlocksReturned
      <3> QED
        BY <1>1, <1>2, <2>2, <3>1 DEF Accounts
    <2>5. DriveInv'
      <3>1. Masked' = {}
        BY <1>1, <1>2, NobodyYet DEF Masked
      <3>2. driveSelect' = First'
        BY <1>1, <2>1 DEF First
      <3> QED
        BY <1>1, <1>2, <3>1, <3>2 DEF DriveInv
    <2> QED
      BY <2>3, <2>4, <2>5 DEF DiskInv
  <1> QED
    BY <1>3, <1>4

LEMMA FatMountStep ==
  ASSUME DiskInv, FatMount
  PROVE  DiskInv'
  <1>1. DiskTypes /\ Accounts /\ DriveInv /\ heap.blocks = 1 /\ volume = NoVolume
        /\ UNCHANGED <<disk, driveSelect, ata>> /\ UNCHANGED call /\ UNCHANGED file
    BY DEF DiskInv, FatMount
  <1>2. heap.lost = 0 /\ \A a \in Actors : call[a].op = "idle" /\ ~file[a].exists
    BY <1>1 DEF Accounts
  <1>3. Masked = {} /\ Masked' = {}
    BY <1>1, <1>2, NobodyYet DEF Masked
  <1>4. CASE disk[driveSelect] = <<>>
    <2>1. halted' = TRUE /\ UNCHANGED volume /\ UNCHANGED heap
      BY <1>4 DEF FatMount
    <2>2. DiskTypes'
      BY <1>1, <2>1 DEF DiskTypes
    <2>3. Accounts'
      BY <1>1, <2>1 DEF Accounts, BlocksReturned
    <2>4. DriveInv'
      BY <1>1, <1>3, <2>1 DEF DriveInv, First
    <2> QED
      BY <2>2, <2>3, <2>4 DEF DiskInv
  <1>5. CASE disk[driveSelect] # <<>>
    <2> DEFINE b == disk[driveSelect][0]
    <2>1. /\ b[1] = Label("fat32") /\ heap' = [heap EXCEPT !.blocks = @ + 1] /\ UNCHANGED halted
          /\ volume' = [data |-> b[2].reserved + b[2].fats * b[2].fatSize,
                        reserved |-> b[2].reserved, spc |-> b[2].spc, root |-> b[2].root]
      BY <1>5 DEF FatMount
    <2>2. disk \in Machines /\ driveSelect = First /\ driveSelect \in Drives /\ DOMAIN disk = Drives
      BY <1>1 DEF DriveInv, DiskTypes
    <2>3. volume' # NoVolume
      <3>1. b[2].spc # 0
        BY <1>5, <2>1, <2>2, VolumeAssumption
      <3>2. volume'.spc = b[2].spc /\ NoVolume.spc = 0
        BY <2>1 DEF NoVolume
      <3> QED
        BY <3>1, <3>2
    <2>4. HeapOK(heap') /\ heap'.blocks = 2 /\ heap'.lost = 0
      BY <1>1, <1>2, <2>1 DEF DiskTypes, HeapOK, HeapShape
    <2>5. DiskTypes'
      BY <1>1, <2>1, <2>4 DEF DiskTypes
    <2>6. Accounts'
      <3>1. BlocksReturned'
        BY <1>1, <1>2, <2>3, <2>4, NobodyYet DEF BlocksReturned
      <3> QED
        BY <1>1, <1>2, <2>3, <2>4, <3>1 DEF Accounts
    <2>7. driveSelect = Home
      <3>1. Label("RivBoot") # Label("fat32")
        BY DEF Label
      <3>2. CASE driveSelect = "master"
        BY <1>5, <2>1, <3>2 DEF Home
      <3>3. CASE driveSelect = "slave"
        BY <2>2, <3>1, <3>3 DEF Home, First
      <3> QED
        BY <2>2, <3>2, <3>3 DEF Drives
    <2>8. \A p \in Procs : call'[p].op \notin BootOps
      BY <1>1, <1>2, ActorsFinite DEF BootOps
    <2>9. DriveInv'
      <3>1. driveSelect' = Home'
        BY <1>1, <2>7 DEF Home
      <3> QED
        BY <1>1, <1>3, <2>3, <2>8, <3>1 DEF DriveInv
    <2> QED
      BY <2>5, <2>6, <2>9 DEF DiskInv
  <1> QED
    BY <1>4, <1>5

-----------------------------------------------------------------------------
\* Together.

LEMMA TransferStep ==
  ASSUME DiskInv, NEW a \in Actors, Transfer(a)
  PROVE  DiskInv'
  BY AddressStep, CommandStep, ConfusedStep, NextSectorStep, OpenScanStep, OpenFollowStep,
     ReadCopyStep, ReadFollowStep, BootReceiveStep, BootMergeStep, BootStoreStep,
     BootStoreFailsStep DEF Transfer

LEMMA NextOK == DiskInv /\ [Next]_vars => DiskInv'
  <1> SUFFICES ASSUME DiskInv, [Next]_vars PROVE DiskInv'
    OBVIOUS
  <1>1. CASE StorageInit
    BY <1>1, StorageInitStep
  <1>2. CASE FatMount
    BY <1>2, FatMountStep
  <1>3. ASSUME NEW a \in Actors, FatCalls(a) PROVE DiskInv'
    BY <1>3, FatOpenStep, FatReadStep DEF FatCalls
  <1>4. ASSUME NEW a \in Actors, Transfer(a) PROVE DiskInv'
    BY <1>4, TransferStep
  <1>5. ASSUME NEW p \in Procs, BootCalls(p) PROVE DiskInv'
    <2>1. p \in Actors
      BY ActorsFinite
    <2>2. CASE \E n \in {0} : BootOpen(p, n)
      BY <2>1, <2>2, BootOpenStep
    <2>3. CASE \E len \in ReadLens : BootRead(p, len)
      BY <2>3, BootReadStep
    <2>4. CASE \E len \in WriteLens : BootWrite(p, len)
      BY <2>4, BootWriteStep
    <2>5. CASE Close(p)
      BY <2>1, <2>5, CloseStep
    <2> QED
      BY <1>5, <2>2, <2>3, <2>4, <2>5 DEF BootCalls
  <1>6. CASE UNCHANGED vars
    BY <1>6 DEF vars, DiskInv, DiskTypes, Accounts, BlocksReturned, DriveInv, Masked, First, Home, Transferring
  <1> QED
    BY <1>1, <1>2, <1>3, <1>4, <1>5, <1>6 DEF Next

\* Types, the accounts of the heap, and where Storage is during the calls of the
\* two file systems: DiskInv holds for any processes, drives and interleaving.
THEOREM DiskInvariant == Spec => []DiskInv
  BY InitOK, NextOK, PTL DEF Spec

\* Every block that FAT32's open and read and the boot file system's open take is
\* given back, or is lost where the code loses it (a failed open's FileData).
THEOREM HeapBlocksReturned == Spec => []BlocksReturned
  <1>1. DiskInv => BlocksReturned
    BY DEF DiskInv, Accounts
  <1> QED
    BY <1>1, DiskInvariant, PTL

\* Only the boot file system's store writes to a drive.
LEMMA OnlyStoresWrite ==
  ASSUME Next, disk' # disk
  PROVE  \E a \in Actors : BootStore(a)
  <1>1. ~StorageInit /\ ~FatMount
    BY DEF StorageInit, FatMount
  <1>2. \A a \in Actors : ~FatCalls(a)
    BY DEF FatCalls, FatOpen, FatRead
  <1>3. \A p \in Procs : ~BootCalls(p)
    BY DEF BootCalls, BootOpen, BootRead, BootWrite, Close
  <1>4. \A a \in Actors : Transfer(a) => BootStore(a)
    <2> SUFFICES ASSUME NEW a \in Actors, Transfer(a) PROVE BootStore(a)
      OBVIOUS
    <2>1. ~Address(a) /\ ~Command(a) /\ ~Confused(a)
      BY DEF Address, Command, Confused
    <2>2. ~NextSector(a, "open") /\ ~NextSector(a, "read")
      BY DEF NextSector
    <2>3. ~OpenScan(a) /\ ~OpenFollow(a) /\ ~ReadCopy(a) /\ ~ReadFollow(a)
      BY DEF OpenScan, OpenFollow, ReadCopy, ReadFollow
    <2>4. ~BootReceive(a) /\ ~BootMerge(a) /\ ~BootStoreFails(a)
      BY DEF BootReceive, BootMerge, BootStoreFails
    <2> QED
      BY <2>1, <2>2, <2>3, <2>4 DEF Transfer
  <1> QED
    BY <1>1, <1>2, <1>3, <1>4 DEF Next

\* No write reaches the drive of the file system, and one of half a sector or less
\* leaves the other half of the sector as it was.
THEOREM WritesStayOnBootDrive == Spec => WritesConfined
  <1> DEFINE Confined(p) ==
                LET boot == Other(Home) IN
                /\ call[p].op = "store" /\ disk'[Home] = disk[Home]
                /\ \A s \in DOMAIN disk[boot] :
                       \/ disk'[boot][s] = disk[boot][s]
                       \/ s = file[p].cluster /\ (file[p].len < 4 => disk'[boot][s][2] = disk[boot][s][2])
  <1>1. ASSUME DiskInv, Next, disk' # disk PROVE \E p \in Procs : Confined(p)
    <2>1. PICK a \in Actors : BootStore(a)
      BY <1>1, OnlyStoresWrite
    <2> DEFINE boot == Other(Home)
               t == call[a].want
    <2>2. /\ a \in Procs /\ call[a].op = "store" /\ t = file[a].cluster
          /\ disk' = [disk EXCEPT ![boot] = [disk[boot] EXCEPT ![t] = call[a].out]]
          /\ file[a].len < 4 => call[a].out[2] = disk[boot][t][2]
      BY <1>1, <2>1, Stores
    <2>3. disk'[Home] = disk[Home]
      BY <1>1, <2>1, HomeKept
    <2>4. disk'[boot] = [disk[boot] EXCEPT ![t] = call[a].out]
      BY <1>1, <2>2, Homes DEF DiskInv, DiskTypes
    <2>5. \A s \in DOMAIN disk[boot] : disk'[boot][s] = IF s = t THEN call[a].out ELSE disk[boot][s]
      BY <2>4
    <2> QED
      BY <2>2, <2>3, <2>5
  <1>2. DiskInv /\ [Next]_vars => [disk' = disk \/ \E p \in Procs : Confined(p)]_vars
    BY <1>1
  <1> QED
    BY <1>2, DiskInvariant, PTL DEF Spec, WritesConfined

-----------------------------------------------------------------------------
\* What the calls of FAT32 have read, against the volume as a whole.

\* What is read of a volume is made of sectors of two cells.
VolumeOK(x, v) ==
    /\ v.spc \in Nat \ {0} /\ DOMAIN x \subseteq Nat
    /\ \A s \in DOMAIN x : x[s] = <<x[s][1], x[s][2]>>

\* The first i sectors of the cluster are in the buffer of call c, and the next
\* one is wanted.
Filling(x, v, c) ==
    LET first == ClusterToSector(v, c.cluster) IN
    \E i \in 0 .. v.spc - 1 :
        /\ c.buf = [j \in 1 .. 2 * i |-> ClusterCell(x, v, c.cluster, j)]
        /\ IF i = 0 THEN c.want = first ELSE first \in Nat /\ c.want = first + i

\* The call is at cluster k of chain w, which does not end before.
AtCluster(x, v, w, k, c) ==
    /\ c.cluster = w[k] /\ \A m \in 1 .. k : ~Ends(w[m])
    /\ \/ c.phase = "cluster" /\ Filling(x, v, c)
       \/ c.phase = "fat" /\ c.want = FatSector(v, c.cluster)

\* The clusters it has done with.
Done(k, c) == IF c.phase = "cluster" THEN k ELSE k + 1

\* A read has the cells of those clusters, and wants more.
ReadAt(x, v, c, f, k) ==
    /\ AtCluster(x, v, Clusters(x, v, f.cluster), k, c)
    /\ c.out = ChainCells(x, v, f.cluster, Done(k, c) * ClusterSize(v))
    /\ c.left = Min({f.len, f.size}) - Done(k, c) * ClusterSize(v) /\ c.left > 0
ReadOK(x, v, c, f) ==
    /\ f.fs = "fat32"
    /\ f.size \in Nat \ {0} => f.len \in Nat \ {0} /\ \E k \in Nat : ReadAt(x, v, c, f, k)

\* An open searches directory dir for n, which is not in those clusters.
SearchAt(x, v, c, dir, n, k) ==
    LET w == Clusters(x, v, dir.cluster) IN
    /\ AtCluster(x, v, w, k, c)
    /\ \A m \in 0 .. Done(k, c) - 1 : StopsIn(x, v, w[m], n) = {}
\* i components of its path are behind it.
OpenAt(x, v, c, i) ==
    LET dir == Steps(x, v, c.path)[i]
        n   == c.path[i + 1]
    IN  /\ c.rest = SubSeq(c.path, i + 1, Len(c.path))
        /\ dir = Undecided \/ /\ dir.attr = "dir" /\ FatName(n) # NoName
                              /\ \E k \in Nat : SearchAt(x, v, c, dir, n, k)
OpenOK(x, v, c) == c.path \in Paths /\ \E i \in 0 .. Len(c.path) - 1 : OpenAt(x, v, c, i)

\* What an open that is over found, and what a read that is over returned.
Resolved(x, v, f) ==
    LET e == Resolve(x, v, f.path) IN
    \/ e = Undecided
    \/ e = NotFound /\ ~f.exists
    \/ e # NotFound /\ f.exists /\ f.cluster = e.cluster /\ f.size = e.size /\ f.dir = (e.attr = "dir")
Returned(x, v, f) ==
    f.done /\ ~f.dir /\ f.len > 0 /\ f.size \in Nat \ {0} =>
        LET n == Min({f.len, f.size})
            w == Clusters(x, v, f.cluster)
        IN  f.got = ChainCells(x, v, f.cluster, Min({n, ChainLen(w, n) * ClusterSize(v)}))

\* An actor in call c with file f.
ActorOK(x, v, c, f) ==
    /\ c.op = "open" => ~f.done /\ OpenOK(x, v, c)
    /\ c.op = "read" => ~f.done /\ ReadOK(x, v, c, f)
    /\ c.op \notin {"idle", "open", "read"} => f.fs = "boot"
    /\ f.fs = "fat32" /\ c.op # "open" => f.len \in Nat /\ Resolved(x, v, f) /\ Returned(x, v, f)

\* The registers are those of a FAT32 transfer that nobody got into.
RegistersOK(a) ==
    call[a].op \in {"open", "read"} /\ call[a].io \in {"addressed", "commanded"} =>
        /\ ata.drive = Home /\ ata.sector = call[a].want
        /\ call[a].io = "commanded" /\ ata.drq => ata.sector \in DOMAIN disk[Home]

\* Unless another actor got into a transfer of it, an actor sees the volume.
DataInv ==
    /\ mixed \in [Actors -> BOOLEAN]
    /\ IF volume = NoVolume THEN \A a \in Actors : file[a].fs = "none"
       ELSE VolumeOK(disk[Home], volume)
    /\ \A a \in Actors : ~mixed[a] =>
          RegistersOK(a) /\ ActorOK(disk[Home], volume, call[a], file[a])

LEMMA LeastOf ==
  ASSUME NEW S, S \subseteq Nat, S # {}
  PROVE  Min(S) \in S /\ \A y \in S : Min(S) <= y
  <1>1. PICK x \in S : \A y \in S : ~(<<y, x>> \in OpToRel(<, Nat))
    BY NatLessThanWellFounded, WFMin
  <1>2. \A y \in S : ~(y < x)
    BY <1>1 DEF OpToRel
  <1>3. \A y \in S : x <= y
    BY <1>2
  <1> QED
    BY <1>3 DEF Min

\* What holds for 0 and goes over from k to k + 1, as a set of naturals.
LEMMA AllNats ==
  ASSUME NEW S, 0 \in S, \A k \in Nat : k \in S => k + 1 \in S
  PROVE  Nat \subseteq S
  <1> DEFINE T == Nat \ S
  <1> SUFFICES ASSUME T # {} PROVE FALSE
    OBVIOUS
  <1>1. T \subseteq Nat
    OBVIOUS
  <1> HIDE DEF T
  <1>2. Min(T) \in T /\ \A y \in T : Min(T) <= y
    BY <1>1, LeastOf
  <1> DEFINE m == Min(T)
  <1> HIDE DEF m
  <1>3. m \in T /\ \A y \in T : m <= y
    BY <1>2 DEF m
  <1>4. m \in Nat /\ m \notin S /\ m # 0
    BY <1>3 DEF T
  <1>5. m - 1 \in Nat /\ m - 1 \notin T
    BY <1>1, <1>3, <1>4
  <1>6. m - 1 \in S
    BY <1>5 DEF T
  <1>7. (m - 1) + 1 \in S
    BY <1>5, <1>6
  <1> QED
    BY <1>4, <1>7

\* The chain of clusters is well defined.
LEMMA ClustersDef ==
  ASSUME NEW x, NEW v, NEW c
  PROVE  /\ Clusters(x, v, c)[0] = c
         /\ \A k \in Nat : Clusters(x, v, c)[k + 1] = Behind(x, v, k + 1, Clusters(x, v, c)[k])
  <1> DEFINE IsPart(p, n) == p = [k \in 0 .. n |-> IF k = 0 THEN c ELSE Behind(x, v, k, p[k - 1])]
             Part(n) == CHOOSE p : IsPart(p, n)
             S == {n \in Nat : \E p : IsPart(p, n)}
             w == [n \in Nat |-> Part(n)[n]]
             IsAll(f) == f = [k \in Nat |-> IF k = 0 THEN c ELSE Behind(x, v, k, f[k - 1])]
  <1>1. 0 \in S
    <2> DEFINE p == [k \in 0 .. 0 |-> c]
    <2>1. IsPart(p, 0)
      OBVIOUS
    <2> QED
      BY <2>1
  <1>2. ASSUME NEW n \in Nat, n \in S PROVE n + 1 \in S
    <2>1. PICK p : IsPart(p, n)
      BY <1>2
    <2> DEFINE q == [k \in 0 .. n + 1 |-> IF k = n + 1 THEN Behind(x, v, n + 1, p[n]) ELSE p[k]]
    <2>2. q = [k \in 0 .. n + 1 |-> IF k = 0 THEN c ELSE Behind(x, v, k, q[k - 1])]
      <3> SUFFICES ASSUME NEW k \in 0 .. n + 1
                   PROVE  q[k] = IF k = 0 THEN c ELSE Behind(x, v, k, q[k - 1])
        OBVIOUS
      <3>1. CASE k = n + 1
        <4>1. k - 1 = n /\ n \in 0 .. n + 1 /\ n # n + 1 /\ k # 0
          BY <3>1
        <4> QED
          BY <3>1, <4>1
      <3>2. CASE k # n + 1 /\ k = 0
        <4>1. p[0] = c
          BY <2>1
        <4> QED
          BY <3>2, <4>1
      <3>3. CASE k # n + 1 /\ k # 0
        <4>1. k \in 0 .. n /\ k - 1 \in 0 .. n + 1 /\ k - 1 # n + 1
          BY <3>3
        <4>2. p[k] = Behind(x, v, k, p[k - 1])
          BY <2>1, <3>3, <4>1
        <4>3. q[k] = p[k] /\ q[k - 1] = p[k - 1]
          BY <3>3, <4>1
        <4> QED
          BY <3>3, <4>2, <4>3
      <3> QED
        BY <3>1, <3>2, <3>3
    <2> HIDE DEF q
    <2> QED
      BY <2>2
  <1>3. Nat \subseteq S
    <2> HIDE DEF S
    <2> QED
      BY <1>1, <1>2, AllNats
  <1>4. \A n \in Nat : IsPart(Part(n), n)
    BY <1>3
  <1> HIDE DEF Part
  <1>5. /\ \A n \in Nat : Part(n)[0] = c
        /\ \A n \in Nat : \A k \in 1 .. n : Part(n)[k] = Behind(x, v, k, Part(n)[k - 1])
    <2>1. \A n \in Nat : \A k \in 0 .. n : Part(n)[k] = IF k = 0 THEN c ELSE Behind(x, v, k, Part(n)[k - 1])
      BY <1>4
    <2> QED
      BY <2>1
  <1>6. \A k \in Nat : \A n \in Nat : k <= n => Part(n)[k] = Part(k)[k]
    <2> DEFINE T == {k \in Nat : \A m, n \in Nat : k <= n /\ k <= m => Part(n)[k] = Part(m)[k]}
    <2>1. 0 \in T
      BY <1>5
    <2>2. ASSUME NEW k \in Nat, k \in T PROVE k + 1 \in T
      <3> SUFFICES ASSUME NEW m \in Nat, NEW n \in Nat, k + 1 <= n, k + 1 <= m
                   PROVE  Part(n)[k + 1] = Part(m)[k + 1]
        OBVIOUS
      <3>1. Part(n)[k] = Part(m)[k]
        BY <2>2
      <3>2. k + 1 \in 1 .. n /\ k + 1 \in 1 .. m /\ (k + 1) - 1 = k
        OBVIOUS
      <3> QED
        BY <1>5, <3>1, <3>2
    <2>3. Nat \subseteq T
      <3> HIDE DEF T
      <3> QED
        BY <2>1, <2>2, AllNats
    <2> QED
      BY <2>3
  <1>7. IsAll(w)
    <2> SUFFICES ASSUME NEW k \in Nat PROVE w[k] = IF k = 0 THEN c ELSE Behind(x, v, k, w[k - 1])
      OBVIOUS
    <2>1. CASE k = 0
      BY <1>5, <2>1
    <2>2. CASE k # 0
      <3>1. k \in 1 .. k /\ k - 1 \in Nat /\ k - 1 <= k
        BY <2>2
      <3>2. Part(k)[k] = Behind(x, v, k, Part(k)[k - 1]) /\ Part(k)[k - 1] = Part(k - 1)[k - 1]
        BY <1>5, <1>6, <3>1
      <3> QED
        BY <2>2, <3>1, <3>2
    <2> QED
      BY <2>1, <2>2
  <1> HIDE DEF w
  <1>8. IsAll(Clusters(x, v, c))
    BY <1>7 DEF Clusters
  <1> DEFINE f == Clusters(x, v, c)
  <1> HIDE DEF f
  <1>9. f = [k \in Nat |-> IF k = 0 THEN c ELSE Behind(x, v, k, f[k - 1])]
    BY <1>8 DEF f
  <1>10. f[0] = c
    BY <1>9
  <1>11. ASSUME NEW k \in Nat PROVE f[k + 1] = Behind(x, v, k + 1, f[k])
    <2>1. k + 1 \in Nat /\ k + 1 # 0 /\ (k + 1) - 1 = k
      OBVIOUS
    <2> QED
      BY <1>9, <2>1
  <1> QED
    BY <1>10, <1>11 DEF f

\* So is what a path leads to, component by component.
LEMMA StepsDef ==
  ASSUME NEW x, NEW v, NEW path
  PROVE  /\ Steps(x, v, path)[0] = Root(v)
         /\ \A k \in Nat : Steps(x, v, path)[k + 1] = Lookup(x, v, Steps(x, v, path)[k], path[k + 1])
  <1> DEFINE IsPart(p, n) == p = [k \in 0 .. n |-> IF k = 0 THEN Root(v) ELSE Lookup(x, v, p[k - 1], path[k])]
             Part(n) == CHOOSE p : IsPart(p, n)
             S == {n \in Nat : \E p : IsPart(p, n)}
             w == [n \in Nat |-> Part(n)[n]]
             IsAll(f) == f = [k \in Nat |-> IF k = 0 THEN Root(v) ELSE Lookup(x, v, f[k - 1], path[k])]
  <1>1. 0 \in S
    <2> DEFINE p == [k \in 0 .. 0 |-> Root(v)]
    <2>1. IsPart(p, 0)
      OBVIOUS
    <2> QED
      BY <2>1
  <1>2. ASSUME NEW n \in Nat, n \in S PROVE n + 1 \in S
    <2>1. PICK p : IsPart(p, n)
      BY <1>2
    <2> DEFINE q == [k \in 0 .. n + 1 |-> IF k = n + 1 THEN Lookup(x, v, p[n], path[n + 1]) ELSE p[k]]
    <2>2. q = [k \in 0 .. n + 1 |-> IF k = 0 THEN Root(v) ELSE Lookup(x, v, q[k - 1], path[k])]
      <3> SUFFICES ASSUME NEW k \in 0 .. n + 1
                   PROVE  q[k] = IF k = 0 THEN Root(v) ELSE Lookup(x, v, q[k - 1], path[k])
        OBVIOUS
      <3>1. CASE k = n + 1
        <4>1. k - 1 = n /\ n \in 0 .. n + 1 /\ n # n + 1 /\ k # 0
          BY <3>1
        <4> QED
          BY <3>1, <4>1
      <3>2. CASE k # n + 1 /\ k = 0
        <4>1. p[0] = Root(v)
          BY <2>1
        <4> QED
          BY <3>2, <4>1
      <3>3. CASE k # n + 1 /\ k # 0
        <4>1. k \in 0 .. n /\ k - 1 \in 0 .. n + 1 /\ k - 1 # n + 1
          BY <3>3
        <4>2. p[k] = Lookup(x, v, p[k - 1], path[k])
          BY <2>1, <3>3, <4>1
        <4>3. q[k] = p[k] /\ q[k - 1] = p[k - 1]
          BY <3>3, <4>1
        <4> QED
          BY <3>3, <4>2, <4>3
      <3> QED
        BY <3>1, <3>2, <3>3
    <2> HIDE DEF q
    <2> QED
      BY <2>2
  <1>3. Nat \subseteq S
    <2> HIDE DEF S
    <2> QED
      BY <1>1, <1>2, AllNats
  <1>4. \A n \in Nat : IsPart(Part(n), n)
    BY <1>3
  <1> HIDE DEF Part
  <1>5. /\ \A n \in Nat : Part(n)[0] = Root(v)
        /\ \A n \in Nat : \A k \in 1 .. n : Part(n)[k] = Lookup(x, v, Part(n)[k - 1], path[k])
    <2>1. \A n \in Nat : \A k \in 0 .. n : Part(n)[k] = IF k = 0 THEN Root(v) ELSE Lookup(x, v, Part(n)[k - 1], path[k])
      BY <1>4
    <2> QED
      BY <2>1
  <1>6. \A k \in Nat : \A n \in Nat : k <= n => Part(n)[k] = Part(k)[k]
    <2> DEFINE T == {k \in Nat : \A m, n \in Nat : k <= n /\ k <= m => Part(n)[k] = Part(m)[k]}
    <2>1. 0 \in T
      BY <1>5
    <2>2. ASSUME NEW k \in Nat, k \in T PROVE k + 1 \in T
      <3> SUFFICES ASSUME NEW m \in Nat, NEW n \in Nat, k + 1 <= n, k + 1 <= m
                   PROVE  Part(n)[k + 1] = Part(m)[k + 1]
        OBVIOUS
      <3>1. Part(n)[k] = Part(m)[k]
        BY <2>2
      <3>2. k + 1 \in 1 .. n /\ k + 1 \in 1 .. m /\ (k + 1) - 1 = k
        OBVIOUS
      <3> QED
        BY <1>5, <3>1, <3>2
    <2>3. Nat \subseteq T
      <3> HIDE DEF T
      <3> QED
        BY <2>1, <2>2, AllNats
    <2> QED
      BY <2>3
  <1>7. IsAll(w)
    <2> SUFFICES ASSUME NEW k \in Nat PROVE w[k] = IF k = 0 THEN Root(v) ELSE Lookup(x, v, w[k - 1], path[k])
      OBVIOUS
    <2>1. CASE k = 0
      BY <1>5, <2>1
    <2>2. CASE k # 0
      <3>1. k \in 1 .. k /\ k - 1 \in Nat /\ k - 1 <= k
        BY <2>2
      <3>2. Part(k)[k] = Lookup(x, v, Part(k)[k - 1], path[k]) /\ Part(k)[k - 1] = Part(k - 1)[k - 1]
        BY <1>5, <1>6, <3>1
      <3> QED
        BY <2>2, <3>1, <3>2
    <2> QED
      BY <2>1, <2>2
  <1> HIDE DEF w
  <1>8. IsAll(Steps(x, v, path))
    BY <1>7 DEF Steps
  <1> DEFINE f == Steps(x, v, path)
  <1> HIDE DEF f
  <1>9. f = [k \in Nat |-> IF k = 0 THEN Root(v) ELSE Lookup(x, v, f[k - 1], path[k])]
    BY <1>8 DEF f
  <1>10. f[0] = Root(v)
    BY <1>9
  <1>11. ASSUME NEW k \in Nat PROVE f[k + 1] = Lookup(x, v, f[k], path[k + 1])
    <2>1. k + 1 \in Nat /\ k + 1 # 0 /\ (k + 1) - 1 = k
      OBVIOUS
    <2> QED
      BY <1>9, <2>1
  <1> QED
    BY <1>10, <1>11 DEF f

-----------------------------------------------------------------------------
\* Clusters and cells.

LEMMA Times ==
  ASSUME NEW s \in Nat \ {0}, NEW a \in Nat, NEW b \in Nat
  PROVE  /\ a * s \in Nat /\ (a + 1) * s = a * s + s /\ a <= a * s
         /\ a <= b => a * s <= b * s
  <1>1. a * s \in Nat /\ b * s \in Nat /\ (a + 1) * s = a * s + s
    OBVIOUS
  <1>2. a <= a * s
    <2>1. a * (s - 1) \in Nat /\ a * s = a * (s - 1) + a
      OBVIOUS
    <2> QED
      BY <1>1, <2>1
  <1>3. ASSUME a <= b PROVE a * s <= b * s
    <2>1. (b - a) * s \in Nat /\ b * s = (b - a) * s + a * s
      BY <1>3
    <2> QED
      BY <1>1, <2>1
  <1> QED
    BY <1>1, <1>2, <1>3

\* Cell j of cluster k of a chain, by its place in the chain.
LEMMA Place ==
  ASSUME NEW s \in Nat \ {0}, NEW k \in Nat, NEW j \in 1 .. s
  PROVE  (k * s + j - 1) \div s = k /\ ((k * s + j - 1) % s) + 1 = j
  <1> DEFINE n == k * s + j - 1
             q == n \div s
             r == n % s
  <1>1. n \in Nat /\ n = k * s + (j - 1) /\ j - 1 \in 0 .. s - 1 /\ k * s \in Nat
    OBVIOUS
  <1>2. q \in Nat /\ r \in 0 .. s - 1 /\ n = q * s + r
    BY <1>1
  <1> HIDE DEF q, r, n
  <1>3. ~(q < k)
    <2> SUFFICES ASSUME q < k PROVE FALSE
      OBVIOUS
    <2>1. q + 1 <= k /\ q + 1 \in Nat
      BY <1>2
    <2>2. (q + 1) * s <= k * s /\ (q + 1) * s = q * s + s /\ q * s \in Nat
      BY <1>2, <2>1, Times
    <2> QED
      BY <1>1, <1>2, <2>2
  <1>4. ~(k < q)
    <2> SUFFICES ASSUME k < q PROVE FALSE
      OBVIOUS
    <2>1. k + 1 <= q /\ k + 1 \in Nat
      BY <1>2
    <2>2. (k + 1) * s <= q * s /\ (k + 1) * s = k * s + s /\ q * s \in Nat
      BY <1>2, <2>1, Times
    <2> QED
      BY <1>1, <1>2, <2>2
  <1>5. q = k
    BY <1>2, <1>3, <1>4
  <1>6. r + 1 = j
    BY <1>1, <1>2, <1>5
  <1> QED
    BY <1>5, <1>6 DEF q, r, n

LEMMA AsSeq ==
  ASSUME NEW S, NEW n \in Nat, NEW f \in [1 .. n -> S]
  PROVE  f \in Seq(S) /\ Len(f) = n
  OBVIOUS

\* Two pieces of f, one behind the other.
LEMMA Glued ==
  ASSUME NEW f, NEW m \in Nat, NEW n \in Nat, NEW s, s = [j \in 1 .. m |-> f[j]],
         NEW t, t = [j \in 1 .. n |-> f[m + j]]
  PROVE  s \o t = [j \in 1 .. m + n |-> f[j]] /\ Len(s \o t) = m + n
  <1> DEFINE R == {f[j] : j \in 1 .. m + n}
             g == [j \in 1 .. m + n |-> f[j]]
  <1>1. s \in Seq(R) /\ Len(s) = m
    <2>1. \A j \in 1 .. m : j \in 1 .. m + n
      OBVIOUS
    <2>2. s \in [1 .. m -> R]
      BY <2>1
    <2> HIDE DEF R
    <2> QED
      BY <2>2, AsSeq
  <1>2. t \in Seq(R) /\ Len(t) = n
    <2>1. \A j \in 1 .. n : m + j \in 1 .. m + n
      OBVIOUS
    <2>2. t \in [1 .. n -> R]
      BY <2>1
    <2> HIDE DEF R
    <2> QED
      BY <2>2, AsSeq
  <1>3. g \in Seq(R) /\ Len(g) = m + n
    <2>1. g \in [1 .. m + n -> R] /\ m + n \in Nat
      OBVIOUS
    <2> HIDE DEF R, g
    <2> QED
      BY <2>1, AsSeq
  <1>4. s \o t \in Seq(R) /\ Len(s \o t) = m + n
        /\ \A i \in 1 .. m + n : (s \o t)[i] = IF i <= m THEN s[i] ELSE t[i - m]
    BY <1>1, <1>2, ConcatProperties
  <1>5. ASSUME NEW i \in 1 .. m + n PROVE (s \o t)[i] = g[i]
    <2>1. CASE i <= m
      <3>1. i \in 1 .. m /\ s[i] = f[i]
        BY <2>1
      <3> QED
        BY <1>4, <2>1, <3>1
    <2>2. CASE ~(i <= m)
      <3>1. i - m \in 1 .. n /\ m + (i - m) = i
        BY <2>2
      <3>2. t[i - m] = f[i]
        BY <3>1
      <3> QED
        BY <1>4, <2>2, <3>2
    <2> QED
      BY <2>1, <2>2
  <1> HIDE DEF R, g
  <1>6. s \o t = g
    BY <1>3, <1>4, <1>5, SeqEqual
  <1> QED
    BY <1>4, <1>6 DEF g

ClusterCells(x, v, c, n) == [j \in 1 .. n |-> ClusterCell(x, v, c, j)]

\* A sector that comes in behind i sectors of a cluster.
LEMMA NextCells ==
  ASSUME NEW x, NEW v, VolumeOK(x, v), NEW c, NEW i \in Nat, ClusterToSector(v, c) \in Int,
         ClusterToSector(v, c) + i \in DOMAIN x
  PROVE  /\ ClusterCells(x, v, c, 2 * i) \o x[ClusterToSector(v, c) + i] = ClusterCells(x, v, c, 2 * (i + 1))
         /\ Len(ClusterCells(x, v, c, 2 * (i + 1))) = 2 * (i + 1)
  <1> DEFINE f == [j \in Nat |-> ClusterCell(x, v, c, j)]
             first == ClusterToSector(v, c)
             s == ClusterCells(x, v, c, 2 * i)
             t == x[first + i]
             u == [j \in 1 .. 2 |-> f[2 * i + j]]
  <1>1. s = [j \in 1 .. 2 * i |-> f[j]]
    <2>1. \A j \in 1 .. 2 * i : j \in Nat
      OBVIOUS
    <2> QED
      BY <2>1 DEF ClusterCells
  <1>2. t = <<t[1], t[2]>>
    BY DEF VolumeOK
  <1>3. f[2 * i + 1] = t[1] /\ f[2 * i + 2] = t[2]
    <2>1. /\ (2 * i + 1 - 1) \div 2 = i /\ ((2 * i + 1 - 1) % 2) + 1 = 1
          /\ (2 * i + 2 - 1) \div 2 = i /\ ((2 * i + 2 - 1) % 2) + 1 = 2
          /\ 2 * i + 1 \in Nat /\ 2 * i + 2 \in Nat
      OBVIOUS
    <2>2. /\ ClusterCell(x, v, c, 2 * i + 1) = x[first + i][1]
          /\ ClusterCell(x, v, c, 2 * i + 2) = x[first + i][2]
      BY <2>1 DEF ClusterCell
    <2> QED
      BY <2>1, <2>2
  <1> HIDE DEF f, t, s
  <1>4. t = u
    <2>1. u = <<u[1], u[2]>> /\ u[1] = f[2 * i + 1] /\ u[2] = f[2 * i + 2]
      OBVIOUS
    <2> HIDE DEF u
    <2> QED
      BY <1>2, <1>3, <2>1
  <1>5. s \o t = [j \in 1 .. 2 * i + 2 |-> f[j]] /\ Len(s \o t) = 2 * i + 2
    <2>1. 2 * i \in Nat /\ 2 \in Nat
      OBVIOUS
    <2> QED
      BY <1>1, <1>4, <2>1, Glued
  <1>6. [j \in 1 .. 2 * i + 2 |-> f[j]] = ClusterCells(x, v, c, 2 * (i + 1))
    <2>1. 2 * i + 2 = 2 * (i + 1) /\ \A j \in 1 .. 2 * i + 2 : j \in Nat
      OBVIOUS
    <2> QED
      BY <2>1 DEF f, ClusterCells
  <1>7. s \o t = ClusterCells(x, v, c, 2 * (i + 1)) /\ Len(s \o t) = 2 * (i + 1)
    <2>1. 2 * i + 2 = 2 * (i + 1)
      OBVIOUS
    <2> QED
      BY <1>5, <1>6, <2>1
  <1> QED
    BY <1>7 DEF s, t

\* The first m cells of cluster k, behind those of the clusters in front of it.
LEMMA NextCluster ==
  ASSUME NEW x, NEW v, VolumeOK(x, v), NEW c, NEW k \in Nat, NEW m \in 0 .. ClusterSize(v)
  PROVE  ChainCells(x, v, c, k * ClusterSize(v))
            \o SubSeq(ClusterCells(x, v, Clusters(x, v, c)[k], ClusterSize(v)), 1, m)
           = ChainCells(x, v, c, k * ClusterSize(v) + m)
  <1> DEFINE size == ClusterSize(v)
             w == Clusters(x, v, c)
             F(i) == ClusterCell(x, v, w[(i - 1) \div size], ((i - 1) % size) + 1)
             f == [j \in Nat |-> F(j)]
             n == k * size
             s == ChainCells(x, v, c, n)
             g == ClusterCells(x, v, w[k], size)
             t == SubSeq(g, 1, m)
             u == [j \in 1 .. m |-> f[n + j]]
  <1>1. size \in Nat \ {0}
    BY DEF VolumeOK, ClusterSize
  <1> HIDE DEF size
  <1>2. n \in Nat /\ m \in Nat /\ m <= size
    BY <1>1, Times DEF size
  <1> HIDE DEF n
  <1>3. \A i \in Nat : ChainCells(x, v, c, i) = [j \in 1 .. i |-> f[j]]
    <2> SUFFICES ASSUME NEW i \in Nat PROVE ChainCells(x, v, c, i) = [j \in 1 .. i |-> f[j]]
      OBVIOUS
    <2>1. \A j \in 1 .. i : j \in Nat /\ f[j] = F(j)
      OBVIOUS
    <2> HIDE DEF f
    <2> QED
      BY <2>1 DEF ChainCells, size
  <1>4. t = u
    <2>1. ASSUME NEW j \in 1 .. size PROVE g[j] = f[n + j]
      <3> DEFINE q == (n + j - 1) \div size
                 r == ((n + j - 1) % size) + 1
      <3>1. q = k /\ r = j /\ n + j \in Nat
        BY <1>1, <1>2, Place DEF n
      <3>2. F(n + j) = ClusterCell(x, v, w[q], r)
        BY <1>1, <1>2
      <3> HIDE DEF q, r
      <3>3. F(n + j) = ClusterCell(x, v, w[k], j)
        <4> HIDE DEF F
        <4> QED
          BY <3>1, <3>2
      <3>4. f[n + j] = F(n + j)
        BY <3>1
      <3> QED
        BY <3>3, <3>4 DEF ClusterCells
    <2>2. \A j \in 1 .. m : g[j] = f[n + j] /\ 1 + j - 1 = j
      <3>1. \A j \in 1 .. m : j \in 1 .. size /\ 1 + j - 1 = j
        BY <1>1, <1>2
      <3> HIDE DEF f, g
      <3> QED
        BY <2>1, <3>1
    <2> DEFINE R == {g[j] : j \in 1 .. m}
    <2>3. t \in Seq(R) /\ Len(t) = m /\ \A j \in 1 .. m : t[j] = g[j]
      <3>1. \A j \in 1 .. m : g[j] \in R
        OBVIOUS
      <3>2. 1 \in Int /\ m \in Int /\ m - 1 + 1 = m /\ (IF 1 <= m THEN m - 1 + 1 ELSE 0) = m
        OBVIOUS
      <3> HIDE DEF R, g, u
      <3>3. /\ t \in Seq(R) /\ Len(t) = m
            /\ \A j \in 1 .. m : t[j] = g[1 + j - 1]
        BY <3>1, <3>2, SubSeqProperties
      <3> QED
        BY <2>2, <3>3
    <2>4. DOMAIN t = 1 .. m /\ t = [j \in 1 .. m |-> t[j]]
      <3> HIDE DEF R, t
      <3>1. t \in [1 .. m -> R]
        BY <2>3, LenProperties
      <3> QED
        BY <3>1
    <2> HIDE DEF t, g, f
    <2> QED
      BY <2>2, <2>3, <2>4
  <1> HIDE DEF t, g, f
  <1>5. s = [j \in 1 .. n |-> f[j]]
    BY <1>2, <1>3
  <1>6. s \o t = [j \in 1 .. n + m |-> f[j]]
    BY <1>2, <1>4, <1>5, Glued
  <1>7. n + m \in Nat
    BY <1>2
  <1>8. s \o t = ChainCells(x, v, c, n + m)
    BY <1>3, <1>6, <1>7
  <1> QED
    BY <1>8 DEF n, t, g, size

-----------------------------------------------------------------------------
\* The chain a call follows.

LEMMA MinOfTwo ==
  ASSUME NEW a \in Nat, NEW b \in Nat
  PROVE  Min({a, b}) = IF a <= b THEN a ELSE b
  <1>1. {a, b} \subseteq Nat /\ {a, b} # {}
    OBVIOUS
  <1>2. Min({a, b}) \in {a, b} /\ \A y \in {a, b} : Min({a, b}) <= y
    BY <1>1, LeastOf
  <1> QED
    BY <1>2

LEMMA ChainLenOK ==
  ASSUME NEW w, NEW n \in Nat
  PROVE  /\ ChainLen(w, n) \in 0 .. n
         /\ ChainLen(w, n) = n \/ (ChainLen(w, n) \in 1 .. n /\ Ends(w[ChainLen(w, n)]))
         /\ \A k \in 1 .. n : Ends(w[k]) => ChainLen(w, n) <= k
  <1> DEFINE S == {n} \cup {k \in 1 .. n : Ends(w[k])}
             l == ChainLen(w, n)
  <1>1. S \subseteq Nat /\ S # {} /\ l = Min(S)
    BY DEF ChainLen
  <1>2. \A k : k \in S <=> k = n \/ (k \in 1 .. n /\ Ends(w[k]))
    OBVIOUS
  <1> HIDE DEF S, l
  <1>3. l \in S /\ \A y \in S : l <= y
    BY <1>1, LeastOf
  <1>4. l \in 0 .. n /\ (l = n \/ (l \in 1 .. n /\ Ends(w[l])))
    BY <1>2, <1>3
  <1>5. \A k \in 1 .. n : Ends(w[k]) => l <= k
    BY <1>2, <1>3
  <1> QED
    BY <1>4, <1>5 DEF l

\* A chain that does not end up to cluster k has more than k, or n, of its first n.
LEMMA ChainReaches ==
  ASSUME NEW w, NEW n \in Nat, NEW k \in Nat, \A m \in 1 .. k : ~Ends(w[m])
  PROVE  /\ ChainLen(w, n) \in Nat /\ (ChainLen(w, n) = n \/ k < ChainLen(w, n))
         /\ k + 1 <= n /\ Ends(w[k + 1]) => ChainLen(w, n) = k + 1
  <1> DEFINE l == ChainLen(w, n)
  <1>1. /\ l \in 0 .. n /\ (l = n \/ (l \in 1 .. n /\ Ends(w[l])))
        /\ \A i \in 1 .. n : Ends(w[i]) => l <= i
    BY ChainLenOK
  <1> HIDE DEF l
  <1>2. l = n \/ k < l
    <2> SUFFICES ASSUME l # n, ~(k < l) PROVE FALSE
      OBVIOUS
    <2>1. l \in 1 .. k /\ Ends(w[l])
      BY <1>1
    <2> QED
      BY <2>1
  <1>3. ASSUME k + 1 <= n, Ends(w[k + 1]) PROVE l = k + 1
    <2>1. k + 1 \in 1 .. n
      BY <1>3
    <2>2. l <= k + 1
      BY <1>1, <1>3, <2>1
    <2> QED
      BY <1>1, <1>2, <1>3, <2>2
  <1> QED
    BY <1>1, <1>2, <1>3 DEF l

\* What the FAT says of a cluster is where the chain goes on.
LEMMA NextInChain ==
  ASSUME NEW x, NEW v, NEW c, NEW k \in Nat, \A m \in 1 .. k : ~Ends(Clusters(x, v, c)[m])
  PROVE  Clusters(x, v, c)[k + 1] = FatCell(x[FatSector(v, Clusters(x, v, c)[k])], Clusters(x, v, c)[k])
  <1> DEFINE w == Clusters(x, v, c)
  <1>1. w[k + 1] = Behind(x, v, k + 1, w[k])
    BY ClustersDef
  <1> HIDE DEF w
  <1>2. ~(k + 1 > 1 /\ Ends(w[k]))
    <2> SUFFICES ASSUME k + 1 > 1 PROVE ~Ends(w[k])
      OBVIOUS
    <2>1. k \in 1 .. k
      OBVIOUS
    <2> QED
      BY <2>1 DEF w
  <1>3. w[k + 1] = FatCell(x[FatSector(v, w[k])], w[k])
    BY <1>1, <1>2 DEF Behind
  <1> QED
    BY <1>3 DEF w

\* A sector that was wanted comes in.
LEMMA SectorIn ==
  ASSUME NEW x, NEW v, VolumeOK(x, v), NEW c, Filling(x, v, c), c.want \in DOMAIN x
  PROVE  /\ Len(c.buf \o x[c.want]) = ClusterSize(v) =>
               c.buf \o x[c.want] = ClusterCells(x, v, c.cluster, ClusterSize(v))
         /\ Len(c.buf \o x[c.want]) # ClusterSize(v) =>
               \A d : d.cluster = c.cluster /\ d.buf = c.buf \o x[c.want]
                      /\ d.want = ClusterToSector(v, c.cluster) + Len(c.buf \o x[c.want]) \div 2
                      => Filling(x, v, d)
  <1> DEFINE first == ClusterToSector(v, c.cluster)
             b == c.buf \o x[c.want]
  <1>1. v.spc \in Nat \ {0} /\ DOMAIN x \subseteq Nat
    BY DEF VolumeOK
  <1>2. PICK i \in 0 .. v.spc - 1 :
            /\ c.buf = ClusterCells(x, v, c.cluster, 2 * i)
            /\ IF i = 0 THEN c.want = first ELSE first \in Nat /\ c.want = first + i
    BY DEF Filling, ClusterCells
  <1>3. i \in Nat /\ i + 1 <= v.spc /\ first \in Nat /\ c.want = first + i
    BY <1>1, <1>2
  <1>4. b = ClusterCells(x, v, c.cluster, 2 * (i + 1)) /\ Len(b) = 2 * (i + 1)
    <2>1. first \in Int /\ first + i \in DOMAIN x
      BY <1>3
    <2> DEFINE e == ClusterCells(x, v, c.cluster, 2 * i) \o x[first + i]
    <2>2. e = ClusterCells(x, v, c.cluster, 2 * (i + 1)) /\ Len(e) = 2 * (i + 1)
      <3>1. /\ ClusterCells(x, v, c.cluster, 2 * i) \o x[first + i] = ClusterCells(x, v, c.cluster, 2 * (i + 1))
            /\ Len(ClusterCells(x, v, c.cluster, 2 * (i + 1))) = 2 * (i + 1)
        BY <1>3, <2>1, NextCells
      <3> QED
        BY <3>1
    <2>3. b = e
      <3> HIDE DEF first
      <3> QED
        BY <1>2, <1>3
    <2> HIDE DEF b, e
    <2> QED
      BY <2>2, <2>3
  <1> HIDE DEF b, first
  <1>5. ASSUME Len(b) = ClusterSize(v) PROVE b = ClusterCells(x, v, c.cluster, ClusterSize(v))
    BY <1>4, <1>5
  <1>6. ASSUME Len(b) # ClusterSize(v), NEW d, d.cluster = c.cluster, d.buf = b,
               d.want = first + Len(b) \div 2
        PROVE  Filling(x, v, d)
    <2>1. i + 1 \in 0 .. v.spc - 1 /\ i + 1 # 0 /\ Len(b) \div 2 = i + 1
      BY <1>1, <1>3, <1>4, <1>6 DEF ClusterSize
    <2>2. d.buf = [j \in 1 .. 2 * (i + 1) |-> ClusterCell(x, v, d.cluster, j)]
      BY <1>4, <1>6 DEF ClusterCells
    <2>3. ClusterToSector(v, d.cluster) = first /\ d.want = first + (i + 1)
      BY <1>6, <2>1 DEF first
    <2> QED
      BY <1>3, <2>1, <2>2, <2>3 DEF Filling
  <1>7. Len(b) # ClusterSize(v) =>
           \A d : d.cluster = c.cluster /\ d.buf = b /\ d.want = first + Len(b) \div 2 => Filling(x, v, d)
    BY <1>6
  <1>8. Len(b) = ClusterSize(v) => b = ClusterCells(x, v, c.cluster, ClusterSize(v))
    BY <1>5
  <1> QED
    BY <1>7, <1>8 DEF b, first

\* A cluster is about to be fetched.
LEMMA FillingBegins ==
  ASSUME NEW x, NEW v, VolumeOK(x, v), NEW d, d.buf = <<>>, d.want = ClusterToSector(v, d.cluster)
  PROVE  Filling(x, v, d)
  <1>1. 0 \in 0 .. v.spc - 1
    BY DEF VolumeOK
  <1>2. <<>> = [j \in 1 .. 2 * 0 |-> ClusterCell(x, v, d.cluster, j)]
    OBVIOUS
  <1> QED
    BY <1>1, <1>2 DEF Filling

-----------------------------------------------------------------------------
\* Fat32::read.

\* How far a read of f goes.
Wanted(f) == Min({f.len, f.size})
Given(x, v, f) ==
    ChainCells(x, v, f.cluster,
               Min({Wanted(f), ChainLen(Clusters(x, v, f.cluster), Wanted(f)) * ClusterSize(v)}))

LEMMA WantedOK ==
  ASSUME NEW f, f.len \in Nat, f.size \in Nat \ {0}
  PROVE  Wanted(f) \in Nat /\ (f.len # 0 => Wanted(f) # 0)
  BY MinOfTwo DEF Wanted

LEMMA SizeOK ==
  ASSUME NEW x, NEW v, VolumeOK(x, v)
  PROVE  ClusterSize(v) \in Nat \ {0}
  BY DEF VolumeOK, ClusterSize

\* A cluster is copied: it was the last one, or the chain is looked at next.
Copied(x, v, c) ==
    c.out \o SubSeq(ClusterCells(x, v, c.cluster, ClusterSize(v)), 1, Chunk(c.left, ClusterSize(v)))
LEMMA Copies ==
  ASSUME NEW x, NEW v, VolumeOK(x, v), NEW c, NEW f, f.len \in Nat \ {0}, f.size \in Nat \ {0},
         NEW k \in Nat, ReadAt(x, v, c, f, k), c.phase = "cluster"
  PROVE  /\ c.left <= Chunk(c.left, ClusterSize(v)) => Copied(x, v, c) = Given(x, v, f)
         /\ ~(c.left <= Chunk(c.left, ClusterSize(v))) =>
                /\ Copied(x, v, c) = ChainCells(x, v, f.cluster, (k + 1) * ClusterSize(v))
                /\ c.left - Chunk(c.left, ClusterSize(v)) = Wanted(f) - (k + 1) * ClusterSize(v)
                /\ c.left - Chunk(c.left, ClusterSize(v)) > 0
  <1> SUFFICES ASSUME NEW b, b = ClusterCells(x, v, c.cluster, ClusterSize(v)),
                      NEW n, n = Chunk(c.left, ClusterSize(v)), NEW out, out = c.out \o SubSeq(b, 1, n)
               PROVE  /\ c.left <= n => out = Given(x, v, f)
                      /\ ~(c.left <= n) => /\ out = ChainCells(x, v, f.cluster, (k + 1) * ClusterSize(v))
                                           /\ c.left - n = Wanted(f) - (k + 1) * ClusterSize(v) /\ c.left - n > 0
    BY DEF Copied
  <1> DEFINE size == ClusterSize(v)
             w == Clusters(x, v, f.cluster)
             N == Wanted(f)
             l == ChainLen(w, N)
  <1>1. size \in Nat \ {0} /\ N \in Nat
    BY SizeOK, WantedOK
  <1>2. /\ c.cluster = w[k] /\ \A m \in 1 .. k : ~Ends(w[m])
        /\ c.out = ChainCells(x, v, f.cluster, k * size)
        /\ c.left = N - k * size /\ c.left > 0
    BY DEF ReadAt, AtCluster, Done, Wanted
  <1>3. k * size \in Nat /\ (k + 1) * size = k * size + size
    BY <1>1, Times
  <1>4. c.left \in Nat
    BY <1>1, <1>2, <1>3
  <1>5. n = IF c.left <= size THEN c.left ELSE size
    BY <1>1, <1>4, MinOfTwo DEF Chunk
  <1>6. n \in 0 .. ClusterSize(v)
    BY <1>1, <1>4, <1>5
  <1>7. out = ChainCells(x, v, f.cluster, k * size + n)
    <2>1. b = ClusterCells(x, v, w[k], size)
      BY <1>2
    <2>2. ChainCells(x, v, f.cluster, k * size) \o SubSeq(ClusterCells(x, v, w[k], size), 1, n)
            = ChainCells(x, v, f.cluster, k * size + n)
      BY <1>6, NextCluster
    <2> HIDE DEF size, w
    <2> QED
      BY <1>2, <2>1, <2>2
  <1> HIDE DEF size, w, N
  <1>8. ASSUME c.left <= n PROVE out = Given(x, v, f)
    <2>1. n = c.left /\ k * size + n = N /\ N <= (k + 1) * size
      BY <1>1, <1>2, <1>3, <1>4, <1>5, <1>8
    <2>2. l \in Nat /\ (l = N \/ k < l)
      BY <1>1, <1>2, ChainReaches
    <2> HIDE DEF l
    <2>3. l * size \in Nat /\ N <= l * size
      <3>1. l * size \in Nat /\ l <= l * size
        BY <1>1, <2>2, Times
      <3>2. CASE l = N
        BY <1>1, <3>1, <3>2
      <3>3. CASE k < l
        <4>1. k + 1 \in Nat /\ k + 1 <= l
          BY <2>2, <3>3
        <4>2. (k + 1) * size <= l * size
          BY <1>1, <2>2, <4>1, Times
        <4>3. (k + 1) * size \in Nat
          BY <1>1, <4>1, Times
        <4> QED
          BY <1>1, <2>1, <3>1, <4>2, <4>3
      <3> QED
        BY <2>2, <3>2, <3>3
    <2>4. Min({N, l * size}) = N
      BY <1>1, <2>3, MinOfTwo
    <2>5. Given(x, v, f) = ChainCells(x, v, f.cluster, Min({N, l * size}))
      BY DEF Given, N, l, w, size
    <2> QED
      BY <1>7, <2>1, <2>4, <2>5
  <1>9. ASSUME ~(c.left <= n)
        PROVE  /\ out = ChainCells(x, v, f.cluster, (k + 1) * size)
               /\ c.left - n = N - (k + 1) * size /\ c.left - n > 0
    <2>1. n = size /\ c.left > size
      BY <1>1, <1>4, <1>5, <1>9
    <2>2. c.left - n = N - (k + 1) * size /\ c.left - n > 0
      <3> DEFINE P == k * size
                 Q == (k + 1) * size
      <3>1. P \in Nat /\ Q = P + size /\ c.left = N - P
        BY <1>2, <1>3
      <3> HIDE DEF P, Q
      <3>2. c.left - n = N - Q /\ c.left - n > 0
        BY <1>1, <1>4, <2>1, <3>1
      <3> QED
        BY <3>2 DEF Q
    <2> QED
      BY <1>3, <1>7, <2>1, <2>2
  <1> QED
    BY <1>8, <1>9 DEF size, N

\* The chain ends in front of the size.
LEMMA RunsOut ==
  ASSUME NEW x, NEW v, VolumeOK(x, v), NEW c, NEW f, f.len \in Nat \ {0}, f.size \in Nat \ {0},
         NEW k \in Nat, ReadAt(x, v, c, f, k), c.phase = "fat",
         Ends(Clusters(x, v, f.cluster)[k + 1])
  PROVE  c.out = Given(x, v, f)
  <1> DEFINE size == ClusterSize(v)
             w == Clusters(x, v, f.cluster)
             N == Wanted(f)
             l == ChainLen(w, N)
  <1>1. size \in Nat \ {0} /\ N \in Nat
    BY SizeOK, WantedOK
  <1>2. /\ \A m \in 1 .. k : ~Ends(w[m])
        /\ c.out = ChainCells(x, v, f.cluster, (k + 1) * size)
        /\ c.left = N - (k + 1) * size /\ c.left > 0
    BY DEF ReadAt, AtCluster, Done, Wanted
  <1>3. (k + 1) * size \in Nat /\ k + 1 <= (k + 1) * size
    BY <1>1, Times
  <1> HIDE DEF size, N
  <1>4. (k + 1) * size < N
    BY <1>1, <1>2, <1>3
  <1>5. k + 1 <= N
    BY <1>1, <1>3, <1>4
  <1>6. l = k + 1
    BY <1>1, <1>2, <1>5, ChainReaches
  <1>7. Min({N, l * size}) = (k + 1) * size
    BY <1>1, <1>3, <1>4, <1>6, MinOfTwo
  <1>8. Given(x, v, f) = ChainCells(x, v, f.cluster, Min({N, l * size}))
    BY DEF Given, N, l, w, size
  <1> QED
    BY <1>2, <1>7, <1>8

\* Returned and ReadAgrees say that this much was given.
LEMMA ReturnedIsGiven ==
  ASSUME NEW x, NEW v, NEW f
  PROVE  Returned(x, v, f) <=> (f.done /\ ~f.dir /\ f.len > 0 /\ f.size \in Nat \ {0} => f.got = Given(x, v, f))
  BY DEF Returned, Given, Wanted

-----------------------------------------------------------------------------
\* findDirEntryInDir.

\* Scanning a cluster finds its first stop.
LEMMA ScanCluster ==
  ASSUME NEW x, NEW v, VolumeOK(x, v), NEW c, NEW n, FatName(n) # NoName,
         NEW b, b = ClusterCells(x, v, c, ClusterSize(v))
  PROVE  /\ Scan(b, FatName(n)) = 0 <=> StopsIn(x, v, c, n) = {}
         /\ Scan(b, FatName(n)) # 0 => b[Scan(b, FatName(n))] = FirstStop(x, v, c, n)
  <1> DEFINE name == FatName(n)
             S == {i \in DOMAIN b :
                     \/ b[i].attr = "end"
                     \/ /\ b[i].attr \notin {"deleted", "lfn"}
                        /\ Upper(b[i].name[1]) = name[1] /\ Upper(b[i].name[2]) = name[2]}
             T == StopsIn(x, v, c, n)
  <1>1. Scan(b, name) = IF S = {} THEN 0 ELSE Min(S)
    BY DEF Scan
  <1>2. DOMAIN b = 1 .. ClusterSize(v) /\ \A j \in 1 .. ClusterSize(v) : b[j] = ClusterCell(x, v, c, j)
    BY DEF ClusterCells
  <1>3. name = <<name[1], name[2]>>
    <2>1. \A p, q : <<p, q>>[1] = p /\ <<p, q>>[2] = q
      OBVIOUS
    <2>2. \E p, q : name = <<p, q>>
      BY DEF FatName
    <2> HIDE DEF name
    <2> QED
      BY <2>1, <2>2
  <1>4. \A e : Stops(e, n) <=> \/ e.attr = "end"
                               \/ /\ e.attr \notin {"deleted", "lfn"}
                                  /\ Upper(e.name[1]) = name[1] /\ Upper(e.name[2]) = name[2]
    <2>1. \A p, q : <<p, q>> = name <=> p = name[1] /\ q = name[2]
      <3> HIDE DEF name
      <3> QED
        BY <1>3
    <2> QED
      BY <2>1 DEF Stops
  <1> HIDE DEF name
  <1>5. S = T
    BY <1>2, <1>4 DEF StopsIn
  <1>6. T \subseteq Nat \ {0} /\ \A j \in T : b[j] = ClusterCell(x, v, c, j)
    BY <1>2, SizeOK DEF StopsIn
  <1> HIDE DEF S, T
  <1>7. CASE T = {}
    BY <1>1, <1>5, <1>7 DEF name, T
  <1>8. CASE T # {}
    <2>1. Min(T) \in T /\ Scan(b, name) = Min(T)
      BY <1>1, <1>5, <1>6, <1>8, LeastOf
    <2>2. Min(T) # 0 /\ b[Min(T)] = ClusterCell(x, v, c, Min(T))
      BY <1>6, <2>1
    <2> QED
      BY <1>8, <2>1, <2>2 DEF name, T, FirstStop
  <1> QED
    BY <1>7, <1>8

Searched(x, v, dir, n) == {k \in 0 .. ChainLen(Clusters(x, v, dir.cluster), MaxChain) - 1 :
                              StopsIn(x, v, Clusters(x, v, dir.cluster)[k], n) # {}}

LEMMA LookupDef ==
  ASSUME NEW x, NEW v, NEW dir, dir # Undecided, dir.attr = "dir", NEW n, FatName(n) # NoName
  PROVE  Lookup(x, v, dir, n) =
            IF Searched(x, v, dir, n) # {}
            THEN (IF FirstStop(x, v, Clusters(x, v, dir.cluster)[Min(Searched(x, v, dir, n))], n).attr = "end"
                  THEN NotFound
                  ELSE FirstStop(x, v, Clusters(x, v, dir.cluster)[Min(Searched(x, v, dir, n))], n))
            ELSE IF \E k \in 1 .. MaxChain : Ends(Clusters(x, v, dir.cluster)[k]) THEN NotFound
            ELSE Undecided
  BY DEF Lookup, Searched

\* A stop in cluster k, the first with one, is what the reference finds, when it
\* looks as far as that.
LEMMA LookupFound ==
  ASSUME NEW x, NEW v, NEW dir, dir # Undecided, dir.attr = "dir", NEW n, FatName(n) # NoName,
         NEW k \in Nat, \A m \in 1 .. k : ~Ends(Clusters(x, v, dir.cluster)[m]),
         \A m \in 0 .. k - 1 : StopsIn(x, v, Clusters(x, v, dir.cluster)[m], n) = {},
         StopsIn(x, v, Clusters(x, v, dir.cluster)[k], n) # {},
         NEW e, e = FirstStop(x, v, Clusters(x, v, dir.cluster)[k], n)
  PROVE  Lookup(x, v, dir, n) = Undecided \/ Lookup(x, v, dir, n) = IF e.attr = "end" THEN NotFound ELSE e
  <1> DEFINE w == Clusters(x, v, dir.cluster)
             l == ChainLen(w, MaxChain)
             H == Searched(x, v, dir, n)
  <1>1. MaxChain \in Nat /\ l \in 0 .. MaxChain /\ (l = MaxChain \/ k < l)
    BY DiskAssumption, ChainLenOK, ChainReaches
  <1>2. \A m : m \in H <=> m \in 0 .. l - 1 /\ StopsIn(x, v, w[m], n) # {}
    BY DEF Searched
  <1>3. H \subseteq Nat
    BY <1>1, <1>2
  <1>4. CASE k < l
    <2>1. k \in H /\ \A m \in H : k <= m
      <3> HIDE DEF H, l, w
      <3>1. k \in H
        BY <1>1, <1>2, <1>4 DEF w
      <3>2. ASSUME NEW m \in H PROVE k <= m
        BY <1>1, <1>2, <1>3, <3>2 DEF w
      <3> QED
        BY <3>1, <3>2
    <2>2. Min(H) \in H /\ \A m \in H : Min(H) <= m
      <3> HIDE DEF H
      <3> QED
        BY <1>3, <2>1, LeastOf
    <2>3. Min(H) = k /\ H # {}
      <3> DEFINE h == Min(H)
      <3>1. h \in H /\ h <= k
        <4> HIDE DEF H
        <4> QED
          BY <2>1, <2>2
      <3> HIDE DEF H, h
      <3>2. h = k
        BY <1>3, <2>1, <3>1
      <3> QED
        BY <2>1, <3>2 DEF h
    <2> QED
      BY <2>3, LookupDef
  <1>5. CASE ~(k < l)
    <2>1. l = MaxChain /\ MaxChain <= k
      BY <1>1, <1>5
    <2>2. H = {}
      <3> HIDE DEF H, l, w
      <3>1. \A m \in 0 .. l - 1 : m \in 0 .. k - 1
        BY <1>1, <1>5
      <3> QED
        BY <1>2, <3>1 DEF w
    <2>3. \A m \in 1 .. MaxChain : ~Ends(w[m])
      <3>1. \A m \in 1 .. MaxChain : m \in 1 .. k
        BY <1>1, <2>1
      <3> QED
        BY <3>1
    <2> QED
      BY <2>2, <2>3, LookupDef
  <1> QED
    BY <1>4, <1>5

\* Nothing in a chain that ends is nothing for the reference.
LEMMA LookupMissing ==
  ASSUME NEW x, NEW v, NEW dir, dir # Undecided, dir.attr = "dir", NEW n, FatName(n) # NoName,
         NEW k \in Nat, \A m \in 1 .. k : ~Ends(Clusters(x, v, dir.cluster)[m]),
         \A m \in 0 .. k : StopsIn(x, v, Clusters(x, v, dir.cluster)[m], n) = {},
         Ends(Clusters(x, v, dir.cluster)[k + 1])
  PROVE  Lookup(x, v, dir, n) \in {NotFound, Undecided}
  <1> DEFINE w == Clusters(x, v, dir.cluster)
             l == ChainLen(w, MaxChain)
             H == Searched(x, v, dir, n)
  <1>1. MaxChain \in Nat /\ l \in 0 .. MaxChain
    BY DiskAssumption, ChainLenOK
  <1>2. k + 1 <= MaxChain => l = k + 1
    BY <1>1, ChainReaches
  <1> HIDE DEF l
  <1>3. \A m \in 0 .. l - 1 : m \in 0 .. k
    BY <1>1, <1>2
  <1>4. H = {}
    BY <1>3 DEF Searched, l
  <1> QED
    BY <1>4, LookupDef

\* What comes behind a component that is not there, or is not decided.
LEMMA LookupLost ==
  ASSUME NEW x, NEW v, NEW n
  PROVE  /\ Lookup(x, v, NotFound, n) = NotFound /\ Lookup(x, v, Undecided, n) = Undecided
         /\ NotFound # Undecided /\ NotFound.attr = "end" /\ Undecided.attr = "undecided"
  <1>1. NotFound # Undecided /\ NotFound.attr = "end" /\ Undecided.attr = "undecided"
    BY DEF NotFound, Undecided, DirEntry
  <1> QED
    BY <1>1 DEF Lookup

LEMMA Lost ==
  ASSUME NEW x, NEW v, NEW path, NEW i \in Nat, Steps(x, v, path)[i] \in {NotFound, Undecided},
         NEW n \in Nat, i <= n
  PROVE  Steps(x, v, path)[n] = Steps(x, v, path)[i]
  <1> DEFINE at == Steps(x, v, path)
             S == {d \in Nat : at[i + d] = at[i]}
  <1>1. 0 \in S
    OBVIOUS
  <1>2. ASSUME NEW d \in Nat, d \in S PROVE d + 1 \in S
    <2>1. i + d \in Nat /\ i + (d + 1) = (i + d) + 1
      OBVIOUS
    <2>2. at[(i + d) + 1] = Lookup(x, v, at[i + d], path[(i + d) + 1])
      BY <2>1, StepsDef
    <2>3. at[i + d] = at[i]
      BY <1>2
    <2>4. Lookup(x, v, at[i], path[(i + d) + 1]) = at[i]
      BY LookupLost
    <2> QED
      BY <2>1, <2>2, <2>3, <2>4
  <1>3. Nat \subseteq S
    <2> HIDE DEF S
    <2> QED
      BY <1>1, <1>2, AllNats
  <1>4. n - i \in Nat /\ i + (n - i) = n
    OBVIOUS
  <1>5. n - i \in S
    BY <1>3, <1>4
  <1> QED
    BY <1>4, <1>5

\* What is left of a path behind i components.
LEMMA RestOK ==
  ASSUME NEW path \in Paths, NEW i \in 0 .. Len(path) - 1,
         NEW rest, rest = SubSeq(path, i + 1, Len(path))
  PROVE  /\ Len(path) \in Nat /\ Head(rest) = path[i + 1] /\ Len(rest) = Len(path) - i
         /\ Len(rest) # 1 => /\ i + 1 \in 0 .. Len(path) - 1
                             /\ Tail(rest) = SubSeq(path, (i + 1) + 1, Len(path))
  <1> DEFINE R == {path[j] : j \in DOMAIN path}
             L == Len(path)
             next == SubSeq(path, (i + 1) + 1, L)
  <1>1. path \in Seq(R)
    BY DiskAssumption
  <1>2. L \in Nat /\ \A j \in 1 .. L : path[j] \in R
    BY <1>1, LenProperties
  <1> HIDE DEF R
  <1>3. i \in Nat /\ i + 1 \in 1 .. L /\ L \in i + 1 .. L
    BY <1>2
  <1>4. Head(rest) = path[i + 1] /\ Tail(rest) = next
    BY <1>1, <1>3, HeadTailOfSubSeq
  <1>5. Len(rest) = L - i
    <2>1. Len(rest) = IF i + 1 <= L THEN L - (i + 1) + 1 ELSE 0
      <3>1. \A j \in i + 1 .. L : path[j] \in R
        BY <1>2, <1>3
      <3>2. i + 1 \in Int /\ L \in Int
        BY <1>2, <1>3
      <3> QED
        BY <3>1, <3>2, SubSeqProperties
    <2> QED
      BY <1>2, <1>3, <2>1
  <1>6. Len(rest) # 1 => i + 1 \in 0 .. L - 1
    <2> HIDE DEF L
    <2> QED
      BY <1>2, <1>3, <1>5
  <1> QED
    BY <1>2, <1>4, <1>5, <1>6

-----------------------------------------------------------------------------
\* The calls, as records.

LEMMA FetchFields ==
  ASSUME NEW g, CallOK(g), NEW c
  PROVE  /\ Fetch(g, c).phase = "cluster" /\ Fetch(g, c).cluster = c /\ Fetch(g, c).buf = <<>>
         /\ Fetch(g, c).want = ClusterToSector(volume, c) /\ Fetch(g, c).op = g.op
         /\ Fetch(g, c).path = g.path /\ Fetch(g, c).rest = g.rest
         /\ Fetch(g, c).out = g.out /\ Fetch(g, c).left = g.left
  BY DEF CallOK, Fetch, CallFields

LEMMA FetchFatFields ==
  ASSUME NEW g, CallOK(g)
  PROVE  /\ FetchFat(g).phase = "fat" /\ FetchFat(g).cluster = g.cluster
         /\ FetchFat(g).want = FatSector(volume, g.cluster) /\ FetchFat(g).op = g.op
         /\ FetchFat(g).path = g.path /\ FetchFat(g).rest = g.rest
         /\ FetchFat(g).out = g.out /\ FetchFat(g).left = g.left
  BY DEF CallOK, FetchFat, CallFields

\* A cluster of a chain is about to be fetched.
LEMMA AtClusterBegins ==
  ASSUME NEW x, VolumeOK(x, volume), NEW g, CallOK(g), NEW w, NEW k \in Nat,
         \A m \in 1 .. k : ~Ends(w[m])
  PROVE  AtCluster(x, volume, w, k, Fetch(g, w[k])) /\ Done(k, Fetch(g, w[k])) = k
  <1> DEFINE d == Fetch(g, w[k])
  <1>1. d.phase = "cluster" /\ d.cluster = w[k] /\ d.buf = <<>> /\ d.want = ClusterToSector(volume, w[k])
    BY FetchFields
  <1> HIDE DEF d
  <1>2. Filling(x, volume, d)
    BY <1>1, FillingBegins
  <1>3. AtCluster(x, volume, w, k, d) /\ Done(k, d) = k
    BY <1>1, <1>2 DEF AtCluster, Done
  <1> QED
    BY <1>3 DEF d

\* The FAT is about to be asked what comes behind it.
LEMMA AtClusterTurns ==
  ASSUME NEW x, NEW w, NEW k \in Nat, NEW c, AtCluster(x, volume, w, k, c),
         NEW g, CallOK(g), g.cluster = c.cluster
  PROVE  AtCluster(x, volume, w, k, FetchFat(g)) /\ Done(k, FetchFat(g)) = k + 1
  <1> DEFINE d == FetchFat(g)
  <1>1. d.phase = "fat" /\ d.cluster = c.cluster /\ d.want = FatSector(volume, d.cluster)
    BY FetchFatFields
  <1> HIDE DEF d
  <1>2. AtCluster(x, volume, w, k, d) /\ Done(k, d) = k + 1
    BY <1>1 DEF AtCluster, Done
  <1> QED
    BY <1>2 DEF d

\* A call whose transfer goes on, within a cluster or between the driver's steps.
LEMMA SameCall ==
  ASSUME NEW x, NEW v, NEW c, NEW f, ActorOK(x, v, c, f), NEW d,
         d.op = c.op, d.path = c.path, d.rest = c.rest, d.cluster = c.cluster, d.phase = c.phase,
         d.out = c.out, d.left = c.left,
         c.phase = "cluster" /\ Filling(x, v, c) => Filling(x, v, d),
         c.phase = "fat" => d.want = c.want
  PROVE  ActorOK(x, v, d, f)
  <1>1. \A w, k : AtCluster(x, v, w, k, c) => AtCluster(x, v, w, k, d)
    BY DEF AtCluster
  <1>2. \A k : Done(k, d) = Done(k, c)
    BY DEF Done
  <1>3. \A k : ReadAt(x, v, c, f, k) => ReadAt(x, v, d, f, k)
    BY <1>1, <1>2 DEF ReadAt
  <1>4. ReadOK(x, v, c, f) => ReadOK(x, v, d, f)
    BY <1>3 DEF ReadOK
  <1>5. \A dir, n, k : SearchAt(x, v, c, dir, n, k) => SearchAt(x, v, d, dir, n, k)
    BY <1>1, <1>2 DEF SearchAt
  <1>6. \A i : OpenAt(x, v, c, i) => OpenAt(x, v, d, i)
    BY <1>5 DEF OpenAt
  <1>7. OpenOK(x, v, c) => OpenOK(x, v, d)
    BY <1>6 DEF OpenOK
  <1> QED
    BY <1>4, <1>7 DEF ActorOK

\* A call that is over, or has not begun.
LEMMA IdleOK ==
  ASSUME NEW x, NEW v, NEW c, c.op \notin {"open", "read"}, NEW f, c.op = "idle" \/ f.fs = "boot",
         f.fs = "fat32" => f.len \in Nat /\ Resolved(x, v, f) /\ Returned(x, v, f)
  PROVE  ActorOK(x, v, c, f)
  BY DEF ActorOK

\* A path with a component that is not there, or is not decided.
LEMMA Failed ==
  ASSUME NEW x, NEW v, NEW path \in Paths, NEW i \in Nat, i <= Len(path),
         Steps(x, v, path)[i] \in {NotFound, Undecided},
         NEW f, f.path = path, ~f.exists
  PROVE  Resolved(x, v, f)
  <1>1. Len(path) \in Nat
    BY DiskAssumption, LenProperties
  <1>2. Steps(x, v, path)[Len(path)] = Steps(x, v, path)[i]
    BY <1>1, Lost
  <1>3. Resolve(x, v, f.path) \in {NotFound, Undecided}
    BY <1>2 DEF Resolve
  <1> QED
    BY <1>3 DEF Resolved

\* findDirEntryInDir begins: the component has no FAT name, or is searched for.
LEMMA FindOK ==
  ASSUME NEW x, VolumeOK(x, volume), NEW path \in Paths, NEW i \in 0 .. Len(path) - 1,
         NEW g, CallOK(g), g.path = path, g.rest = SubSeq(path, i + 1, Len(path)),
         NEW dir, dir = Steps(x, volume, path)[i], NEW cl,
         dir = Undecided \/ (dir.attr = "dir" /\ dir.cluster = cl)
  PROVE  \/ Find(g, cl) = Idle /\ Steps(x, volume, path)[i + 1] \in {NotFound, Undecided}
         \/ Find(g, cl).op = "open" /\ OpenOK(x, volume, Find(g, cl))
  <1> DEFINE n == path[i + 1]
             h == [g EXCEPT !.op = "open"]
             d == Fetch(h, cl)
             w == Clusters(x, volume, dir.cluster)
  <1>1. Head(g.rest) = n /\ Len(path) \in Nat
    BY RestOK
  <1>2. i \in Nat
    BY <1>1
  <1>3. CASE FatName(n) = NoName
    <2>1. Find(g, cl) = Idle
      BY <1>1, <1>3 DEF Find
    <2>2. Steps(x, volume, path)[i + 1] = Lookup(x, volume, dir, n)
      BY <1>2, StepsDef
    <2>3. Lookup(x, volume, dir, n) \in {NotFound, Undecided}
      BY <1>3 DEF Lookup
    <2> QED
      BY <2>1, <2>2, <2>3
  <1>4. CASE FatName(n) # NoName
    <2>1. Find(g, cl) = d
      BY <1>1, <1>4 DEF Find
    <2>2. CallOK(h) /\ h.op = "open" /\ h.path = path /\ h.rest = g.rest
      BY DEF CallOK, CallFields, Ops
    <2> HIDE DEF h
    <2>3. d.op = "open" /\ d.path = path /\ d.rest = g.rest
      BY <2>2, FetchFields
    <2>4. ASSUME dir # Undecided PROVE SearchAt(x, volume, d, dir, n, 0)
      <3>1. dir.cluster = cl /\ w[0] = cl
        <4>1. \A s : Clusters(x, volume, s)[0] = s
          BY ClustersDef
        <4> QED
          BY <2>4, <4>1
      <3>2. AtCluster(x, volume, w, 0, Fetch(h, w[0])) /\ Done(0, Fetch(h, w[0])) = 0
        <4> HIDE DEF w
        <4>1. 0 \in Nat /\ \A m \in 1 .. 0 : ~Ends(w[m])
          OBVIOUS
        <4> QED
          BY <2>2, <4>1, AtClusterBegins
      <3>3. AtCluster(x, volume, w, 0, d) /\ Done(0, d) = 0
        BY <3>1, <3>2
      <3> HIDE DEF d
      <3> QED
        BY <3>3 DEF SearchAt
    <2> HIDE DEF d
    <2>5. OpenAt(x, volume, d, i)
      BY <1>4, <2>3, <2>4 DEF OpenAt
    <2>6. OpenOK(x, volume, d)
      BY <2>3, <2>5 DEF OpenOK
    <2> QED
      BY <2>1, <2>3, <2>6
  <1> QED
    BY <1>3, <1>4

-----------------------------------------------------------------------------
\* The driver's steps, and what comes in.

\* A step of a: the others keep their calls, and what they have is on the volume.
LEMMA DataStep ==
  ASSUME DiskInv, DataInv, NEW a \in Actors, volume # NoVolume, UNCHANGED volume,
         Home' = Home, disk'[Home] = disk[Home],
         call' = [call EXCEPT ![a] = call'[a]], file' = [file EXCEPT ![a] = file'[a]],
         mixed' \in [Actors -> BOOLEAN], \A b \in Actors : mixed[b] => mixed'[b],
         \A b \in Actors : b # a /\ ~mixed'[b] => RegistersOK(b)',
         ~mixed'[a] => RegistersOK(a)' /\ ActorOK(disk[Home], volume, call'[a], file'[a])
  PROVE  DataInv'
  <1>1. \A b \in Actors : b # a => call'[b] = call[b] /\ file'[b] = file[b]
    <2>1. call = [b \in Actors |-> call[b]] /\ file = [b \in Actors |-> file[b]]
      BY DEF DiskInv, DiskTypes
    <2> QED
      BY <2>1
  <1>2. disk'[Home'] = disk[Home] /\ volume' = volume
    OBVIOUS
  <1>3. VolumeOK(disk[Home], volume)
    BY DEF DataInv
  <1>4. ASSUME NEW b \in Actors, ~mixed'[b]
        PROVE  RegistersOK(b)' /\ ActorOK(disk[Home], volume, call'[b], file'[b])
    <2>1. CASE b = a
      BY <1>4, <2>1
    <2>2. CASE b # a
      BY <1>1, <1>4, <2>2 DEF DataInv
    <2> QED
      BY <2>1, <2>2
  <1> QED
    BY <1>2, <1>3, <1>4 DEF DataInv

\* A step of a that leaves the registers alone, but for taking the data.
LEMMA QuietStep ==
  ASSUME DiskInv, DataInv, NEW a \in Actors, volume # NoVolume, UNCHANGED volume,
         Home' = Home, disk'[Home] = disk[Home],
         call' = [call EXCEPT ![a] = call'[a]], file' = [file EXCEPT ![a] = file'[a]],
         UNCHANGED mixed, ata' = ata \/ ata' = [ata EXCEPT !.drq = FALSE],
         call'[a].io \in {"ready", "confused"} \/ call'[a].op \notin {"open", "read"},
         ~mixed[a] => ActorOK(disk[Home], volume, call'[a], file'[a])
  PROVE  DataInv'
  <1>1. \A b \in Actors : b # a => call'[b] = call[b]
    <2>1. call = [b \in Actors |-> call[b]]
      BY DEF DiskInv, DiskTypes
    <2> QED
      BY <2>1
  <1>2. /\ mixed' \in [Actors -> BOOLEAN] /\ \A b \in Actors : mixed[b] => mixed'[b]
        /\ \A b \in Actors : ~mixed[b] => RegistersOK(b)
    BY DEF DataInv
  <1>3. /\ ata'.drive = ata.drive /\ ata'.sector = ata.sector /\ (ata'.drq => ata.drq)
    BY ActorState
  <1>4. ASSUME NEW b \in Actors, b # a, ~mixed'[b] PROVE RegistersOK(b)'
    <2>1. RegistersOK(b)
      BY <1>2, <1>4
    <2>2. call'[b] = call[b] /\ disk'[Home'] = disk[Home]
      BY <1>1, <1>4
    <2> QED
      BY <1>3, <2>1, <2>2 DEF RegistersOK
  <1>5. RegistersOK(a)'
    BY DEF RegistersOK
  <1> QED
    BY <1>2, <1>4, <1>5, DataStep

\* What an actor that nobody got into has.
LEMMA Seen ==
  ASSUME DiskInv, DataInv, NEW a \in Actors, ~mixed[a], volume # NoVolume
  PROVE  /\ VolumeOK(disk[Home], volume) /\ RegistersOK(a)
         /\ ActorOK(disk[Home], volume, call[a], file[a])
  BY DEF DataInv

\* A step between the beginning and the end of a transfer.
LEMMA IoStep ==
  ASSUME DiskInv, NEW a \in Actors, NEW x, NEW v, ActorOK(x, v, call[a], file[a]), NEW io
  PROVE  ActorOK(x, v, [call[a] EXCEPT !.io = io], file[a])
  <1> DEFINE c == call[a]
             d == [call[a] EXCEPT !.io = io]
  <1>1. CallOK(c)
    BY ActorState
  <1>2. /\ d.op = c.op /\ d.path = c.path /\ d.rest = c.rest /\ d.cluster = c.cluster
        /\ d.phase = c.phase /\ d.out = c.out /\ d.left = c.left /\ d.want = c.want /\ d.buf = c.buf
    BY <1>1 DEF CallOK, CallFields
  <1> HIDE DEF c, d
  <1>3. Filling(x, v, c) => Filling(x, v, d)
    BY <1>2 DEF Filling
  <1>4. ActorOK(x, v, d, file[a])
    BY <1>2, <1>3, SameCall DEF c
  <1> QED
    BY <1>4 DEF d

LEMMA AddressData ==
  ASSUME DiskInv, DataInv, NEW a \in Actors, Address(a)
  PROVE  DataInv'
  <1> DEFINE d == [call[a] EXCEPT !.io = "addressed"]
  <1>1. /\ Runs(a) /\ call[a].op # "idle" /\ UNCHANGED <<disk, driveSelect, volume>> /\ UNCHANGED file
        /\ ata' = [ata EXCEPT !.drive = driveSelect, !.sector = call[a].want]
        /\ call' = [call EXCEPT ![a] = d]
        /\ mixed' = [b \in Actors |-> mixed[b] \/ (b # a /\ call[b].io # "ready")]
    BY DEF Address
  <1>2. volume # NoVolume /\ mixed \in [Actors -> BOOLEAN]
    BY <1>1, ActorState DEF DataInv
  <1>3. call'[a] = d /\ call' = [call EXCEPT ![a] = call'[a]]
    BY <1>1, Assigned
  <1>4. file' = [file EXCEPT ![a] = file'[a]] /\ file'[a] = file[a]
    BY <1>1, Assigned
  <1>5. Home' = Home /\ disk'[Home] = disk[Home]
    BY <1>1 DEF Home
  <1>6. /\ mixed' \in [Actors -> BOOLEAN] /\ \A b \in Actors : mixed[b] => mixed'[b]
        /\ \A b \in Actors : b # a /\ ~mixed'[b] => call[b].io = "ready"
        /\ ~mixed'[a] => ~mixed[a]
    BY <1>1, <1>2
  <1>7. \A b \in Actors : b # a => call'[b] = call[b]
    <2>1. call = [b \in Actors |-> call[b]]
      BY DEF DiskInv, DiskTypes
    <2> QED
      BY <1>1, <2>1
  <1>8. \A b \in Actors : b # a /\ ~mixed'[b] => RegistersOK(b)'
    BY <1>6, <1>7 DEF RegistersOK
  <1>9. RegistersOK(a)'
    <2> SUFFICES ASSUME call'[a].op \in {"open", "read"}
                 PROVE  /\ ata'.drive = Home /\ ata'.sector = call'[a].want
                        /\ call'[a].io # "commanded"
      BY <1>5 DEF RegistersOK
    <2>1. call[a].op = call'[a].op /\ call'[a].io = "addressed" /\ call'[a].want = call[a].want
      BY <1>3, ActorState DEF CallOK, CallFields
    <2>2. ata'.drive = driveSelect /\ ata'.sector = call[a].want
      BY <1>1, ActorState
    <2>3. driveSelect = Home
      <3>1. \A p \in Procs : call[p].op \notin BootOps
        <4> SUFFICES ASSUME NEW p \in Procs, call[p].op \in BootOps PROVE FALSE
          OBVIOUS
        <4>1. p \in Masked
          BY DEF Masked, BootOps
        <4>2. p = a
          BY <1>1, <4>1 DEF Runs, DiskInv, DriveInv
        <4> QED
          BY <2>1, <4>2 DEF BootOps
      <3> QED
        BY <1>2, <3>1 DEF DiskInv, DriveInv
    <2> QED
      BY <2>1, <2>2, <2>3
  <1>10. ASSUME ~mixed'[a] PROVE ActorOK(disk[Home], volume, call'[a], file'[a])
    <2>1. ActorOK(disk[Home], volume, call[a], file[a])
      BY <1>2, <1>6, <1>10, Seen
    <2> QED
      BY <1>3, <1>4, <2>1, IoStep
  <1> QED
    BY <1>1, <1>2, <1>3, <1>4, <1>5, <1>6, <1>8, <1>9, <1>10, DataStep

LEMMA CommandData ==
  ASSUME DiskInv, DataInv, NEW a \in Actors, Command(a)
  PROVE  DataInv'
  <1> DEFINE d == [call[a] EXCEPT !.io = "commanded"]
  <1>1. /\ call[a].io = "addressed" /\ UNCHANGED <<disk, volume, mixed>> /\ UNCHANGED file
        /\ ata' = [ata EXCEPT !.drq = ata.sector \in DOMAIN disk[ata.drive]]
        /\ call' = [call EXCEPT ![a] = d]
    BY DEF Command
  <1>2. volume # NoVolume
    BY <1>1, ActorState
  <1>3. call'[a] = d /\ call' = [call EXCEPT ![a] = call'[a]]
    BY <1>1, Assigned
  <1>4. file' = [file EXCEPT ![a] = file'[a]] /\ file'[a] = file[a]
    BY <1>1, Assigned
  <1>5. Home' = Home /\ disk'[Home] = disk[Home] /\ disk'[Home'] = disk[Home]
    BY <1>1 DEF Home
  <1>6. mixed' \in [Actors -> BOOLEAN] /\ mixed' = mixed
    BY <1>1 DEF DataInv
  <1>7. \A b \in Actors : b # a => call'[b] = call[b]
    <2>1. call = [b \in Actors |-> call[b]]
      BY DEF DiskInv, DiskTypes
    <2> QED
      BY <1>1, <2>1
  <1>8. ata'.drive = ata.drive /\ ata'.sector = ata.sector
        /\ (ata'.drq => ata.sector \in DOMAIN disk[ata.drive])
    BY <1>1, ActorState
  <1>9. call[a].op = call'[a].op /\ call'[a].want = call[a].want
    BY <1>3, ActorState DEF CallOK, CallFields
  <1>10. ASSUME NEW b \in Actors, ~mixed'[b] PROVE RegistersOK(b)'
    <2>1. RegistersOK(b)
      BY <1>6, <1>10 DEF DataInv
    <2>2. CASE b # a
      BY <1>5, <1>7, <1>8, <2>1, <2>2 DEF RegistersOK
    <2>3. CASE b = a
      BY <1>1, <1>5, <1>8, <1>9, <2>1, <2>3 DEF RegistersOK
    <2> QED
      BY <2>2, <2>3
  <1>11. ASSUME ~mixed'[a] PROVE ActorOK(disk[Home], volume, call'[a], file'[a])
    <2>1. ActorOK(disk[Home], volume, call[a], file[a])
      BY <1>2, <1>6, <1>11, Seen
    <2> QED
      BY <1>3, <1>4, <2>1, IoStep
  <1> QED
    BY <1>1, <1>2, <1>3, <1>4, <1>5, <1>6, <1>10, <1>11, DataStep

LEMMA ConfusedData ==
  ASSUME DiskInv, DataInv, NEW a \in Actors, Confused(a)
  PROVE  DataInv'
  <1> DEFINE d == [call[a] EXCEPT !.io = "confused"]
  <1>1. /\ call[a].io = "commanded" /\ UNCHANGED <<disk, volume, mixed>> /\ UNCHANGED file /\ mixed[a]
        /\ ata' = [ata EXCEPT !.drq = FALSE] /\ call' = [call EXCEPT ![a] = d]
    BY DEF Confused
  <1>2. volume # NoVolume
    BY <1>1, ActorState
  <1>3. call'[a] = d /\ call' = [call EXCEPT ![a] = call'[a]]
    BY <1>1, Assigned
  <1>4. file' = [file EXCEPT ![a] = file'[a]]
    BY <1>1, Assigned
  <1>5. Home' = Home /\ disk'[Home] = disk[Home]
    BY <1>1 DEF Home
  <1>6. call'[a].io = "confused"
    BY <1>3, ActorState DEF CallOK, CallFields
  <1> QED
    BY <1>1, <1>2, <1>3, <1>4, <1>5, <1>6, QuietStep

\* The sector that comes in for a FAT32 call is the one it wants.
LEMMA SectorSeen ==
  ASSUME DiskInv, DataInv, NEW a \in Actors, NEW op \in {"open", "read"}, NEW phase, Receives(a, op, phase)
  PROVE  /\ volume # NoVolume /\ ~mixed[a] /\ call[a].op = op /\ call[a].phase = phase
         /\ CallOK(call[a]) /\ FileOK(file[a])
         /\ Sector = disk[Home][call[a].want] /\ call[a].want \in DOMAIN disk[Home]
         /\ VolumeOK(disk[Home], volume) /\ ActorOK(disk[Home], volume, call[a], file[a])
  <1>1. /\ call[a].op = op /\ call[a].phase = phase /\ call[a].io = "commanded" /\ ata.drq /\ ~mixed[a]
    BY DEF Receives
  <1>2. volume # NoVolume /\ CallOK(call[a]) /\ FileOK(file[a])
    BY <1>1, ActorState
  <1>3. VolumeOK(disk[Home], volume) /\ ActorOK(disk[Home], volume, call[a], file[a]) /\ RegistersOK(a)
    BY <1>1, <1>2, Seen
  <1>4. ata.drive = Home /\ ata.sector = call[a].want /\ ata.sector \in DOMAIN disk[Home]
    BY <1>1, <1>3 DEF RegistersOK
  <1>5. Sector = disk[Home][call[a].want]
    BY <1>4 DEF Sector
  <1> QED
    BY <1>1, <1>2, <1>3, <1>4, <1>5

\* A step of a FAT32 call that received a sector.
LEMMA ReceiveStep ==
  ASSUME DiskInv, DataInv, NEW a \in Actors, NEW op \in {"open", "read"}, NEW phase, Receives(a, op, phase),
         UNCHANGED <<disk, volume, mixed>>,
         NEW c, call' = [call EXCEPT ![a] = c], c.io = "ready",
         NEW f, file' = [file EXCEPT ![a] = f] \/ (UNCHANGED file /\ f = file[a]),
         ActorOK(disk[Home], volume, c, f)
  PROVE  DataInv'
  <1>1. volume # NoVolume /\ ata' = [ata EXCEPT !.drq = FALSE]
    BY SectorSeen DEF Receives
  <1>2. call'[a] = c /\ call' = [call EXCEPT ![a] = call'[a]]
    BY Assigned
  <1>3. file'[a] = f /\ file' = [file EXCEPT ![a] = file'[a]]
    BY Assigned
  <1>4. Home' = Home /\ disk'[Home] = disk[Home]
    BY DEF Home
  <1> QED
    BY <1>1, <1>2, <1>3, <1>4, QuietStep

LEMMA NextSectorData ==
  ASSUME DiskInv, DataInv, NEW a \in Actors, NEW op \in {"open", "read"}, NextSector(a, op)
  PROVE  DataInv'
  <1> DEFINE x == disk[Home]
             c == call[a]
             b == c.buf \o x[c.want]
             d == [c EXCEPT !.buf = b, !.io = "ready",
                            !.want = ClusterToSector(volume, c.cluster) + Len(b) \div 2]
  <1>1. Receives(a, op, "cluster") /\ UNCHANGED <<disk, volume, mixed>> /\ UNCHANGED file
    BY DEF NextSector
  <1>2. /\ c.phase = "cluster" /\ CallOK(c) /\ Sector = x[c.want] /\ c.want \in DOMAIN x
        /\ VolumeOK(x, volume) /\ ActorOK(x, volume, c, file[a])
    BY <1>1, SectorSeen
  <1>3. Loaded(a) = b
    BY <1>2 DEF Loaded
  <1>4. call' = [call EXCEPT ![a] = d] /\ Len(b) # ClusterSize(volume)
    BY <1>3 DEF NextSector, Whole
  <1>5. /\ d.op = c.op /\ d.path = c.path /\ d.rest = c.rest /\ d.cluster = c.cluster /\ d.phase = c.phase
        /\ d.out = c.out /\ d.left = c.left /\ d.buf = b /\ d.io = "ready"
        /\ d.want = ClusterToSector(volume, c.cluster) + Len(b) \div 2
    BY <1>2 DEF CallOK, CallFields
  <1> HIDE DEF d
  <1>6. Filling(x, volume, c) => Filling(x, volume, d)
    BY <1>2, <1>4, <1>5, SectorIn
  <1>7. ActorOK(x, volume, d, file[a])
    <2> HIDE DEF x, c
    <2> QED
      BY <1>2, <1>5, <1>6, SameCall
  <1> QED
    BY <1>1, <1>4, <1>5, <1>7, ReceiveStep

-----------------------------------------------------------------------------
\* Reading.

LEMMA ReadEndsOK ==
  ASSUME NEW x, NEW v, NEW c, NEW f, ActorOK(x, v, c, f), c.op = "read", FileOK(f), NEW out,
         f.size \in Nat \ {0} => out = Given(x, v, f)
  PROVE  ActorOK(x, v, Idle, [f EXCEPT !.got = out, !.done = TRUE])
  <1> DEFINE g == [f EXCEPT !.got = out, !.done = TRUE]
  <1>1. /\ g.fs = f.fs /\ g.exists = f.exists /\ g.path = f.path /\ g.cluster = f.cluster /\ g.dir = f.dir
        /\ g.size = f.size /\ g.len = f.len /\ g.got = out
    BY DEF FileOK, FileFields
  <1>2. f.fs = "fat32" /\ f.len \in Nat /\ Resolved(x, v, f)
    BY DEF ActorOK, ReadOK
  <1> HIDE DEF g
  <1>3. Resolved(x, v, g)
    BY <1>1, <1>2 DEF Resolved
  <1>4. Given(x, v, g) = Given(x, v, f)
    BY <1>1 DEF Given, Wanted
  <1>5. Returned(x, v, g)
    BY <1>1, <1>4, ReturnedIsGiven
  <1>6. ActorOK(x, v, Idle, g)
    BY <1>1, <1>2, <1>3, <1>5, IdleOK, Records
  <1> QED
    BY <1>6 DEF g

LEMMA ReadEndsData ==
  ASSUME DiskInv, DataInv, NEW a \in Actors, NEW phase, Receives(a, "read", phase),
         UNCHANGED <<disk, volume, mixed>>, NEW out, ReadEnds(a, out),
         file[a].size \in Nat \ {0} => out = Given(disk[Home], volume, file[a])
  PROVE  DataInv'
  <1> DEFINE g == [file[a] EXCEPT !.got = out, !.done = TRUE]
  <1>1. call' = [call EXCEPT ![a] = Idle] /\ file' = [file EXCEPT ![a] = g]
    BY DEF ReadEnds
  <1>2. ActorOK(disk[Home], volume, Idle, g)
    <2>1. ActorOK(disk[Home], volume, call[a], file[a]) /\ call[a].op = "read" /\ FileOK(file[a])
      BY SectorSeen
    <2> QED
      BY <2>1, ReadEndsOK
  <1> HIDE DEF g
  <1> QED
    BY <1>1, <1>2, Records, ReceiveStep

\* A call that goes on reading.
LEMMA ReadGoesOn ==
  ASSUME NEW x, NEW v, NEW c, NEW f, ActorOK(x, v, c, f), c.op = "read", NEW d, d.op = "read",
         f.size \in Nat \ {0} => \E k \in Nat : ReadAt(x, v, d, f, k)
  PROVE  ActorOK(x, v, d, f)
  BY DEF ActorOK, ReadOK

LEMMA ReadCopyData ==
  ASSUME DiskInv, DataInv, NEW a \in Actors, ReadCopy(a)
  PROVE  DataInv'
  <1> DEFINE x == disk[Home]
             v == volume
             c == call[a]
             f == file[a]
             b == c.buf \o x[c.want]
             n == Chunk(c.left, ClusterSize(v))
             out == c.out \o SubSeq(b, 1, n)
             g == [c EXCEPT !.out = out, !.left = @ - n]
             d == FetchFat(g)
             w == Clusters(x, v, f.cluster)
  <1>1. Receives(a, "read", "cluster") /\ UNCHANGED <<disk, volume, mixed>>
    BY DEF ReadCopy
  <1>2. /\ c.phase = "cluster" /\ c.op = "read" /\ CallOK(c) /\ Sector = x[c.want] /\ c.want \in DOMAIN x
        /\ VolumeOK(x, v) /\ ActorOK(x, v, c, f)
    BY <1>1, SectorSeen
  <1>3. Loaded(a) = b
    BY <1>2 DEF Loaded
  <1>4. /\ Len(b) = ClusterSize(v)
        /\ IF c.left <= n THEN ReadEnds(a, out)
           ELSE call' = [call EXCEPT ![a] = d] /\ UNCHANGED file
    BY <1>3 DEF ReadCopy, Whole
  <1>5. CallOK(g) /\ g.op = "read" /\ g.cluster = c.cluster /\ g.out = out /\ g.left = c.left - n
    BY <1>2 DEF CallOK, CallFields
  <1>6. f.size \in Nat \ {0} => f.len \in Nat \ {0} /\ \E k \in Nat : ReadAt(x, v, c, f, k)
    BY <1>2 DEF ActorOK, ReadOK
  <1>7. \A k \in Nat : ReadAt(x, v, c, f, k) => AtCluster(x, v, w, k, c) /\ Filling(x, v, c)
    BY <1>2 DEF ReadAt, AtCluster
  <1>8. n = Chunk(c.left, ClusterSize(v)) /\ out = c.out \o SubSeq(b, 1, n)
    OBVIOUS
  <1> HIDE DEF x, c, f, n, out, b, w, g
  <1>9. Filling(x, v, c) => b = ClusterCells(x, v, c.cluster, ClusterSize(v))
    BY <1>2, <1>4, SectorIn DEF b
  <1>10. CASE c.left <= n
    <2>1. ASSUME f.size \in Nat \ {0} PROVE out = Given(x, v, f)
      <3>1. PICK k \in Nat : ReadAt(x, v, c, f, k)
        BY <1>6, <2>1
      <3>2. b = ClusterCells(x, v, c.cluster, ClusterSize(v)) /\ f.len \in Nat \ {0}
        BY <1>6, <1>7, <1>9, <2>1, <3>1
      <3>3. out = Copied(x, v, c)
        BY <1>8, <3>2 DEF Copied
      <3>4. c.left <= Chunk(c.left, ClusterSize(v)) => Copied(x, v, c) = Given(x, v, f)
        BY <1>2, <2>1, <3>1, <3>2, Copies
      <3> QED
        BY <1>8, <1>10, <3>3, <3>4
    <2> QED
      BY <1>1, <1>4, <1>10, <2>1, ReadEndsData DEF x, f
  <1>11. CASE ~(c.left <= n)
    <2>1. d.op = "read" /\ d.out = out /\ d.left = c.left - n
      BY <1>5, FetchFatFields
    <2>2. d.io = "ready"
      BY <1>5, Fetches
    <2>3. ASSUME f.size \in Nat \ {0} PROVE \E k \in Nat : ReadAt(x, v, d, f, k)
      <3>1. PICK k \in Nat : ReadAt(x, v, c, f, k)
        BY <1>6, <2>3
      <3>2. b = ClusterCells(x, v, c.cluster, ClusterSize(v)) /\ f.len \in Nat \ {0} /\ AtCluster(x, v, w, k, c)
        BY <1>6, <1>7, <1>9, <2>3, <3>1
      <3>3. /\ out = ChainCells(x, v, f.cluster, (k + 1) * ClusterSize(v))
            /\ c.left - n = Wanted(f) - (k + 1) * ClusterSize(v) /\ c.left - n > 0
        <4>1. out = Copied(x, v, c)
          BY <1>8, <3>2 DEF Copied
        <4>2. ~(c.left <= Chunk(c.left, ClusterSize(v))) =>
                 /\ Copied(x, v, c) = ChainCells(x, v, f.cluster, (k + 1) * ClusterSize(v))
                 /\ c.left - Chunk(c.left, ClusterSize(v)) = Wanted(f) - (k + 1) * ClusterSize(v)
                 /\ c.left - Chunk(c.left, ClusterSize(v)) > 0
          BY <1>2, <2>3, <3>1, <3>2, Copies
        <4> QED
          BY <1>8, <1>11, <4>1, <4>2
      <3>4. AtCluster(x, v, w, k, d) /\ Done(k, d) = k + 1
        BY <1>5, <3>2, AtClusterTurns
      <3> HIDE DEF d
      <3>5. ReadAt(x, v, d, f, k)
        BY <2>1, <3>3, <3>4 DEF ReadAt, Wanted, w
      <3> QED
        BY <3>5
    <2>4. ActorOK(x, v, d, f)
      BY <1>2, <2>1, <2>3, ReadGoesOn
    <2>5. call' = [call EXCEPT ![a] = d] /\ UNCHANGED file
      BY <1>4, <1>11
    <2> HIDE DEF d
    <2> QED
      BY <1>1, <2>2, <2>4, <2>5, ReceiveStep DEF x, f
  <1> QED
    BY <1>10, <1>11

LEMMA ReadFollowData ==
  ASSUME DiskInv, DataInv, NEW a \in Actors, ReadFollow(a)
  PROVE  DataInv'
  <1> DEFINE x == disk[Home]
             v == volume
             c == call[a]
             f == file[a]
             next == FatCell(x[c.want], c.cluster)
             d == Fetch(c, next)
             w == Clusters(x, v, f.cluster)
  <1>1. Receives(a, "read", "fat") /\ UNCHANGED <<disk, volume, mixed>>
    BY DEF ReadFollow
  <1>2. /\ c.phase = "fat" /\ c.op = "read" /\ CallOK(c) /\ Sector = x[c.want]
        /\ VolumeOK(x, v) /\ ActorOK(x, v, c, f)
    BY <1>1, SectorSeen
  <1>3. IF Ends(next) THEN ReadEnds(a, c.out) ELSE call' = [call EXCEPT ![a] = d] /\ UNCHANGED file
    BY <1>2 DEF ReadFollow
  <1>4. f.size \in Nat \ {0} => f.len \in Nat \ {0} /\ \E k \in Nat : ReadAt(x, v, c, f, k)
    BY <1>2 DEF ActorOK, ReadOK
  <1>5. ASSUME NEW k \in Nat, ReadAt(x, v, c, f, k)
        PROVE  next = w[k + 1] /\ \A m \in 1 .. k : ~Ends(w[m])
    <2>1. c.cluster = w[k] /\ c.want = FatSector(v, c.cluster) /\ \A m \in 1 .. k : ~Ends(w[m])
      BY <1>2, <1>5 DEF ReadAt, AtCluster
    <2>2. w[k + 1] = FatCell(x[FatSector(v, w[k])], w[k])
      BY <2>1, NextInChain
    <2> HIDE DEF x, c, f, w
    <2> QED
      BY <2>1, <2>2
  <1> HIDE DEF x, c, f, next, w
  <1>6. CASE Ends(next)
    <2>1. ASSUME f.size \in Nat \ {0} PROVE c.out = Given(x, v, f)
      <3>1. PICK k \in Nat : ReadAt(x, v, c, f, k)
        BY <1>4, <2>1
      <3>2. f.len \in Nat \ {0} /\ Ends(w[k + 1])
        BY <1>4, <1>5, <1>6, <2>1, <3>1
      <3> QED
        BY <1>2, <2>1, <3>1, <3>2, RunsOut DEF w
    <2>2. ReadEnds(a, c.out)
      BY <1>3, <1>6
    <2> QED
      BY <1>1, <2>1, <2>2, ReadEndsData DEF x, f
  <1>7. CASE ~Ends(next)
    <2>1. d.op = "read" /\ d.out = c.out /\ d.left = c.left
      BY <1>2, FetchFields
    <2>2. d.io = "ready"
      BY <1>2, Fetches
    <2>3. ASSUME f.size \in Nat \ {0} PROVE \E k \in Nat : ReadAt(x, v, d, f, k)
      <3>1. PICK k \in Nat : ReadAt(x, v, c, f, k)
        BY <1>4, <2>3
      <3>2. k + 1 \in Nat /\ next = w[k + 1] /\ \A m \in 1 .. k + 1 : ~Ends(w[m])
        <4>1. next = w[k + 1] /\ \A m \in 1 .. k : ~Ends(w[m])
          BY <1>5, <3>1
        <4>2. \A m \in 1 .. k + 1 : m \in 1 .. k \/ m = k + 1
          OBVIOUS
        <4> QED
          BY <1>7, <4>1, <4>2
      <3>3. AtCluster(x, v, w, k + 1, d) /\ Done(k + 1, d) = k + 1
        BY <1>2, <3>2, AtClusterBegins
      <3>4. Done(k, c) = k + 1
        BY <1>2 DEF Done
      <3> HIDE DEF d
      <3>5. ReadAt(x, v, d, f, k + 1)
        BY <2>1, <3>1, <3>3, <3>4 DEF ReadAt, w
      <3> QED
        BY <3>2, <3>5
    <2>4. ActorOK(x, v, d, f)
      BY <1>2, <2>1, <2>3, ReadGoesOn
    <2>5. call' = [call EXCEPT ![a] = d] /\ UNCHANGED file
      BY <1>3, <1>7
    <2> HIDE DEF d
    <2> QED
      BY <1>1, <2>2, <2>4, <2>5, ReceiveStep DEF x, f
  <1> QED
    BY <1>6, <1>7

-----------------------------------------------------------------------------
\* Opening.

\* An open that failed.
LEMMA MissingOK ==
  ASSUME NEW x, NEW v, NEW path \in Paths, NEW i \in Nat, i <= Len(path),
         Steps(x, v, path)[i] \in {NotFound, Undecided},
         NEW f, f.path = path, ~f.exists, f.len = 0
  PROVE  ActorOK(x, v, Idle, f)
  <1>1. Resolved(x, v, f)
    BY Failed
  <1>2. Returned(x, v, f)
    BY DEF Returned
  <1> QED
    BY <1>1, <1>2, Records DEF ActorOK

LEMMA OpenFailsData ==
  ASSUME DiskInv, DataInv, NEW a \in Actors, NEW phase, Receives(a, "open", phase),
         UNCHANGED <<disk, volume, mixed>>, call' = [call EXCEPT ![a] = Idle], OpenFails(a),
         call[a].path \in Paths, NEW i \in Nat, i <= Len(call[a].path),
         Steps(disk[Home], volume, call[a].path)[i] \in {NotFound, Undecided}
  PROVE  DataInv'
  <1> DEFINE f == [NoFile EXCEPT !.fs = "fat32", !.path = call[a].path, !.done = TRUE]
  <1>1. file' = [file EXCEPT ![a] = f]
    BY DEF OpenFails
  <1>2. f.path = call[a].path /\ ~f.exists /\ f.len = 0
    BY DEF NoFile
  <1> HIDE DEF f
  <1>3. ActorOK(disk[Home], volume, Idle, f)
    BY <1>2, MissingOK
  <1> QED
    BY <1>1, <1>3, Records, ReceiveStep

\* A call that goes on searching.
LEMMA OpenGoesOn ==
  ASSUME NEW x, NEW v, NEW c, NEW f, ActorOK(x, v, c, f), c.op = "open", NEW d, d.op = "open", OpenOK(x, v, d)
  PROVE  ActorOK(x, v, d, f)
  BY DEF ActorOK

\* The entry of component i + 1 is found.
LEMMA FoundOK ==
  ASSUME NEW x, NEW v, NEW path \in Paths, NEW e, e.attr # "end",
         Resolve(x, v, path) \in {e, Undecided},
         NEW f, f = [NoFile EXCEPT !.fs = "fat32", !.exists = TRUE, !.path = path, !.done = TRUE,
                                   !.cluster = e.cluster, !.dir = e.attr = "dir", !.size = e.size]
  PROVE  ActorOK(x, v, Idle, f)
  <1>1. /\ f.path = path /\ f.exists /\ f.len = 0 /\ f.cluster = e.cluster /\ f.size = e.size
        /\ f.dir = (e.attr = "dir")
    BY DEF NoFile
  <1>2. e # NotFound
    BY LookupLost
  <1>3. Resolved(x, v, f)
    BY <1>1, <1>2 DEF Resolved
  <1>4. Returned(x, v, f)
    BY <1>1 DEF Returned
  <1> QED
    BY <1>1, <1>3, <1>4, Records DEF ActorOK

LEMMA OpenFoundData ==
  ASSUME DiskInv, DataInv, NEW a \in Actors, Receives(a, "open", "cluster"),
         UNCHANGED <<disk, volume, mixed>>,
         NEW path \in Paths, call[a].path = path, NEW i \in 0 .. Len(path) - 1,
         call[a].rest = SubSeq(path, i + 1, Len(path)), NEW e, e.attr # "end",
         Steps(disk[Home], volume, path)[i + 1] \in {e, Undecided}, OpenFound(a, e)
  PROVE  DataInv'
  <1> DEFINE x == disk[Home]
             v == volume
             c == call[a]
             at == Steps(x, v, path)
  <1>1. Len(path) \in Nat /\ i \in Nat /\ Len(c.rest) = Len(path) - i
        /\ (Len(c.rest) # 1 => i + 1 \in 0 .. Len(path) - 1 /\ Tail(c.rest) = SubSeq(path, (i + 1) + 1, Len(path)))
    BY RestOK
  <1>2. c.op = "open" /\ CallOK(c) /\ VolumeOK(x, v) /\ ActorOK(x, v, c, file[a])
    BY SectorSeen
  <1>3. CASE Len(c.rest) = 1
    <2> DEFINE f == [NoFile EXCEPT !.fs = "fat32", !.exists = TRUE, !.path = call[a].path, !.done = TRUE,
                                   !.cluster = e.cluster, !.dir = e.attr = "dir", !.size = e.size]
    <2>1. file' = [file EXCEPT ![a] = f] /\ call' = [call EXCEPT ![a] = Idle]
      BY <1>3 DEF OpenFound
    <2>2. Len(path) = i + 1
      <3> DEFINE l == Len(path)
                 r == Len(c.rest)
      <3>1. l \in Nat /\ i \in Nat /\ r = l - i /\ r = 1
        BY <1>1, <1>3
      <3> HIDE DEF l, r
      <3>2. l = i + 1
        BY <3>1
      <3> QED
        BY <3>2 DEF l
    <2>3. Resolve(x, v, path) \in {e, Undecided}
      BY <2>2 DEF Resolve
    <2>4. ActorOK(x, v, Idle, f)
      BY <2>3, FoundOK
    <2> HIDE DEF f
    <2> QED
      BY <2>1, <2>4, Records, ReceiveStep
  <1>4. CASE Len(c.rest) # 1
    <2> DEFINE g == AfterFirst(c)
               h == Find(g, e.cluster)
               d == IF e.attr = "dir" THEN h ELSE Idle
    <2>1. /\ call' = [call EXCEPT ![a] = d]
          /\ IF d = Idle THEN OpenFails(a) ELSE UNCHANGED file
      BY <1>4 DEF OpenFound
    <2>2. CallOK(g) /\ g.path = path /\ g.rest = Tail(c.rest)
      BY <1>2 DEF AfterFirst, CallOK, CallFields
    <2>3. /\ i + 1 \in 0 .. Len(path) - 1 /\ g.rest = SubSeq(path, (i + 1) + 1, Len(path))
          /\ i + 1 \in Nat /\ (i + 1) + 1 \in Nat /\ (i + 1) + 1 <= Len(path)
      <3> DEFINE l == Len(path)
      <3>1. l \in Nat /\ i \in Nat /\ i + 1 \in 0 .. l - 1 /\ g.rest = SubSeq(path, (i + 1) + 1, Len(path))
        BY <1>1, <1>4, <2>2
      <3> HIDE DEF l, g
      <3>2. i + 1 \in Nat /\ (i + 1) + 1 \in Nat /\ (i + 1) + 1 <= l
        BY <3>1
      <3> QED
        BY <3>1, <3>2 DEF l
    <2> HIDE DEF g
    <2>4. CASE d = Idle
      <3>1. at[(i + 1) + 1] \in {NotFound, Undecided}
        <4>1. CASE e.attr = "dir"
          <5>1. \/ at[(i + 1) + 1] \in {NotFound, Undecided}
                \/ h.op = "open"
            <6> DEFINE dir == at[i + 1]
            <6>1. dir = Undecided \/ (dir.attr = "dir" /\ dir.cluster = e.cluster)
              BY <4>1
            <6>2. dir = Steps(x, volume, path)[i + 1]
              OBVIOUS
            <6> HIDE DEF dir, x, h
            <6> QED
              BY <1>2, <2>2, <2>3, <6>1, <6>2, FindOK DEF h
          <5>2. h.op = "idle"
            BY <2>4, <4>1, Records
          <5> HIDE DEF h, at
          <5> QED
            BY <5>1, <5>2
        <4>2. CASE e.attr # "dir"
          <5>1. at[(i + 1) + 1] = Lookup(x, v, at[i + 1], path[(i + 1) + 1])
            BY <2>3, StepsDef
          <5>2. Lookup(x, v, at[i + 1], path[(i + 1) + 1]) \in {NotFound, Undecided}
            BY <4>2 DEF Lookup
          <5> QED
            BY <5>1, <5>2
        <4> QED
          BY <4>1, <4>2
      <3>2. call' = [call EXCEPT ![a] = Idle] /\ OpenFails(a)
        BY <2>1, <2>4
      <3> HIDE DEF d
      <3> QED
        BY <2>3, <3>1, <3>2, OpenFailsData
    <2>5. CASE d # Idle
      <3>1. d = h /\ e.attr = "dir"
        BY <2>5
      <3>2. h.op = "open" /\ h.io = "ready"
        BY <2>2, <2>5, <3>1, Finds
      <3>3. OpenOK(x, v, h)
        <4> DEFINE dir == at[i + 1]
        <4>1. dir = Undecided \/ (dir.attr = "dir" /\ dir.cluster = e.cluster)
          BY <3>1
        <4>2. dir = Steps(x, volume, path)[i + 1]
          OBVIOUS
        <4>3. h # Idle
          BY <2>5, <3>1
        <4> HIDE DEF dir, x, h
        <4> QED
          BY <1>2, <2>2, <2>3, <4>1, <4>2, <4>3, FindOK DEF h
      <3>4. ActorOK(x, v, h, file[a])
        <4> HIDE DEF h, x, c
        <4> QED
          BY <1>2, <3>2, <3>3, OpenGoesOn
      <3>5. call' = [call EXCEPT ![a] = h] /\ UNCHANGED file
        BY <2>1, <2>5, <3>1
      <3> HIDE DEF h
      <3> QED
        BY <3>2, <3>4, <3>5, ReceiveStep
    <2> QED
      BY <2>4, <2>5
  <1> QED
    BY <1>3, <1>4

\* A cluster of the directory was scanned, with or without a stop in it.
LEMMA OpenScanData ==
  ASSUME DiskInv, DataInv, NEW a \in Actors, OpenScan(a)
  PROVE  DataInv'
  <1> DEFINE x == disk[Home]
             v == volume
             c == call[a]
             p == c.path
             b == c.buf \o x[c.want]
             j == Scan(b, FatName(Head(c.rest)))
             d == FetchFat(c)
  <1>1. Receives(a, "open", "cluster") /\ UNCHANGED <<disk, volume, mixed>>
    BY DEF OpenScan
  <1>2. /\ c.phase = "cluster" /\ c.op = "open" /\ CallOK(c) /\ Sector = x[c.want] /\ c.want \in DOMAIN x
        /\ VolumeOK(x, v) /\ ActorOK(x, v, c, file[a])
    BY <1>1, SectorSeen
  <1>3. Loaded(a) = b
    BY <1>2 DEF Loaded
  <1>4. /\ Len(b) = ClusterSize(v)
        /\ j = 0 => call' = [call EXCEPT ![a] = d] /\ UNCHANGED file
        /\ j # 0 /\ b[j].attr = "end" => call' = [call EXCEPT ![a] = Idle] /\ OpenFails(a)
        /\ j # 0 /\ b[j].attr # "end" => OpenFound(a, b[j])
    <2> DEFINE s == Scan(Loaded(a), FatName(Head(call[a].rest)))
    <2>1. /\ Whole(a)
          /\ CASE s = 0 -> call' = [call EXCEPT ![a] = FetchFat(@)] /\ UNCHANGED <<file, heap>>
               [] s # 0 /\ Loaded(a)[s].attr = "end" -> OpenMissing(a)
               [] s # 0 /\ Loaded(a)[s].attr # "end" -> OpenFound(a, Loaded(a)[s])
      BY DEF OpenScan
    <2>2. s = j
      BY <1>3
    <2> HIDE DEF s, j, b
    <2>3. /\ j = 0 => call' = [call EXCEPT ![a] = FetchFat(@)] /\ UNCHANGED file
          /\ j # 0 /\ b[j].attr = "end" => OpenMissing(a)
          /\ j # 0 /\ b[j].attr # "end" => OpenFound(a, b[j])
      BY <1>3, <2>1, <2>2
    <2> QED
      BY <1>3, <2>1, <2>3 DEF Whole, OpenMissing
  <1>5. p \in Paths /\ OpenOK(x, v, c)
    BY <1>2 DEF ActorOK, OpenOK
  <1>6. PICK i \in 0 .. Len(p) - 1 : OpenAt(x, v, c, i)
    BY <1>5 DEF OpenOK
  <1> DEFINE n == p[i + 1]
             at == Steps(x, v, p)
             dir == at[i]
             w == Clusters(x, v, dir.cluster)
  <1>7. /\ c.rest = SubSeq(p, i + 1, Len(p))
        /\ dir = Undecided \/ (dir.attr = "dir" /\ FatName(n) # NoName /\ \E k \in Nat : SearchAt(x, v, c, dir, n, k))
    BY <1>6 DEF OpenAt
  <1>8. Len(p) \in Nat /\ i \in Nat /\ Head(c.rest) = n
    BY <1>5, <1>7, RestOK
  <1>9. i + 1 \in Nat /\ i + 1 <= Len(p)
    <2> DEFINE l == Len(p)
    <2>1. l \in Nat /\ i \in 0 .. l - 1
      BY <1>6, <1>8
    <2> HIDE DEF l
    <2>2. i + 1 \in Nat /\ i + 1 <= l
      BY <2>1
    <2> QED
      BY <2>2 DEF l
  <1>10. at[i + 1] = Lookup(x, v, dir, n)
    <2>1. \A q : Steps(x, v, q)[i + 1] = Lookup(x, v, Steps(x, v, q)[i], q[i + 1])
      <3> HIDE DEF x
      <3> QED
        BY <1>8, StepsDef
    <2> QED
      BY <2>1
  <1>11. ASSUME NEW k \in Nat, SearchAt(x, v, c, dir, n, k)
         PROVE  /\ AtCluster(x, v, w, k, c) /\ \A m \in 1 .. k : ~Ends(w[m])
                /\ \A m \in 0 .. k - 1 : StopsIn(x, v, w[m], n) = {}
                /\ b = ClusterCells(x, v, w[k], ClusterSize(v))
    <2>1. /\ AtCluster(x, v, w, k, c) /\ Done(k, c) = k
          /\ \A m \in 0 .. Done(k, c) - 1 : StopsIn(x, v, w[m], n) = {}
      BY <1>2, <1>11 DEF SearchAt, Done
    <2>2. c.cluster = w[k] /\ Filling(x, v, c) /\ \A m \in 1 .. k : ~Ends(w[m])
      BY <1>2, <2>1 DEF AtCluster
    <2> HIDE DEF x, c, w, n
    <2>3. b = ClusterCells(x, v, c.cluster, ClusterSize(v))
      BY <1>2, <1>4, <2>2, SectorIn
    <2> QED
      BY <2>1, <2>2, <2>3
  <1> HIDE DEF x, b, n, dir, w
  <1>12. CASE j = 0
    <2>1. d.op = "open" /\ d.path = p /\ d.rest = c.rest
      BY <1>2, FetchFatFields
    <2>2. d.io = "ready"
      BY <1>2, Fetches
    <2>3. ASSUME dir # Undecided PROVE \E k \in Nat : SearchAt(x, v, d, dir, n, k)
      <3>1. PICK k \in Nat : SearchAt(x, v, c, dir, n, k)
        BY <1>7, <2>3
      <3>2. AtCluster(x, v, w, k, c) /\ b = ClusterCells(x, v, w[k], ClusterSize(v))
            /\ \A m \in 0 .. k - 1 : StopsIn(x, v, w[m], n) = {}
        BY <1>11, <3>1
      <3>3. AtCluster(x, v, w, k, d) /\ Done(k, d) = k + 1
        BY <1>2, <3>2, AtClusterTurns
      <3>4. StopsIn(x, v, w[k], n) = {}
        BY <1>2, <1>7, <1>8, <1>12, <2>3, <3>2, ScanCluster
      <3>5. \A m \in 0 .. (k + 1) - 1 : m \in 0 .. k - 1 \/ m = k
        OBVIOUS
      <3>6. \A m \in 0 .. (k + 1) - 1 : StopsIn(x, v, w[m], n) = {}
        BY <3>2, <3>4, <3>5
      <3> HIDE DEF d
      <3>7. SearchAt(x, v, d, dir, n, k)
        BY <3>3, <3>6 DEF SearchAt, w
      <3> QED
        BY <3>7
    <2> HIDE DEF d
    <2>4. OpenAt(x, v, d, i)
      BY <1>7, <2>1, <2>3 DEF OpenAt, dir, n
    <2>5. OpenOK(x, v, d)
      BY <1>5, <2>1, <2>4 DEF OpenOK
    <2>6. ActorOK(x, v, d, file[a])
      BY <1>2, <2>1, <2>5, OpenGoesOn
    <2>7. call' = [call EXCEPT ![a] = d] /\ UNCHANGED file
      BY <1>4, <1>12
    <2> QED
      BY <1>1, <2>2, <2>6, <2>7, ReceiveStep DEF x
  <1>13. ASSUME j # 0 PROVE at[i + 1] \in {Undecided, IF b[j].attr = "end" THEN NotFound ELSE b[j]}
    <2>1. CASE dir = Undecided
      BY <1>10, <2>1, LookupLost
    <2>2. CASE dir # Undecided
      <3>1. PICK k \in Nat : SearchAt(x, v, c, dir, n, k)
        BY <1>7, <2>2
      <3>2. /\ b = ClusterCells(x, v, w[k], ClusterSize(v)) /\ \A m \in 1 .. k : ~Ends(w[m])
            /\ \A m \in 0 .. k - 1 : StopsIn(x, v, w[m], n) = {}
        BY <1>11, <3>1
      <3>3. StopsIn(x, v, w[k], n) # {} /\ b[j] = FirstStop(x, v, w[k], n)
        BY <1>2, <1>7, <1>8, <1>13, <2>2, <3>2, ScanCluster
      <3> DEFINE e == b[j]
      <3>4. e = FirstStop(x, v, Clusters(x, v, dir.cluster)[k], n) /\ dir.attr = "dir" /\ FatName(n) # NoName
        BY <1>7, <2>2, <3>3 DEF w
      <3>5. /\ \A m \in 1 .. k : ~Ends(Clusters(x, v, dir.cluster)[m])
            /\ \A m \in 0 .. k - 1 : StopsIn(x, v, Clusters(x, v, dir.cluster)[m], n) = {}
            /\ StopsIn(x, v, Clusters(x, v, dir.cluster)[k], n) # {}
        BY <3>2, <3>3 DEF w
      <3> HIDE DEF e, j
      <3>6. Lookup(x, v, dir, n) = Undecided \/ Lookup(x, v, dir, n) = IF e.attr = "end" THEN NotFound ELSE e
        BY <2>2, <3>4, <3>5, LookupFound
      <3> QED
        BY <1>10, <3>6 DEF e
    <2> QED
      BY <2>1, <2>2
  <1>14. CASE j # 0 /\ b[j].attr = "end"
    <2>1. at[i + 1] \in {NotFound, Undecided}
      BY <1>13, <1>14
    <2>2. call' = [call EXCEPT ![a] = Idle] /\ OpenFails(a)
      BY <1>4, <1>14
    <2> QED
      BY <1>1, <1>5, <1>9, <2>1, <2>2, OpenFailsData DEF x
  <1>15. CASE j # 0 /\ b[j].attr # "end"
    <2> DEFINE e == b[j]
    <2>1. at[i + 1] \in {e, Undecided} /\ e.attr # "end"
      BY <1>13, <1>15
    <2>2. OpenFound(a, e)
      BY <1>4, <1>15
    <2> HIDE DEF e, j
    <2> QED
      BY <1>1, <1>5, <1>6, <1>7, <2>1, <2>2, OpenFoundData DEF x
  <1> QED
    BY <1>12, <1>14, <1>15

LEMMA OpenFollowData ==
  ASSUME DiskInv, DataInv, NEW a \in Actors, OpenFollow(a)
  PROVE  DataInv'
  <1> DEFINE x == disk[Home]
             v == volume
             c == call[a]
             p == c.path
             next == FatCell(x[c.want], c.cluster)
             d == Fetch(c, next)
  <1>1. Receives(a, "open", "fat") /\ UNCHANGED <<disk, volume, mixed>>
    BY DEF OpenFollow
  <1>2. /\ c.phase = "fat" /\ c.op = "open" /\ CallOK(c) /\ Sector = x[c.want]
        /\ VolumeOK(x, v) /\ ActorOK(x, v, c, file[a])
    BY <1>1, SectorSeen
  <1>3. IF Ends(next) THEN call' = [call EXCEPT ![a] = Idle] /\ OpenFails(a)
        ELSE call' = [call EXCEPT ![a] = d] /\ UNCHANGED file
    BY <1>2 DEF OpenFollow, OpenMissing
  <1>4. p \in Paths /\ OpenOK(x, v, c)
    BY <1>2 DEF ActorOK, OpenOK
  <1>5. PICK i \in 0 .. Len(p) - 1 : OpenAt(x, v, c, i)
    BY <1>4 DEF OpenOK
  <1> DEFINE n == p[i + 1]
             at == Steps(x, v, p)
             dir == at[i]
             w == Clusters(x, v, dir.cluster)
  <1>6. /\ c.rest = SubSeq(p, i + 1, Len(p))
        /\ dir = Undecided \/ (dir.attr = "dir" /\ FatName(n) # NoName /\ \E k \in Nat : SearchAt(x, v, c, dir, n, k))
    BY <1>5 DEF OpenAt
  <1>7. Len(p) \in Nat /\ i \in Nat
    BY <1>4, <1>6, RestOK
  <1>8. i + 1 \in Nat /\ i + 1 <= Len(p)
    <2> DEFINE l == Len(p)
    <2>1. l \in Nat /\ i \in 0 .. l - 1
      BY <1>5, <1>7
    <2> HIDE DEF l
    <2>2. i + 1 \in Nat /\ i + 1 <= l
      BY <2>1
    <2> QED
      BY <2>2 DEF l
  <1>9. at[i + 1] = Lookup(x, v, dir, n)
    <2>1. \A q : Steps(x, v, q)[i + 1] = Lookup(x, v, Steps(x, v, q)[i], q[i + 1])
      <3> HIDE DEF x
      <3> QED
        BY <1>7, StepsDef
    <2> QED
      BY <2>1
  <1>10. ASSUME NEW k \in Nat, SearchAt(x, v, c, dir, n, k)
         PROVE  /\ next = w[k + 1] /\ \A m \in 1 .. k : ~Ends(w[m])
                /\ \A m \in 0 .. k : StopsIn(x, v, w[m], n) = {}
    <2>1. /\ AtCluster(x, v, w, k, c) /\ Done(k, c) = k + 1
          /\ \A m \in 0 .. Done(k, c) - 1 : StopsIn(x, v, w[m], n) = {}
      BY <1>2, <1>10 DEF SearchAt, Done
    <2>2. c.cluster = w[k] /\ c.want = FatSector(v, c.cluster) /\ \A m \in 1 .. k : ~Ends(w[m])
      BY <1>2, <2>1 DEF AtCluster
    <2>3. w[k + 1] = FatCell(x[FatSector(v, w[k])], w[k])
      BY <2>2, NextInChain
    <2>4. \A m \in 0 .. k : m \in 0 .. (k + 1) - 1
      OBVIOUS
    <2> HIDE DEF x, c, w, n
    <2> QED
      BY <2>1, <2>2, <2>3, <2>4
  <1> HIDE DEF x, next, n, dir, w
  <1>11. CASE Ends(next)
    <2>1. at[i + 1] \in {NotFound, Undecided}
      <3>1. CASE dir = Undecided
        BY <1>9, <3>1, LookupLost
      <3>2. CASE dir # Undecided
        <4>1. PICK k \in Nat : SearchAt(x, v, c, dir, n, k)
          BY <1>6, <3>2
        <4>2. /\ \A m \in 1 .. k : ~Ends(Clusters(x, v, dir.cluster)[m])
              /\ \A m \in 0 .. k : StopsIn(x, v, Clusters(x, v, dir.cluster)[m], n) = {}
              /\ Ends(Clusters(x, v, dir.cluster)[k + 1])
          BY <1>10, <1>11, <4>1 DEF w
        <4>3. Lookup(x, v, dir, n) \in {NotFound, Undecided}
          BY <1>6, <3>2, <4>2, LookupMissing
        <4> QED
          BY <1>9, <4>3
      <3> QED
        BY <3>1, <3>2
    <2>2. call' = [call EXCEPT ![a] = Idle] /\ OpenFails(a)
      BY <1>3, <1>11
    <2> QED
      BY <1>1, <1>4, <1>8, <2>1, <2>2, OpenFailsData DEF x
  <1>12. CASE ~Ends(next)
    <2>1. d.op = "open" /\ d.path = p /\ d.rest = c.rest
      BY <1>2, FetchFields
    <2>2. d.io = "ready"
      BY <1>2, Fetches
    <2>3. ASSUME dir # Undecided PROVE \E k \in Nat : SearchAt(x, v, d, dir, n, k)
      <3>1. PICK k \in Nat : SearchAt(x, v, c, dir, n, k)
        BY <1>6, <2>3
      <3>2. /\ next = w[k + 1] /\ \A m \in 1 .. k : ~Ends(w[m])
            /\ \A m \in 0 .. k : StopsIn(x, v, w[m], n) = {}
        BY <1>10, <3>1
      <3>3. k + 1 \in Nat /\ \A m \in 1 .. k + 1 : ~Ends(w[m])
        <4>1. \A m \in 1 .. k + 1 : m \in 1 .. k \/ m = k + 1
          OBVIOUS
        <4> QED
          BY <1>12, <3>2, <4>1
      <3>4. AtCluster(x, v, w, k + 1, d) /\ Done(k + 1, d) = k + 1
        BY <1>2, <3>2, <3>3, AtClusterBegins
      <3>5. \A m \in 0 .. (k + 1) - 1 : m \in 0 .. k
        OBVIOUS
      <3>6. \A m \in 0 .. (k + 1) - 1 : StopsIn(x, v, w[m], n) = {}
        BY <3>2, <3>5
      <3> HIDE DEF d
      <3>7. SearchAt(x, v, d, dir, n, k + 1)
        BY <3>4, <3>6 DEF SearchAt, w
      <3> QED
        BY <3>3, <3>7
    <2> HIDE DEF d
    <2>4. OpenAt(x, v, d, i)
      BY <1>6, <2>1, <2>3 DEF OpenAt, dir, n
    <2>5. OpenOK(x, v, d)
      BY <1>4, <2>1, <2>4 DEF OpenOK
    <2>6. ActorOK(x, v, d, file[a])
      BY <1>2, <2>1, <2>5, OpenGoesOn
    <2>7. call' = [call EXCEPT ![a] = d] /\ UNCHANGED file
      BY <1>3, <1>12
    <2> QED
      BY <1>1, <2>2, <2>6, <2>7, ReceiveStep DEF x
  <1> QED
    BY <1>11, <1>12

-----------------------------------------------------------------------------
\* The calls.

LEMMA CallData ==
  ASSUME DiskInv, DataInv, NEW a \in Actors, volume # NoVolume,
         UNCHANGED <<disk, ata, volume, mixed>>,
         NEW c, call' = [call EXCEPT ![a] = c] \/ (UNCHANGED call /\ c = call[a]), c.io = "ready",
         NEW f, file' = [file EXCEPT ![a] = f],
         ~mixed[a] => ActorOK(disk[Home], volume, c, f)
  PROVE  DataInv'
  <1>1. call'[a] = c /\ call' = [call EXCEPT ![a] = call'[a]]
    BY Assigned
  <1>2. file'[a] = f /\ file' = [file EXCEPT ![a] = file'[a]]
    BY Assigned
  <1>3. Home' = Home /\ disk'[Home] = disk[Home]
    BY DEF Home
  <1> QED
    BY <1>1, <1>2, <1>3, QuietStep

\* A path of slashes only.
LEMMA RootOK ==
  ASSUME NEW x, NEW v, NEW f, f.path = <<>>, f.exists, f.dir = TRUE, f.cluster = v.root, f.size = 0, f.len = 0
  PROVE  ActorOK(x, v, Idle, f)
  <1>1. Resolve(x, v, f.path) = Root(v)
    <2>1. \A q : Steps(x, v, q)[0] = Root(v)
      BY StepsDef
    <2>2. Len(<<>>) = 0
      OBVIOUS
    <2> QED
      BY <2>1, <2>2 DEF Resolve
  <1>2. Root(v).attr = "dir" /\ Root(v).cluster = v.root /\ Root(v).size = 0 /\ Root(v) # NotFound
    BY DEF Root, NotFound, DirEntry
  <1>3. Resolved(x, v, f)
    BY <1>1, <1>2 DEF Resolved
  <1>4. Returned(x, v, f)
    BY DEF Returned
  <1> QED
    BY <1>3, <1>4, Records DEF ActorOK

LEMMA FatOpenData ==
  ASSUME DiskInv, DataInv, NEW a \in Actors, NEW path \in Paths, FatOpen(a, path)
  PROVE  DataInv'
  <1> DEFINE x == disk[Home]
             v == volume
             g == [Idle EXCEPT !.path = path, !.rest = path]
             h == Find(g, volume.root)
             c == IF IsRootPath(path) THEN Idle ELSE h
             f == [NoFile EXCEPT !.fs = "fat32", !.path = path, !.done = c = Idle,
                                 !.exists = IsRootPath(path), !.dir = IsRootPath(path),
                                 !.cluster = IF IsRootPath(path) THEN volume.root ELSE 0]
  <1>1. /\ volume # NoVolume /\ UNCHANGED <<disk, ata, volume, mixed>>
        /\ call' = [call EXCEPT ![a] = c] /\ file' = [file EXCEPT ![a] = f]
    BY DEF FatOpen, MayCall
  <1>2. /\ f.path = path /\ f.exists = IsRootPath(path) /\ f.dir = IsRootPath(path) /\ f.size = 0 /\ f.len = 0
        /\ f.cluster = (IF IsRootPath(path) THEN volume.root ELSE 0) /\ f.done = (c = Idle) /\ f.fs = "fat32"
    BY DEF NoFile
  <1> HIDE DEF f
  <1>3. VolumeOK(x, v)
    BY <1>1 DEF DataInv
  <1>4. CallOK(g) /\ g.path = path /\ g.rest = path
    BY Records DEF CallOK, CallFields, Idle
  <1>5. CASE IsRootPath(path)
    <2>1. c = Idle /\ path = <<>>
      BY <1>5 DEF IsRootPath
    <2> HIDE DEF c, x
    <2>2. ActorOK(x, v, Idle, f)
      BY <1>2, <1>5, <2>1, RootOK
    <2> QED
      BY <1>1, <2>1, <2>2, Records, CallData DEF x
  <1>6. CASE ~IsRootPath(path)
    <2>1. c = h
      BY <1>6
    <2> DEFINE l == Len(path)
    <2>2. l \in Nat /\ l # 0 /\ SubSeq(path, 1, Len(path)) = path
      <3> DEFINE R == {path[j] : j \in DOMAIN path}
      <3>1. path \in Seq(R) /\ path # <<>>
        BY <1>6, DiskAssumption DEF IsRootPath
      <3> HIDE DEF R
      <3> QED
        BY <3>1, LenProperties, EmptySeq, SubSeqFull
    <2>3. 0 \in 0 .. Len(path) - 1 /\ 1 <= Len(path)
      <3> HIDE DEF l
      <3>1. 0 \in 0 .. l - 1 /\ 1 <= l
        BY <2>2
      <3> QED
        BY <3>1 DEF l
    <2>4. g.rest = SubSeq(path, 0 + 1, Len(path)) /\ 0 + 1 = 1
      BY <1>4, <2>2
    <2> DEFINE dir == Steps(x, v, path)[0]
    <2>5. dir.attr = "dir" /\ dir.cluster = volume.root
      <3>1. \A q : Steps(x, v, q)[0] = Root(v)
        <4> HIDE DEF x
        <4> QED
          BY StepsDef
      <3>2. dir = Root(v)
        BY <3>1
      <3> HIDE DEF dir
      <3> QED
        BY <3>2 DEF Root, DirEntry
    <2>6. dir = Steps(x, volume, path)[0]
      OBVIOUS
    <2> HIDE DEF g, x, dir, h, c
    <2>7. \/ h = Idle /\ Steps(x, v, path)[0 + 1] \in {NotFound, Undecided}
          \/ h.op = "open" /\ OpenOK(x, v, h)
      BY <1>3, <1>4, <2>3, <2>4, <2>5, <2>6, FindOK DEF h
    <2>8. CASE h = Idle
      <3>1. Steps(x, v, path)[1] \in {NotFound, Undecided}
        BY <2>7, <2>8, Records
      <3>2. f.path = path /\ ~f.exists /\ f.len = 0 /\ 1 \in Nat
        BY <1>2, <1>6
      <3>3. ActorOK(x, v, Idle, f)
        BY <2>3, <3>1, <3>2, MissingOK
      <3> QED
        BY <1>1, <2>1, <2>8, <3>3, Records, CallData DEF x
    <2>9. CASE h # Idle
      <3>1. h.op = "open" /\ OpenOK(x, v, h)
        BY <2>7, <2>9
      <3>2. h.io = "ready"
        BY <1>4, <2>9, Finds DEF h
      <3>3. ~f.done
        BY <1>2, <2>1, <2>9
      <3>4. ActorOK(x, v, h, f)
        BY <3>1, <3>3 DEF ActorOK
      <3> QED
        BY <1>1, <2>1, <3>2, <3>4, CallData DEF x
    <2> QED
      BY <2>8, <2>9
  <1> QED
    BY <1>5, <1>6

\* A read that begins, at the first cluster of the file's chain.
LEMMA ReadBegins ==
  ASSUME NEW x, VolumeOK(x, volume), NEW f, NEW g, f.len \in Nat, f.size \in Nat \ {0},
         Min({f.len, f.size}) # 0, CallOK(g), g.out = <<>>, g.left = Min({f.len, f.size})
  PROVE  f.len # 0 /\ ReadAt(x, volume, Fetch(g, f.cluster), f, 0)
  <1> DEFINE w == Clusters(x, volume, f.cluster)
             d == Fetch(g, f.cluster)
             size == ClusterSize(volume)
             n == Min({f.len, f.size})
  <1>1. n \in Nat /\ n # 0 /\ f.len # 0
    BY MinOfTwo
  <1>2. w[0] = f.cluster
    <2>1. \A s : Clusters(x, volume, s)[0] = s
      BY ClustersDef
    <2> QED
      BY <2>1
  <1>3. AtCluster(x, volume, w, 0, d) /\ Done(0, d) = 0
    <2> HIDE DEF w
    <2>1. 0 \in Nat /\ \A m \in 1 .. 0 : ~Ends(w[m])
      OBVIOUS
    <2>2. AtCluster(x, volume, w, 0, Fetch(g, w[0])) /\ Done(0, Fetch(g, w[0])) = 0
      BY <2>1, AtClusterBegins
    <2> QED
      BY <1>2, <2>2
  <1>4. d.out = <<>> /\ d.left = n
    BY FetchFields
  <1>5. 0 * size = 0
    <2>1. size \in Nat
      BY SizeOK
    <2> HIDE DEF size
    <2> QED
      BY <2>1
  <1>6. ChainCells(x, volume, f.cluster, 0) = <<>>
    BY DEF ChainCells
  <1> HIDE DEF d, n
  <1>7. n - 0 = n /\ n > 0
    BY <1>1
  <1>8. ReadAt(x, volume, d, f, 0)
    BY <1>3, <1>4, <1>5, <1>6, <1>7 DEF ReadAt, n
  <1> QED
    BY <1>1, <1>8 DEF d

LEMMA FatReadData ==
  ASSUME DiskInv, DataInv, NEW a \in Actors, NEW len \in ReadLens, FatRead(a, len)
  PROVE  DataInv'
  <1> DEFINE x == disk[Home]
             v == volume
             f == file[a]
             n == Min({len, f.size})
             g == [Idle EXCEPT !.op = "read", !.left = n]
             d == Fetch(g, f.cluster)
             same == [f EXCEPT !.len = len, !.got = <<>>]
             next == [f EXCEPT !.len = len, !.got = <<>>, !.done = FALSE]
  <1>1. /\ volume # NoVolume /\ UNCHANGED <<disk, ata, volume, mixed>> /\ call[a].op = "idle" /\ f.fs = "fat32"
        /\ IF f.dir \/ n = 0 THEN file' = [file EXCEPT ![a] = same] /\ UNCHANGED call
           ELSE file' = [file EXCEPT ![a] = next] /\ call' = [call EXCEPT ![a] = d]
    BY DEF FatRead, MayCall
  <1>2. CallOK(call[a]) /\ FileOK(f) /\ call[a].io = "ready" /\ len \in Nat
    BY <1>1, ActorState, DiskAssumption DEF CallOK
  <1>3. /\ same.path = f.path /\ same.exists = f.exists /\ same.cluster = f.cluster /\ same.size = f.size
        /\ same.dir = f.dir /\ same.len = len /\ same.fs = f.fs
    BY <1>2 DEF FileOK, FileFields
  <1>4. /\ next.path = f.path /\ next.exists = f.exists /\ next.cluster = f.cluster /\ next.size = f.size
        /\ next.dir = f.dir /\ next.len = len /\ next.fs = f.fs /\ ~next.done
    BY <1>2 DEF FileOK, FileFields
  <1>5. CallOK(g) /\ g.op = "read" /\ g.left = n /\ g.out = <<>>
    BY Records DEF CallOK, CallFields, Idle, Ops
  <1>6. ~mixed[a] => VolumeOK(x, v) /\ Resolved(x, v, f)
    BY <1>1, Seen DEF ActorOK
  <1> HIDE DEF x, f, same, next, g
  <1>7. CASE f.dir \/ n = 0
    <2>1. Returned(x, v, same)
      <3> SUFFICES ASSUME ~same.dir, same.len > 0, same.size \in Nat \ {0} PROVE FALSE
        BY DEF Returned
      <3>1. n # 0
        BY <1>2, <1>3, MinOfTwo
      <3> QED
        BY <1>3, <1>7, <3>1
    <2>2. ~mixed[a] => Resolved(x, v, same)
      BY <1>3, <1>6 DEF Resolved
    <2>3. ~mixed[a] => ActorOK(x, v, call[a], same)
      BY <1>1, <1>2, <1>3, <2>1, <2>2 DEF ActorOK
    <2>4. file' = [file EXCEPT ![a] = same] /\ UNCHANGED call
      BY <1>1, <1>7
    <2> QED
      BY <1>1, <1>2, <2>3, <2>4, CallData DEF x
  <1>8. CASE ~(f.dir \/ n = 0)
    <2>1. d.op = "read"
      BY <1>5, FetchFields
    <2>2. d.io = "ready"
      BY <1>5, Fetches
    <2>3. ASSUME ~mixed[a], next.size \in Nat \ {0}
          PROVE  next.len \in Nat \ {0} /\ ReadAt(x, v, d, next, 0)
      <3>1. next.len \in Nat /\ Min({next.len, next.size}) = n /\ n # 0 /\ next.cluster = f.cluster
        BY <1>2, <1>4, <1>8
      <3>2. next.len # 0 /\ ReadAt(x, v, Fetch(g, next.cluster), next, 0)
        <4> HIDE DEF n
        <4> QED
          BY <1>5, <1>6, <2>3, <3>1, ReadBegins
      <3> QED
        BY <3>1, <3>2
    <2> HIDE DEF d
    <2>4. ASSUME ~mixed[a] PROVE ReadOK(x, v, d, next)
      BY <1>1, <1>4, <2>3, <2>4 DEF ReadOK
    <2>5. ~mixed[a] => Resolved(x, v, next)
      BY <1>4, <1>6 DEF Resolved
    <2>6. Returned(x, v, next)
      BY <1>4 DEF Returned
    <2>7. ~mixed[a] => ActorOK(x, v, d, next)
      BY <1>2, <1>4, <2>1, <2>4, <2>5, <2>6 DEF ActorOK
    <2>8. file' = [file EXCEPT ![a] = next] /\ call' = [call EXCEPT ![a] = d]
      BY <1>1, <1>8
    <2> QED
      BY <1>1, <2>2, <2>7, <2>8, CallData DEF x
  <1> QED
    BY <1>7, <1>8

LEMMA BootOpenData ==
  ASSUME DiskInv, DataInv, NEW a \in Actors, NEW n, BootOpen(a, n)
  PROVE  DataInv'
  <1> DEFINE f == [NoFile EXCEPT !.fs = "boot", !.exists = TRUE, !.size = 2, !.cluster = n, !.done = TRUE]
  <1>1. /\ volume # NoVolume /\ UNCHANGED <<disk, ata, volume, mixed>> /\ call[a].op = "idle" /\ UNCHANGED call
        /\ file' = [file EXCEPT ![a] = f]
    BY DEF BootOpen, MayCall
  <1>2. f.fs = "boot" /\ call[a].io = "ready"
    BY <1>1, ActorState DEF NoFile, CallOK
  <1> HIDE DEF f
  <1>3. ActorOK(disk[Home], volume, call[a], f)
    BY <1>1, <1>2 DEF ActorOK
  <1> QED
    BY <1>1, <1>2, <1>3, CallData

LEMMA CloseData ==
  ASSUME DiskInv, DataInv, NEW a \in Actors, Close(a)
  PROVE  DataInv'
  <1>1. /\ volume # NoVolume /\ UNCHANGED <<disk, ata, volume, mixed>> /\ call[a].op = "idle" /\ UNCHANGED call
        /\ file' = [file EXCEPT ![a] = NoFile]
    BY DEF Close, MayCall
  <1>2. NoFile.fs = "none" /\ call[a].io = "ready"
    BY <1>1, ActorState DEF NoFile, CallOK
  <1>3. ActorOK(disk[Home], volume, call[a], NoFile)
    BY <1>1, <1>2 DEF ActorOK
  <1> QED
    BY <1>1, <1>2, <1>3, CallData

\* A call of the boot file system begins.
LEMMA BootBeginsData ==
  ASSUME DiskInv, DataInv, NEW a \in Actors, volume # NoVolume, UNCHANGED <<disk, ata, volume, mixed>>,
         NEW c, c.op \in BootOps, c.io = "ready", call' = [call EXCEPT ![a] = c],
         NEW f, f.fs = "boot", file' = [file EXCEPT ![a] = f]
  PROVE  DataInv'
  <1>1. ActorOK(disk[Home], volume, c, f)
    BY DEF ActorOK, BootOps
  <1> QED
    BY <1>1, CallData

LEMMA BootReadData ==
  ASSUME DiskInv, DataInv, NEW a \in Actors, NEW len, BootRead(a, len)
  PROVE  DataInv'
  <1> DEFINE c == [Idle EXCEPT !.op = "bootread", !.want = file[a].cluster]
             f == [file[a] EXCEPT !.len = len, !.got = <<>>, !.done = FALSE]
  <1>1. /\ volume # NoVolume /\ UNCHANGED <<disk, ata, volume, mixed>> /\ file[a].fs = "boot"
        /\ call' = [call EXCEPT ![a] = c] /\ file' = [file EXCEPT ![a] = f]
    BY DEF BootRead, MayCall
  <1>2. c.op \in BootOps /\ c.io = "ready" /\ f.fs = "boot"
    BY <1>1, ActorState DEF Idle, FileOK, FileFields, BootOps
  <1> HIDE DEF c, f
  <1> QED
    BY <1>1, <1>2, BootBeginsData

LEMMA BootWriteData ==
  ASSUME DiskInv, DataInv, NEW a \in Actors, NEW len, BootWrite(a, len)
  PROVE  DataInv'
  <1> DEFINE c == [Idle EXCEPT !.op = IF len \div 2 < 2 THEN "merge" ELSE "store",
                        !.want = file[a].cluster, !.left = len \div 2,
                        !.out = IF len \div 2 < 2 THEN <<>> ELSE <<Data("new"), Data("new")>>]
             f == [file[a] EXCEPT !.len = len]
  <1>1. /\ volume # NoVolume /\ UNCHANGED <<disk, ata, volume, mixed>> /\ file[a].fs = "boot"
        /\ call' = [call EXCEPT ![a] = c] /\ file' = [file EXCEPT ![a] = f]
    BY DEF BootWrite, MayCall
  <1>2. c.op \in BootOps /\ c.io = "ready" /\ f.fs = "boot"
    BY <1>1, ActorState DEF Idle, FileOK, FileFields, BootOps
  <1> HIDE DEF c, f
  <1> QED
    BY <1>1, <1>2, BootBeginsData

\* A sector came in for a call of the boot file system, or went out.
LEMMA BootGoesOnData ==
  ASSUME DiskInv, DataInv, NEW a \in Actors, NEW op \in BootOps, Receives(a, op, ""),
         UNCHANGED <<volume, mixed>>, Home' = Home, disk'[Home] = disk[Home],
         NEW c, c.op \notin {"open", "read"}, call' = [call EXCEPT ![a] = c],
         NEW f, f.fs = file[a].fs, file' = [file EXCEPT ![a] = f] \/ (UNCHANGED file /\ f = file[a])
  PROVE  DataInv'
  <1>1. ~mixed[a] /\ call[a].op = op /\ ata' = [ata EXCEPT !.drq = FALSE]
    BY DEF Receives
  <1>2. op \notin {"idle", "open", "read"}
    BY DEF BootOps
  <1>3. volume # NoVolume
    BY <1>1, <1>2, ActorState
  <1>4. f.fs = "boot"
    BY <1>1, <1>2, <1>3, Seen DEF ActorOK
  <1>5. ActorOK(disk[Home], volume, c, f)
    BY <1>4 DEF ActorOK
  <1>6. call'[a] = c /\ call' = [call EXCEPT ![a] = call'[a]]
    BY Assigned
  <1>7. file'[a] = f /\ file' = [file EXCEPT ![a] = file'[a]]
    BY Assigned
  <1> QED
    BY <1>1, <1>3, <1>5, <1>6, <1>7, QuietStep

LEMMA BootReceiveData ==
  ASSUME DiskInv, DataInv, NEW a \in Actors, BootReceive(a)
  PROVE  DataInv'
  <1> DEFINE f == [file[a] EXCEPT !.got = Sector, !.done = TRUE]
  <1>1. /\ Receives(a, "bootread", "") /\ UNCHANGED <<disk, volume, mixed>>
        /\ call' = [call EXCEPT ![a] = Idle] /\ file' = [file EXCEPT ![a] = f]
    BY DEF BootReceive
  <1>2. f.fs = file[a].fs /\ Idle.op \notin {"open", "read"}
    BY ActorState, Records DEF FileOK, FileFields
  <1>3. Home' = Home /\ disk'[Home] = disk[Home] /\ "bootread" \in BootOps
    BY <1>1 DEF Home, BootOps
  <1> HIDE DEF f
  <1> QED
    BY <1>1, <1>2, <1>3, BootGoesOnData

LEMMA BootMergeData ==
  ASSUME DiskInv, DataInv, NEW a \in Actors, BootMerge(a)
  PROVE  DataInv'
  <1> DEFINE c == [call[a] EXCEPT !.op = "store", !.io = "ready",
                     !.out = [i \in 1 .. 2 |-> IF i <= call[a].left THEN Data("new") ELSE Sector[i]]]
  <1>1. /\ Receives(a, "merge", "") /\ UNCHANGED <<disk, volume, mixed>> /\ UNCHANGED file
        /\ call' = [call EXCEPT ![a] = c]
    BY DEF BootMerge
  <1>2. c.op = "store"
    BY ActorState DEF CallOK, CallFields
  <1>3. Home' = Home /\ disk'[Home] = disk[Home] /\ "merge" \in BootOps
    BY <1>1 DEF Home, BootOps
  <1> HIDE DEF c
  <1> QED
    BY <1>1, <1>2, <1>3, BootGoesOnData

LEMMA BootStoreData ==
  ASSUME DiskInv, DataInv, NEW a \in Actors, BootStore(a)
  PROVE  DataInv'
  <1>1. /\ Receives(a, "store", "") /\ UNCHANGED <<volume, mixed>> /\ UNCHANGED file
        /\ call' = [call EXCEPT ![a] = Idle]
    BY DEF BootStore
  <1>2. Idle.op \notin {"open", "read"} /\ "store" \in BootOps
    BY Records DEF BootOps
  <1>3. Home' = Home /\ disk'[Home] = disk[Home]
    BY HomeKept
  <1> QED
    BY <1>1, <1>2, <1>3, BootGoesOnData

LEMMA BootStoreFailsData ==
  ASSUME DiskInv, DataInv, NEW a \in Actors, BootStoreFails(a)
  PROVE  DataInv'
  <1>1. /\ Receives(a, "store", "") /\ UNCHANGED <<disk, volume, mixed>> /\ UNCHANGED file
        /\ UNCHANGED call
    BY DEF BootStoreFails
  <1>2. call' = [call EXCEPT ![a] = call[a]]
    BY <1>1, Assigned
  <1>3. call[a].op \notin {"open", "read"} /\ "store" \in BootOps
    BY <1>1 DEF BootOps, Receives
  <1>4. Home' = Home /\ disk'[Home] = disk[Home]
    BY <1>1 DEF Home
  <1> QED
    BY <1>1, <1>2, <1>3, <1>4, BootGoesOnData

-----------------------------------------------------------------------------
\* Boot, and all steps together.

LEMMA InitData == Init => DataInv
  <1> SUFFICES ASSUME Init PROVE DataInv
    OBVIOUS
  <1>1. /\ volume = NoVolume /\ mixed = [a \in Actors |-> FALSE]
        /\ \A a \in Actors : call[a] = Idle /\ file[a] = NoFile
    BY DEF Init
  <1>2. Idle.op = "idle" /\ NoFile.fs = "none"
    BY DEF Idle, NoFile
  <1>3. \A a \in Actors : file[a].fs = "none" /\ RegistersOK(a) /\ ActorOK(disk[Home], volume, call[a], file[a])
    BY <1>1, <1>2 DEF RegistersOK, ActorOK
  <1> QED
    BY <1>1, <1>3 DEF DataInv

LEMMA SameData ==
  ASSUME DataInv, UNCHANGED <<disk, ata, volume, call, file, mixed>>
  PROVE  DataInv'
  <1>1. Home' = Home
    BY DEF Home
  <1>2. \A a \in Actors : RegistersOK(a) => RegistersOK(a)'
    BY <1>1 DEF RegistersOK
  <1> QED
    BY <1>1, <1>2 DEF DataInv

LEMMA FatMountData ==
  ASSUME DiskInv, DataInv, FatMount
  PROVE  DataInv'
  <1> DEFINE b == disk[driveSelect][0]
  <1>1. volume = NoVolume /\ heap.blocks = 1 /\ UNCHANGED <<disk, ata, call, file, mixed>>
    BY DEF FatMount
  <1>2. CASE disk[driveSelect] = <<>>
    <2>1. UNCHANGED volume
      BY <1>2 DEF FatMount
    <2> QED
      BY <1>1, <2>1, SameData
  <1>3. CASE disk[driveSelect] # <<>>
    <2>1. /\ b[1] = Label("fat32")
          /\ volume' = [data |-> b[2].reserved + b[2].fats * b[2].fatSize,
                        reserved |-> b[2].reserved, spc |-> b[2].spc, root |-> b[2].root]
      BY <1>3 DEF FatMount
    <2>2. disk \in Machines /\ driveSelect = First /\ driveSelect \in Drives /\ DOMAIN disk = Drives
      BY <1>1 DEF DiskInv, DriveInv, DiskTypes
    <2>3. driveSelect = Home
      <3>1. Label("RivBoot") # Label("fat32")
        BY DEF Label
      <3>2. CASE driveSelect = "master"
        BY <1>3, <2>1, <3>2 DEF Home
      <3>3. CASE driveSelect = "slave"
        BY <2>2, <3>1, <3>3 DEF Home, First
      <3> QED
        BY <2>2, <3>2, <3>3 DEF Drives
    <2>4. /\ b[2].spc \in Nat \ {0} /\ DOMAIN disk[driveSelect] \subseteq Nat
          /\ \A s \in DOMAIN disk[driveSelect] :
                disk[driveSelect][s] = <<disk[driveSelect][s][1], disk[driveSelect][s][2]>>
      BY <1>3, <2>1, <2>2, VolumeAssumption
    <2>5. volume'.spc = b[2].spc
      BY <2>1
    <2>6. VolumeOK(disk[Home], volume')
      BY <2>3, <2>4, <2>5 DEF VolumeOK
    <2>7. Home' = Home /\ disk'[Home'] = disk[Home]
      BY <1>1 DEF Home
    <2>8. volume' # NoVolume
      BY <2>4, <2>5 DEF NoVolume
    <2>9. \A a \in Actors : call'[a].op = "idle" /\ file'[a].fs = "none"
      BY <1>1 DEF DiskInv, Accounts, DataInv
    <2>10. \A a \in Actors : RegistersOK(a)' /\ ActorOK(disk'[Home'], volume', call'[a], file'[a])
      BY <2>9 DEF RegistersOK, ActorOK
    <2> QED
      BY <1>1, <2>6, <2>7, <2>8, <2>10 DEF DataInv
  <1> QED
    BY <1>2, <1>3

LEMMA TransferData ==
  ASSUME DiskInv, DataInv, NEW a \in Actors, Transfer(a)
  PROVE  DataInv'
  BY AddressData, CommandData, ConfusedData, NextSectorData, OpenScanData, OpenFollowData,
     ReadCopyData, ReadFollowData, BootReceiveData, BootMergeData, BootStoreData,
     BootStoreFailsData DEF Transfer

LEMMA NextData == DiskInv /\ DataInv /\ [Next]_vars => DataInv'
  <1> SUFFICES ASSUME DiskInv, DataInv, [Next]_vars PROVE DataInv'
    OBVIOUS
  <1>1. CASE StorageInit
    BY <1>1, SameData DEF StorageInit
  <1>2. CASE FatMount
    BY <1>2, FatMountData
  <1>3. ASSUME NEW a \in Actors, FatCalls(a) PROVE DataInv'
    BY <1>3, FatOpenData, FatReadData DEF FatCalls
  <1>4. ASSUME NEW a \in Actors, Transfer(a) PROVE DataInv'
    BY <1>4, TransferData
  <1>5. ASSUME NEW p \in Procs, BootCalls(p) PROVE DataInv'
    <2>1. p \in Actors
      BY ActorsFinite
    <2> QED
      BY <1>5, <2>1, BootOpenData, BootReadData, BootWriteData, CloseData DEF BootCalls
  <1>6. CASE UNCHANGED vars
    BY <1>6, SameData DEF vars
  <1> QED
    BY <1>1, <1>2, <1>3, <1>4, <1>5, <1>6 DEF Next

\* What FAT32's open and read have of the volume at each step of their loops is
\* what is on it (how much of the cluster is in the buffer, how far the chain is
\* followed, what is copied, which components are behind), whatever the loader and
\* the processes transfer in between, for calls that nobody got into a transfer of.
THEOREM DataInvariant == Spec => []DataInv
  BY InitData, NextData, DiskInvariant, PTL DEF Spec

\* open finds what the path leads to, and nothing else: for any volume, any paths
\* and any interleaving with the transfers of the other actors.
THEOREM PathsAreResolved == Spec => []PathsResolve
  <1>1. DataInv => PathsResolve
    <2> SUFFICES ASSUME DataInv, NEW a \in Actors, file[a].fs = "fat32", file[a].done, ~mixed[a],
                        Resolve(disk[Home], volume, file[a].path) # Undecided
                 PROVE  LET f == file[a]
                            e == Resolve(disk[Home], volume, f.path)
                        IN  IF e = NotFound THEN ~f.exists
                            ELSE f.exists /\ f.cluster = e.cluster /\ f.size = e.size /\ f.dir = (e.attr = "dir")
      BY DEF PathsResolve
    <2>1. ActorOK(disk[Home], volume, call[a], file[a])
      BY DEF DataInv
    <2>2. Resolved(disk[Home], volume, file[a])
      BY <2>1 DEF ActorOK
    <2> QED
      BY <2>2 DEF Resolved
  <1> QED
    BY <1>1, DataInvariant, PTL

\* A read returns the bytes of the file's chain of clusters, as many as were asked
\* for, as the file has and as the chain has: for any volume, any lengths and any
\* interleaving with the transfers of the other actors.
THEOREM ReadsAgree == Spec => []ReadAgrees
  <1>1. DataInv => ReadAgrees
    <2> SUFFICES ASSUME DataInv, NEW a \in Actors, file[a].fs = "fat32", file[a].done, ~mixed[a],
                        ~file[a].dir, file[a].len > 0, file[a].size \in Nat \ {0}
                 PROVE  file[a].got = Given(disk[Home], volume, file[a])
      BY DEF ReadAgrees, Given, Wanted
    <2>1. ActorOK(disk[Home], volume, call[a], file[a])
      BY DEF DataInv
    <2>2. Returned(disk[Home], volume, file[a])
      BY <2>1 DEF ActorOK
    <2> QED
      BY <2>2 DEF Returned, Given, Wanted
  <1> QED
    BY <1>1, DataInvariant, PTL

=============================================================================
