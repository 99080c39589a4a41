--------------------------- MODULE FileSystemProofs ---------------------------
(***************************************************************************)
(* Proofs about FileSystem: every open reaches the driver its path lies    *)
(* under, stdin stays terminated, descriptors lead to the file that was    *)
(* opened, and every heap block is accounted for, for any processes, paths *)
(* and number of calls.                                                    *)
(***************************************************************************)
EXTENDS FileSystem, SequenceTheorems, FiniteSetTheorems, WellFoundedInduction, TLAPS

Drivers == {"ext2", "fat32", "dev", "boot", "virtkrn"}
Mount == [k : MpKeys, drv : Drivers]
File == [fd : Nat \ {0}, drv : Drivers, path : PathType, exists : BOOLEAN, data : {Garbage, 1, 2}]
Buffer == [0 .. StdinSize - 1 -> {Nul, "a"}]

FsState == [mounts : Seq(Mount), latestFd : Nat \ {0}, arr : Seq(File), len : Nat,
            blocks : Int, opens : Nat, copies : Nat, stdin : Buffer, cursor : Nat]

\* What init leaves with a root on the disk.
MountTables == {Mounted({"ext2"}), Mounted({"fat32"}), Mounted({"ext2", "fat32"})}

\* Open of a path that is not shorter than a key went to the driver of the
\* deepest mount point it lies under.
ReachedDeepest(mounts, e) ==
    e.path.len >= KeyLen["/krn/virt/"] =>
        \E j \in {n \in 1 .. Len(mounts) : mounts[n].k \in e.path.under} :
            /\ mounts[j].drv = e.drv
            /\ \A m \in {n \in 1 .. Len(mounts) : mounts[n].k \in e.path.under} :
                   \/ KeyLen[mounts[m].k] < KeyLen[mounts[j].k]
                   \/ mounts[m].k = mounts[j].k /\ m <= j

\* What holds of the layer whatever raced: of the whole array, because a late
\* store of the loader may bring back what lies behind the entries.
LayerOK(f) ==
    /\ f \in FsState
    /\ f.len <= Len(f.arr)
    /\ f.cursor <= StdinSize - 1 /\ f.stdin[StdinSize - 1] = Nul
    /\ f.mounts = <<>> => f.arr = <<>>
    /\ \A i \in 1 .. Len(f.arr) : ReachedDeepest(f.mounts, f.arr[i])

Pcs == {"idle", "store", "open", "push", "assign", "read"}
Hold == [who : Procs \cup {"loader"}, fd : Nat \ {0}, path : PathType]

\* Where the loader is: the file it is about to enter, and the length it read,
\* which is behind no more than one element of the array.
LoaderOK ==
    /\ loader \in [pc : Pcs, fd : Nat, path : PathType, at : Nat, seen : Seq(File)]
    /\ loader.pc \in {"store", "open", "push"} => loader.fd # 0
    /\ loader.pc \in {"push", "assign"} =>
          /\ loader.seen # <<>> /\ Head(loader.seen).fd = loader.fd
          /\ Head(loader.seen).path = loader.path
          /\ ReachedDeepest(fs.mounts, Head(loader.seen)) /\ fs.mounts # <<>>
          /\ Len(loader.seen) = loader.at + 1
    /\ loader.at <= Len(fs.arr)

LayerInv ==
    /\ LayerOK(fs) /\ LoaderOK /\ holds \subseteq Hold
    /\ raced \in BOOLEAN /\ halted \in BOOLEAN
    /\ halted \/ fs.mounts \in MountTables \cup {<<>>}

\* Descriptors, as long as the loader's windows were not hit: they are given out
\* once, each entry has its own, and entries that exist and descriptors that are
\* held correspond.
FdsOK(f) ==
    /\ \A i, j \in 1 .. f.len : f.arr[i].fd = f.arr[j].fd => i = j
    /\ \A i \in 1 .. f.len : f.arr[i].fd < f.latestFd
HoldsOK(f, H) ==
    /\ \A h \in H : \E i \in 1 .. f.len :
           f.arr[i].fd = h.fd /\ f.arr[i].path = h.path /\ f.arr[i].exists
    /\ \A i \in 1 .. f.len : f.arr[i].exists => \E h \in H : h.fd = f.arr[i].fd
    /\ \A g, h \in H : g.fd = h.fd => g = h

\* The descriptor the loader took is nobody else's, and the one it returned is
\* held until it has read the file.
LoaderFd ==
    /\ loader.pc = "store" => loader.fd <= fs.latestFd
    /\ loader.pc \in {"open", "push"} => loader.fd < fs.latestFd /\ loader.fd \notin Keys(fs)
    /\ loader.pc # "assign"
    /\ loader.pc = "read" => \E h \in holds : h.who = "loader" /\ h.fd = loader.fd

FileInv == LayerInv /\ (~raced => FdsOK(fs) /\ HoldsOK(fs, holds) /\ LoaderFd)

-----------------------------------------------------------------------------
\* The mount points, and which of them open chooses.

LEMMA KeyTables ==
  /\ KeyLen["/"] = 1 /\ KeyLen["/dev/"] = 5 /\ KeyLen["/boot/"] = 6 /\ KeyLen["/krn/virt/"] = 10
  /\ Nestage["/"] = 1 /\ Nestage["/dev/"] = 2 /\ Nestage["/boot/"] = 2 /\ Nestage["/krn/virt/"] = 3
  BY DEF KeyLen, Nestage, MpKeys

\* The mount points init can leave, and the keys that come after another.
LEMMA MountTable ==
  ASSUME NEW roots, NEW m, m = Mounted(roots)
  PROVE  /\ m \in Seq(Mount) /\ m # <<>>
         /\ "ext2" \in roots /\ "fat32" \notin roots =>
               /\ Len(m) = 4 /\ m[1].k = "/" /\ m[2].k = "/dev/" /\ m[3].k = "/boot/"
               /\ m[4].k = "/krn/virt/" /\ m[2].drv = "dev"
         /\ "ext2" \notin roots /\ "fat32" \in roots =>
               /\ Len(m) = 4 /\ m[1].k = "/dev/" /\ m[2].k = "/" /\ m[3].k = "/boot/"
               /\ m[4].k = "/krn/virt/" /\ m[1].drv = "dev"
         /\ "ext2" \in roots /\ "fat32" \in roots =>
               /\ Len(m) = 5 /\ m[1].k = "/" /\ m[2].k = "/dev/" /\ m[3].k = "/"
               /\ m[4].k = "/boot/" /\ m[5].k = "/krn/virt/" /\ m[2].drv = "dev"
  <1> DEFINE root(d) == [k |-> "/", drv |-> d]
             dev == [k |-> "/dev/", drv |-> "dev"]
             boot == [k |-> "/boot/", drv |-> "boot"]
             virt == [k |-> "/krn/virt/", drv |-> "virtkrn"]
  <1>1. root("ext2") \in Mount /\ root("fat32") \in Mount /\ dev \in Mount /\ boot \in Mount /\ virt \in Mount
    BY DEF Mount, MpKeys, Drivers
  <1>2. /\ root("ext2").k = "/" /\ root("fat32").k = "/" /\ dev.k = "/dev/" /\ dev.drv = "dev"
        /\ boot.k = "/boot/" /\ virt.k = "/krn/virt/"
    OBVIOUS
  <1>3. m = (IF "ext2" \in roots THEN <<root("ext2")>> ELSE <<>>) \o <<dev>>
            \o (IF "fat32" \in roots THEN <<root("fat32")>> ELSE <<>>) \o <<boot, virt>>
    BY DEF Mounted
  <1> HIDE DEF root, dev, boot, virt
  <1>4. CASE "ext2" \in roots /\ "fat32" \notin roots
    BY <1>1, <1>2, <1>3, <1>4
  <1>5. CASE "ext2" \notin roots /\ "fat32" \in roots
    BY <1>1, <1>2, <1>3, <1>5
  <1>6. CASE "ext2" \in roots /\ "fat32" \in roots
    BY <1>1, <1>2, <1>3, <1>6
  <1>7. CASE "ext2" \notin roots /\ "fat32" \notin roots
    BY <1>1, <1>2, <1>3, <1>7
  <1> QED
    BY <1>4, <1>5, <1>6, <1>7

\* The paths the keyboard handler opens.
LEMMA KeyPaths == {DevStdin, DevStdout} \subseteq PathType /\ DevStdin.under # {} /\ DevStdout.under # {}
  <1> DEFINE U == {{}, {"/"}} \cup {{"/", k} : k \in MpKeys}
             d == {"/", "/dev/"}
  <1>1. d \in U /\ d # {}
    BY DEF MpKeys
  <1> HIDE DEF d, U
  <1>2. DevStdin = [under |-> d, len |-> 10, rest |-> "stdin"]
    BY DEF DevStdin, d
  <1>3. DevStdout = [under |-> d, len |-> 11, rest |-> "stdout"]
    BY DEF DevStdout, d
  <1>4. PathType = [under : U, len : Nat, rest : Names]
    BY DEF PathType, U
  <1>5. "stdin" \in Names /\ "stdout" \in Names
    BY DEF Names
  <1>6. DevStdin \in PathType /\ DevStdout \in PathType
    <2>1. [under |-> d, len |-> 10, rest |-> "stdin"] \in [under : U, len : Nat, rest : Names]
      BY <1>1, <1>5
    <2>2. [under |-> d, len |-> 11, rest |-> "stdout"] \in [under : U, len : Nat, rest : Names]
      BY <1>1, <1>5
    <2> QED
      BY <1>2, <1>3, <1>4, <2>1, <2>2
  <1>7. DevStdin.under = d /\ DevStdout.under = d
    BY <1>2, <1>3
  <1> QED
    BY <1>1, <1>6, <1>7

LEMMA Routes ==
  ASSUME NEW f, f.mounts \in MountTables, NEW p \in PathType, p.under # {}
  PROVE  /\ f.mounts \in Seq(Mount) /\ f.mounts # <<>>
         /\ Route(f, p) \in 1 .. Len(f.mounts)
         /\ Matches(f.mounts[Route(f, p)].k, p)
         /\ \A j \in 1 .. Len(f.mounts) :
               Matches(f.mounts[j].k, p) =>
                   \/ Nestage[f.mounts[j].k] < Nestage[f.mounts[Route(f, p)].k]
                   \/ Nestage[f.mounts[j].k] = Nestage[f.mounts[Route(f, p)].k] /\ j <= Route(f, p)
         /\ p \in {DevStdin, DevStdout} => f.mounts[Route(f, p)].drv = "dev"
  <1> DEFINE m == f.mounts
             Chosen(i) ==
                /\ Matches(m[i].k, p)
                /\ \A j \in 1 .. Len(m) : Matches(m[j].k, p) =>
                      \/ Nestage[m[j].k] < Nestage[m[i].k]
                      \/ Nestage[m[j].k] = Nestage[m[i].k] /\ j <= i
  <1>1. Matches("/", p)
    BY DEF PathType, Matches
  <1>2. p \in {DevStdin, DevStdout} =>
          /\ Matches("/dev/", p) /\ ~Matches("/boot/", p) /\ ~Matches("/krn/virt/", p)
    BY KeyTables DEF DevStdin, DevStdout, Matches
  <1>3. /\ m \in Seq(Mount) /\ m # <<>>
        /\ \/ /\ Len(m) = 4 /\ m[1].k = "/" /\ m[2].k = "/dev/" /\ m[3].k = "/boot/"
              /\ m[4].k = "/krn/virt/" /\ m[2].drv = "dev"
           \/ /\ Len(m) = 4 /\ m[1].k = "/dev/" /\ m[2].k = "/" /\ m[3].k = "/boot/"
              /\ m[4].k = "/krn/virt/" /\ m[1].drv = "dev"
           \/ /\ Len(m) = 5 /\ m[1].k = "/" /\ m[2].k = "/dev/" /\ m[3].k = "/"
              /\ m[4].k = "/boot/" /\ m[5].k = "/krn/virt/" /\ m[2].drv = "dev"
    <2>1. CASE m = Mounted({"ext2"})
      <3>1. "ext2" \in {"ext2"} /\ "fat32" \notin {"ext2"}
        OBVIOUS
      <3> HIDE DEF m
      <3> QED
        BY <2>1, <3>1, MountTable
    <2>2. CASE m = Mounted({"fat32"})
      <3>1. "ext2" \notin {"fat32"} /\ "fat32" \in {"fat32"}
        OBVIOUS
      <3> HIDE DEF m
      <3> QED
        BY <2>2, <3>1, MountTable
    <2>3. CASE m = Mounted({"ext2", "fat32"})
      <3>1. "ext2" \in {"ext2", "fat32"} /\ "fat32" \in {"ext2", "fat32"}
        OBVIOUS
      <3> HIDE DEF m
      <3> QED
        BY <2>3, <3>1, MountTable
    <2> QED
      BY <2>1, <2>2, <2>3 DEF MountTables
  <1> HIDE DEF m
  <1>4. \E i \in 1 .. Len(m) : Chosen(i)
    <2>1. CASE /\ Len(m) = 4 /\ m[1].k = "/" /\ m[2].k = "/dev/" /\ m[3].k = "/boot/"
               /\ m[4].k = "/krn/virt/"
      BY <1>1, <2>1, KeyTables
    <2>2. CASE /\ Len(m) = 4 /\ m[1].k = "/dev/" /\ m[2].k = "/" /\ m[3].k = "/boot/"
               /\ m[4].k = "/krn/virt/"
      BY <1>1, <2>2, KeyTables
    <2>3. CASE /\ Len(m) = 5 /\ m[1].k = "/" /\ m[2].k = "/dev/" /\ m[3].k = "/"
               /\ m[4].k = "/boot/" /\ m[5].k = "/krn/virt/"
      BY <1>1, <2>3, KeyTables
    <2> QED
      BY <1>3, <2>1, <2>2, <2>3
  <1>5. Route(f, p) = CHOOSE i \in 1 .. Len(m) : Chosen(i)
    BY DEF Route, m
  <1>6. Route(f, p) \in 1 .. Len(m) /\ Chosen(Route(f, p))
    BY <1>4, <1>5
  <1>7. ASSUME p \in {DevStdin, DevStdout} PROVE m[Route(f, p)].drv = "dev"
    <2> DEFINE r == Route(f, p)
    <2>1. r \in 1 .. Len(m) /\ Chosen(r)
      BY <1>6
    <2> HIDE DEF r
    <2>2. Len(m) \in {4, 5} /\ \E j \in 1 .. Len(m) : m[j].k = "/dev/"
      BY <1>3
    <2>3. \A j \in 1 .. Len(m) :
             m[j].k \in {"/", "/dev/", "/boot/", "/krn/virt/"} /\ (m[j].k = "/dev/" => m[j].drv = "dev")
      BY <1>3
    <2>4. m[r].k \in {"/", "/dev/"}
      BY <1>2, <1>7, <2>1, <2>3
    <2>5. m[r].k # "/"
      BY <1>2, <1>7, <2>1, <2>2, KeyTables
    <2> QED
      BY <2>1, <2>3, <2>4, <2>5 DEF r
  <1> QED
    BY <1>3, <1>6, <1>7 DEF m

\* A path that is not shorter than a key matches the keys it begins with only.
LEMMA RouteReaches ==
  ASSUME NEW f, f.mounts \in MountTables, NEW p \in PathType, p.under # {},
         NEW e, e.path = p, e.drv = f.mounts[Route(f, p)].drv
  PROVE  ReachedDeepest(f.mounts, e)
  <1> SUFFICES ASSUME p.len >= 10 PROVE ReachedDeepest(f.mounts, e)
    BY KeyTables DEF ReachedDeepest
  <1> DEFINE m == f.mounts
             i == Route(f, p)
  <1>1. /\ m \in Seq(Mount) /\ i \in 1 .. Len(m) /\ Matches(m[i].k, p)
        /\ \A j \in 1 .. Len(m) : Matches(m[j].k, p) =>
              \/ Nestage[m[j].k] < Nestage[m[i].k]
              \/ Nestage[m[j].k] = Nestage[m[i].k] /\ j <= i
    BY Routes
  <1>2. \A j \in 1 .. Len(m) : m[j].k \in MpKeys
    <2>1. ASSUME NEW j \in 1 .. Len(m) PROVE m[j] \in Mount
      BY <1>1, ElementOfSeq
    <2> QED
      BY <2>1 DEF Mount
  <1> HIDE DEF m, i
  <1>3. \A k \in MpKeys : Matches(k, p) <=> k \in p.under
    BY KeyTables DEF Matches, MpKeys, PathType
  <1>4. \A k, l \in p.under \cap MpKeys : Nestage[k] = Nestage[l] => k = l
    BY KeyTables DEF PathType, MpKeys
  <1>5. \A k, l \in MpKeys : Nestage[k] < Nestage[l] => KeyLen[k] < KeyLen[l]
    BY KeyTables DEF MpKeys
  <1>6. m[i].k \in p.under
    BY <1>1, <1>2, <1>3
  <1>7. ASSUME NEW n \in 1 .. Len(m), m[n].k \in p.under
        PROVE  KeyLen[m[n].k] < KeyLen[m[i].k] \/ (m[n].k = m[i].k /\ n <= i)
    BY <1>1, <1>2, <1>3, <1>4, <1>5, <1>6, <1>7
  <1> QED
    BY <1>1, <1>6, <1>7 DEF ReachedDeepest, m, i

-----------------------------------------------------------------------------
\* The operations of the layer.

\* The elements of fdMapping's array.
LEMMA ArrayElements ==
  ASSUME NEW f, LayerOK(f)
  PROVE  /\ f.arr \in Seq(File) /\ Len(f.arr) \in Nat /\ f.len \in 0 .. Len(f.arr)
         /\ \A i \in 1 .. Len(f.arr) : f.arr[i] \in File
  <1>1. f.arr \in Seq(File) /\ f.len \in Nat /\ f.len <= Len(f.arr)
    BY DEF LayerOK, FsState
  <1>2. Len(f.arr) \in Nat /\ f.arr \in [1 .. Len(f.arr) -> File]
    BY <1>1, LenProperties
  <1> QED
    BY <1>1, <1>2

LEMMA PutElements ==
  ASSUME NEW arr \in Seq(File), NEW n \in 1 .. Len(arr) + 1, NEW e \in File
  PROVE  /\ Put(arr, n, e) \in Seq(File) /\ Len(Put(arr, n, e)) \in Nat
         /\ n \in 1 .. Len(Put(arr, n, e)) /\ Len(Put(arr, n, e)) >= Len(arr)
         /\ Put(arr, n, e)[n] = e
         /\ \A i \in 1 .. Len(Put(arr, n, e)) : i # n =>
               i \in 1 .. Len(arr) /\ Put(arr, n, e)[i] = arr[i]
  <1>1. Len(arr) \in Nat
    BY LenProperties
  <1>2. CASE n > Len(arr)
    <2>1. n = Len(arr) + 1 /\ Put(arr, n, e) = Append(arr, e)
      BY <1>1, <1>2 DEF Put
    <2>2. /\ Append(arr, e) \in Seq(File) /\ Len(Append(arr, e)) = Len(arr) + 1
          /\ \A i \in 1 .. Len(arr) : Append(arr, e)[i] = arr[i]
          /\ Append(arr, e)[Len(arr) + 1] = e
      BY AppendProperties
    <2> QED
      BY <1>1, <2>1, <2>2
  <1>3. CASE ~(n > Len(arr))
    <2>1. n \in 1 .. Len(arr) /\ Put(arr, n, e) = [arr EXCEPT ![n] = e]
      BY <1>1, <1>3 DEF Put
    <2>2. /\ [arr EXCEPT ![n] = e] \in Seq(File) /\ Len([arr EXCEPT ![n] = e]) = Len(arr)
          /\ \A j \in 1 .. Len(arr) : [arr EXCEPT ![n] = e][j] = IF j = n THEN e ELSE arr[j]
      BY <2>1, ExceptSeq
    <2> QED
      BY <1>1, <2>1, <2>2
  <1> QED
    BY <1>2, <1>3

\* The entries of g are those of f and e behind them.
Added(f, g, e) ==
    /\ g.len = f.len + 1 /\ g.arr[f.len + 1] = e
    /\ \A i \in 1 .. f.len : g.arr[i] = f.arr[i]

\* What every operation but init leaves: the mount points, and an array that is
\* not shorter.
Beside(f, g) == g.mounts = f.mounts /\ Len(g.arr) >= Len(f.arr)

LEMMA EnterOK ==
  ASSUME NEW f, LayerOK(f), NEW e \in File, ReachedDeepest(f.mounts, e), f.mounts # <<>>
  PROVE  /\ LayerOK(Enter(f, e)) /\ Beside(f, Enter(f, e))
         /\ Enter(f, e).latestFd = f.latestFd /\ Enter(f, e).opens = f.opens
         /\ Enter(f, e).copies = f.copies /\ Enter(f, e).blocks = f.blocks
         /\ e.fd \in Keys(Enter(f, e))
         /\ e.fd \notin Keys(f) => Added(f, Enter(f, e), e)
  <1> DEFINE arr == Put(f.arr, f.len + 1, e)
  <1>1. /\ f.arr \in Seq(File) /\ Len(f.arr) \in Nat /\ f.len \in 0 .. Len(f.arr)
        /\ f \in FsState
    BY ArrayElements DEF LayerOK
  <1>2. f.len + 1 \in 1 .. Len(f.arr) + 1
    BY <1>1
  <1>3. /\ arr \in Seq(File) /\ Len(arr) \in Nat
        /\ f.len + 1 \in 1 .. Len(arr) /\ Len(arr) >= Len(f.arr) /\ arr[f.len + 1] = e
        /\ \A i \in 1 .. Len(arr) : i # f.len + 1 => i \in 1 .. Len(f.arr) /\ arr[i] = f.arr[i]
    BY <1>1, <1>2, PutElements
  <1> HIDE DEF arr
  <1>4. CASE e.fd \in Keys(f)
    BY <1>1, <1>4 DEF Enter, Beside
  <1>5. CASE e.fd \notin Keys(f)
    <2> DEFINE g == Enter(f, e)
    <2>1. g = [f EXCEPT !.arr = arr, !.len = f.len + 1]
      BY <1>5 DEF Enter, arr
    <2>2. /\ g \in FsState /\ g.arr = arr /\ g.len = f.len + 1 /\ g.latestFd = f.latestFd
          /\ g.mounts = f.mounts /\ g.stdin = f.stdin /\ g.cursor = f.cursor
          /\ g.opens = f.opens /\ g.copies = f.copies /\ g.blocks = f.blocks
      <3>1. f.len + 1 \in Nat
        BY <1>1
      <3> HIDE DEF g
      <3>2. g \in FsState
        BY <1>1, <1>3, <2>1, <3>1 DEF FsState
      <3> QED
        BY <1>1, <2>1, <3>2 DEF FsState
    <2> HIDE DEF g
    <2>3. \A i \in 1 .. Len(arr) : ReachedDeepest(f.mounts, arr[i])
      BY <1>3 DEF LayerOK
    <2>4. LayerOK(g)
      BY <1>1, <1>3, <2>2, <2>3 DEF LayerOK
    <2>5. Added(f, g, e)
      BY <1>1, <1>3, <2>2 DEF Added
    <2>6. e.fd \in Keys(g)
      BY <1>1, <2>2, <2>5 DEF Added, Keys
    <2> QED
      BY <1>1, <1>3, <2>2, <2>4, <2>5, <2>6 DEF Beside, g
  <1> QED
    BY <1>4, <1>5

\* What the drivers answer.
LEMMA DriverAnswers ==
  ASSUME NEW drv \in Drivers, NEW p \in PathType, NEW r \in DriverOpen(drv, p)
  PROVE  /\ r.exists \in BOOLEAN /\ r.data \in {Garbage, 1, 2}
         /\ drv = "dev" /\ p \in {DevStdin, DevStdout} => r.exists
  <1>1. ASSUME NEW k, NEW names, NEW b \in Knows(k, p, names) PROVE b \in BOOLEAN
    <2>1. CASE p.len < KeyLen[k]
      BY <1>1, <2>1 DEF Knows
    <2>2. CASE ~(p.len < KeyLen[k])
      BY <1>1, <2>2 DEF Knows
    <2> QED
      BY <2>1, <2>2
  <1>2. CASE drv = "dev"
    <2>1. PICK b \in Knows("/dev/", p, DevFiles) : r = [exists |-> b, data |-> 2]
      BY <1>2 DEF DriverOpen, DevOpen
    <2>2. b \in BOOLEAN
      BY <1>1
    <2>3. ASSUME p \in {DevStdin, DevStdout} PROVE b
      <3>1. ~(p.len < KeyLen["/dev/"]) /\ p.rest \in DevFiles
        BY <2>3, KeyTables DEF DevStdin, DevStdout, DevFiles
      <3>2. b \in {p.rest \in DevFiles}
        BY <2>1, <3>1 DEF Knows
      <3> QED
        BY <3>1, <3>2
    <2> QED
      BY <2>1, <2>2, <2>3
  <1>3. CASE drv = "virtkrn"
    <2>1. PICK b \in Knows("/krn/virt/", p, {"func.rap"}) :
             r = [exists |-> b, data |-> IF b THEN 2 ELSE Garbage]
      BY <1>3 DEF DriverOpen, VirtKrnOpen
    <2>2. b \in BOOLEAN
      BY <1>1
    <2> QED
      BY <1>3, <2>1, <2>2 DEF Garbage
  <1>4. CASE drv = "boot"
    <2>1. PICK b \in Knows("/boot/", p, {"sector"}) :
             r = [exists |-> b, data |-> IF b THEN 1 ELSE Garbage]
      BY <1>4 DEF DriverOpen, BootOpen
    <2>2. b \in BOOLEAN
      BY <1>1
    <2> QED
      BY <1>4, <2>1, <2>2 DEF Garbage
  <1>5. CASE drv = "fat32"
    <2> DEFINE b == p.rest = "file"
    <2>1. b \in BOOLEAN /\ r = [exists |-> b, data |-> 1]
      BY <1>5 DEF DriverOpen, Fat32Open
    <2> HIDE DEF b
    <2> QED
      BY <1>5, <2>1
  <1>6. CASE drv = "ext2"
    <2>1. PICK b \in BOOLEAN : r = [exists |-> b, data |-> Garbage]
      BY <1>6 DEF DriverOpen, Ext2Open
    <2> QED
      BY <1>6, <2>1 DEF Garbage
  <1> QED
    BY <1>2, <1>3, <1>4, <1>5, <1>6 DEF Drivers

\* The File a driver's open yields.
LEMMA OpenedOK ==
  ASSUME NEW f, f.mounts \in MountTables, NEW p \in PathType, ~NoRoute(f, p),
         NEW fd \in Nat \ {0}, NEW e \in Opened(f, fd, p)
  PROVE  /\ e \in File /\ e.fd = fd /\ e.path = p /\ ReachedDeepest(f.mounts, e)
         /\ p \in {DevStdin, DevStdout} => e.exists
  <1> DEFINE mp == f.mounts[Route(f, p)]
  <1>1. PICK r \in DriverOpen(mp.drv, p) :
           e = [fd |-> fd, drv |-> mp.drv, path |-> p, exists |-> r.exists, data |-> r.data]
    BY DEF Opened
  <1>2. p.under # {}
    BY DEF NoRoute
  <1>3. mp \in Mount /\ (p \in {DevStdin, DevStdout} => mp.drv = "dev")
    BY <1>2, Routes, ElementOfSeq
  <1>4. ReachedDeepest(f.mounts, e)
    BY <1>1, <1>2, RouteReaches
  <1> HIDE DEF mp
  <1>5. r.exists \in BOOLEAN /\ r.data \in {Garbage, 1, 2} /\ (p \in {DevStdin, DevStdout} => r.exists)
    BY <1>3, DriverAnswers DEF Mount
  <1>6. e.fd = fd /\ e.path = p /\ e.exists = r.exists
    BY <1>1
  <1>7. e \in File
    BY <1>1, <1>3, <1>5 DEF File, Mount
  <1> QED
    BY <1>4, <1>5, <1>6, <1>7

LEMMA OpenOK ==
  ASSUME NEW f, LayerOK(f), f.mounts \in MountTables \cup {<<>>}, NEW p \in PathType,
         NEW r \in Open(f, p)
  PROVE  /\ LayerOK(r.f) /\ Beside(f, r.f)
         /\ r.f.latestFd = f.latestFd + 1 /\ r.f.opens = f.opens + 1 /\ r.f.copies = f.copies
         /\ r.fd # NoFd => r.fd \in Keys(r.f)
         /\ \/ /\ NoRoute(f, p) /\ r.fd = NoFd /\ r.f.arr = f.arr /\ r.f.len = f.len
               /\ r.f.blocks = f.blocks + 1
            \/ /\ ~NoRoute(f, p)
               /\ \E e \in File : /\ e.fd = f.latestFd /\ e.path = p
                                  /\ r.f.blocks = f.blocks + 1 + Blocks(e.data)
                                  /\ r.fd = IF e.exists THEN e.fd ELSE NoFd
                                  /\ e.fd \notin Keys(f) => Added(f, r.f, e)
                                  /\ p \in {DevStdin, DevStdout} => e.exists
  <1> DEFINE g == [f EXCEPT !.latestFd = f.latestFd + 1, !.blocks = f.blocks + 1,
                            !.opens = f.opens + 1]
  <1>1. /\ f \in FsState /\ f.latestFd \in Nat \ {0} /\ f.blocks \in Int /\ f.opens \in Nat
        /\ f.latestFd + 1 \in Nat \ {0} /\ f.blocks + 1 \in Int /\ f.opens + 1 \in Nat
    BY DEF LayerOK, FsState
  <1>2. /\ g \in FsState /\ g.latestFd = f.latestFd + 1 /\ g.opens = f.opens + 1
        /\ g.blocks = f.blocks + 1 /\ g.copies = f.copies /\ g.mounts = f.mounts
        /\ g.arr = f.arr /\ g.len = f.len /\ g.stdin = f.stdin /\ g.cursor = f.cursor
    BY <1>1 DEF FsState
  <1>3. LayerOK(g)
    BY <1>2 DEF LayerOK
  <1>4. Len(f.arr) \in Nat
    BY ArrayElements
  <1>5. CASE NoRoute(f, p)
    <2>1. r = [f |-> g, fd |-> NoFd]
      BY <1>5 DEF Open
    <2>2. r.f = g /\ r.fd = NoFd
      BY <2>1
    <2> HIDE DEF g
    <2> QED
      BY <1>2, <1>3, <1>4, <1>5, <2>2 DEF Beside
  <1>6. CASE ~NoRoute(f, p)
    <2>1. f.mounts \in MountTables /\ f.mounts # <<>>
      BY <1>6 DEF NoRoute
    <2>2. PICK e \in Opened(f, f.latestFd, p) :
             r = [f |-> Enter([g EXCEPT !.blocks = @ + Blocks(e.data)], e),
                  fd |-> IF e.exists THEN e.fd ELSE NoFd]
      BY <1>6 DEF Open
    <2>3. /\ e \in File /\ e.fd = f.latestFd /\ e.path = p /\ ReachedDeepest(f.mounts, e)
          /\ p \in {DevStdin, DevStdout} => e.exists
      BY <1>1, <1>6, <2>1, OpenedOK
    <2> DEFINE b == g.blocks + Blocks(e.data)
               h == [g EXCEPT !.blocks = b]
    <2>4. b \in Int
      <3>1. e.data \in Int
        BY <2>3 DEF File, Garbage
      <3> QED
        BY <1>1, <1>2, <3>1 DEF Blocks
    <2>5. r.f = Enter(h, e) /\ r.fd = IF e.exists THEN e.fd ELSE NoFd
      BY <2>2
    <2> HIDE DEF b, g
    <2>6. /\ h \in FsState /\ h.latestFd = f.latestFd + 1 /\ h.opens = f.opens + 1
          /\ h.copies = f.copies /\ h.mounts = f.mounts /\ h.arr = f.arr /\ h.len = f.len
          /\ h.stdin = f.stdin /\ h.cursor = f.cursor /\ h.blocks = b
      BY <1>2, <2>4 DEF FsState
    <2> HIDE DEF h
    <2>7. LayerOK(h)
      BY <1>3, <1>2, <2>6 DEF LayerOK
    <2>8. /\ LayerOK(r.f) /\ Beside(h, r.f) /\ r.f.latestFd = h.latestFd /\ r.f.opens = h.opens
          /\ r.f.copies = h.copies /\ r.f.blocks = h.blocks /\ e.fd \in Keys(r.f) /\ (e.fd \notin Keys(h) => Added(h, r.f, e))
      BY <2>1, <2>3, <2>5, <2>6, <2>7, EnterOK
    <2>9. Keys(h) = Keys(f)
      BY <2>6 DEF Keys
    <2>10. Beside(f, r.f) /\ (e.fd \notin Keys(f) => Added(f, r.f, e))
      BY <2>6, <2>8, <2>9 DEF Beside, Added
    <2>11. r.f.blocks = f.blocks + 1 + Blocks(e.data)
      BY <1>2, <2>6, <2>8 DEF b
    <2> QED
      BY <1>6, <2>3, <2>5, <2>6, <2>8, <2>10, <2>11
  <1> QED
    BY <1>5, <1>6

\* The search for a key that is there finds its first entry.
LEMMA IndexOfOK ==
  ASSUME NEW f, LayerOK(f), NEW fd \in Keys(f)
  PROVE  IndexOf(f, fd) \in 1 .. f.len /\ f.arr[IndexOf(f, fd)].fd = fd
  <1> DEFINE S == {i \in 1 .. f.len : f.arr[i].fd = fd}
  <1>1. f.len \in Nat
    BY ArrayElements
  <1>2. S \subseteq Nat /\ S # {}
    BY <1>1 DEF Keys
  <1> HIDE DEF S
  <1>3. PICK i \in S : \A j \in S : ~(<<j, i>> \in OpToRel(<, Nat))
    BY <1>2, NatLessThanWellFounded, WFMin
  <1>4. \A j \in S : ~(j < i)
    BY <1>2, <1>3 DEF OpToRel
  <1> USE DEF S
  <1>5. i \in 1 .. f.len /\ f.arr[i].fd = fd /\ \A j \in 1 .. i - 1 : f.arr[j].fd # fd
    <2>1. i \in 1 .. f.len /\ f.arr[i].fd = fd
      OBVIOUS
    <2>2. ASSUME NEW j \in 1 .. i - 1 PROVE f.arr[j].fd # fd
      BY <1>1, <1>4, <2>1
    <2> QED
      BY <2>1, <2>2
  <1> QED
    BY <1>5 DEF IndexOf

\* The entries of g are those of f without the i-th.
Removed(f, g, i) ==
    /\ g.len = f.len - 1
    /\ \A j \in 1 .. g.len : g.arr[j] = IF j < i THEN f.arr[j] ELSE f.arr[j + 1]

LEMMA CloseOK ==
  ASSUME NEW f, LayerOK(f), NEW fd \in Keys(f)
  PROVE  /\ LayerOK(Close(f, fd)) /\ Beside(f, Close(f, fd))
         /\ Close(f, fd).latestFd = f.latestFd /\ Close(f, fd).opens = f.opens
         /\ Close(f, fd).copies = f.copies
         /\ Close(f, fd).blocks = f.blocks - Blocks(f.arr[IndexOf(f, fd)].data)
         /\ Removed(f, Close(f, fd), IndexOf(f, fd))
  <1> DEFINE i == IndexOf(f, fd)
             b == f.blocks - Blocks(f.arr[i].data)
             arr == [j \in DOMAIN f.arr |->
                        IF j \in i .. f.len - 1 THEN f.arr[j + 1] ELSE f.arr[j]]
             n == f.len - 1
             g == Close(f, fd)
  <1>1. g = [f EXCEPT !.blocks = b, !.arr = arr, !.len = n]
    BY DEF Close
  <1>2. i \in 1 .. f.len
    BY IndexOfOK
  <1>3. /\ f \in FsState /\ f.arr \in Seq(File) /\ Len(f.arr) \in Nat /\ f.len \in 0 .. Len(f.arr)
        /\ \A j \in 1 .. Len(f.arr) : f.arr[j] \in File
        /\ DOMAIN f.arr = 1 .. Len(f.arr)
    BY ArrayElements, LenProperties DEF LayerOK
  <1> HIDE DEF i, g
  <1>4. b \in Int /\ n \in Nat /\ n < Len(f.arr)
    <2>1. f.blocks \in Int /\ f.arr[i] \in File
      BY <1>2, <1>3 DEF FsState
    <2>2. Blocks(f.arr[i].data) \in Int
      BY <2>1 DEF Blocks, File, Garbage
    <2>3. b \in Int
      BY <2>1, <2>2
    <2> QED
      BY <1>2, <1>3, <2>3
  <1> HIDE DEF b
  <1>5. \A j \in 1 .. Len(f.arr) : j \in i .. n => j + 1 \in 1 .. Len(f.arr)
    BY <1>2, <1>3
  <1>6. arr \in [1 .. Len(f.arr) -> File]
    BY <1>3, <1>5
  <1>7. arr \in Seq(File) /\ Len(arr) = Len(f.arr)
    <2>1. arr \in Seq(File)
      BY <1>3, <1>6, SeqDef
    <2>2. Len(arr) \in Nat /\ DOMAIN arr = 1 .. Len(arr)
      BY <2>1, LenProperties
    <2>3. 1 .. Len(arr) = 1 .. Len(f.arr)
      BY <1>6, <2>2
    <2> QED
      BY <1>3, <2>1, <2>2, <2>3
  <1>8. \A j \in 1 .. Len(f.arr) : arr[j] = IF j \in i .. n THEN f.arr[j + 1] ELSE f.arr[j]
    BY <1>3
  <1> HIDE DEF arr, n
  <1>9. /\ g \in FsState /\ g.arr = arr /\ g.len = n /\ g.latestFd = f.latestFd
        /\ g.mounts = f.mounts /\ g.stdin = f.stdin /\ g.cursor = f.cursor
        /\ g.opens = f.opens /\ g.copies = f.copies /\ g.blocks = b
    <2>1. g \in FsState
      BY <1>1, <1>3, <1>4, <1>7 DEF FsState
    <2> QED
      BY <1>1, <1>3, <2>1 DEF FsState
  <1>10. \A j \in 1 .. Len(f.arr) : ReachedDeepest(f.mounts, arr[j])
    BY <1>5, <1>8 DEF LayerOK
  <1>11. f.mounts = <<>> => arr = <<>>
    <2>1. f.mounts = <<>> => Len(f.arr) = 0
      BY DEF LayerOK
    <2> QED
      BY <1>4, <2>1
  <1>12. LayerOK(g)
    BY <1>3, <1>4, <1>7, <1>9, <1>10, <1>11 DEF LayerOK
  <1>13. Removed(f, g, i)
    <2>1. ASSUME NEW j \in 1 .. n PROVE arr[j] = IF j < i THEN f.arr[j] ELSE f.arr[j + 1]
      BY <1>2, <1>3, <1>4, <1>8
    <2>2. n = f.len - 1
      BY DEF n
    <2> QED
      BY <1>9, <2>1, <2>2 DEF Removed
  <1> QED
    BY <1>3, <1>7, <1>9, <1>12, <1>13 DEF Beside, g, i, b

\* A write changes stdin or the counters, never the entries.
LEMMA WriteOK ==
  ASSUME NEW f, LayerOK(f), NEW fd
  PROVE  /\ LayerOK(Write(f, fd, "a"))
         /\ Write(f, fd, "a").mounts = f.mounts /\ Write(f, fd, "a").latestFd = f.latestFd
         /\ Write(f, fd, "a").arr = f.arr /\ Write(f, fd, "a").len = f.len
         /\ Write(f, fd, "a").opens = f.opens
         /\ Write(f, fd, "a").blocks - Write(f, fd, "a").copies = f.blocks - f.copies
         /\ f.mounts = <<>> => Write(f, fd, "a") = f
  <1>1. f \in FsState /\ f.stdin \in Buffer /\ f.cursor \in Nat /\ f.cursor <= StdinSize - 1
        /\ f.stdin[StdinSize - 1] = Nul /\ StdinSize \in Nat /\ StdinSize >= 2
    BY FsAssumption DEF LayerOK, FsState
  <1>2. ASSUME NEW g \in FsState, g.mounts = f.mounts, g.latestFd = f.latestFd, g.arr = f.arr,
               g.len = f.len, g.opens = f.opens, g.cursor <= StdinSize - 1,
               g.stdin[StdinSize - 1] = Nul, g.blocks - g.copies = f.blocks - f.copies,
               g = Write(f, fd, "a")
        PROVE  /\ LayerOK(Write(f, fd, "a"))
               /\ Write(f, fd, "a").mounts = f.mounts /\ Write(f, fd, "a").latestFd = f.latestFd
               /\ Write(f, fd, "a").arr = f.arr /\ Write(f, fd, "a").len = f.len
               /\ Write(f, fd, "a").opens = f.opens
               /\ Write(f, fd, "a").blocks - Write(f, fd, "a").copies = f.blocks - f.copies
               /\ f.mounts = <<>> => Write(f, fd, "a") = f
    <2>1. LayerOK(g)
      BY <1>2 DEF LayerOK
    <2>2. f.mounts = <<>> => Write(f, fd, "a") = f
      <3>1. f.mounts = <<>> => f.len = 0
        BY DEF LayerOK, FsState
      <3> QED
        BY <3>1 DEF Write, Keys
    <2> QED
      BY <1>2, <2>1, <2>2
  <1>3. CASE Write(f, fd, "a") = f
    BY <1>3
  <1>4. CASE Write(f, fd, "a") = StdoutWrite(f)
    <2> DEFINE b == f.blocks + 1
               n == f.copies + 1
               g == StdoutWrite(f)
    <2>1. b \in Int /\ n \in Nat
      BY <1>1 DEF FsState
    <2>2. g = [f EXCEPT !.blocks = b, !.copies = n]
      BY DEF StdoutWrite
    <2> HIDE DEF b, n, g
    <2>3. /\ g \in FsState /\ g.mounts = f.mounts /\ g.latestFd = f.latestFd /\ g.arr = f.arr
          /\ g.len = f.len /\ g.opens = f.opens /\ g.cursor = f.cursor /\ g.stdin = f.stdin
          /\ g.blocks = b /\ g.copies = n
      BY <1>1, <2>1, <2>2 DEF FsState
    <2>4. g.blocks - g.copies = f.blocks - f.copies
      BY <1>1, <2>3 DEF FsState, b, n
    <2> QED
      BY <1>1, <1>2, <1>4, <2>3, <2>4 DEF g
  <1>5. CASE Write(f, fd, "a") = StdinWrite(f, "a")
    <2> DEFINE full == f.cursor + 1 >= StdinSize
               buf == IF full THEN [i \in 0 .. StdinSize - 1 |-> Nul] ELSE f.stdin
               at == IF full THEN 0 ELSE f.cursor
               new == [buf EXCEPT ![at] = "a"]
               c == at + 1
               g == StdinWrite(f, "a")
    <2>1. at \in 0 .. StdinSize - 2
      BY <1>1
    <2>2. buf \in Buffer /\ buf[StdinSize - 1] = Nul
      BY <1>1 DEF Buffer
    <2> HIDE DEF buf, at
    <2>3. new \in Buffer /\ new[StdinSize - 1] = Nul
      BY <1>1, <2>1, <2>2 DEF Buffer
    <2>4. c \in Nat /\ c <= StdinSize - 1
      BY <1>1, <2>1
    <2>5. g = [f EXCEPT !.stdin = new, !.cursor = c]
      BY DEF StdinWrite, buf, at
    <2> HIDE DEF new, c, g
    <2>6. /\ g \in FsState /\ g.mounts = f.mounts /\ g.latestFd = f.latestFd /\ g.arr = f.arr
          /\ g.len = f.len /\ g.opens = f.opens /\ g.cursor = c /\ g.stdin = new
          /\ g.blocks = f.blocks /\ g.copies = f.copies
      BY <1>1, <2>3, <2>4, <2>5 DEF FsState
    <2> QED
      BY <1>2, <1>5, <2>3, <2>4, <2>6 DEF g
  <1> QED
    BY <1>3, <1>4, <1>5 DEF Write, DevWrite

-----------------------------------------------------------------------------
\* Descriptors, over the operations.

\* The entries stay as they are.
Same(f, g) == g.len = f.len /\ \A i \in 1 .. f.len : g.arr[i] = f.arr[i]

LEMMA SameFds ==
  ASSUME NEW f, LayerOK(f), NEW g, LayerOK(g), Same(f, g), g.latestFd >= f.latestFd, NEW H
  PROVE  /\ Keys(g) = Keys(f)
         /\ FdsOK(f) => FdsOK(g)
         /\ HoldsOK(f, H) => HoldsOK(g, H)
  <1>1. /\ f.len \in Nat /\ f.latestFd \in Nat /\ g.latestFd \in Nat
        /\ \A i \in 1 .. f.len : f.arr[i].fd \in Nat
    <2>1. \A i \in 1 .. f.len : f.arr[i] \in File
      BY ArrayElements
    <2> QED
      BY <2>1 DEF LayerOK, FsState, File
  <1>2. Keys(g) = Keys(f)
    BY DEF Keys, Same
  <1>3. FdsOK(f) => FdsOK(g)
    BY <1>1 DEF FdsOK, Same
  <1>4. HoldsOK(f, H) => HoldsOK(g, H)
    BY DEF HoldsOK, Same
  <1> QED
    BY <1>2, <1>3, <1>4

\* A new entry under a descriptor that was not there, and its holder.
LEMMA AddedFds ==
  ASSUME NEW f, LayerOK(f), NEW g, LayerOK(g), NEW e \in File, Added(f, g, e),
         e.fd \notin Keys(f), e.fd < g.latestFd, g.latestFd >= f.latestFd,
         FdsOK(f), NEW H, HoldsOK(f, H), NEW w
  PROVE  /\ Keys(g) = Keys(f) \cup {e.fd} /\ FdsOK(g)
         /\ HoldsOK(g, IF e.exists THEN H \cup {[who |-> w, fd |-> e.fd, path |-> e.path]} ELSE H)
  <1>1. /\ f.len \in Nat /\ f.latestFd \in Nat /\ g.latestFd \in Nat /\ e.fd \in Nat
        /\ \A i \in 1 .. f.len : f.arr[i].fd \in Nat
    <2>1. \A i \in 1 .. f.len : f.arr[i] \in File
      BY ArrayElements
    <2> QED
      BY <2>1 DEF LayerOK, FsState, File
  <1>2. /\ g.len = f.len + 1 /\ g.arr[f.len + 1] = e
        /\ \A i \in 1 .. g.len : i # f.len + 1 => i \in 1 .. f.len
        /\ \A i \in 1 .. f.len : i \in 1 .. g.len /\ g.arr[i] = f.arr[i]
        /\ f.len + 1 \in 1 .. g.len
    BY <1>1 DEF Added
  <1>3. \A i \in 1 .. f.len : f.arr[i].fd # e.fd
    BY DEF Keys
  <1>4. Keys(g) = Keys(f) \cup {e.fd}
    BY <1>2 DEF Keys
  <1>5. FdsOK(g)
    <2>1. \A i, j \in 1 .. g.len : g.arr[i].fd = g.arr[j].fd => i = j
      BY <1>2, <1>3 DEF FdsOK
    <2>2. \A i \in 1 .. g.len : g.arr[i].fd < g.latestFd
      BY <1>1, <1>2 DEF FdsOK
    <2> QED
      BY <2>1, <2>2 DEF FdsOK
  <1>6. \A h \in H : h.fd # e.fd
    BY <1>3 DEF HoldsOK
  <1>7. CASE ~e.exists
    BY <1>2, <1>4, <1>5, <1>7 DEF HoldsOK
  <1>8. CASE e.exists
    <2> DEFINE n == [who |-> w, fd |-> e.fd, path |-> e.path]
    <2>1. n.fd = e.fd /\ n.path = e.path
      OBVIOUS
    <2> HIDE DEF n
    <2>2. \A h \in H \cup {n} : \E i \in 1 .. g.len :
             g.arr[i].fd = h.fd /\ g.arr[i].path = h.path /\ g.arr[i].exists
      BY <1>2, <1>8, <2>1 DEF HoldsOK
    <2>3. \A i \in 1 .. g.len : g.arr[i].exists => \E h \in H \cup {n} : h.fd = g.arr[i].fd
      BY <1>2, <2>1 DEF HoldsOK
    <2>4. \A x, y \in H \cup {n} : x.fd = y.fd => x = y
      BY <1>6, <2>1 DEF HoldsOK
    <2>5. HoldsOK(g, H \cup {n})
      BY <2>2, <2>3, <2>4 DEF HoldsOK
    <2> QED
      BY <1>4, <1>5, <1>8, <2>5 DEF n
  <1> QED
    BY <1>7, <1>8

\* An entry goes, and its holder with it.
LEMMA RemovedFds ==
  ASSUME NEW f, LayerOK(f), NEW g, LayerOK(g), NEW i \in 1 .. f.len, Removed(f, g, i),
         g.latestFd = f.latestFd, FdsOK(f), NEW H, HoldsOK(f, H)
  PROVE  /\ Keys(g) \subseteq Keys(f) /\ FdsOK(g)
         /\ HoldsOK(g, {h \in H : h.fd # f.arr[i].fd})
  <1>1. f.len \in Nat /\ g.len = f.len - 1
    BY ArrayElements DEF Removed
  <1> DEFINE at(j) == IF j < i THEN j ELSE j + 1
  <1>2. \A j \in 1 .. g.len : at(j) \in 1 .. f.len /\ at(j) # i /\ g.arr[j] = f.arr[at(j)]
    BY <1>1 DEF Removed
  <1>3. \A j, k \in 1 .. g.len : at(j) = at(k) => j = k
    BY <1>1
  <1>4. \A k \in 1 .. f.len : k # i => \E j \in 1 .. g.len : at(j) = k
    <2> SUFFICES ASSUME NEW k \in 1 .. f.len, k # i PROVE \E j \in 1 .. g.len : at(j) = k
      OBVIOUS
    <2>1. CASE k < i
      BY <1>1, <2>1
    <2>2. CASE k > i
      <3>1. k - 1 \in 1 .. g.len /\ at(k - 1) = k
        BY <1>1, <2>2
      <3> QED
        BY <3>1
    <2> QED
      BY <1>1, <2>1, <2>2
  <1> HIDE DEF at
  <1>5. Keys(g) \subseteq Keys(f)
    BY <1>2 DEF Keys
  <1>6. FdsOK(g)
    BY <1>2, <1>3 DEF FdsOK
  <1> DEFINE G == {h \in H : h.fd # f.arr[i].fd}
  <1>7. ASSUME NEW h \in G
        PROVE  \E j \in 1 .. g.len : g.arr[j].fd = h.fd /\ g.arr[j].path = h.path /\ g.arr[j].exists
    <2>1. PICK k \in 1 .. f.len : f.arr[k].fd = h.fd /\ f.arr[k].path = h.path /\ f.arr[k].exists
      BY DEF HoldsOK
    <2>2. PICK j \in 1 .. g.len : at(j) = k
      BY <1>4, <2>1
    <2> QED
      BY <1>2, <2>1, <2>2
  <1>8. ASSUME NEW j \in 1 .. g.len, g.arr[j].exists PROVE \E h \in G : h.fd = g.arr[j].fd
    <2>1. PICK h \in H : h.fd = f.arr[at(j)].fd
      BY <1>2, <1>8 DEF HoldsOK
    <2> QED
      BY <1>2, <2>1 DEF FdsOK
  <1>9. \A x, y \in G : x.fd = y.fd => x = y
    BY DEF HoldsOK
  <1> QED
    BY <1>5, <1>6, <1>7, <1>8, <1>9 DEF HoldsOK

-----------------------------------------------------------------------------
\* The invariant, action by action.

Descriptors == FdsOK(fs) /\ HoldsOK(fs, holds) /\ LoaderFd

\* A step of another actor leaves the loader's locals good: the array never gets
\* shorter, and no descriptor is given out again.
LEMMA LoaderKept ==
  ASSUME LoaderOK, UNCHANGED loader, LayerOK(fs), LayerOK(fs'), Beside(fs, fs')
  PROVE  LoaderOK'
  <1>1. Len(fs.arr) \in Nat /\ Len(fs'.arr) \in Nat
    BY ArrayElements
  <1>2. fs'.mounts = fs.mounts /\ Len(fs'.arr) >= Len(fs.arr)
    BY DEF Beside
  <1> QED
    BY <1>1, <1>2 DEF LoaderOK

LEMMA LoaderFdKept ==
  ASSUME LoaderOK, LoaderFd, UNCHANGED loader, LayerOK(fs), LayerOK(fs'),
         fs'.latestFd >= fs.latestFd, Keys(fs') \subseteq Keys(fs) \cup {fs.latestFd},
         \A h \in holds : h.who = "loader" => h \in holds'
  PROVE  LoaderFd'
  <1>1. fs.latestFd \in Nat /\ fs'.latestFd \in Nat /\ loader.fd \in Nat
    BY DEF LayerOK, FsState, LoaderOK
  <1>2. loader'.pc = "store" => loader'.fd <= fs'.latestFd
    BY <1>1 DEF LoaderFd
  <1>3. loader'.pc \in {"open", "push"} => loader'.fd < fs'.latestFd /\ loader'.fd \notin Keys(fs')
    BY <1>1 DEF LoaderFd
  <1>4. loader'.pc = "read" => \E h \in holds' : h.who = "loader" /\ h.fd = loader'.fd
    BY DEF LoaderFd
  <1> QED
    BY <1>2, <1>3, <1>4 DEF LoaderFd

LEMMA InitFileInv == Init => FileInv
  <1> SUFFICES ASSUME Init PROVE FileInv
    OBVIOUS
  <1> DEFINE buf == [i \in 0 .. StdinSize - 1 |-> Nul]
             nil == <<>>
  <1>1. StdinSize \in Nat /\ StdinSize >= 2
    BY FsAssumption
  <1>2. buf \in Buffer /\ buf[StdinSize - 1] = Nul
    BY <1>1 DEF Buffer
  <1>3. nil \in Seq(Mount) /\ nil \in Seq(File) /\ Len(nil) = 0
    OBVIOUS
  <1>4. fs = [mounts |-> nil, latestFd |-> 1, arr |-> nil, len |-> 0, blocks |-> 0, opens |-> 0,
              copies |-> 0, stdin |-> buf, cursor |-> 0]
    BY DEF Init
  <1>5. DevStdin \in PathType
    BY KeyPaths
  <1>6. /\ loader \in [pc : Pcs, fd : Nat, path : PathType, at : Nat, seen : Seq(File)]
        /\ loader.pc = "idle" /\ loader.at = 0
    BY <1>3, <1>5 DEF Init, Pcs, NoFd
  <1> HIDE DEF buf, nil
  <1>7. /\ fs \in FsState /\ fs.mounts = nil /\ fs.arr = nil /\ fs.len = 0 /\ fs.latestFd = 1
        /\ fs.stdin = buf /\ fs.cursor = 0
    <2>1. fs \in FsState
      BY <1>2, <1>3, <1>4 DEF FsState
    <2> QED
      BY <1>4, <2>1
  <1>8. LayerOK(fs)
    BY <1>1, <1>2, <1>3, <1>7 DEF LayerOK, nil
  <1>9. LoaderOK
    BY <1>3, <1>6, <1>7 DEF LoaderOK
  <1>10. LayerInv
    BY <1>7, <1>8, <1>9 DEF Init, LayerInv, nil
  <1>11. FdsOK(fs) /\ HoldsOK(fs, holds) /\ LoaderFd
    BY <1>6, <1>7 DEF Init, FdsOK, HoldsOK, LoaderFd
  <1> QED
    BY <1>10, <1>11 DEF FileInv

LEMMA FsInitStep ==
  ASSUME FileInv, NEW roots \in Disks, FsInit(roots)
  PROVE  FileInv'
  <1> DEFINE m == Mounted(roots)
             b == 2 * Len(m)
  <1>1. m \in Seq(Mount) /\ m # <<>>
    BY MountTable
  <1>2. b \in Int
    BY <1>1, LenProperties
  <1>3. roots = {} \/ m \in MountTables
    <2>1. roots \subseteq {"ext2", "fat32"}
      BY FsAssumption
    <2>2. roots \in {{}, {"ext2"}, {"fat32"}, {"ext2", "fat32"}}
      BY <2>1
    <2> QED
      BY <2>2 DEF MountTables
  <1>4. LayerOK(fs) /\ LoaderOK /\ fs \in FsState /\ fs.arr = <<>>
    BY DEF FileInv, LayerInv, LayerOK, FsInit
  <1>5. fs' = [fs EXCEPT !.mounts = m, !.blocks = b]
    BY DEF FsInit
  <1> HIDE DEF m, b
  <1>6. /\ fs' \in FsState /\ fs'.mounts = m /\ fs'.arr = fs.arr /\ fs'.len = fs.len
        /\ fs'.latestFd = fs.latestFd /\ fs'.stdin = fs.stdin /\ fs'.cursor = fs.cursor
    <2>1. fs' \in FsState
      BY <1>1, <1>2, <1>4, <1>5 DEF FsState
    <2> QED
      BY <1>4, <1>5, <2>1 DEF FsState
  <1>7. LayerOK(fs')
    BY <1>1, <1>4, <1>6 DEF LayerOK
  <1>8. LoaderOK'
    BY <1>4, <1>6 DEF LoaderOK, FsInit
  <1>9. LayerInv'
    <2>1. halted' \in BOOLEAN /\ (halted' \/ fs'.mounts \in MountTables \cup {<<>>})
      BY <1>3, <1>6 DEF FsInit
    <2> QED
      BY <1>7, <1>8, <2>1 DEF FsInit, FileInv, LayerInv
  <1>10. ASSUME ~raced PROVE Descriptors'
    <2>1. FdsOK(fs) /\ HoldsOK(fs, holds) /\ LoaderFd
      BY <1>10 DEF FileInv
    <2>2. Same(fs, fs') /\ fs'.latestFd >= fs.latestFd
      BY <1>4, <1>6 DEF Same, FsState
    <2>3. Keys(fs') = Keys(fs) /\ FdsOK(fs') /\ HoldsOK(fs', holds)
      BY <1>4, <1>7, <2>1, <2>2, SameFds
    <2>4. LoaderFd'
      BY <1>4, <1>7, <2>1, <2>2, <2>3, LoaderFdKept DEF FsInit
    <2> QED
      BY <2>3, <2>4 DEF Descriptors, FsInit
  <1> QED
    BY <1>9, <1>10 DEF FileInv, Descriptors, FsInit

LEMMA SysOpenStep ==
  ASSUME FileInv, NEW p \in Procs, NEW path \in Paths, SysOpen(p, path)
  PROVE  FileInv' /\ fs'.opens = fs.opens + 1
  <1>1. PICK r \in Open(fs, path) :
           /\ fs' = r.f
           /\ holds' = IF r.fd = NoFd THEN holds
                       ELSE holds \cup {[who |-> p, fd |-> r.fd, path |-> path]}
    BY DEF SysOpen
  <1>2. LayerOK(fs) /\ LoaderOK /\ fs.mounts \in MountTables \cup {<<>>} /\ path \in PathType
    BY FsAssumption DEF FileInv, LayerInv, SysOpen
  <1>3. /\ LayerOK(fs') /\ Beside(fs, fs') /\ fs'.latestFd = fs.latestFd + 1
        /\ fs'.opens = fs.opens + 1
        /\ \/ r.fd = NoFd /\ fs'.arr = fs.arr /\ fs'.len = fs.len
           \/ \E e \in File : /\ e.fd = fs.latestFd /\ e.path = path
                              /\ r.fd = IF e.exists THEN e.fd ELSE NoFd
                              /\ e.fd \notin Keys(fs) => Added(fs, fs', e)
    BY <1>1, <1>2, OpenOK
  <1>4. fs.latestFd \in Nat \ {0} /\ fs'.latestFd >= fs.latestFd /\ fs.latestFd < fs'.latestFd
    <2>1. fs.latestFd \in Nat \ {0}
      BY <1>2 DEF LayerOK, FsState
    <2>2. fs'.latestFd = fs.latestFd + 1
      BY <1>3
    <2> QED
      BY <2>1, <2>2
  <1>5. LoaderOK'
    BY <1>2, <1>3, LoaderKept DEF SysOpen
  <1>6. r.fd = NoFd \/ r.fd \in Nat \ {0}
    BY <1>3, <1>4
  <1>7. holds' \subseteq Hold
    BY <1>1, <1>2, <1>6 DEF FileInv, LayerInv, Hold
  <1>8. LayerInv'
    BY <1>2, <1>3, <1>5, <1>7 DEF SysOpen, FileInv, LayerInv, Beside
  <1>9. ASSUME ~raced PROVE Descriptors'
    <2>1. FdsOK(fs) /\ HoldsOK(fs, holds) /\ LoaderFd
      BY <1>9 DEF FileInv
    <2>2. /\ FdsOK(fs') /\ HoldsOK(fs', holds')
          /\ Keys(fs') \subseteq Keys(fs) \cup {fs.latestFd}
      <3>1. CASE r.fd = NoFd /\ fs'.arr = fs.arr /\ fs'.len = fs.len
        <4>1. Same(fs, fs')
          BY <3>1 DEF Same
        <4> QED
          BY <1>1, <1>2, <1>3, <1>4, <2>1, <3>1, <4>1, SameFds
      <3>2. ASSUME NEW e \in File, e.fd = fs.latestFd, e.path = path,
                   r.fd = IF e.exists THEN e.fd ELSE NoFd,
                   e.fd \notin Keys(fs) => Added(fs, fs', e)
            PROVE  /\ FdsOK(fs') /\ HoldsOK(fs', holds')
                   /\ Keys(fs') \subseteq Keys(fs) \cup {fs.latestFd}
        <4>1. e.fd \notin Keys(fs)
          BY <1>4, <2>1, <3>2 DEF FdsOK, Keys
        <4>2. /\ Keys(fs') = Keys(fs) \cup {e.fd} /\ FdsOK(fs')
              /\ HoldsOK(fs', IF e.exists THEN holds \cup {[who |-> p, fd |-> e.fd, path |-> e.path]}
                              ELSE holds)
          BY <1>2, <1>3, <1>4, <2>1, <3>2, <4>1, AddedFds
        <4>3. e.exists \in BOOLEAN /\ e.fd # NoFd
          BY <1>4, <3>2 DEF File, NoFd
        <4>4. holds' = IF e.exists THEN holds \cup {[who |-> p, fd |-> e.fd, path |-> e.path]}
                       ELSE holds
          BY <1>1, <3>2, <4>3
        <4> QED
          BY <3>2, <4>2, <4>4
      <3> QED
        BY <1>3, <3>1, <3>2
    <2>3. \A h \in holds : h \in holds'
      BY <1>1
    <2>4. LoaderFd'
      BY <1>2, <1>3, <1>4, <2>1, <2>2, <2>3, LoaderFdKept DEF SysOpen
    <2> QED
      BY <2>2, <2>4 DEF Descriptors
  <1> QED
    BY <1>3, <1>8, <1>9 DEF FileInv, Descriptors, SysOpen

\* A step that changes neither the layer nor who holds what.
LEMMA FsUnchanged ==
  ASSUME FileInv, UNCHANGED <<fs, holds, loader, raced>>, halted' \in BOOLEAN, ~halted
  PROVE  FileInv'
  <1>1. LayerInv'
    BY DEF FileInv, LayerInv, LoaderOK
  <1>2. ~raced' => FdsOK(fs') /\ HoldsOK(fs', holds') /\ LoaderFd'
    BY DEF FileInv, LoaderFd
  <1> QED
    BY <1>1, <1>2 DEF FileInv

\* A process closes what it holds, or something that is closed: what another
\* holder has open stays open.
LEMMA SysCloseStep ==
  ASSUME FileInv, NEW p \in Procs, NEW fd \in Own(p) \cup Stale \cup {NoFd}, SysClose(p, fd)
  PROVE  FileInv' /\ fs'.opens = fs.opens
  <1>1. CASE fd = NoFd \/ fd \notin Keys(fs)
    <2>1. UNCHANGED <<fs, holds, loader, raced>> /\ halted' \in BOOLEAN /\ ~halted
      BY <1>1 DEF SysClose
    <2> QED
      BY <2>1, FsUnchanged
  <1>2. CASE ~(fd = NoFd \/ fd \notin Keys(fs))
    <2>1. /\ fs' = Close(fs, fd) /\ holds' = {h \in holds : ~(h.who = p /\ h.fd = fd)}
          /\ UNCHANGED <<loader, raced, halted>> /\ ~halted
      BY <1>2 DEF SysClose
    <2>2. LayerOK(fs) /\ LoaderOK /\ fd \in Keys(fs) /\ fd \in Own(p)
      BY <1>2 DEF FileInv, LayerInv, Stale
    <2>3. /\ LayerOK(fs') /\ Beside(fs, fs') /\ fs'.latestFd = fs.latestFd /\ fs'.opens = fs.opens
          /\ Removed(fs, fs', IndexOf(fs, fd))
      BY <2>1, <2>2, CloseOK
    <2>4. LoaderOK'
      BY <2>1, <2>2, <2>3, LoaderKept
    <2>5. LayerInv'
      BY <2>1, <2>3, <2>4 DEF FileInv, LayerInv, Beside
    <2>6. ASSUME ~raced PROVE Descriptors'
      <3>1. FdsOK(fs) /\ HoldsOK(fs, holds) /\ LoaderFd
        BY <2>6 DEF FileInv
      <3>2. IndexOf(fs, fd) \in 1 .. fs.len /\ fs.arr[IndexOf(fs, fd)].fd = fd
        BY <2>2, IndexOfOK
      <3>3. /\ Keys(fs') \subseteq Keys(fs) /\ FdsOK(fs')
            /\ HoldsOK(fs', {h \in holds : h.fd # fd})
        BY <2>2, <2>3, <3>1, <3>2, RemovedFds
      <3>4. PICK g \in holds : g.who = p /\ g.fd = fd
        BY <2>2 DEF Own
      <3>5. \A h \in holds : h.fd = fd => h.who = p
        BY <3>1, <3>4 DEF HoldsOK
      <3>6. holds' = {h \in holds : h.fd # fd}
        BY <2>1, <3>5
      <3>7. \A h \in holds : h.who = "loader" => h \in holds'
        BY <2>1, FsAssumption
      <3>8. fs'.latestFd >= fs.latestFd
        BY <2>2, <2>3 DEF LayerOK, FsState
      <3>9. LoaderFd'
        BY <2>1, <2>2, <2>3, <3>1, <3>3, <3>7, <3>8, LoaderFdKept
      <3> QED
        BY <3>3, <3>6, <3>9 DEF Descriptors
    <2> QED
      BY <2>1, <2>3, <2>5, <2>6 DEF FileInv, Descriptors
  <1> QED
    BY <1>1, <1>2

LEMMA SysReadStep ==
  ASSUME FileInv, NEW p, NEW fd, SysRead(p, fd)
  PROVE  FileInv' /\ fs' = fs
  <1>1. UNCHANGED <<fs, holds, loader, raced>> /\ halted' \in BOOLEAN /\ ~halted
    BY DEF SysRead
  <1> QED
    BY <1>1, FsUnchanged

LEMMA SysWriteStep ==
  ASSUME FileInv, NEW p, NEW fd, SysWrite(p, fd, "a")
  PROVE  FileInv' /\ fs'.opens = fs.opens
  <1>1. fs' = Write(fs, fd, "a") /\ UNCHANGED <<holds, loader, raced, halted>> /\ ~halted
    BY DEF SysWrite
  <1>2. LayerOK(fs) /\ LoaderOK
    BY DEF FileInv, LayerInv
  <1>3. /\ LayerOK(fs') /\ fs'.mounts = fs.mounts /\ fs'.latestFd = fs.latestFd
        /\ fs'.arr = fs.arr /\ fs'.len = fs.len /\ fs'.opens = fs.opens
    BY <1>1, <1>2, WriteOK
  <1>4. LayerInv'
    BY <1>1, <1>2, <1>3 DEF FileInv, LayerInv, LoaderOK
  <1>5. ASSUME ~raced PROVE Descriptors'
    <2>1. FdsOK(fs) /\ HoldsOK(fs, holds) /\ LoaderFd
      BY <1>5 DEF FileInv
    <2>2. Same(fs, fs') /\ fs'.latestFd >= fs.latestFd
      BY <1>2, <1>3 DEF Same, LayerOK, FsState
    <2>3. Keys(fs') = Keys(fs) /\ FdsOK(fs') /\ HoldsOK(fs', holds)
      BY <1>2, <1>3, <2>1, <2>2, SameFds
    <2>4. LoaderFd'
      BY <1>1, <1>2, <1>3, <2>1, <2>2, <2>3, LoaderFdKept
    <2> QED
      BY <1>1, <2>3, <2>4 DEF Descriptors
  <1> QED
    BY <1>1, <1>3, <1>4, <1>5 DEF FileInv, Descriptors

\* The key handler's two opens and two closes, one inside the other: with a fresh
\* descriptor, close finds the entry that open put last.
LEMMA LastClosed ==
  ASSUME NEW f, LayerOK(f), FdsOK(f), NEW g, LayerOK(g), NEW e \in File, Added(f, g, e),
         e.fd = f.latestFd
  PROVE  e.fd \in Keys(g) /\ Same(f, Close(g, e.fd))
  <1>1. f.len \in Nat /\ f.latestFd \in Nat /\ g.len = f.len + 1 /\ g.arr[f.len + 1] = e
        /\ \A i \in 1 .. f.len : g.arr[i] = f.arr[i]
    BY ArrayElements DEF Added, LayerOK, FsState
  <1>2. \A i \in 1 .. f.len : g.arr[i].fd # e.fd
    <2>1. \A i \in 1 .. f.len : f.arr[i].fd < f.latestFd
      BY DEF FdsOK
    <2> QED
      BY <1>1, <2>1
  <1>3. e.fd \in Keys(g)
    BY <1>1 DEF Keys
  <1>4. IndexOf(g, e.fd) \in 1 .. g.len /\ g.arr[IndexOf(g, e.fd)].fd = e.fd
    BY <1>3, IndexOfOK
  <1>5. IndexOf(g, e.fd) = f.len + 1
    BY <1>1, <1>2, <1>4
  <1>6. Removed(g, Close(g, e.fd), f.len + 1)
    BY <1>3, <1>5, CloseOK
  <1> QED
    BY <1>1, <1>3, <1>6 DEF Removed, Same

LEMMA KeyPressOK ==
  ASSUME FileInv, KeyPress("a")
  PROVE  /\ LayerOK(fs') /\ Beside(fs, fs') /\ halted' \in BOOLEAN
         /\ ~raced => Same(fs, fs') /\ fs'.latestFd >= fs.latestFd
         /\ ~raced /\ fs.mounts # <<>> => ~halted'
  <1>1. PICK i \in Open(fs, DevStdin) :
           IF i.fd = NoFd THEN halted' = TRUE /\ fs' = i.f
           ELSE \E o \in Open(Write(i.f, i.fd, "a"), DevStdout) :
                    LET w == Write(o.f, o.fd, "a")
                        s == IF o.fd = NoFd THEN w ELSE Close(w, o.fd)
                    IN  IF i.fd \in Keys(s)
                        THEN fs' = Close(s, i.fd) /\ UNCHANGED halted
                        ELSE fs' = s /\ halted' = TRUE
    BY DEF KeyPress
  <1>2. /\ LayerOK(fs) /\ fs.mounts \in MountTables \cup {<<>>} /\ ~halted
        /\ halted \in BOOLEAN /\ DevStdin \in PathType /\ DevStdout \in PathType
        /\ DevStdin.under # {} /\ DevStdout.under # {}
        /\ fs.latestFd \in Nat \ {0} /\ Len(fs.arr) \in Nat
    BY KeyPaths, ArrayElements DEF FileInv, LayerInv, KeyPress, LayerOK, FsState
  <1>3. /\ LayerOK(i.f) /\ Beside(fs, i.f) /\ i.f.latestFd = fs.latestFd + 1
        /\ i.fd # NoFd => i.fd \in Keys(i.f)
        /\ \/ NoRoute(fs, DevStdin) /\ i.fd = NoFd /\ i.f.arr = fs.arr /\ i.f.len = fs.len
           \/ /\ ~NoRoute(fs, DevStdin)
              /\ \E e \in File : /\ e.fd = fs.latestFd /\ i.fd = IF e.exists THEN e.fd ELSE NoFd
                                 /\ e.fd \notin Keys(fs) => Added(fs, i.f, e)
                                 /\ e.exists
    BY <1>2, OpenOK
  <1>4. CASE fs.mounts = <<>>
    <2>1. i.fd = NoFd /\ i.f.arr = fs.arr /\ i.f.len = fs.len
      BY <1>3, <1>4 DEF NoRoute
    <2>2. halted' = TRUE /\ fs' = i.f
      BY <1>1, <2>1
    <2> QED
      BY <1>2, <1>3, <1>4, <2>1, <2>2 DEF Same
  <1>5. CASE fs.mounts # <<>>
    <2>1. fs.mounts \in MountTables
      BY <1>2, <1>5
    <2>2. PICK e \in File : /\ e.fd = fs.latestFd /\ i.fd = e.fd
                            /\ e.fd \notin Keys(fs) => Added(fs, i.f, e)
      BY <1>2, <1>3, <1>5 DEF NoRoute
    <2>3. i.fd # NoFd
      BY <1>2, <2>2 DEF NoFd
    <2> DEFINE w1 == Write(i.f, i.fd, "a")
    <2>4. PICK o \in Open(w1, DevStdout) :
             LET w == Write(o.f, o.fd, "a")
                 s == IF o.fd = NoFd THEN w ELSE Close(w, o.fd)
             IN  IF i.fd \in Keys(s)
                 THEN fs' = Close(s, i.fd) /\ UNCHANGED halted
                 ELSE fs' = s /\ halted' = TRUE
      BY <1>1, <2>3
    <2>5. /\ LayerOK(w1) /\ w1.mounts = i.f.mounts /\ w1.latestFd = i.f.latestFd
          /\ w1.arr = i.f.arr /\ w1.len = i.f.len
      BY <1>3, WriteOK
    <2> HIDE DEF w1
    <2>6. w1.mounts = fs.mounts /\ w1.mounts \in MountTables /\ ~NoRoute(w1, DevStdout)
      BY <1>2, <1>3, <1>5, <2>1, <2>5 DEF Beside, NoRoute
    <2>7. /\ LayerOK(o.f) /\ Beside(w1, o.f) /\ o.f.latestFd = w1.latestFd + 1
          /\ o.fd # NoFd => o.fd \in Keys(o.f)
          /\ \E d \in File : /\ d.fd = w1.latestFd /\ o.fd = IF d.exists THEN d.fd ELSE NoFd
                             /\ d.fd \notin Keys(w1) => Added(w1, o.f, d)
                             /\ d.exists
      BY <1>2, <2>5, <2>6, OpenOK
    <2>8. PICK d \in File : /\ d.fd = w1.latestFd /\ o.fd = d.fd
                            /\ d.fd \notin Keys(w1) => Added(w1, o.f, d)
      BY <2>7
    <2>9. o.fd # NoFd
      BY <1>2, <1>3, <2>5, <2>8 DEF NoFd
    <2> DEFINE w == Write(o.f, o.fd, "a")
               s == Close(w, o.fd)
    <2>10. /\ LayerOK(w) /\ w.mounts = o.f.mounts /\ w.latestFd = o.f.latestFd
           /\ w.arr = o.f.arr /\ w.len = o.f.len
      BY <2>7, WriteOK
    <2>11. IF i.fd \in Keys(s) THEN fs' = Close(s, i.fd) /\ UNCHANGED halted
           ELSE fs' = s /\ halted' = TRUE
      BY <2>4, <2>9
    <2> HIDE DEF w
    <2>12. o.fd \in Keys(w)
      BY <2>7, <2>9, <2>10 DEF Keys
    <2>13. LayerOK(s) /\ Beside(w, s) /\ s.latestFd = w.latestFd
      BY <2>10, <2>12, CloseOK
    <2> HIDE DEF s
    <2>14. i.fd \in Keys(s) =>
              /\ LayerOK(Close(s, i.fd)) /\ Beside(s, Close(s, i.fd))
              /\ Close(s, i.fd).latestFd = s.latestFd
      BY <2>13, CloseOK
    <2>15. LayerOK(fs') /\ (fs' = s \/ Beside(s, fs')) /\ fs'.latestFd = s.latestFd
           /\ halted' \in BOOLEAN
      <3>1. CASE i.fd \in Keys(s)
        <4>1. fs' = Close(s, i.fd) /\ halted' = halted
          BY <2>11, <3>1
        <4>2. halted' \in BOOLEAN
          BY <1>2, <4>1
        <4> QED
          BY <2>14, <3>1, <4>1, <4>2
      <3>2. CASE i.fd \notin Keys(s)
        <4>1. fs' = s /\ halted' \in BOOLEAN
          BY <2>11, <3>2
        <4> QED
          BY <2>13, <4>1
      <3> QED
        BY <3>1, <3>2
    <2>16. Beside(fs, fs')
      <3>1. /\ Len(i.f.arr) \in Nat /\ Len(w1.arr) \in Nat /\ Len(o.f.arr) \in Nat
            /\ Len(w.arr) \in Nat /\ Len(s.arr) \in Nat /\ Len(fs'.arr) \in Nat
        BY <1>3, <2>5, <2>7, <2>10, <2>13, <2>15, ArrayElements
      <3>2. Len(w1.arr) >= Len(fs.arr) /\ Len(o.f.arr) >= Len(w1.arr)
            /\ Len(s.arr) >= Len(o.f.arr) /\ Len(fs'.arr) >= Len(s.arr)
        BY <1>3, <2>5, <2>7, <2>10, <2>13, <2>15, <3>1 DEF Beside
      <3>3. fs'.mounts = fs.mounts
        BY <1>3, <2>5, <2>7, <2>10, <2>13, <2>15 DEF Beside
      <3>4. Len(fs'.arr) >= Len(fs.arr)
        <4>1. Len(fs.arr) \in Nat
          BY <1>2
        <4>2. \A x1, x2, x3, x4, x5 \in Nat : x2 >= x1 /\ x3 >= x2 /\ x4 >= x3 /\ x5 >= x4 => x5 >= x1
          OBVIOUS
        <4> QED
          BY <3>1, <3>2, <4>1, <4>2
      <3> QED
        BY <3>3, <3>4 DEF Beside
    <2>17. ASSUME ~raced PROVE Same(fs, fs') /\ fs'.latestFd >= fs.latestFd /\ ~halted'
      <3>1. FdsOK(fs) /\ HoldsOK(fs, holds)
        BY <2>17 DEF FileInv
      <3>2. e.fd \notin Keys(fs)
        BY <1>2, <2>2, <3>1 DEF FdsOK, Keys
      <3>3. Added(fs, w1, e)
        BY <2>2, <2>5, <3>2 DEF Added
      <3>4. w1.latestFd = fs.latestFd + 1 /\ w1.latestFd >= fs.latestFd /\ e.fd < w1.latestFd
        BY <1>2, <1>3, <2>2, <2>5
      <3>5. FdsOK(w1)
        BY <1>2, <2>5, <3>1, <3>2, <3>3, <3>4, AddedFds
      <3>6. d.fd \notin Keys(w1)
        BY <1>2, <2>8, <3>4, <3>5 DEF FdsOK, Keys
      <3>7. Added(w1, w, d)
        BY <2>8, <2>10, <3>6 DEF Added
      <3>8. Same(w1, s)
        BY <2>5, <2>8, <2>10, <3>5, <3>7, LastClosed DEF s
      <3>9. Added(fs, s, e)
        <4>1. fs.len \in Nat
          BY <1>2 DEF LayerOK, FsState
        <4> QED
          BY <3>3, <3>8, <4>1 DEF Added, Same
      <3>10. e.fd \in Keys(s) /\ Same(fs, Close(s, e.fd))
        BY <1>2, <2>2, <2>13, <3>1, <3>9, LastClosed
      <3> QED
        BY <1>2, <1>3, <2>2, <2>5, <2>7, <2>10, <2>11, <2>13, <2>15, <3>10
    <2> QED
      BY <2>15, <2>16, <2>17
  <1> QED
    BY <1>4, <1>5

LEMMA KeyPressStep ==
  ASSUME FileInv, KeyPress("a")
  PROVE  FileInv'
  <1>1. /\ LayerOK(fs') /\ Beside(fs, fs') /\ halted' \in BOOLEAN
        /\ ~raced => Same(fs, fs') /\ fs'.latestFd >= fs.latestFd
    BY KeyPressOK
  <1>2. UNCHANGED <<holds, loader, raced>> /\ ~halted /\ LayerOK(fs) /\ LoaderOK
    BY DEF KeyPress, FileInv, LayerInv
  <1>3. LoaderOK'
    BY <1>1, <1>2, LoaderKept
  <1>4. LayerInv'
    BY <1>1, <1>2, <1>3 DEF FileInv, LayerInv, Beside
  <1>5. ASSUME ~raced PROVE Descriptors'
    <2>1. FdsOK(fs) /\ HoldsOK(fs, holds) /\ LoaderFd
      BY <1>5 DEF FileInv
    <2>2. Keys(fs') = Keys(fs) /\ FdsOK(fs') /\ HoldsOK(fs', holds)
      BY <1>1, <1>2, <1>5, <2>1, SameFds
    <2>3. LoaderFd'
      BY <1>1, <1>2, <1>5, <2>1, <2>2, LoaderFdKept
    <2> QED
      BY <1>2, <2>2, <2>3 DEF Descriptors
  <1> QED
    BY <1>2, <1>4, <1>5 DEF FileInv, Descriptors

LEMMA LoadFdStep ==
  ASSUME FileInv, NEW path \in LoaderPaths, LoadFd(path)
  PROVE  FileInv'
  <1>1. UNCHANGED <<fs, holds, raced, halted>> /\ ~halted /\ LayerOK(fs) /\ LoaderOK
    BY DEF LoadFd, FileInv, LayerInv
  <1>2. fs.latestFd \in Nat \ {0} /\ path \in PathType
    BY <1>1, FsAssumption DEF LayerOK, FsState
  <1>3. loader \in [pc : Pcs, fd : Nat, path : PathType, at : Nat, seen : Seq(File)]
        /\ loader' = [loader EXCEPT !.pc = "store", !.fd = fs.latestFd, !.path = path]
    BY <1>1 DEF LoaderOK, LoadFd
  <1>4. /\ loader' \in [pc : Pcs, fd : Nat, path : PathType, at : Nat, seen : Seq(File)]
        /\ loader'.pc = "store" /\ loader'.fd = fs.latestFd /\ loader'.at = loader.at
    BY <1>2, <1>3 DEF Pcs
  <1>5. LoaderOK'
    BY <1>1, <1>2, <1>4 DEF LoaderOK
  <1>6. LayerInv'
    BY <1>1, <1>5 DEF FileInv, LayerInv
  <1>7. LoaderFd'
    BY <1>1, <1>2, <1>4 DEF LoaderFd
  <1> QED
    BY <1>1, <1>6, <1>7 DEF FileInv

\* The store of latestFd: unless it overwrote one of another actor, the loader's
\* descriptor is below it and nobody's.
LEMMA LoadStoreStep ==
  ASSUME FileInv, LoadStore
  PROVE  FileInv' /\ fs'.opens = fs.opens + 1
  <1> DEFINE n == loader.fd + 1
             b == fs.blocks + 1
             o == fs.opens + 1
  <1>1. UNCHANGED <<holds, halted>> /\ ~halted /\ LayerOK(fs) /\ LoaderOK /\ loader.pc = "store"
    BY DEF LoadStore, FileInv, LayerInv
  <1>2. /\ loader \in [pc : Pcs, fd : Nat, path : PathType, at : Nat, seen : Seq(File)]
        /\ loader.fd \in Nat \ {0} /\ loader' = [loader EXCEPT !.pc = "open"]
    BY <1>1 DEF LoaderOK, LoadStore
  <1>3. fs \in FsState /\ n \in Nat \ {0} /\ b \in Int /\ o \in Nat
    BY <1>1, <1>2 DEF LayerOK, FsState
  <1>4. fs' = [fs EXCEPT !.latestFd = n, !.blocks = b, !.opens = o]
    BY DEF LoadStore
  <1> HIDE DEF n, b, o
  <1>5. /\ fs' \in FsState /\ fs'.mounts = fs.mounts /\ fs'.arr = fs.arr /\ fs'.len = fs.len
        /\ fs'.latestFd = n /\ fs'.stdin = fs.stdin /\ fs'.cursor = fs.cursor /\ fs'.opens = o
    <2>1. fs' \in FsState
      BY <1>3, <1>4 DEF FsState
    <2> QED
      BY <1>3, <1>4, <2>1 DEF FsState
  <1>6. LayerOK(fs')
    BY <1>1, <1>5 DEF LayerOK
  <1>7. /\ loader' \in [pc : Pcs, fd : Nat, path : PathType, at : Nat, seen : Seq(File)]
        /\ loader'.pc = "open" /\ loader'.fd = loader.fd /\ loader'.at = loader.at
    BY <1>2 DEF Pcs
  <1>8. LoaderOK'
    BY <1>1, <1>2, <1>5, <1>7 DEF LoaderOK
  <1>9. raced' \in BOOLEAN
    BY DEF LoadStore
  <1>10. LayerInv'
    BY <1>1, <1>5, <1>6, <1>8, <1>9 DEF FileInv, LayerInv
  <1>11. ASSUME ~raced' PROVE Descriptors'
    <2>1. ~raced /\ fs.latestFd = loader.fd
      BY <1>11 DEF LoadStore
    <2>2. FdsOK(fs) /\ HoldsOK(fs, holds)
      BY <2>1 DEF FileInv
    <2>3. n = fs.latestFd + 1 /\ fs'.latestFd >= fs.latestFd /\ loader.fd < fs'.latestFd
      BY <1>2, <1>5, <2>1 DEF n
    <2>4. Same(fs, fs')
      BY <1>5 DEF Same
    <2>5. Keys(fs') = Keys(fs) /\ FdsOK(fs') /\ HoldsOK(fs', holds)
      BY <1>1, <1>6, <2>2, <2>3, <2>4, SameFds
    <2>6. loader.fd \notin Keys(fs)
      BY <1>2, <2>1, <2>2 DEF FdsOK, Keys
    <2>7. LoaderFd'
      BY <1>7, <2>3, <2>5, <2>6 DEF LoaderFd
    <2> QED
      BY <1>1, <2>5, <2>7 DEF Descriptors
  <1> QED
    BY <1>5, <1>10, <1>11 DEF FileInv, Descriptors, o

LEMMA LoadOpenStep ==
  ASSUME FileInv, LoadOpen
  PROVE  FileInv' /\ fs'.opens = fs.opens
  <1>1. /\ UNCHANGED <<holds, raced, halted>> /\ ~halted /\ LayerOK(fs) /\ LoaderOK
        /\ loader.pc = "open" /\ ~NoRoute(fs, loader.path) /\ fs.mounts \in MountTables \cup {<<>>}
    BY DEF LoadOpen, FileInv, LayerInv
  <1>2. loader.fd \in Nat \ {0} /\ loader.path \in PathType
    BY <1>1 DEF LoaderOK
  <1>3. fs.mounts \in MountTables /\ fs.mounts # <<>>
    BY <1>1 DEF NoRoute
  <1>4. PICK e \in Opened(fs, loader.fd, loader.path) :
           /\ fs' = [fs EXCEPT !.blocks = @ + Blocks(e.data)]
           /\ loader' = [pc |-> IF e.fd \in Keys(fs) THEN "assign" ELSE "push", fd |-> e.fd,
                         path |-> e.path, at |-> fs.len, seen |-> <<e>> \o Entries(fs)]
    BY DEF LoadOpen
  <1>5. e \in File /\ e.fd = loader.fd /\ e.path = loader.path /\ ReachedDeepest(fs.mounts, e)
    BY <1>1, <1>2, <1>3, <1>4, OpenedOK
  <1> DEFINE b == fs.blocks + Blocks(e.data)
             seen == <<e>> \o Entries(fs)
             pc == IF e.fd \in Keys(fs) THEN "assign" ELSE "push"
  <1>6. b \in Int /\ fs \in FsState
    <2>1. e.data \in Int /\ fs.blocks \in Int /\ fs \in FsState
      BY <1>1, <1>5 DEF File, LayerOK, FsState, Garbage
    <2> QED
      BY <2>1 DEF Blocks
  <1>7. fs' = [fs EXCEPT !.blocks = b]
    BY <1>4
  <1>8. /\ fs.arr \in Seq(File) /\ Len(fs.arr) \in Nat /\ fs.len \in 0 .. Len(fs.arr)
    BY <1>1, ArrayElements
  <1>9. Entries(fs) \in Seq(File) /\ Len(Entries(fs)) = fs.len
    BY <1>8, SubSeqProperties DEF Entries
  <1>10. /\ seen \in Seq(File) /\ Len(seen) = fs.len + 1 /\ Head(seen) = e /\ seen # <<>>
    <2>1. <<e>> \in Seq(File) /\ Len(<<e>>) = 1 /\ <<e>>[1] = e
      BY <1>5
    <2>2. seen \in Seq(File) /\ Len(seen) = 1 + fs.len /\ seen[1] = e
      BY <1>8, <1>9, <2>1, ConcatProperties
    <2> QED
      BY <1>8, <2>2
  <1> HIDE DEF b, seen
  <1>11. /\ fs' \in FsState /\ fs'.mounts = fs.mounts /\ fs'.arr = fs.arr /\ fs'.len = fs.len
         /\ fs'.latestFd = fs.latestFd /\ fs'.stdin = fs.stdin /\ fs'.cursor = fs.cursor
         /\ fs'.opens = fs.opens
    <2>1. fs' \in FsState
      BY <1>6, <1>7 DEF FsState
    <2> QED
      BY <1>6, <1>7, <2>1 DEF FsState
  <1>12. LayerOK(fs')
    BY <1>1, <1>11 DEF LayerOK
  <1>13. loader' = [pc |-> pc, fd |-> e.fd, path |-> e.path, at |-> fs.len, seen |-> seen]
    BY <1>4 DEF seen
  <1>14. pc \in {"assign", "push"} /\ (e.fd \notin Keys(fs) => pc = "push")
    OBVIOUS
  <1> HIDE DEF pc
  <1>15. /\ loader' \in [pc : Pcs, fd : Nat, path : PathType, at : Nat, seen : Seq(File)]
         /\ loader'.pc = pc /\ loader'.fd = e.fd /\ loader'.path = e.path
         /\ loader'.at = fs.len /\ loader'.seen = seen
    BY <1>2, <1>5, <1>8, <1>10, <1>13, <1>14 DEF Pcs
  <1>16. LoaderOK'
    BY <1>2, <1>3, <1>5, <1>8, <1>10, <1>11, <1>15 DEF LoaderOK
  <1>17. LayerInv'
    BY <1>1, <1>11, <1>12, <1>16 DEF FileInv, LayerInv
  <1>18. ASSUME ~raced PROVE Descriptors'
    <2>1. FdsOK(fs) /\ HoldsOK(fs, holds) /\ LoaderFd
      BY <1>18 DEF FileInv
    <2>2. Same(fs, fs') /\ fs'.latestFd >= fs.latestFd
      BY <1>6, <1>11 DEF Same, FsState
    <2>3. Keys(fs') = Keys(fs) /\ FdsOK(fs') /\ HoldsOK(fs', holds)
      BY <1>1, <1>12, <2>1, <2>2, SameFds
    <2>4. loader.fd < fs.latestFd /\ loader.fd \notin Keys(fs)
      BY <1>1, <2>1 DEF LoaderFd
    <2>5. LoaderFd'
      BY <1>5, <1>11, <1>14, <1>15, <2>3, <2>4 DEF LoaderFd
    <2> QED
      BY <1>1, <2>3, <2>5 DEF Descriptors
  <1> QED
    BY <1>1, <1>11, <1>17, <1>18 DEF FileInv, Descriptors

\* The loader goes back to idle without having changed the layer.
LEMMA LoaderIdle ==
  ASSUME FileInv, UNCHANGED <<fs, holds, raced>>, halted' \in BOOLEAN, ~halted,
         loader' = [loader EXCEPT !.pc = "idle"]
  PROVE  FileInv'
  <1>1. LoaderOK /\ LayerOK(fs)
    BY DEF FileInv, LayerInv
  <1>2. /\ loader' \in [pc : Pcs, fd : Nat, path : PathType, at : Nat, seen : Seq(File)]
        /\ loader'.pc = "idle" /\ loader'.at = loader.at
    BY <1>1 DEF LoaderOK, Pcs
  <1>3. LoaderOK'
    BY <1>1, <1>2 DEF LoaderOK
  <1>4. LayerInv'
    BY <1>3 DEF FileInv, LayerInv
  <1>5. LoaderFd'
    BY <1>2 DEF LoaderFd
  <1> QED
    BY <1>4, <1>5 DEF FileInv

LEMMA LoadNoRouteStep ==
  ASSUME FileInv, LoadNoRoute
  PROVE  FileInv' /\ fs' = fs
  <1>1. UNCHANGED <<fs, holds, raced>> /\ halted' = halted /\ halted \in BOOLEAN /\ ~halted
        /\ loader' = [loader EXCEPT !.pc = "idle"]
    BY DEF LoadNoRoute, FileInv, LayerInv
  <1>2. halted' \in BOOLEAN
    BY <1>1
  <1> QED
    BY <1>1, <1>2, LoaderIdle

LEMMA LoadReadStep ==
  ASSUME FileInv, LoadRead
  PROVE  FileInv' /\ fs' = fs
  <1>1. UNCHANGED <<fs, holds, raced>> /\ halted' \in BOOLEAN /\ ~halted
        /\ loader' = [loader EXCEPT !.pc = "idle"]
    BY DEF LoadRead
  <1> QED
    BY <1>1, LoaderIdle

\* The end of the loader's open, whether or not the entry was there already.
LEMMA LoaderReturns ==
  ASSUME LayerInv, loader.pc \in {"push", "assign"},
         loader' = [loader EXCEPT !.pc = IF Head(loader.seen).exists THEN "read" ELSE "idle",
                                  !.seen = <<>>],
         holds' = IF Head(loader.seen).exists
                  THEN holds \cup {[who |-> "loader", fd |-> Head(loader.seen).fd,
                                    path |-> Head(loader.seen).path]}
                  ELSE holds
  PROVE  /\ Head(loader.seen) \in File /\ ReachedDeepest(fs.mounts, Head(loader.seen))
         /\ fs.mounts # <<>> /\ Len(loader.seen) = loader.at + 1 /\ loader.at \in Nat
         /\ loader.seen \in Seq(File) /\ loader.seen # <<>>
         /\ Head(loader.seen).fd = loader.fd /\ loader.at <= Len(fs.arr)
         /\ loader' \in [pc : Pcs, fd : Nat, path : PathType, at : Nat, seen : Seq(File)]
         /\ loader'.pc = IF Head(loader.seen).exists THEN "read" ELSE "idle"
         /\ loader'.at = loader.at /\ loader'.fd = loader.fd /\ holds' \subseteq Hold
  <1> DEFINE e == Head(loader.seen)
             pc == IF e.exists THEN "read" ELSE "idle"
             nil == <<>>
  <1>1. /\ loader \in [pc : Pcs, fd : Nat, path : PathType, at : Nat, seen : Seq(File)]
        /\ loader.seen # <<>> /\ Head(loader.seen).fd = loader.fd
        /\ ReachedDeepest(fs.mounts, Head(loader.seen)) /\ fs.mounts # <<>>
        /\ Len(loader.seen) = loader.at + 1 /\ loader.at <= Len(fs.arr) /\ holds \subseteq Hold
    BY DEF LayerInv, LoaderOK
  <1>2. loader.seen \in Seq(File) /\ loader.at \in Nat
    BY <1>1
  <1>3. e \in File
    BY <1>1, <1>2, HeadTailProperties
  <1>4. pc \in Pcs /\ nil \in Seq(File)
    BY DEF Pcs
  <1>5. loader' = [loader EXCEPT !.pc = pc, !.seen = nil]
    OBVIOUS
  <1> HIDE DEF pc, nil
  <1>6. /\ loader' \in [pc : Pcs, fd : Nat, path : PathType, at : Nat, seen : Seq(File)]
        /\ loader'.pc = pc /\ loader'.at = loader.at /\ loader'.fd = loader.fd
    BY <1>1, <1>4, <1>5
  <1>7. holds' \subseteq Hold
    <2>1. [who |-> "loader", fd |-> e.fd, path |-> e.path] \in Hold
      BY <1>3 DEF Hold, File
    <2> QED
      BY <1>1, <2>1
  <1> QED
    BY <1>1, <1>2, <1>3, <1>6, <1>7 DEF pc

\* pushBack's store: unless fdMapping changed since its length was read, the new
\* entry is behind the others.
LEMMA LoadPushStep ==
  ASSUME FileInv, LoadPush
  PROVE  FileInv' /\ fs'.opens = fs.opens
  <1> DEFINE e == Head(loader.seen)
             n == loader.at + 1
             arr == Put(fs.arr, n, e)
  <1>1. /\ UNCHANGED halted /\ ~halted /\ LayerInv /\ LayerOK(fs) /\ loader.pc = "push"
        /\ fs' = [fs EXCEPT !.arr = arr, !.len = n]
        /\ holds' = IF e.exists
                    THEN holds \cup {[who |-> "loader", fd |-> e.fd, path |-> e.path]}
                    ELSE holds
    BY DEF LoadPush, FileInv, LayerInv
  <1>2. /\ e \in File /\ ReachedDeepest(fs.mounts, e) /\ e.fd = loader.fd
        /\ fs.mounts # <<>> /\ Len(loader.seen) = loader.at + 1 /\ loader.at \in Nat
        /\ loader.seen \in Seq(File) /\ loader.seen # <<>> /\ loader.at <= Len(fs.arr)
        /\ loader' \in [pc : Pcs, fd : Nat, path : PathType, at : Nat, seen : Seq(File)]
        /\ loader'.pc = IF e.exists THEN "read" ELSE "idle"
        /\ loader'.at = loader.at /\ loader'.fd = loader.fd /\ holds' \subseteq Hold
    BY <1>1, LoaderReturns DEF LoadPush
  <1>3. raced' = (raced \/ Entries(fs) # Tail(loader.seen))
    BY DEF LoadPush
  <1> HIDE DEF e
  <1>4. /\ fs.arr \in Seq(File) /\ Len(fs.arr) \in Nat /\ fs.len \in 0 .. Len(fs.arr)
        /\ fs \in FsState
    BY <1>1, ArrayElements DEF LayerOK
  <1>5. n \in 1 .. Len(fs.arr) + 1 /\ n \in Nat
    BY <1>2, <1>4
  <1>6. /\ arr \in Seq(File) /\ Len(arr) \in Nat /\ n \in 1 .. Len(arr)
        /\ Len(arr) >= Len(fs.arr) /\ arr[n] = e
        /\ \A i \in 1 .. Len(arr) : i # n => i \in 1 .. Len(fs.arr) /\ arr[i] = fs.arr[i]
    <2>1. e \in File /\ fs.arr \in Seq(File)
      BY <1>2, <1>4
    <2> HIDE DEF n
    <2> QED
      BY <1>5, <2>1, PutElements
  <1> HIDE DEF arr, n
  <1>7. /\ fs' \in FsState /\ fs'.mounts = fs.mounts /\ fs'.arr = arr /\ fs'.len = n
        /\ fs'.latestFd = fs.latestFd /\ fs'.stdin = fs.stdin /\ fs'.cursor = fs.cursor
        /\ fs'.opens = fs.opens
    <2>1. fs' \in FsState
      BY <1>1, <1>4, <1>5, <1>6 DEF FsState
    <2> QED
      BY <1>1, <1>4, <2>1 DEF FsState
  <1>8. \A i \in 1 .. Len(arr) : ReachedDeepest(fs.mounts, arr[i])
    BY <1>1, <1>2, <1>6 DEF LayerOK
  <1>9. LayerOK(fs')
    BY <1>1, <1>2, <1>6, <1>7, <1>8 DEF LayerOK
  <1>10. LoaderOK'
    <2>1. loader'.pc \in {"read", "idle"} /\ loader'.at <= Len(fs'.arr)
      BY <1>2, <1>4, <1>6, <1>7
    <2> QED
      BY <1>2, <2>1 DEF LoaderOK
  <1>11. LayerInv'
    <2>1. raced' \in BOOLEAN
      BY <1>3
    <2> QED
      BY <1>1, <1>2, <1>7, <1>9, <1>10, <2>1 DEF LayerInv
  <1>12. ASSUME ~raced' PROVE Descriptors'
    <2>1. ~raced /\ Entries(fs) = Tail(loader.seen)
      BY <1>3, <1>12
    <2>2. FdsOK(fs) /\ HoldsOK(fs, holds) /\ LoaderFd
      BY <2>1 DEF FileInv
    <2>3. fs.len = loader.at
      <3>1. Len(Entries(fs)) = fs.len
        BY <1>4, SubSeqProperties DEF Entries
      <3>2. Len(Tail(loader.seen)) = loader.at
        BY <1>2, HeadTailProperties
      <3> QED
        BY <2>1, <3>1, <3>2
    <2>4. n = fs.len + 1
      BY <2>3 DEF n
    <2>5. Added(fs, fs', e)
      BY <1>4, <1>6, <1>7, <2>4 DEF Added
    <2>6. e.fd < fs'.latestFd /\ e.fd \notin Keys(fs) /\ fs'.latestFd >= fs.latestFd
      <3>1. fs.latestFd \in Nat /\ fs'.latestFd = fs.latestFd /\ e.fd = loader.fd /\ loader.pc = "push"
        BY <1>1, <1>2, <1>4, <1>7 DEF FsState
      <3>2. loader.fd < fs.latestFd /\ loader.fd \notin Keys(fs)
        BY <2>2, <3>1 DEF LoaderFd
      <3> QED
        BY <3>1, <3>2
    <2>7. FdsOK(fs') /\ HoldsOK(fs', holds')
      <3>1. /\ FdsOK(fs')
            /\ HoldsOK(fs', IF e.exists
                            THEN holds \cup {[who |-> "loader", fd |-> e.fd, path |-> e.path]}
                            ELSE holds)
        <4>1. e \in File /\ LayerOK(fs)
          BY <1>1, <1>2
        <4> QED
          BY <1>9, <2>2, <2>5, <2>6, <4>1, AddedFds
      <3> QED
        BY <1>1, <3>1
    <2>8. LoaderFd'
      <3>1. e.exists => \E h \in holds' : h.who = "loader" /\ h.fd = e.fd
        <4>1. e.exists => [who |-> "loader", fd |-> e.fd, path |-> e.path] \in holds'
          BY <1>1
        <4> QED
          BY <4>1
      <3>2. loader'.pc = "read" => e.exists
        BY <1>2
      <3>3. loader'.pc \in {"read", "idle"}
        BY <1>2
      <3> QED
        BY <1>2, <3>1, <3>2, <3>3 DEF LoaderFd
    <2> QED
      BY <2>7, <2>8 DEF Descriptors
  <1> QED
    BY <1>7, <1>11, <1>12 DEF FileInv, Descriptors

\* The loader finds its descriptor in fdMapping only when it was given out twice.
LEMMA LoadAssignStep ==
  ASSUME FileInv, LoadAssign
  PROVE  FileInv' /\ fs' = fs
  <1> DEFINE e == Head(loader.seen)
  <1>1. UNCHANGED <<fs, raced, halted>> /\ ~halted /\ LayerInv /\ loader.pc = "assign"
    BY DEF LoadAssign, FileInv
  <1>2. raced
    BY <1>1 DEF FileInv, LoaderFd
  <1>3. /\ loader.at <= Len(fs.arr)
        /\ loader' \in [pc : Pcs, fd : Nat, path : PathType, at : Nat, seen : Seq(File)]
        /\ loader'.pc = IF e.exists THEN "read" ELSE "idle"
        /\ loader'.at = loader.at /\ loader'.fd = loader.fd /\ holds' \subseteq Hold
    BY <1>1, LoaderReturns DEF LoadAssign
  <1> HIDE DEF e
  <1>4. LoaderOK'
    <2>1. loader'.pc \in {"read", "idle"}
      BY <1>3
    <2> QED
      BY <1>1, <1>3, <2>1 DEF LoaderOK
  <1>5. LayerInv'
    BY <1>1, <1>3, <1>4 DEF LayerInv
  <1> QED
    BY <1>1, <1>2, <1>5 DEF FileInv

-----------------------------------------------------------------------------
\* The theorems.

\* The inductive invariant of the file layer: what system calls, the keyboard
\* handler and the loader's open, cut where they can get in, all keep.
THEOREM FileInvariant == Spec => []FileInv
  <1>1. FileInv /\ [Next]_vars => FileInv'
    <2> SUFFICES ASSUME FileInv, [Next]_vars PROVE FileInv'
      OBVIOUS
    <2>1. ASSUME NEW roots \in Disks, FsInit(roots) PROVE FileInv'
      BY <2>1, FsInitStep
    <2>2. ASSUME NEW p \in Procs, Calls(p) PROVE FileInv'
      <3>1. ASSUME NEW path \in Paths, SysOpen(p, path) PROVE FileInv'
        BY <3>1, SysOpenStep
      <3>2. ASSUME NEW fd \in Own(p) \cup Stale \cup {NoFd},
                   SysClose(p, fd) \/ SysRead(p, fd) \/ SysWrite(p, fd, "a")
            PROVE  FileInv'
        BY <3>2, SysCloseStep, SysReadStep, SysWriteStep
      <3> QED
        BY <2>2, <3>1, <3>2 DEF Calls
    <2>3. CASE KeyPress("a")
      BY <2>3, KeyPressStep
    <2>4. CASE Load
      <3>1. ASSUME NEW path \in LoaderPaths, LoadFd(path) PROVE FileInv'
        BY <3>1, LoadFdStep
      <3> QED
        BY <2>4, <3>1, LoadStoreStep, LoadOpenStep, LoadNoRouteStep, LoadPushStep,
           LoadAssignStep, LoadReadStep DEF Load
    <2>5. CASE UNCHANGED vars
      <3>1. LayerInv'
        BY <2>5 DEF FileInv, LayerInv, LoaderOK, vars
      <3>2. ~raced' => FdsOK(fs') /\ HoldsOK(fs', holds') /\ LoaderFd'
        BY <2>5 DEF FileInv, LoaderFd, vars
      <3> QED
        BY <3>1, <3>2 DEF FileInv
    <2> QED
      BY <2>1, <2>2, <2>3, <2>4, <2>5 DEF Next
  <1> QED
    BY <1>1, InitFileInv, PTL DEF Spec

\* FileSystem::open hands every path that is not shorter than a key to the driver
\* of the deepest mount point it lies under, for every disk and every path.
THEOREM PathsAreRouted == Spec => []Routed
  <1>1. FileInv => Routed
    <2> SUFFICES ASSUME FileInv, NEW i \in 1 .. fs.len PROVE ReachedDeepest(fs.mounts, fs.arr[i])
      BY DEF Routed, ReachedDeepest
    <2>1. LayerOK(fs)
      BY DEF FileInv, LayerInv
    <2>2. i \in 1 .. Len(fs.arr)
      BY <2>1, ArrayElements
    <2> QED
      BY <2>1, <2>2 DEF LayerOK
  <1> QED
    BY <1>1, FileInvariant, PTL

\* The stdin buffer keeps the terminator that readers and the handler's strlen
\* rely on, whatever its size and however many characters were written.
THEOREM StdinIsTerminated == Spec => []StdinTerminated
  <1>1. FileInv => StdinTerminated
    BY DEF FileInv, LayerInv, LayerOK, StdinTerminated
  <1> QED
    BY <1>1, FileInvariant, PTL

\* As long as none of the loader's windows is hit, open, close, the keyboard
\* handler and the loader keep descriptors and fdMapping in step: each descriptor
\* has one holder and one entry, of the file its holder opened.
THEOREM DescriptorsMatchFiles == Spec => []DescriptorsMatch
  <1>1. FileInv => DescriptorsMatch
    BY DEF FileInv, FdsOK, HoldsOK, DescriptorsMatch
  <1> QED
    BY <1>1, FileInvariant, PTL

\* The same entries make the same map.
LEMMA SameEntries ==
  ASSUME NEW f, LayerOK(f), NEW g, LayerOK(g), Same(f, g)
  PROVE  Entries(g) = Entries(f)
  <1>1. /\ f.len \in Nat /\ g.len = f.len
        /\ \A i \in 1 .. f.len : f.arr[i] \in File /\ g.arr[i] \in File /\ g.arr[i] = f.arr[i]
    BY ArrayElements DEF Same
  <1>2. /\ Entries(f) \in Seq(File) /\ Len(Entries(f)) = f.len
        /\ \A i \in 1 .. f.len : Entries(f)[i] = f.arr[i]
    BY <1>1, SubSeqProperties DEF Entries
  <1>3. /\ Entries(g) \in Seq(File) /\ Len(Entries(g)) = f.len
        /\ \A i \in 1 .. f.len : Entries(g)[i] = g.arr[i]
    BY <1>1, SubSeqProperties DEF Entries
  <1> QED
    BY <1>1, <1>2, <1>3, SeqEqual

\* keyboardHandler puts fdMapping back as it found it, also between two stores of
\* the loader's open: its two descriptors are new, so each close takes the entry
\* its own open put last.
THEOREM KeyPressLeavesDescriptors == Spec => KeyLeavesDescriptors
  <1>1. FileInv /\ FileInv' /\ [Next]_vars =>
           [(~raced /\ fs'.opens = fs.opens + 2) => Entries(fs') = Entries(fs)]_vars
    <2> SUFFICES ASSUME FileInv, FileInv', Next, ~raced, fs'.opens = fs.opens + 2
                 PROVE  Entries(fs') = Entries(fs)
      BY DEF vars
    <2>1. LayerOK(fs) /\ LayerOK(fs') /\ fs \in FsState /\ fs.opens \in Nat
      BY DEF FileInv, LayerInv, LayerOK, FsState
    <2>2. CASE KeyPress("a")
      BY <2>1, <2>2, KeyPressOK, SameEntries
    <2>3. fs'.opens = fs.opens => FALSE
      BY <2>1
    <2>4. fs'.opens = fs.opens + 1 => FALSE
      BY <2>1
    <2>5. ASSUME NEW roots \in Disks, FsInit(roots) PROVE FALSE
      <3>1. fs' = [fs EXCEPT !.mounts = Mounted(roots), !.blocks = 2 * Len(Mounted(roots))]
        BY <2>5 DEF FsInit
      <3>2. fs'.opens = fs.opens
        BY <2>1, <3>1 DEF FsState
      <3> QED
        BY <2>3, <3>2
    <2>6. ASSUME NEW p \in Procs, Calls(p) PROVE FALSE
      <3>1. ASSUME NEW path \in Paths, SysOpen(p, path) PROVE FALSE
        BY <2>4, <3>1, SysOpenStep
      <3>2. ASSUME NEW fd \in Own(p) \cup Stale \cup {NoFd},
                   SysClose(p, fd) \/ SysRead(p, fd) \/ SysWrite(p, fd, "a")
            PROVE  FALSE
        BY <2>3, <3>2, SysCloseStep, SysReadStep, SysWriteStep
      <3> QED
        BY <2>6, <3>1, <3>2 DEF Calls
    <2>7. CASE Load
      <3>1. ASSUME NEW path \in LoaderPaths, LoadFd(path) PROVE fs' = fs
        BY <3>1 DEF LoadFd
      <3>2. fs' = fs \/ fs'.opens = fs.opens \/ fs'.opens = fs.opens + 1
        BY <2>7, <3>1, LoadStoreStep, LoadOpenStep, LoadNoRouteStep, LoadPushStep,
           LoadAssignStep, LoadReadStep DEF Load
      <3> QED
        BY <2>3, <2>4, <3>2
    <2> QED
      BY <2>2, <2>5, <2>6, <2>7 DEF Next
  <1> QED
    BY <1>1, FileInvariant, PTL DEF Spec, KeyLeavesDescriptors

\* A descriptor that is held has its entry.
LEMMA HeldIsThere ==
  ASSUME FileInv, ~raced, NEW h \in holds
  PROVE  h.fd \in Keys(fs)
  BY DEF FileInv, HoldsOK, Keys

\* On a mounted system, kpanic is reached from the file layer only by a process
\* that reads or closes a descriptor that is closed already.
THEOREM PanicNeedsStaleDescriptor == Spec => PanicsOnlyOnStale
  <1>1. FileInv /\ [Next]_vars =>
           [(halted' /\ ~halted /\ ~raced /\ fs.mounts # <<>>) =>
               \E p \in Procs, fd \in Stale : SysClose(p, fd) \/ SysRead(p, fd)]_vars
    <2> SUFFICES ASSUME FileInv, Next, halted', ~halted, ~raced, fs.mounts # <<>>
                 PROVE  \E p \in Procs, fd \in Stale : SysClose(p, fd) \/ SysRead(p, fd)
      BY DEF vars
    <2>1. ASSUME NEW roots \in Disks, FsInit(roots) PROVE FALSE
      BY <2>1 DEF FsInit
    <2>2. ASSUME NEW p \in Procs, Calls(p)
          PROVE  \E fd \in Stale : SysClose(p, fd) \/ SysRead(p, fd)
      <3>1. ASSUME NEW path \in Paths PROVE ~SysOpen(p, path)
        BY DEF SysOpen
      <3>2. ASSUME NEW fd \in Own(p) \cup Stale \cup {NoFd}, SysClose(p, fd) \/ SysRead(p, fd)
            PROVE  fd \in Stale
        <4>1. fd # NoFd /\ fd \notin Keys(fs)
          BY <3>2 DEF SysClose, SysRead
        <4>2. fd \notin Own(p)
          BY <4>1, HeldIsThere DEF Own
        <4> QED
          BY <4>1, <4>2
      <3>3. ASSUME NEW fd PROVE ~SysWrite(p, fd, "a")
        BY DEF SysWrite
      <3> QED
        BY <2>2, <3>1, <3>2, <3>3 DEF Calls
    <2>3. CASE KeyPress("a")
      BY <2>3, KeyPressOK
    <2>4. ASSUME LoadRead PROVE FALSE
      <3>1. loader.pc = "read" /\ loader.fd \notin Keys(fs)
        BY <2>4 DEF LoadRead
      <3>2. PICK h \in holds : h.fd = loader.fd
        BY <3>1 DEF FileInv, LoaderFd
      <3> QED
        BY <3>1, <3>2, HeldIsThere
    <2>5. ~Load
      BY <2>4 DEF Load, LoadFd, LoadStore, LoadOpen, LoadNoRoute, LoadPush, LoadAssign
    <2> QED
      BY <2>1, <2>2, <2>3, <2>5 DEF Next
  <1> QED
    BY <1>1, FileInvariant, PTL DEF Spec, PanicsOnlyOnStale

-----------------------------------------------------------------------------
\* The heap: what the layer took and did not give back.

\* The entries whose fsData is at least n blocks, and the blocks of all of them.
WithBlocks(f, n) == {i \in 1 .. f.len : Blocks(f.arr[i].data) >= n}
Held(f) == Cardinality(WithBlocks(f, 1)) + Cardinality(WithBlocks(f, 2))

\* What is on the heap beyond the mount points, the calls of open, the copies of
\* what went to stdout and the fsData of the entries.
Excess(f) == f.blocks - (2 * Len(f.mounts) + f.opens + f.copies + Held(f))

LEMMA FileBlocks ==
  ASSUME NEW e \in File
  PROVE  Blocks(e.data) \in {0, 1, 2}
  BY DEF File, Blocks, Garbage

LEMMA HeldFinite ==
  ASSUME NEW f, LayerOK(f), NEW n
  PROVE  IsFiniteSet(WithBlocks(f, n)) /\ Cardinality(WithBlocks(f, n)) \in Nat
  <1>1. 1 \in Int /\ f.len \in Int
    BY ArrayElements
  <1>2. IsFiniteSet(1 .. f.len)
    BY <1>1, FS_Interval
  <1>3. WithBlocks(f, n) \subseteq 1 .. f.len
    BY DEF WithBlocks
  <1> QED
    BY <1>2, <1>3, FS_Subset, FS_CardinalityType

LEMMA LayerNumbers ==
  ASSUME NEW f, LayerOK(f)
  PROVE  /\ f.blocks \in Int /\ f.opens \in Nat /\ f.copies \in Nat /\ f.latestFd \in Nat
         /\ Len(f.mounts) \in Nat /\ Held(f) \in Nat
  <1>1. f.mounts \in Seq(Mount) /\ f.blocks \in Int /\ f.opens \in Nat /\ f.copies \in Nat /\ f.latestFd \in Nat
    BY DEF LayerOK, FsState
  <1>2. Held(f) \in Nat
    BY HeldFinite DEF Held
  <1> QED
    BY <1>1, <1>2, LenProperties

LEMMA SameHeld ==
  ASSUME NEW f, NEW g, Same(f, g)
  PROVE  Held(g) = Held(f)
  <1>1. ASSUME NEW n PROVE WithBlocks(g, n) = WithBlocks(f, n)
    BY DEF WithBlocks, Same
  <1> QED
    BY <1>1 DEF Held

LEMMA AddedHeld ==
  ASSUME NEW f, LayerOK(f), NEW g, NEW e \in File, Added(f, g, e)
  PROVE  Held(g) = Held(f) + Blocks(e.data)
  <1>1. f.len \in Nat
    BY ArrayElements
  <1>2. ASSUME NEW n \in {1, 2}
        PROVE  Cardinality(WithBlocks(g, n)) = Cardinality(WithBlocks(f, n))
                                               + (IF Blocks(e.data) >= n THEN 1 ELSE 0)
    <2>1. f.len + 1 \notin WithBlocks(f, n)
      BY <1>1 DEF WithBlocks
    <2>2. IsFiniteSet(WithBlocks(f, n)) /\ Cardinality(WithBlocks(f, n)) \in Nat
      BY HeldFinite
    <2>3. CASE Blocks(e.data) >= n
      <3>1. WithBlocks(g, n) = WithBlocks(f, n) \cup {f.len + 1}
        BY <1>1, <2>3 DEF WithBlocks, Added
      <3> QED
        BY <2>1, <2>2, <2>3, <3>1, FS_AddElement
    <2>4. CASE ~(Blocks(e.data) >= n)
      <3>1. WithBlocks(g, n) = WithBlocks(f, n)
        BY <1>1, <2>4 DEF WithBlocks, Added
      <3> QED
        BY <2>2, <2>4, <3>1
    <2> QED
      BY <2>3, <2>4
  <1>3. Blocks(e.data) \in {0, 1, 2}
    BY FileBlocks
  <1>4. Cardinality(WithBlocks(f, 1)) \in Nat /\ Cardinality(WithBlocks(f, 2)) \in Nat
    BY HeldFinite
  <1> QED
    BY <1>2, <1>3, <1>4 DEF Held

\* The entries behind a removed one move up: one to one.
LEMMA RemovedHeld ==
  ASSUME NEW f, LayerOK(f), NEW g, LayerOK(g), NEW i \in 1 .. f.len, Removed(f, g, i)
  PROVE  Held(g) = Held(f) - Blocks(f.arr[i].data)
  <1>1. f.len \in Nat /\ g.len = f.len - 1 /\ f.arr[i] \in File
    BY ArrayElements DEF Removed
  <1> DEFINE at(j) == IF j < i THEN j ELSE j + 1
  <1>2. \A j \in 1 .. g.len : at(j) \in 1 .. f.len /\ at(j) # i /\ g.arr[j] = f.arr[at(j)]
    BY <1>1 DEF Removed
  <1>3. \A j, k \in 1 .. g.len : at(j) = at(k) => j = k
    BY <1>1
  <1>4. \A k \in 1 .. f.len : k # i => \E j \in 1 .. g.len : at(j) = k
    <2> SUFFICES ASSUME NEW k \in 1 .. f.len, k # i PROVE \E j \in 1 .. g.len : at(j) = k
      OBVIOUS
    <2>1. CASE k < i
      BY <1>1, <2>1
    <2>2. CASE k > i
      <3>1. k - 1 \in 1 .. g.len /\ at(k - 1) = k
        BY <1>1, <2>2
      <3> QED
        BY <3>1
    <2> QED
      BY <1>1, <2>1, <2>2
  <1> HIDE DEF at
  <1>5. ASSUME NEW n \in {1, 2}
        PROVE  Cardinality(WithBlocks(g, n)) = Cardinality(WithBlocks(f, n))
                                               - (IF Blocks(f.arr[i].data) >= n THEN 1 ELSE 0)
    <2> DEFINE S == WithBlocks(g, n)
               T == WithBlocks(f, n) \ {i}
               m == [j \in S |-> at(j)]
    <2>1. IsFiniteSet(S) /\ IsFiniteSet(WithBlocks(f, n)) /\ Cardinality(WithBlocks(f, n)) \in Nat
      BY HeldFinite
    <2>2. \A j \in S : at(j) \in T
      BY <1>2 DEF WithBlocks
    <2>3. \A j, k \in S : at(j) = at(k) => j = k
      BY <1>3 DEF WithBlocks
    <2>4. \A k \in T : \E j \in S : at(j) = k
      <3> SUFFICES ASSUME NEW k \in T PROVE \E j \in S : at(j) = k
        OBVIOUS
      <3>1. k \in 1 .. f.len /\ k # i /\ Blocks(f.arr[k].data) >= n
        BY DEF WithBlocks
      <3>2. PICK j \in 1 .. g.len : at(j) = k
        BY <1>4, <3>1
      <3> QED
        BY <1>2, <3>1, <3>2 DEF WithBlocks
    <2> HIDE DEF S, T
    <2>5. m \in Bijection(S, T)
      <3>1. m \in [S -> T] /\ \A j \in S : m[j] = at(j)
        BY <2>2
      <3>2. \A j, k \in S : m[j] = m[k] => j = k
        BY <2>3, <3>1
      <3>3. \A k \in T : \E j \in S : m[j] = k
        BY <2>4, <3>1
      <3> HIDE DEF m
      <3>4. m \in Injection(S, T)
        BY <3>1, <3>2 DEF Injection, IsInjective
      <3>5. m \in Surjection(S, T)
        BY <3>1, <3>3 DEF Surjection
      <3> QED
        BY <3>4, <3>5 DEF Bijection
    <2>6. Cardinality(T) = Cardinality(S)
      BY <2>1, <2>5, FS_Bijection DEF ExistsBijection
    <2>7. CASE Blocks(f.arr[i].data) >= n
      <3>1. i \in WithBlocks(f, n)
        BY <2>7 DEF WithBlocks
      <3>2. Cardinality(T) = Cardinality(WithBlocks(f, n)) - 1
        BY <2>1, <3>1, FS_RemoveElement DEF T
      <3> QED
        BY <2>6, <2>7, <3>2 DEF S
    <2>8. CASE ~(Blocks(f.arr[i].data) >= n)
      <3>1. T = WithBlocks(f, n)
        BY <2>8 DEF WithBlocks, T
      <3> QED
        BY <2>1, <2>6, <2>8, <3>1 DEF S
    <2> QED
      BY <2>7, <2>8
  <1>6. Blocks(f.arr[i].data) \in {0, 1, 2}
    BY <1>1, FileBlocks
  <1>7. Cardinality(WithBlocks(f, 1)) \in Nat /\ Cardinality(WithBlocks(f, 2)) \in Nat
    BY HeldFinite
  <1> QED
    BY <1>5, <1>6, <1>7 DEF Held

LEMMA ExcessChange ==
  ASSUME NEW f, LayerOK(f), NEW g, LayerOK(g), g.mounts = f.mounts
  PROVE  /\ Excess(f) \in Int /\ Excess(g) \in Int
         /\ Excess(g) = Excess(f) + (g.blocks - f.blocks) - (g.opens - f.opens)
                        - (g.copies - f.copies) - (Held(g) - Held(f))
  <1> DEFINE m == 2 * Len(f.mounts)
  <1>1. /\ f.blocks \in Int /\ f.opens \in Nat /\ f.copies \in Nat /\ Held(f) \in Nat
        /\ g.blocks \in Int /\ g.opens \in Nat /\ g.copies \in Nat /\ Held(g) \in Nat
        /\ m \in Int
    BY LayerNumbers
  <1>2. /\ Excess(f) = f.blocks - (m + f.opens + f.copies + Held(f))
        /\ Excess(g) = g.blocks - (m + g.opens + g.copies + Held(g))
    BY DEF Excess
  <1> HIDE DEF m
  <1> QED
    BY <1>1, <1>2

\* Each operation of the layer takes what it accounts for.
LEMMA OpenExcess ==
  ASSUME NEW f, LayerOK(f), FdsOK(f), f.mounts \in MountTables \cup {<<>>}, NEW p \in PathType,
         NEW r \in Open(f, p)
  PROVE  Excess(r.f) = Excess(f)
  <1> DEFINE g == r.f
  <1>1. /\ LayerOK(g) /\ Beside(f, g) /\ g.opens = f.opens + 1 /\ g.copies = f.copies
        /\ \/ g.arr = f.arr /\ g.len = f.len /\ g.blocks = f.blocks + 1
           \/ \E e \in File : /\ e.fd = f.latestFd /\ g.blocks = f.blocks + 1 + Blocks(e.data)
                              /\ e.fd \notin Keys(f) => Added(f, g, e)
    BY OpenOK
  <1> HIDE DEF g
  <1>2. /\ f.blocks \in Int /\ f.opens \in Nat /\ f.copies \in Nat /\ f.latestFd \in Nat
        /\ Held(f) \in Nat
    BY LayerNumbers
  <1>3. /\ Excess(f) \in Int
        /\ Excess(g) = Excess(f) + (g.blocks - f.blocks) - (g.opens - f.opens)
                       - (g.copies - f.copies) - (Held(g) - Held(f))
    BY <1>1, ExcessChange DEF Beside
  <1>4. CASE g.arr = f.arr /\ g.len = f.len /\ g.blocks = f.blocks + 1
    <2>1. Held(g) = Held(f)
      BY <1>4, SameHeld DEF Same
    <2>2. Excess(g) = Excess(f)
      BY <1>1, <1>2, <1>3, <1>4, <2>1
    <2> QED
      BY <2>2 DEF g
  <1>5. ASSUME NEW e \in File, e.fd = f.latestFd, g.blocks = f.blocks + 1 + Blocks(e.data),
               e.fd \notin Keys(f) => Added(f, g, e)
        PROVE  Excess(r.f) = Excess(f)
    <2>1. e.fd \notin Keys(f)
      BY <1>2, <1>5 DEF FdsOK, Keys
    <2>2. Held(g) = Held(f) + Blocks(e.data)
      BY <1>5, <2>1, AddedHeld
    <2>3. Blocks(e.data) \in Int
      BY FileBlocks
    <2>4. Excess(g) = Excess(f)
      BY <1>1, <1>2, <1>3, <1>5, <2>2, <2>3
    <2> QED
      BY <2>4 DEF g
  <1> QED
    BY <1>1, <1>4, <1>5

LEMMA CloseExcess ==
  ASSUME NEW f, LayerOK(f), NEW fd \in Keys(f)
  PROVE  Excess(Close(f, fd)) = Excess(f)
  <1> DEFINE g == Close(f, fd)
             b == Blocks(f.arr[IndexOf(f, fd)].data)
  <1>1. /\ LayerOK(g) /\ Beside(f, g) /\ g.opens = f.opens /\ g.copies = f.copies
        /\ g.blocks = f.blocks - b /\ Removed(f, g, IndexOf(f, fd))
    BY CloseOK
  <1>2. IndexOf(f, fd) \in 1 .. f.len
    BY IndexOfOK
  <1>3. Held(g) = Held(f) - b /\ b \in Int
    <2>1. f.arr[IndexOf(f, fd)] \in File
      BY <1>2, ArrayElements
    <2> QED
      BY <1>1, <1>2, <2>1, RemovedHeld, FileBlocks
  <1>4. f.blocks \in Int /\ f.opens \in Nat /\ f.copies \in Nat /\ Held(f) \in Nat
    BY LayerNumbers
  <1> HIDE DEF g, b
  <1>5. /\ Excess(f) \in Int
        /\ Excess(g) = Excess(f) + (g.blocks - f.blocks) - (g.opens - f.opens)
                       - (g.copies - f.copies) - (Held(g) - Held(f))
    BY <1>1, ExcessChange DEF Beside
  <1>6. Excess(g) = Excess(f)
    BY <1>1, <1>3, <1>4, <1>5
  <1> QED
    BY <1>6 DEF g

LEMMA WriteExcess ==
  ASSUME NEW f, LayerOK(f), NEW fd
  PROVE  Excess(Write(f, fd, "a")) = Excess(f)
  <1> DEFINE g == Write(f, fd, "a")
  <1>1. /\ LayerOK(g) /\ g.mounts = f.mounts /\ g.arr = f.arr /\ g.len = f.len /\ g.opens = f.opens
        /\ g.blocks - g.copies = f.blocks - f.copies
    BY WriteOK
  <1> HIDE DEF g
  <1>2. /\ f.blocks \in Int /\ f.opens \in Nat /\ f.copies \in Nat /\ g.blocks \in Int /\ g.copies \in Nat
        /\ Held(f) \in Nat
    BY <1>1, LayerNumbers
  <1>3. Held(g) = Held(f)
    BY <1>1, SameHeld DEF Same
  <1>4. /\ Excess(f) \in Int
        /\ Excess(g) = Excess(f) + (g.blocks - f.blocks) - (g.opens - f.opens)
                       - (g.copies - f.copies) - (Held(g) - Held(f))
    BY <1>1, ExcessChange
  <1>5. Excess(g) = Excess(f)
    BY <1>1, <1>2, <1>3, <1>4
  <1> QED
    BY <1>5 DEF g

\* The fsData of the file the loader has opened and not entered yet.
InFlight == IF loader.pc = "push" THEN Blocks(Head(loader.seen).data) ELSE 0

\* The books of the layer.  Every open took a number, and nothing can be written
\* to stdout before it is mounted: init starts from nothing taken.
BooksInv ==
    /\ ~raced => Excess(fs) = InFlight /\ fs.opens = fs.latestFd - 1
    /\ fs.mounts = <<>> => fs.copies = 0

\* A step of f to g that takes what it accounts for.
KeepsBooks(f, g) ==
    /\ Excess(g) = Excess(f)
    /\ f.opens = f.latestFd - 1 => g.opens = g.latestFd - 1

LEMMA OpenKeepsBooks ==
  ASSUME NEW f, LayerOK(f), FdsOK(f), f.mounts \in MountTables \cup {<<>>}, NEW p \in PathType,
         NEW r \in Open(f, p)
  PROVE  KeepsBooks(f, r.f)
  <1>1. Excess(r.f) = Excess(f)
    BY OpenExcess
  <1>2. r.f.latestFd = f.latestFd + 1 /\ r.f.opens = f.opens + 1
    BY OpenOK
  <1>3. f.latestFd \in Nat /\ f.opens \in Nat
    BY LayerNumbers
  <1> QED
    BY <1>1, <1>2, <1>3 DEF KeepsBooks

LEMMA CloseKeepsBooks ==
  ASSUME NEW f, LayerOK(f), NEW fd \in Keys(f)
  PROVE  KeepsBooks(f, Close(f, fd))
  BY CloseExcess, CloseOK DEF KeepsBooks

LEMMA WriteKeepsBooks ==
  ASSUME NEW f, LayerOK(f), NEW fd
  PROVE  KeepsBooks(f, Write(f, fd, "a"))
  BY WriteExcess, WriteOK DEF KeepsBooks

\* A step in which the loader does not take part.
LEMMA LoaderApart ==
  ASSUME BooksInv, UNCHANGED <<loader, raced>>, fs'.mounts = fs.mounts,
         ~raced => KeepsBooks(fs, fs'), fs.mounts = <<>> => fs'.copies = fs.copies
  PROVE  BooksInv'
  <1>1. InFlight' = InFlight
    BY DEF InFlight
  <1> QED
    BY <1>1 DEF BooksInv, KeepsBooks

LEMMA InitBooks == Init => BooksInv
  <1> SUFFICES ASSUME Init PROVE BooksInv
    OBVIOUS
  <1>1. LayerOK(fs)
    BY InitFileInv DEF FileInv, LayerInv
  <1>2. /\ fs.mounts = <<>> /\ fs.latestFd = 1 /\ fs.len = 0 /\ fs.blocks = 0
        /\ fs.opens = 0 /\ fs.copies = 0 /\ loader.pc = "idle"
    BY DEF Init
  <1>3. WithBlocks(fs, 1) = {} /\ WithBlocks(fs, 2) = {}
    BY <1>2 DEF WithBlocks
  <1>4. Held(fs) = 0
    BY <1>3, FS_EmptySet DEF Held
  <1>5. Excess(fs) = 0
    <2>1. Len(fs.mounts) = 0
      BY <1>2
    <2>2. Excess(fs) = 0 - (2 * 0 + 0 + 0 + 0)
      BY <1>2, <1>4, <2>1 DEF Excess
    <2> QED
      BY <2>2
  <1> QED
    BY <1>2, <1>5 DEF BooksInv, InFlight

LEMMA FsInitBooks ==
  ASSUME FileInv, BooksInv, NEW roots \in Disks, FsInit(roots)
  PROVE  BooksInv'
  <1> DEFINE m == Mounted(roots)
             b == 2 * Len(m)
  <1>1. m \in Seq(Mount) /\ m # <<>> /\ Len(m) \in Nat
    BY MountTable, LenProperties
  <1>2. LayerOK(fs) /\ fs \in FsState /\ fs.arr = <<>> /\ fs.len = 0
    <2>1. LayerOK(fs) /\ fs \in FsState /\ fs.arr = <<>>
      BY DEF FileInv, LayerInv, LayerOK, FsInit
    <2> QED
      BY <2>1 DEF LayerOK, FsState
  <1>3. fs' = [fs EXCEPT !.mounts = m, !.blocks = b]
    BY DEF FsInit
  <1>4. UNCHANGED <<loader, raced>> /\ fs.latestFd = 1 /\ fs.mounts = <<>> /\ loader.pc = "idle"
    BY DEF FsInit
  <1>5. b = 2 * Len(m)
    OBVIOUS
  <1> HIDE DEF m, b
  <1>6. /\ fs'.mounts = m /\ fs'.blocks = b /\ fs'.len = 0 /\ fs'.latestFd = 1
        /\ fs'.opens = fs.opens /\ fs'.copies = fs.copies
    BY <1>2, <1>3, <1>4 DEF FsState
  <1>7. ASSUME ~raced PROVE Excess(fs') = 0 /\ fs'.opens = fs'.latestFd - 1
    <2>1. fs'.opens = 0 /\ fs'.copies = 0
      BY <1>4, <1>6, <1>7 DEF BooksInv
    <2>2. WithBlocks(fs', 1) = {} /\ WithBlocks(fs', 2) = {}
      BY <1>6 DEF WithBlocks
    <2>3. Held(fs') = 0
      BY <2>2, FS_EmptySet DEF Held
    <2>4. Excess(fs') = b - (2 * Len(m) + 0 + 0 + 0)
      BY <1>6, <2>1, <2>3 DEF Excess
    <2> QED
      BY <1>1, <1>5, <1>6, <2>1, <2>4
  <1>8. InFlight' = 0
    BY <1>4 DEF InFlight
  <1> QED
    BY <1>1, <1>4, <1>6, <1>7, <1>8 DEF BooksInv

LEMMA CallBooks ==
  ASSUME FileInv, BooksInv, NEW p \in Procs, Calls(p)
  PROVE  BooksInv'
  <1>1. LayerOK(fs) /\ (~raced => FdsOK(fs))
    BY DEF FileInv, LayerInv
  <1>2. ASSUME NEW path \in Paths, SysOpen(p, path) PROVE BooksInv'
    <2>1. PICK r \in Open(fs, path) : fs' = r.f
      BY <1>2 DEF SysOpen
    <2>2. /\ path \in PathType /\ fs.mounts \in MountTables \cup {<<>>}
          /\ UNCHANGED <<loader, raced>>
      BY <1>2, FsAssumption DEF SysOpen, FileInv, LayerInv
    <2>3. fs'.mounts = fs.mounts /\ fs'.copies = fs.copies
      BY <1>1, <2>1, <2>2, OpenOK DEF Beside
    <2>4. ~raced => KeepsBooks(fs, fs')
      BY <1>1, <2>1, <2>2, OpenKeepsBooks
    <2> QED
      BY <2>2, <2>3, <2>4, LoaderApart
  <1>3. fs' = fs /\ UNCHANGED <<loader, raced>> => BooksInv'
    BY DEF BooksInv, InFlight
  <1>4. ASSUME NEW fd, SysClose(p, fd) PROVE BooksInv'
    <2>1. UNCHANGED <<loader, raced>>
      BY <1>4 DEF SysClose
    <2>2. CASE fs' = fs
      BY <1>3, <2>1, <2>2
    <2>3. CASE fs' = Close(fs, fd) /\ fd \in Keys(fs)
      <3>1. fs'.mounts = fs.mounts /\ fs'.copies = fs.copies
        BY <1>1, <2>3, CloseOK DEF Beside
      <3>2. KeepsBooks(fs, fs')
        BY <1>1, <2>3, CloseKeepsBooks
      <3> QED
        BY <2>1, <3>1, <3>2, LoaderApart
    <2> QED
      BY <1>4, <2>2, <2>3 DEF SysClose
  <1>5. ASSUME NEW fd, SysRead(p, fd) PROVE BooksInv'
    BY <1>3, <1>5 DEF SysRead
  <1>6. ASSUME NEW fd, SysWrite(p, fd, "a") PROVE BooksInv'
    <2>1. fs' = Write(fs, fd, "a") /\ UNCHANGED <<loader, raced>>
      BY <1>6 DEF SysWrite
    <2>2. fs'.mounts = fs.mounts /\ (fs.mounts = <<>> => fs' = fs)
      BY <1>1, <2>1, WriteOK
    <2>3. KeepsBooks(fs, fs')
      BY <1>1, <2>1, WriteKeepsBooks
    <2> QED
      BY <2>1, <2>2, <2>3, LoaderApart
  <1> QED
    BY <1>2, <1>4, <1>5, <1>6 DEF Calls

\* The keyboard handler is open, write, open, write, close, close.
LEMMA KeyPressBooks ==
  ASSUME FileInv, BooksInv, KeyPress("a")
  PROVE  BooksInv'
  <1>1. PICK i \in Open(fs, DevStdin) :
           IF i.fd = NoFd THEN halted' = TRUE /\ fs' = i.f
           ELSE \E o \in Open(Write(i.f, i.fd, "a"), DevStdout) :
                    LET w == Write(o.f, o.fd, "a")
                        s == IF o.fd = NoFd THEN w ELSE Close(w, o.fd)
                    IN  IF i.fd \in Keys(s)
                        THEN fs' = Close(s, i.fd) /\ UNCHANGED halted
                        ELSE fs' = s /\ halted' = TRUE
    BY DEF KeyPress
  <1>2. /\ LayerOK(fs) /\ fs.mounts \in MountTables \cup {<<>>}
        /\ DevStdin \in PathType /\ DevStdout \in PathType /\ fs.latestFd \in Nat \ {0}
        /\ UNCHANGED <<loader, raced>>
    BY KeyPaths DEF FileInv, LayerInv, KeyPress, LayerOK, FsState
  <1>3. fs'.mounts = fs.mounts
    BY KeyPressOK DEF Beside
  <1>4. /\ LayerOK(i.f) /\ Beside(fs, i.f) /\ i.f.latestFd = fs.latestFd + 1
        /\ i.f.copies = fs.copies
        /\ \/ NoRoute(fs, DevStdin) /\ i.fd = NoFd
           \/ /\ ~NoRoute(fs, DevStdin)
              /\ \E e \in File : /\ e.fd = fs.latestFd /\ i.fd = IF e.exists THEN e.fd ELSE NoFd
                                 /\ e.fd \notin Keys(fs) => Added(fs, i.f, e)
                                 /\ e.exists
    BY <1>2, OpenOK
  <1>5. fs.mounts = <<>> => fs'.copies = fs.copies
    BY <1>1, <1>4 DEF NoRoute
  <1>6. ASSUME ~raced PROVE KeepsBooks(fs, fs')
    <2>1. FdsOK(fs)
      BY <1>6 DEF FileInv
    <2>2. KeepsBooks(fs, i.f)
      BY <1>2, <2>1, OpenKeepsBooks
    <2>3. CASE i.fd = NoFd
      BY <1>1, <2>2, <2>3
    <2>4. CASE i.fd # NoFd
      <3> DEFINE w1 == Write(i.f, i.fd, "a")
      <3>1. PICK o \in Open(w1, DevStdout) :
               LET w == Write(o.f, o.fd, "a")
                   s == IF o.fd = NoFd THEN w ELSE Close(w, o.fd)
               IN  IF i.fd \in Keys(s) THEN fs' = Close(s, i.fd) ELSE fs' = s
        BY <1>1, <2>4
      <3>2. /\ LayerOK(w1) /\ w1.mounts = fs.mounts /\ w1.latestFd = fs.latestFd + 1
            /\ w1.arr = i.f.arr /\ w1.len = i.f.len /\ KeepsBooks(i.f, w1)
        BY <1>4, WriteOK, WriteKeepsBooks DEF Beside
      <3> HIDE DEF w1
      <3>3. FdsOK(w1)
        <4>1. PICK e \in File : /\ e.fd = fs.latestFd
                                /\ e.fd \notin Keys(fs) => Added(fs, i.f, e)
          BY <1>4, <2>4
        <4>2. e.fd \notin Keys(fs)
          BY <1>2, <2>1, <4>1 DEF FdsOK, Keys
        <4>3. Added(fs, w1, e)
          BY <3>2, <4>1, <4>2 DEF Added
        <4>4. w1.latestFd >= fs.latestFd /\ e.fd < w1.latestFd
          BY <1>2, <3>2, <4>1
        <4>5. HoldsOK(fs, holds)
          BY <1>6 DEF FileInv
        <4> QED
          BY <1>2, <2>1, <3>2, <4>2, <4>3, <4>4, <4>5, AddedFds
      <3>4. LayerOK(o.f) /\ KeepsBooks(w1, o.f) /\ (o.fd # NoFd => o.fd \in Keys(o.f))
        BY <1>2, <3>2, <3>3, OpenOK, OpenKeepsBooks
      <3> DEFINE w == Write(o.f, o.fd, "a")
                 s == IF o.fd = NoFd THEN w ELSE Close(w, o.fd)
      <3>5. LayerOK(w) /\ KeepsBooks(o.f, w) /\ (o.fd # NoFd => o.fd \in Keys(w))
        BY <3>4, WriteOK, WriteKeepsBooks DEF Keys
      <3>6. IF i.fd \in Keys(s) THEN fs' = Close(s, i.fd) ELSE fs' = s
        BY <3>1
      <3> HIDE DEF w
      <3>7. LayerOK(s) /\ (s = w \/ KeepsBooks(w, s))
        BY <3>5, CloseOK, CloseKeepsBooks
      <3> HIDE DEF s
      <3>8. fs' = s \/ KeepsBooks(s, fs')
        BY <3>6, <3>7, CloseKeepsBooks
      <3> QED
        BY <2>2, <3>2, <3>4, <3>5, <3>7, <3>8 DEF KeepsBooks
    <2> QED
      BY <2>3, <2>4
  <1> QED
    BY <1>2, <1>3, <1>5, <1>6, LoaderApart

\* A step of the loader that leaves the layer, and is not about to enter a file.
LEMMA LoaderAlone ==
  ASSUME BooksInv, fs' = fs, raced' = raced, ~raced => loader.pc # "push" /\ loader'.pc # "push"
  PROVE  BooksInv'
  BY DEF BooksInv, InFlight

LEMMA LoadStoreBooks ==
  ASSUME FileInv, FileInv', BooksInv, LoadStore
  PROVE  BooksInv'
  <1> DEFINE n == loader.fd + 1
             b == fs.blocks + 1
             o == fs.opens + 1
  <1>1. LayerOK(fs) /\ LayerOK(fs') /\ fs \in FsState /\ LoaderOK
    BY DEF FileInv, LayerInv, LayerOK
  <1>2. fs' = [fs EXCEPT !.latestFd = n, !.blocks = b, !.opens = o]
    BY DEF LoadStore
  <1>3. loader.pc = "store" /\ loader'.pc = "open"
    BY <1>1 DEF LoadStore, LoaderOK
  <1> HIDE DEF n, b, o
  <1>4. /\ fs'.mounts = fs.mounts /\ fs'.arr = fs.arr /\ fs'.len = fs.len /\ fs'.copies = fs.copies
        /\ fs'.latestFd = n /\ fs'.blocks = b /\ fs'.opens = o
    BY <1>1, <1>2 DEF FsState
  <1>5. ASSUME ~raced' PROVE Excess(fs') = 0 /\ fs'.opens = fs'.latestFd - 1
    <2>1. ~raced /\ fs.latestFd = loader.fd
      BY <1>5 DEF LoadStore
    <2>2. Excess(fs) = 0 /\ fs.opens = fs.latestFd - 1
      BY <1>3, <2>1 DEF BooksInv, InFlight
    <2>3. Held(fs') = Held(fs)
      BY <1>4, SameHeld DEF Same
    <2>4. Excess(fs') = Excess(fs) + (fs'.blocks - fs.blocks) - (fs'.opens - fs.opens)
                        - (fs'.copies - fs.copies) - (Held(fs') - Held(fs))
      BY <1>1, <1>4, ExcessChange
    <2>5. /\ fs.blocks \in Int /\ fs.opens \in Nat /\ fs.copies \in Nat /\ fs.latestFd \in Nat
          /\ Held(fs) \in Nat
      BY <1>1, LayerNumbers
    <2>6. Excess(fs') = 0
      BY <1>4, <2>2, <2>3, <2>4, <2>5 DEF b, o
    <2> QED
      BY <1>4, <2>1, <2>2, <2>5, <2>6 DEF n, o
  <1>6. InFlight' = 0
    BY <1>3 DEF InFlight
  <1> QED
    BY <1>4, <1>5, <1>6 DEF BooksInv

LEMMA LoadOpenBooks ==
  ASSUME FileInv, FileInv', BooksInv, LoadOpen
  PROVE  BooksInv'
  <1>1. /\ LayerOK(fs) /\ LayerOK(fs') /\ fs \in FsState /\ LoaderOK /\ loader.pc = "open"
        /\ ~NoRoute(fs, loader.path) /\ fs.mounts \in MountTables \cup {<<>>}
        /\ raced' = raced
    BY DEF FileInv, LayerInv, LayerOK, LoadOpen
  <1>2. fs.mounts \in MountTables /\ loader.fd \in Nat \ {0} /\ loader.path \in PathType
    BY <1>1 DEF NoRoute, LoaderOK
  <1>3. PICK e \in Opened(fs, loader.fd, loader.path) :
           /\ fs' = [fs EXCEPT !.blocks = @ + Blocks(e.data)]
           /\ loader' = [pc |-> IF e.fd \in Keys(fs) THEN "assign" ELSE "push", fd |-> e.fd,
                         path |-> e.path, at |-> fs.len, seen |-> <<e>> \o Entries(fs)]
    BY DEF LoadOpen
  <1>4. e \in File /\ e.fd = loader.fd
    BY <1>1, <1>2, <1>3, OpenedOK
  <1> DEFINE d == Blocks(e.data)
             b == fs.blocks + d
             seen == <<e>> \o Entries(fs)
  <1>5. fs' = [fs EXCEPT !.blocks = b] /\ d \in Int
    BY <1>3, <1>4, FileBlocks
  <1>6. Head(seen) = e
    <2>1. Entries(fs) \in Seq(File)
      BY <1>1, ArrayElements, SubSeqProperties DEF Entries
    <2>2. <<e>> \in Seq(File) /\ Len(<<e>>) = 1 /\ <<e>>[1] = e
      BY <1>4
    <2>3. seen \in Seq(File) /\ seen[1] = e /\ Len(seen) = 1 + Len(Entries(fs)) /\ Len(Entries(fs)) \in Nat
      BY <2>1, <2>2, ConcatProperties, LenProperties
    <2> QED
      BY <2>3
  <1> HIDE DEF b, d, seen
  <1>7. /\ fs'.mounts = fs.mounts /\ fs'.arr = fs.arr /\ fs'.len = fs.len /\ fs'.copies = fs.copies
        /\ fs'.latestFd = fs.latestFd /\ fs'.blocks = b /\ fs'.opens = fs.opens
    BY <1>1, <1>5 DEF FsState
  <1>8. ASSUME ~raced PROVE Excess(fs') = InFlight' /\ fs'.opens = fs'.latestFd - 1
    <2>1. e.fd \notin Keys(fs)
      BY <1>1, <1>4, <1>8 DEF FileInv, LoaderFd
    <2>2. InFlight' = d
      <3>1. loader'.pc = "push" /\ loader'.seen = seen
        BY <1>3, <2>1 DEF seen
      <3> QED
        BY <1>6, <3>1 DEF InFlight, d
    <2>3. Excess(fs) = 0 /\ fs.opens = fs.latestFd - 1
      BY <1>1, <1>8 DEF BooksInv, InFlight
    <2>4. Held(fs') = Held(fs)
      BY <1>7, SameHeld DEF Same
    <2>5. Excess(fs') = Excess(fs) + (fs'.blocks - fs.blocks) - (fs'.opens - fs.opens)
                        - (fs'.copies - fs.copies) - (Held(fs') - Held(fs))
      BY <1>1, <1>7, ExcessChange
    <2>6. fs.blocks \in Int /\ fs.opens \in Nat /\ fs.copies \in Nat /\ Held(fs) \in Nat
      BY <1>1, LayerNumbers
    <2>7. Excess(fs') = d
      BY <1>5, <1>7, <2>3, <2>4, <2>5, <2>6 DEF b
    <2> QED
      BY <1>7, <2>2, <2>3, <2>7
  <1> QED
    BY <1>1, <1>7, <1>8 DEF BooksInv

LEMMA LoadPushBooks ==
  ASSUME FileInv, FileInv', BooksInv, LoadPush
  PROVE  BooksInv'
  <1> DEFINE e == Head(loader.seen)
             n == loader.at + 1
             arr == Put(fs.arr, n, e)
  <1>1. /\ LayerOK(fs) /\ LayerOK(fs') /\ LayerInv /\ fs \in FsState /\ loader.pc = "push"
        /\ fs' = [fs EXCEPT !.arr = arr, !.len = n]
        /\ raced' = (raced \/ Entries(fs) # Tail(loader.seen))
    BY DEF LoadPush, FileInv, LayerInv, LayerOK
  <1>2. /\ e \in File /\ Len(loader.seen) = loader.at + 1 /\ loader.at \in Nat
        /\ loader.seen \in Seq(File) /\ loader.seen # <<>> /\ loader.at <= Len(fs.arr)
        /\ loader'.pc = IF e.exists THEN "read" ELSE "idle"
    BY <1>1, LoaderReturns DEF LoadPush
  <1> HIDE DEF e
  <1>3. fs.arr \in Seq(File) /\ Len(fs.arr) \in Nat /\ fs.len \in 0 .. Len(fs.arr)
    BY <1>1, ArrayElements
  <1>4. /\ n \in 1 .. Len(arr) /\ Len(arr) \in Nat /\ Len(arr) >= Len(fs.arr) /\ arr[n] = e
        /\ \A i \in 1 .. Len(arr) : i # n => arr[i] = fs.arr[i]
    <2>1. n \in 1 .. Len(fs.arr) + 1 /\ e \in File /\ fs.arr \in Seq(File)
      BY <1>2, <1>3
    <2> HIDE DEF n
    <2> QED
      BY <2>1, PutElements
  <1> HIDE DEF arr, n
  <1>5. /\ fs'.mounts = fs.mounts /\ fs'.arr = arr /\ fs'.len = n /\ fs'.copies = fs.copies
        /\ fs'.latestFd = fs.latestFd /\ fs'.blocks = fs.blocks /\ fs'.opens = fs.opens
    BY <1>1 DEF FsState
  <1>6. InFlight' = 0
    BY <1>2 DEF InFlight
  <1>7. ASSUME ~raced' PROVE Excess(fs') = 0 /\ fs'.opens = fs'.latestFd - 1
    <2>1. ~raced /\ Entries(fs) = Tail(loader.seen)
      BY <1>1, <1>7
    <2>2. fs.len = loader.at
      <3>1. Len(Entries(fs)) = fs.len
        BY <1>3, SubSeqProperties DEF Entries
      <3>2. Len(Tail(loader.seen)) = loader.at
        BY <1>2, HeadTailProperties
      <3> QED
        BY <2>1, <3>1, <3>2
    <2>3. Added(fs, fs', e)
      <3>1. n = fs.len + 1
        BY <2>2 DEF n
      <3> QED
        BY <1>3, <1>4, <1>5, <3>1 DEF Added
    <2>4. Held(fs') = Held(fs) + Blocks(e.data) /\ Blocks(e.data) \in Int
      BY <1>1, <1>2, <2>3, AddedHeld, FileBlocks
    <2>5. Excess(fs) = Blocks(e.data) /\ fs.opens = fs.latestFd - 1
      BY <1>1, <2>1 DEF BooksInv, InFlight, e
    <2>6. Excess(fs') = Excess(fs) + (fs'.blocks - fs.blocks) - (fs'.opens - fs.opens)
                        - (fs'.copies - fs.copies) - (Held(fs') - Held(fs))
      BY <1>1, <1>5, ExcessChange
    <2>7. fs.blocks \in Int /\ fs.opens \in Nat /\ fs.copies \in Nat /\ Held(fs) \in Nat
      BY <1>1, LayerNumbers
    <2>8. Excess(fs') = 0
      BY <1>5, <2>4, <2>5, <2>6, <2>7
    <2> QED
      BY <1>5, <2>5, <2>8
  <1> QED
    BY <1>5, <1>6, <1>7 DEF BooksInv

LEMMA LoadBooks ==
  ASSUME FileInv, FileInv', BooksInv, Load
  PROVE  BooksInv'
  <1>1. loader \in [pc : Pcs, fd : Nat, path : PathType, at : Nat, seen : Seq(File)]
    BY DEF FileInv, LayerInv, LoaderOK
  <1>2. ASSUME NEW path \in LoaderPaths, LoadFd(path) PROVE BooksInv'
    <2>1. fs' = fs /\ raced' = raced /\ loader.pc = "idle" /\ loader'.pc = "store"
      BY <1>1, <1>2 DEF LoadFd
    <2> QED
      BY <2>1, LoaderAlone
  <1>3. CASE LoadNoRoute
    <2>1. fs' = fs /\ raced' = raced /\ loader.pc = "open" /\ loader'.pc = "idle"
      BY <1>1, <1>3 DEF LoadNoRoute
    <2> QED
      BY <2>1, LoaderAlone
  <1>4. CASE LoadRead
    <2>1. fs' = fs /\ raced' = raced /\ loader.pc = "read" /\ loader'.pc = "idle"
      BY <1>1, <1>4 DEF LoadRead
    <2> QED
      BY <2>1, LoaderAlone
  <1>5. CASE LoadAssign
    <2>1. fs' = fs /\ raced' = raced /\ loader.pc = "assign"
      BY <1>5 DEF LoadAssign
    <2>2. raced
      BY <2>1 DEF FileInv, LoaderFd
    <2> QED
      BY <2>1, <2>2, LoaderAlone
  <1> QED
    BY <1>2, <1>3, <1>4, <1>5, LoadStoreBooks, LoadOpenBooks, LoadPushBooks DEF Load

\* The heap blocks of the file layer are all accounted for: open, close, write,
\* the keyboard handler and the loader take and free exactly what the books say,
\* for any number of calls; what fsData of failed opens holds is part of it.
THEOREM BlocksAreAccounted == Spec => []BlocksAccounted
  <1>1. FileInv /\ FileInv' /\ BooksInv /\ [Next]_vars => BooksInv'
    <2> SUFFICES ASSUME FileInv, FileInv', BooksInv, [Next]_vars PROVE BooksInv'
      OBVIOUS
    <2>1. CASE UNCHANGED vars
      BY <2>1 DEF vars, BooksInv, InFlight
    <2> QED
      BY <2>1, FsInitBooks, CallBooks, KeyPressBooks, LoadBooks DEF Next
  <1>2. FileInv /\ BooksInv => BlocksAccounted
    <2> SUFFICES ASSUME FileInv, BooksInv, ~raced PROVE BlocksAccounted
      BY DEF BlocksAccounted
    <2> DEFINE k == 2 * Len(fs.mounts)
               h1 == Cardinality(WithBlocks(fs, 1))
               h2 == Cardinality(WithBlocks(fs, 2))
    <2>1. LayerOK(fs) /\ LoaderOK
      BY DEF FileInv, LayerInv
    <2>2. /\ fs.blocks \in Int /\ fs.opens \in Nat /\ fs.copies \in Nat /\ k \in Int
          /\ h1 \in Nat /\ h2 \in Nat
      BY <2>1, LayerNumbers, HeldFinite
    <2>3. InFlight \in Int
      <3>1. ASSUME loader.pc = "push" PROVE Head(loader.seen) \in File
        BY <2>1, <3>1, HeadTailProperties DEF LoaderOK
      <3> QED
        BY <3>1, FileBlocks DEF InFlight
    <2>4. fs.blocks - (k + fs.opens + fs.copies + (h1 + h2)) = InFlight
      BY DEF BooksInv, Excess, Held
    <2>5. BlocksAccounted <=> fs.blocks = k + fs.opens + fs.copies + InFlight + h1 + h2
      BY DEF BlocksAccounted, InFlight, WithBlocks
    <2> HIDE DEF k, h1, h2
    <2> QED
      BY <2>2, <2>3, <2>4, <2>5
  <1> QED
    BY <1>1, <1>2, InitBooks, FileInvariant, PTL DEF Spec
=============================================================================
