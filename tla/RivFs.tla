-------------------------------- MODULE RivFs --------------------------------
(***************************************************************************)
(* The RivFs image: genfs (initramfs/genfs/src/main.cpp) writes it, the    *)
(* kernel (src/drivers/fs/rivfs/rivfs.hpp) reads it.                       *)
(*                                                                         *)
(* An image is a function from byte offsets to the field that starts       *)
(* there, with the sizes the packed structures have.  Reading an offset at *)
(* which no field starts is Stray: the reader has lost the structure.      *)
(* A directory tree is [files, dirs]: sequences of names, in the order     *)
(* directory_iterator gives them, each dir with its own tree.  The         *)
(* contents of a file are one token, its path; <<>> for an empty file.     *)
(*                                                                         *)
(* A path given to the reader is a sequence of "/" and names.              *)
(***************************************************************************)
EXTENDS Integers, Sequences, FiniteSets, TLC

CONSTANTS
    Trees,          \* the directories genfs is run on
    QueryPaths,     \* the paths the reader is asked for
    NameLen,        \* length of each name
    FileSize,       \* size of the file with a given name; may be 0
    Base,           \* rawFsMemloc: the address the image is loaded at
    None,           \* ExpectedErr
    Stray           \* what is read where the image has no such field

VARIABLES
    tree,       \* the directory on the host
    img,        \* the image, NoImage before genfs ran
    it,         \* a DirIterator
    dir,        \* history: the directory it was made for
    listed,     \* history: the names it has returned
    last        \* the last call of the reader and its result

vars == <<tree, img, it, dir, listed, last>>

HdrSize == 19
FphSize == 16
LatterSize == 16        \* sizeof(DirEntryLatter)

-----------------------------------------------------------------------------
\* genfs.

\* Append a field of w bytes to the buffer.
Push(buf, v, w) ==
    IF w = 0 THEN buf ELSE [buf EXCEPT !.at = (buf.size :> v) @@ @, !.size = @ + w]
PushU32(buf, n) == [buf EXCEPT !.num = (buf.size :> n) @@ @, !.size = @ + 4]

\* FileEntry::genf.
GenFile(buf, path, name) ==
    Push(PushU32(Push(PushU32(buf, NameLen[name]), name, NameLen[name]), FileSize[name]),
         Append(path, name), FileSize[name])

\* FileEntry::eof: a name of length 0 and a file size of 0.
FileEof(buf) == PushU32(PushU32(buf, 0), 0)

RECURSIVE GenFiles(_, _, _)
GenFiles(buf, path, names) ==
    IF names = <<>> THEN buf ELSE GenFiles(GenFile(buf, path, Head(names)), path, Tail(names))

\* writeFileList.
WriteFileList(buf, path, t) == FileEof(GenFiles(buf, path, t.files))

\* DirEntry::withName for a directory that is written already, DirEntry::eof.
GenDir(buf, name, built) ==
    Push(Push(PushU32(buf, NameLen[name]), name, NameLen[name]), built, LatterSize)
DirEof(buf) == PushU32(buf, 0)

RECURSIVE GenDirs(_, _, _)
GenDirs(buf, dirs, subs) ==
    IF dirs = <<>> THEN buf
    ELSE GenDirs(GenDir(buf, Head(dirs).name, Head(subs)), Tail(dirs), Tail(subs))

\* buildDir: the files, the subdirectories' insides, then the entries of the
\* subdirectories.  Returns the buffer and the BuiltDir.
RECURSIVE BuildDir(_, _, _), BuildSubdirs(_, _, _, _)
BuildDir(buf, path, t) ==
    LET files == WriteFileList(buf, path, t)
        s == BuildSubdirs(files, path, t.dirs, <<>>)
    IN  [buf |-> DirEof(GenDirs(s.buf, t.dirs, s.subs)),
         built |-> [dirHdrAm |-> Len(t.dirs), fAm |-> Len(t.files),
                    dirstart |-> s.buf.size, fstart |-> buf.size]]
BuildSubdirs(buf, path, dirs, subs) ==
    IF dirs = <<>> THEN [buf |-> buf, subs |-> subs]
    ELSE LET b == BuildDir(buf, Append(path, Head(dirs).name), Head(dirs).sub)
         IN  BuildSubdirs(b.buf, path, Tail(dirs), Append(subs, b.built))

\* main: room for the two headers, the root like any directory, and the headers
\* filled in at the end.
GenFs(t) ==
    LET root == BuildDir([num |-> <<>>, at |-> <<>>, size |-> HdrSize + FphSize], <<>>, t)
        hdr == [magic |-> "rivfs", fphSize |-> FphSize, fphPos |-> HdrSize, ronly |-> TRUE]
    IN  [root.buf EXCEPT !.at = (0 :> hdr) @@ (HdrSize :> root.built) @@ @]

-----------------------------------------------------------------------------
\* RivFs: the reader.  Offsets are relative to Base, a File holds addresses.

At(o) == IF o \in DOMAIN img.at THEN img.at[o] ELSE Stray
U32(o) == img.num[o]
IsU32(o) == o \in DOMAIN img.num
Fph == At(At(0).fphPos)

\* checkCorrectness.
CheckCorrectness ==
    /\ At(0).magic = "rivfs" /\ At(0).fphSize = FphSize /\ At(0).fphPos # 0 /\ At(0).ronly
    /\ Fph.dirstart # 0 /\ Fph.fstart # 0

\* The loops that look for a file, and for a directory, among n entries from o
\* on.  An entry matches when length and bytes agree; length 0 is the end.
RECURSIVE FindFile(_, _, _), FindDir(_, _, _)
FindFile(o, n, name) ==
    IF n = 0 THEN None
    ELSE IF ~IsU32(o) THEN Stray
    ELSE IF U32(o) = 0 THEN None
    ELSE IF <<At(o + 4)>> = name THEN o
    ELSE LET conts == o + 4 + U32(o)
         IN  IF ~IsU32(conts) THEN Stray ELSE FindFile(conts + 4 + U32(conts), n - 1, name)
FindDir(o, n, name) ==
    IF n = 0 THEN None
    ELSE IF ~IsU32(o) THEN Stray
    ELSE IF U32(o) = 0 THEN None
    ELSE IF <<At(o + 4)>> = name THEN o
    ELSE FindDir(o + 4 + U32(o) + LatterSize, n - 1, name)

\* The DirEntryLatter of the directory entry at o.
Latter(o) == At(o + 4 + U32(o))

\* The File for the entry at o.
FileAt(o) ==
    IF o \in {None, Stray} THEN o ELSE [startPos |-> Base + o, contsSvPos |-> Base + o + 4 + U32(o)]

\* findChar gives 0 both for no slash and for a slash in front.
HasSlash(fn) == fn # <<>> /\ fn[1] # "/" /\ \E i \in DOMAIN fn : fn[i] = "/"

\* Mutant of FindInDir: the directory counts its own files for its directories.
RECURSIVE FindInDir_FileCount(_, _)
FindInDir_FileCount(o, fn) ==
    IF ~HasSlash(fn) THEN FileAt(FindFile(Latter(o).fstart, Latter(o).fAm, fn))
    ELSE LET child == FindDir(Latter(o).dirstart, Latter(o).fAm, <<fn[1]>>)
         IN  IF child \in {None, Stray} THEN child
             ELSE IF Len(fn) <= 2 THEN None
             ELSE FindInDir_FileCount(child, SubSeq(fn, 3, Len(fn)))

\* findInDir: without a slash a file, otherwise a directory and what is behind
\* the slash in it.
RECURSIVE FindInDir(_, _)
FindInDir(o, fn) ==
    IF ~HasSlash(fn) THEN FileAt(FindFile(Latter(o).fstart, Latter(o).fAm, fn))
    ELSE LET child == FindDir(Latter(o).dirstart, Latter(o).dirHdrAm, <<fn[1]>>)
         IN  IF child \in {None, Stray} THEN child
             ELSE IF Len(fn) <= 2 THEN None
             ELSE FindInDir(child, SubSeq(fn, 3, Len(fn)))

\* open: the names between the slashes; one name is a file of the root, more
\* lead into the directory with the first name.
Names(path) == SelectSeq(path, LAMBDA x : x # "/")
Open(path) ==
    LET parts == Names(path)
        rest == Tail(path)          \* orginFp + 1
    IN  IF path = <<>> \/ path[1] # "/" \/ parts = <<>> THEN None
        ELSE IF Len(parts) = 1
        THEN FileAt(FindFile(Fph.fstart, Fph.fAm, parts))
        ELSE LET d == FindDir(Fph.dirstart, Fph.dirHdrAm, <<parts[1]>>)
             IN  IF d \in {None, Stray} THEN d
                 ELSE IF ~HasSlash(rest) THEN None
                 ELSE FindInDir(d, SubSeq(rest, 3, Len(rest)))

\* filesize and read: the size is found through contsSvPos, the contents behind
\* the name that startPos points to, and behind both lengths.
Read(f) ==
    LET o == f.startPos - Base
    IN  IF U32(f.contsSvPos - Base) = 0 THEN <<>>
        ELSE IF ~IsU32(o) THEN Stray ELSE At(o + U32(o) + 8)

\* getDirIt: descends from the root; dirCount stays the root's.
IteratorOf(d) == [dirPos |-> d.dirstart, filePos |-> d.fstart,
                  dirsRemaining |-> d.dirHdrAm, filesRemaining |-> d.fAm]
RECURSIVE Descend(_, _, _)
Descend(o, names, d) ==
    IF names = <<>> THEN IteratorOf(d)
    ELSE LET child == FindDir(o, Fph.dirHdrAm, <<Head(names)>>)
         IN  IF child \in {None, Stray} THEN child
             ELSE Descend(Latter(child).dirstart, Tail(names), Latter(child))
GetDirIt(path) ==
    IF path = <<>> \/ path[1] # "/" THEN None
    ELSE IF \E i \in 1 .. Len(path) - 1 : path[i] = "/" /\ path[i + 1] = "/" THEN None
    ELSE Descend(Fph.dirstart, Names(path), Fph)

-----------------------------------------------------------------------------
\* The steps: genfs once, then calls of the reader.

NoImage == [num |-> <<>>, at |-> <<>>, size |-> 0]
NoIterator == [dirPos |-> 0, filePos |-> 0, dirsRemaining |-> 0, filesRemaining |-> 0]
Built == img # NoImage
IsFile(f) == f \notin {None, Stray}

\* Nothing is built and nothing was called.
Fresh ==
    /\ img = NoImage /\ it = NoIterator /\ dir = None
    /\ listed = [files |-> <<>>, dirs |-> <<>>]
    /\ last = [op |-> "none", arg |-> <<>>, res |-> None]

Init == tree \in Trees /\ Fresh

RunGenFs ==
    /\ ~Built
    /\ img' = GenFs(tree)
    /\ UNCHANGED <<tree, it, dir, listed, last>>

\* open and read of a path.
OpenRead(path) ==
    /\ Built
    /\ last' = [op |-> "open", arg |-> path,
                 res |-> IF IsFile(Open(path)) THEN Read(Open(path)) ELSE Open(path)]
    /\ UNCHANGED <<tree, img, it, dir, listed>>

StartIteration(path) ==
    /\ Built /\ dir = None
    /\ LET d == GetDirIt(path)
       IN  /\ last' = [op |-> "getDirIt", arg |-> path, res |-> IF IsFile(d) THEN <<>> ELSE d]
           /\ it' = IF IsFile(d) THEN d ELSE it
           /\ dir' = IF IsFile(d) THEN path ELSE dir
    /\ UNCHANGED <<tree, img, listed>>

\* dirItGetNextFile.  The File it returns has a relative startPos; last holds what
\* read makes of it.
DirItGetNextFile ==
    /\ it.filesRemaining > 0
    /\ IF IsU32(it.filePos) /\ U32(it.filePos) # 0
       THEN LET conts == it.filePos + 4 + U32(it.filePos)
                f == [startPos |-> it.filePos, contsSvPos |-> Base + conts]
            IN  /\ it' = [it EXCEPT !.filesRemaining = @ - 1,
                                    !.filePos = conts + 4 + U32(conts)]
                /\ listed' = [listed EXCEPT !.files = Append(@, At(it.filePos + 4))]
                /\ last' = [op |-> "nextFile", arg |-> <<At(it.filePos + 4)>>, res |-> Read(f)]
       ELSE /\ it' = [it EXCEPT !.filesRemaining = 0]
            /\ last' = [op |-> "nextFile", arg |-> <<>>,
                         res |-> IF IsU32(it.filePos) THEN None ELSE Stray]
            /\ UNCHANGED listed
    /\ UNCHANGED <<tree, img, dir>>

\* Mutant of DirItGetNextDir: the position is not moved over the latter part.
DirItGetNextDir_NoLatter ==
    /\ it.dirsRemaining > 0
    /\ IF IsU32(it.dirPos) /\ U32(it.dirPos) # 0
       THEN /\ it' = [it EXCEPT !.dirsRemaining = @ - 1, !.dirPos = @ + 4 + U32(it.dirPos)]
            /\ listed' = [listed EXCEPT !.dirs = Append(@, At(it.dirPos + 4))]
       ELSE it' = [it EXCEPT !.dirsRemaining = 0] /\ UNCHANGED listed
    /\ UNCHANGED <<tree, img, dir, last>>

\* dirItGetNextDir, and openFileInDirData for each file name in the directory.
DirItGetNextDir ==
    /\ it.dirsRemaining > 0
    /\ IF IsU32(it.dirPos) /\ U32(it.dirPos) # 0
       THEN LET d == Latter(it.dirPos)
                OpenFileInDirData(fn) == FileAt(FindFile(d.fstart, d.fAm, <<fn>>))
                Conts(fn) == LET f == OpenFileInDirData(fn) IN IF IsFile(f) THEN Read(f) ELSE f
            IN  /\ it' = [it EXCEPT !.dirsRemaining = @ - 1,
                                    !.dirPos = @ + 4 + U32(it.dirPos) + LatterSize]
                /\ listed' = [listed EXCEPT !.dirs = Append(@, At(it.dirPos + 4))]
                /\ last' = [op |-> "nextDir", arg |-> <<At(it.dirPos + 4)>>,
                             res |-> [fn \in DOMAIN NameLen |-> Conts(fn)]]
       ELSE /\ it' = [it EXCEPT !.dirsRemaining = 0]
            /\ last' = [op |-> "nextDir", arg |-> <<>>,
                         res |-> IF IsU32(it.dirPos) THEN None ELSE Stray]
            /\ UNCHANGED listed
    /\ UNCHANGED <<tree, img, dir>>

Next ==
    \/ RunGenFs
    \/ \E path \in QueryPaths : OpenRead(path) \/ StartIteration(path)
    \/ DirItGetNextFile
    \/ DirItGetNextDir

-----------------------------------------------------------------------------
\* The reference: the directory on the host.

\* The directory that names leads to, None if there is none.
RECURSIVE DirOf(_, _)
DirOf(t, names) ==
    IF names = <<>> THEN t
    ELSE LET i == {j \in DOMAIN t.dirs : t.dirs[j].name = Head(names)}
         IN  IF i = {} THEN None ELSE DirOf(t.dirs[CHOOSE j \in i : TRUE].sub, Tail(names))

\* A directory on the way to the last of names holds more directories than the
\* root does.
Crowded(t, names) ==
    \E i \in 1 .. Len(names) - 1 :
        LET d == DirOf(t, SubSeq(names, 1, i)) IN d # None /\ Len(d.dirs) > Len(t.dirs)

\* What a file holds: its path is its contents.
Lookup(names) ==
    IF names = <<>> THEN None
    ELSE LET d == DirOf(tree, SubSeq(names, 1, Len(names) - 1))
             n == names[Len(names)]
         IN  IF d = None \/ \A i \in DOMAIN d.files : d.files[i] # n THEN None
             ELSE IF FileSize[n] = 0 THEN <<>> ELSE names

\* "/" in front of every name and nowhere else.
Canonical(path) ==
    /\ Len(path) % 2 = 0
    /\ \A i \in DOMAIN path : (path[i] = "/") <=> (i % 2 = 1)

-----------------------------------------------------------------------------
\* Properties.

\* open and read find every file of the host directory, with its contents, and
\* nothing else; a path with doubled or trailing slashes may be refused but
\* never leads to another file.
OpenAgrees ==
    last.op = "open" =>
        IF Canonical(last.arg) THEN last.res = Lookup(Names(last.arg))
        ELSE last.res \in {None, Lookup(Names(last.arg))}

\* getDirIt finds the directories of the host and no other; it misses one only
\* below a directory with more subdirectories than the root, whose count bounds
\* its search.  The iterator returns the directory's files and subdirectories in
\* order, each once, none left when it says so; each subdirectory's files can be
\* opened through it and hold what they hold on the host.
IteratorAgrees ==
    /\ (last.op = "getDirIt" /\ Canonical(last.arg)) =>
        LET names == Names(last.arg)
        IN  IF last.res = None THEN DirOf(tree, names) = None \/ Crowded(tree, names)
            ELSE DirOf(tree, names) # None
    /\ dir # None =>
        LET d == DirOf(tree, Names(dir))
            dirNames == [i \in DOMAIN d.dirs |-> d.dirs[i].name]
        IN  /\ d # None
            /\ listed.files = SubSeq(d.files, 1, Len(d.files) - it.filesRemaining)
            /\ listed.dirs = SubSeq(dirNames, 1, Len(dirNames) - it.dirsRemaining)
            /\ last.op = "nextDir" =>
                   \A fn \in DOMAIN NameLen :
                       last.res[fn] = Lookup(Names(dir) \o last.arg \o <<fn>>)
=============================================================================
