------------------------------- MODULE MCDisk -------------------------------
(* Disk for TLC: one FAT32 volume, alone or beside a drive with RivBoot. *)
EXTENDS Disk

\* Names: a, b.a, a deleted b, and one that is too long.
MCA == <<"a">>
MCBa == <<"b", ".", "a">>
MCUpper == <<"A">>
MCB == <<"b">>
MCLong == <<"a", "b", "a">>
MCPaths == {<<>>, <<MCUpper>>, <<MCBa, MCA>>, <<MCA, MCA>>, <<MCB>>, <<MCBa, MCLong>>}

\* Clusters of one sector.  2, 3: the root directory; 4, 6: its file a, larger than
\* its chain; 5: the directory b.a with its own file a of size 1 in cluster 7.
MCNo == <<<<>>, <<>>>>
MCCluster(c) ==
    CASE c = 2 -> << DirEntry(<<<<"b">>, <<>>>>, "deleted", 9, 1), DirEntry(MCNo, "lfn", 0, 0) >>
      [] c = 3 -> << DirEntry(<<<<"A">>, <<>>>>, "file", 4, 5), DirEntry(<<<<"B">>, <<"A">>>>, "dir", 5, 0) >>
      [] c = 5 -> << DirEntry(<<<<"a">>, <<>>>>, "file", 7, 1), DirEntry(MCNo, "end", 0, 0) >>
      [] OTHER -> << Data(c), Data(c + 10) >>
MCNext == [c \in 0 .. 7 |-> CASE c = 2 -> 3 [] c = 4 -> 6 [] OTHER -> Eoc]
MCFat == [s \in 0 .. 11 |->
    CASE s = 0 -> << Label("fat32"), Bpb(2, 1, 4, 1, 2) >>
      [] s = 1 -> << Data(0), Data(0) >>
      [] s \in 2 .. 5 -> << FatEntry(MCNext[2 * (s - 2)]), FatEntry(MCNext[2 * (s - 2) + 1]) >>
      [] OTHER -> MCCluster(s - 4)]

\* Clusters of two sectors: the directory root, its file b in two sectors of 3.
MCWide == [s \in 0 .. 6 |->
    CASE s = 0 -> << Label("fat32"), Bpb(1, 1, 2, 2, 2) >>
      [] s = 1 -> << FatEntry(Eoc), FatEntry(Eoc) >>
      [] s = 2 -> << FatEntry(Eoc), FatEntry(Eoc) >>
      [] s = 3 -> << DirEntry(<<<<"A">>, <<>>>>, "volume", 0, 0), DirEntry(MCNo, "lfn", 0, 0) >>
      [] s = 4 -> << DirEntry(<<<<"B">>, <<>>>>, "file", 3, 3), DirEntry(MCNo, "end", 0, 0) >>
      [] OTHER -> << Data(s), Data(s + 10) >>]
MCBoot == [s \in 0 .. 0 |-> << Label("RivBoot"), Data("code") >>]
MCMachines == { [master |-> MCBoot, slave |-> MCFat], [master |-> MCBoot, slave |-> MCWide],
                [master |-> MCFat, slave |-> <<>>], [master |-> MCBoot, slave |-> <<>>] }
=============================================================================
