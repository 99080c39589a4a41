----------------------------- MODULE MCInitramfs -----------------------------
(* Initramfs for TLC.  Without a plan: trees of up to three levels, an empty
   file, names of two lengths, and paths with missing, doubled and trailing
   slashes.  With one: zero to two drivers beside a directory that is none, and
   every way a file of theirs can be missing or wrong. *)
EXTENDS Initramfs

MCNames == {"a", "bb", "c", "dd", "drv", "fs", "storage", "baseio", "etc", "fat.drv", "x.drv", "old",
            "conf.cfg", "fn.rap", "exec", "fs.cfg"}
MCNameLen == [n \in MCNames |-> IF n \in {"a", "c"} THEN 1 ELSE IF n \in {"bb", "dd", "fs"} THEN 2 ELSE 4]
MCFileSize == [n \in MCNames |-> IF n = "a" THEN 0 ELSE 3]

FileLists == {<<>>, <<"bb", "a">>}
Leaf == [files : FileLists, dirs : {<<>>}]
Level1 == [files : {<<>>, <<"a", "bb">>},
           dirs : {<<>>} \cup {<<[name |-> "c", sub |-> l]>> : l \in Leaf}
                  \cup {<<[name |-> "dd", sub |-> l], [name |-> "c", sub |-> k]>> : l, k \in Leaf}]
MCTrees == [files : {<<>>, <<"bb">>, <<"a", "bb">>},
            dirs : {<<>>} \cup {<<[name |-> "dd", sub |-> l]>> : l \in Level1}
                   \cup {<<[name |-> "c", sub |-> k], [name |-> "dd", sub |-> l]>> : l \in Level1, k \in Leaf}]

MCPaths ==
    LET D == {"c", "dd"}
        N == {"a", "bb", "c"}
    IN  {<<"/">>} \cup {<<"/", n>> : n \in N \cup D} \cup {<<"/", d, "/", n>> : d \in D, n \in N}
        \cup {<<"/", d, "/", e, "/", n>> : d, e \in D, n \in N}
        \cup {<<"bb">>, <<"/", "/", "bb">>, <<"/", "bb", "/">>, <<"/", "dd", "/">>,
              <<"/", "dd", "/", "/", "bb">>, <<"/", "/", "dd", "/", "bb">>}

Cfg(lines) == [lines |-> lines, endless |-> FALSE]
Endless(lines) == [lines |-> lines, endless |-> TRUE]
Written == BuildConf(<<"RivFs">>, <<"0", ".", "0", " ", "ALPHA">>, <<"exec">>, <<"fat32">>)
Comment == Line("comment", "q", <<"=">>)
Confs ==
    {None, Cfg(Written), Endless(Written), Endless(SubSeq(Written, 1, 6)), Cfg(<<Comment>> \o Written),
     Endless(Append(Written, Comment)), Cfg(Append(Written, Line("bad", "abort", <<"FATAL">>))),
     Cfg(<<Written[1], Line("str", "execfp", <<"none">>)>> \o Tail(Written)),
     Cfg(<<Written[1], Line("str", "execfp", <<"exec">>)>> \o Tail(Written)
         \o <<Sec(<<"gen">>), Line("str", "execfp", <<"none">>)>>),
     Cfg([Written EXCEPT ![3] = Line("int", "vers", <<"1">>)]),
     Cfg(<<Line("str", "name", <<"x">>)>> \o Written)}
    \cup {Cfg(SubSeq(Written, 1, i - 1) \o SubSeq(Written, i + 1, 8)) : i \in 1 .. 8}

Fn(name, params, addr) == [name |-> name, params |-> params, addr |-> addr]
Raps ==
    LET open == Fn("open", <<<<"str", "fp">>>>, 307)
        write == Fn("write", <<<<"ptr", "fileptr">>, <<"ptr", "conts">>, <<"u32", "len">>>>, 10)
        init == Fn("init", <<>>, 5)
    IN  {None, <<open>>, <<open, write>>, <<init>>, <<open, init>>, <<init, write>>}

Drv(name, conf, rap, exec) == [dir |-> name, conf |-> conf, rap |-> rap, exec |-> exec]
GoodRap == CHOOSE r \in Raps : r # None /\ Len(r) = 2 /\ r[2].params # <<>>
Good(name) == Drv(name, Cfg(Written), GoodRap, "elf")
MCDrivers ==
    {Drv("fat.drv", c, GoodRap, "elf") : c \in Confs} \cup {Drv("fat.drv", Cfg(Written), r, "elf") : r \in Raps}
    \cup {Drv("fat.drv", Cfg(Written), GoodRap, e) : e \in {None, "text"}}

Section(name, drive, fs) ==
    <<Sec(<<"drives", ".", name>>), Line("int", "drive", drive), Line("str", "fs", <<fs>>)>>
FsConfs ==
    LET a == Section("a", <<"0">>, "fat32")
        b == Section("b", <<"2", "5", "7">>, "rivfs")
    IN  {None, Cfg(a), Cfg(a \o <<Comment>> \o b), Endless(a), Cfg(SubSeq(a, 1, 2)), Cfg(<<a[1], a[3]>>),
         Cfg(<<Sec(<<"other">>)>> \o Tail(a)), Cfg(<<a[1], a[3], Line("str", "drive", <<"x">>)>>),
         Cfg(<<a[1], a[2], Line("int", "fs", <<"1">>)>>), Cfg(a \o a), Cfg(Append(a, Line("bad", "x", <<"y">>)))}
GoodFsConf == Cfg(Section("a", <<"0">>, "fat32") \o Section("b", <<"1">>, "rivfs"))

Plan(cmdlines, types, drivers, fsconf) ==
    [cmdlines |-> cmdlines, types |-> types, drivers |-> drivers, fsconf |-> fsconf]
Image == <<"IS_INITRAMFS">>
Others == [dir |-> "old", conf |-> None, rap |-> None, exec |-> None]
MCPlans ==
    {Plan(Image, <<"fs">>, <<d>>, GoodFsConf) : d \in MCDrivers}
    \cup {Plan(Image, <<"fs">>, <<Good("x.drv"), Others, d>>, GoodFsConf) : d \in MCDrivers}
    \cup {Plan(Image, <<"storage", "fs">>, ds, c) : c \in FsConfs, ds \in {<<>>, <<Others>>, <<Good("x.drv")>>}}
    \cup {Plan(c, t, <<Good("x.drv")>>, GoodFsConf) :
              c \in {<<>>, Image, <<"other", "IS_INITRAMFS">>, Image \o <<"other">>},
              t \in {<<>>, <<"storage">>, <<"fs", "storage">>, <<"storage", "baseio", "fs">>}}

\* A root directory as docs/driver.md and docs/rap.md have it: a driver with
\* functions without parameters, and one without fn.rap.
MCDocumentedPlans ==
    LET rap == <<Fn("init", <<>>, 5), Fn("write", <<<<"ptr", "fileptr">>, <<"ptr", "conts">>>>, 10),
                 Fn("fini", <<>>, 17)>>
    IN  {Plan(Image, <<"fs">>,
              <<Drv("x.drv", Cfg(Written), rap, "elf"), Drv("fat.drv", Cfg(Written), None, "elf")>>, GoodFsConf)}

\* The types docs/driver.md names, and one more, beside etc in the root.
MCNestedPlans == {Plan(Image, <<"storage", "baseio", "fs">>, <<Good("x.drv")>>, GoodFsConf)}
=============================================================================
