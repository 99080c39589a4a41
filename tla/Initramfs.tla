------------------------------ MODULE Initramfs ------------------------------
(***************************************************************************)
(* The way of a driver into the kernel: build.py writes the driver's       *)
(* conf.cfg into the root directory, genfs makes the image (RivFs),        *)
(* InitRamFs::init finds it, loads every *.drv under /drv/fs and hands     *)
(* /etc/fs.cfg to the VFS, and the drivers use the live system calls       *)
(* (LiveSyscalls).                                                         *)
(*                                                                         *)
(* A plan is what the author of a root directory wrote; it is rendered to  *)
(* the texts the kernel parses.  Without a plan the tree is any of Trees   *)
(* and the image is only read.  A panic stops the kernel; Lost is running  *)
(* on behind the end of a text or through an overwritten stack.            *)
(***************************************************************************)
EXTENDS RivFs, Config, LiveSyscalls

CONSTANTS
    Plans,          \* [cmdlines, types, drivers, fsconf]: see TreeOf
    NoPlan,
    DrvNames        \* the names that end in ".drv"

VARIABLES
    plan,
    drvfsDirit, \* its DirIterator
    dirname,    \* the driver directory it is in
    procs,      \* the drivers loaded, with the parsed fn.rap
    driveEntries        \* VFS::driveEntries

\* phase is where InitRamFs::init is; "off" without a plan.
startVars == <<plan, phase, drvfsDirit, dirname, procs, driveEntries>>
sysVars == <<vars, startVars, liveVars>>

ASSUME PlansAssumption == NoPlan \notin Plans

-----------------------------------------------------------------------------
\* The root directory of a plan.  A line of a .cfg is [k, key, val]: a section, a
\* comment, a string, a number, or a value that is neither.

Sec(name) == [k |-> "sec", key |-> name, val |-> <<>>]
Line(k, key, val) == [k |-> k, key |-> <<key>>, val |-> val]

\* build.py: the conf.cfg of a file system driver.
BuildConf(name, vers, execfp, fstype) ==
    <<Sec(<<"gen">>), Line("str", "name", name), Line("str", "vers", vers),
      Line("str", "execfp", execfp), Sec(<<"custom">>), Line("str", "fstype", fstype),
      Sec(<<"expects", ".", "sysc">>), Line("int", "int", <<"4", "8">>)>>

LineText(l) ==
    (CASE l.k = "sec" -> <<"[">> \o l.key \o <<"]">>
       [] l.k = "comment" -> <<"#", " ">> \o l.key \o l.val
       [] l.k = "str" -> l.key \o <<"=", "q">> \o l.val \o <<"q">>
       [] OTHER -> l.key \o <<" ", "=", " ">> \o l.val) \o <<"\n">>
\* endless: the last newline is missing.
CfgText(cfg) ==
    LET t == FlattenSeq([i \in DOMAIN cfg.lines |-> LineText(cfg.lines[i])])
    IN  IF cfg.endless THEN Front(t) ELSE t

\* fn.rap as docs/rap.md has it, which is how the kernel writes one.
RapText(fns) == FlattenSeq([i \in DOMAIN fns |-> Append(ToStr(fns[i]), "\n")])

\* The files of a driver: name -> text.  conf, rap and exec may be missing.
DriverFiles(d) ==
    (IF d.conf = None THEN <<>> ELSE "conf.cfg" :> CfgText(d.conf))
    @@ (IF d.rap = None THEN <<>> ELSE "fn.rap" :> RapText(d.rap))
    @@ (IF d.exec = None THEN <<>> ELSE "exec" :> <<d.exec>>)
Dir(name, files, dirs) == [name |-> name, sub |-> [files |-> files, dirs |-> dirs]]
TreeOf(p) ==
    LET drvs == [i \in DOMAIN p.drivers |->
                    Dir(p.drivers[i].dir, SetToSeq(DOMAIN DriverFiles(p.drivers[i])), <<>>)]
        types == [i \in DOMAIN p.types |->
                    Dir(p.types[i], <<>>, IF p.types[i] = "fs" THEN drvs ELSE <<>>)]
        etc == IF p.fsconf = None THEN <<>> ELSE <<"fs.cfg">>
    IN  [files |-> <<>>, dirs |-> <<Dir("drv", <<>>, types), Dir("etc", etc, <<>>)>>]

\* The text of the file that an open returned: its contents name its path.
Text(conts) ==
    IF conts = <<"etc", "fs.cfg">> THEN CfgText(plan.fsconf)
    ELSE LET i == SelectInSeq(plan.drivers, LAMBDA d : d.dir = conts[3])
         IN  DriverFiles(plan.drivers[i])[conts[4]]

-----------------------------------------------------------------------------
\* InitRamFs::init.

SysInit ==
    /\ \/ Init /\ plan = NoPlan /\ phase = "off"
       \/ \E p \in Plans : tree = TreeOf(p) /\ Fresh /\ plan = p /\ phase = "start"
    /\ drvfsDirit = NoIterator /\ dirname = None
    /\ procs = <<>> /\ driveEntries = <<>>
    /\ LiveInit

DrvFs == <<"/", "drv", "/", "fs">>
In(name, file) == DrvFs \o <<"/", name, "/">> \o file

\* The steps change only the variables of their own step.
Goto(ph) == phase' = ph /\ UNCHANGED <<vars, plan, liveVars>>

\* The first module must be the image (58-81), the image must be correct, and
\* /drv/fs a directory of it (86-101).
FindImage ==
    /\ phase = "start" /\ Built
    /\ LET ok == plan.cmdlines # <<>> /\ plan.cmdlines[1] = "IS_INITRAMFS" /\ CheckCorrectness
           d == GetDirIt(DrvFs)
       IN  IF ok /\ IsFile(d) THEN Goto("next") /\ drvfsDirit' = d
           ELSE Goto("panic") /\ UNCHANGED drvfsDirit
    /\ UNCHANGED <<dirname, procs, driveEntries>>

\* dirItGetNextDir; a directory that is no .drv is skipped (103-116).
NextDriver ==
    /\ phase = "next"
    /\ IF drvfsDirit.dirsRemaining = 0 THEN Goto("calls") /\ UNCHANGED <<drvfsDirit, dirname>>
       ELSE LET o == drvfsDirit.dirPos
            IN  /\ drvfsDirit' = [drvfsDirit EXCEPT !.dirsRemaining = @ - 1,
                                                    !.dirPos = o + 4 + U32(o) + LatterSize]
                /\ dirname' = At(o + 4)
                /\ Goto(IF At(o + 4) \in DrvNames THEN "conf" ELSE "next")
    /\ UNCHANGED <<procs, driveEntries>>

RequiredFields ==
    {<<"gen", ".", "name">>, <<"gen", ".", "vers">>, <<"gen", ".", "execfp">>, <<"custom", ".", "fstype">>}

\* conf.cfg: parsed, every required field there, and the executable it names an
\* ELF file, which is loaded as a process (118-197).  A field that is no string is
\* used as one.
LoadDriver ==
    /\ phase = "conf"
    /\ LET f == Open(In(dirname, <<"conf.cfg">>))
           conf == ParseSrc(Text(Read(f)))
           Val(k) == conf.map[IndexIn(conf.map, k)].v
           exec == Open(In(dirname, Val(<<"gen", ".", "execfp">>).str))
       IN  IF ~IsFile(f) THEN Goto("panic") /\ UNCHANGED procs
           ELSE IF conf.status = "lost" THEN Goto("lost") /\ UNCHANGED procs
           ELSE IF conf.status = "err" \/ \E k \in RequiredFields : ~Exists(conf.map, k)
           THEN Goto("panic") /\ UNCHANGED procs
           ELSE IF \E k \in RequiredFields : Val(k).state # "String" THEN Goto("lost") /\ UNCHANGED procs
           ELSE IF ~IsFile(exec) \/ Text(Read(exec)) # <<"elf">> THEN Goto("panic") /\ UNCHANGED procs
           ELSE Goto("rap") /\ procs' = Append(procs, [drv |-> dirname, rap |-> <<>>])
    /\ UNCHANGED <<drvfsDirit, dirname, driveEntries>>

\* fn.rap (199-222); registerForFs parses it once more and keeps nothing.
ReadRap ==
    /\ phase = "rap"
    /\ LET f == Open(In(dirname, <<"fn.rap">>))
           rap == ParseFile(Text(Read(f)))
       IN  IF ~IsFile(f) THEN Goto("panic") /\ UNCHANGED procs
           ELSE IF rap.over THEN Goto("lost") /\ UNCHANGED procs
           ELSE Goto("vfs") /\ procs' = [procs EXCEPT ![Len(procs)].rap = rap.entries]
    /\ UNCHANGED <<drvfsDirit, dirname, driveEntries>>

\* VFS::initFromSrc: every section of drives has a number and a file system; the
\* number becomes a u8.
Entry(conf, section) ==
    [drive |-> IndexIn(conf.map, section \o <<".", "drive">>),
     fs |-> IndexIn(conf.map, section \o <<".", "fs">>)]
EntryOK(conf, e) ==
    /\ e.drive # 0 /\ e.fs # 0
    /\ conf.map[e.drive].v.state = "Int" /\ conf.map[e.fs].v.state = "String"
DriveEntry(conf, e) == [id |-> conf.map[e.drive].v.int % 256, fsName |-> conf.map[e.fs].v.str]
InitFromSrc ==
    /\ phase = "vfs"
    /\ LET f == Open(<<"/", "etc", "/", "fs.cfg">>)
           conf == ParseSrc(Text(Read(f)))
           sections == GetAllSubsections(conf, <<"drives", ".">>)
           es == [i \in DOMAIN sections |-> Entry(conf, sections[i])]
       IN  IF ~IsFile(f) THEN Goto("panic") /\ UNCHANGED driveEntries
           ELSE IF conf.status = "lost" THEN Goto("lost") /\ UNCHANGED driveEntries
           ELSE IF conf.status = "err" \/ \E i \in DOMAIN es : ~EntryOK(conf, es[i])
           THEN Goto("panic") /\ UNCHANGED driveEntries
           ELSE /\ Goto("next")
                /\ driveEntries' = driveEntries \o [i \in DOMAIN es |-> DriveEntry(conf, es[i])]
    /\ UNCHANGED <<drvfsDirit, dirname, procs>>

-----------------------------------------------------------------------------
\* The live system calls change nothing of init's, and the reader's calls are only
\* made without a plan: with one, the calls are those of init.
LiveCalls == LiveNext /\ UNCHANGED <<vars, plan, drvfsDirit, dirname, procs, driveEntries>>
Reader == Next /\ (plan = NoPlan \/ ~Built) /\ UNCHANGED <<startVars, liveVars>>

SysNext ==
    \/ Reader
    \/ FindImage \/ NextDriver \/ LoadDriver \/ ReadRap \/ InitFromSrc
    \/ LiveCalls

SysSpec == SysInit /\ [][SysNext]_sysVars

-----------------------------------------------------------------------------
\* The reference: what the author of the plan meant.

\* The first line with the key in the section.
SectionAt(lines, i) ==
    LET secs == {j \in 1 .. i : lines[j].k = "sec"} IN IF secs = {} THEN <<>> ELSE lines[Max(secs)].key
Given(lines, section, key) ==
    LET at == {i \in DOMAIN lines : lines[i].k \in {"str", "int"} /\ lines[i].key = <<key>>
                                    /\ SectionAt(lines, i) = section}
    IN  IF at = {} THEN None ELSE lines[Min(at)]

Readable(cfg) == \A i \in DOMAIN cfg.lines : cfg.lines[i].k # "bad"
Kind(line) == IF line = None THEN "none" ELSE line.k

DriverOK(d) ==
    /\ d.conf # None /\ Readable(d.conf) /\ ~d.conf.endless
    /\ \A f \in {<<"gen", "name">>, <<"gen", "vers">>, <<"gen", "execfp">>, <<"custom", "fstype">>} :
           Kind(Given(d.conf.lines, <<f[1]>>, f[2])) = "str"
    /\ Given(d.conf.lines, <<"gen">>, "execfp").val = <<"exec">> /\ d.exec = "elf"

\* Every function of the driver's fn.rap has a parameter.
Parameterised(d) == d.rap # None /\ \A i \in DOMAIN d.rap : d.rap[i].params # <<>>

\* The driver as a process with the functions its fn.rap lists; a missing fn.rap
\* lists none.
MeantParam(param) == <<<<param[1]>>, <<param[2]>>>>
MeantFunction(f) ==
    [name |-> <<f.name>>, addr |-> f.addr, params |-> [k \in DOMAIN f.params |-> MeantParam(f.params[k])]]
MeantProcess(d) ==
    [drv |-> d.dir,
     rap |-> IF d.rap = None THEN <<>> ELSE [j \in DOMAIN d.rap |-> MeantFunction(d.rap[j])]]

DriveSections(cfg) ==
    LET secs == SelectSeq(cfg.lines, LAMBDA l : l.k = "sec" /\ IsPrefix(<<"drives", ".">>, l.key))
    IN  [i \in DOMAIN secs |-> secs[i].key]
FsConfOK(cfg) ==
    /\ cfg # None /\ Readable(cfg) /\ ~cfg.endless
    /\ \A i \in DOMAIN DriveSections(cfg) :
           /\ Kind(Given(cfg.lines, DriveSections(cfg)[i], "drive")) = "int"
           /\ Kind(Given(cfg.lines, DriveSections(cfg)[i], "fs")) = "str"
MeantDrives(cfg) ==
    [i \in DOMAIN DriveSections(cfg) |->
        [id |-> Value(Given(cfg.lines, DriveSections(cfg)[i], "drive").val) % 256,
         fsName |-> Given(cfg.lines, DriveSections(cfg)[i], "fs").val]]

\* A root directory as docs/driver.md describes it, with the drivers under /drv/fs
\* and the fs.cfg that InitRamFs::init reads for them.
Wanted(p) == SelectSeq(p.drivers, LAMBDA d : d.dir \in DrvNames)
PlanOK(p) ==
    /\ p.cmdlines # <<>> /\ p.cmdlines[1] = "IS_INITRAMFS"
    /\ DirOf(TreeOf(p), <<"drv", "fs">>) # None
    /\ \A i \in DOMAIN Wanted(p) : DriverOK(Wanted(p)[i])
    /\ Wanted(p) # <<>> => FsConfOK(p.fsconf)

\* Lost only when a text does not end as it should, or a function has no
\* parameters, which the kernel's RAP parser does not know.
MayLose(p) ==
    \/ p.fsconf # None /\ p.fsconf.endless
    \/ \E i \in DOMAIN p.drivers :
          LET d == p.drivers[i]
          IN  \/ d.conf # None /\ (d.conf.endless \/ \E j \in DOMAIN d.conf.lines : d.conf.lines[j].k = "int")
              \/ d.rap # None /\ \E j \in DOMAIN d.rap : d.rap[j].params = <<>>

-----------------------------------------------------------------------------
\* Properties.


\* docs/driver.md: conf.cfg and the executable are the only files a driver needs;
\* docs/rap.md: a function may have no parameters.  So InitRamFs::init comes to
\* its end for every root directory as the documents have it, each driver with the
\* functions its fn.rap lists.  It does not: see the run driver_docs.
DocumentedDriversStart ==
    (phase \in {"panic", "lost", "calls", "up"} /\ live.calls = 0 /\ PlanOK(plan)) =>
        /\ phase \in {"calls", "up"}
        /\ procs = [i \in DOMAIN Wanted(plan) |-> MeantProcess(Wanted(plan)[i])]

\* The text of the panic in FindImage, "/drv/fs did not exist": with the image the
\* first module and correct, init gives up only when the root directory has no
\* /drv/fs.  It does not hold: see the run nested_dirs.
DrvFsDidNotExist ==
    (phase = "panic" /\ drvfsDirit = NoIterator /\ plan.cmdlines # <<>>
        /\ plan.cmdlines[1] = "IS_INITRAMFS" /\ CheckCorrectness) =>
            DirOf(tree, <<"drv", "fs">>) = None
=============================================================================
