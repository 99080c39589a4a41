------------------------------ MODULE Scheduling ------------------------------
(***************************************************************************)
(* The scheduler: the timer interrupt (src/drivers/interrupts/pit), the     *)
(* process /krn/bin/sched with its own pitHandler (sbinSrc/sched),          *)
(* Process::ctxtSwitch, and the system calls of the processes that run.     *)
(*                                                                         *)
(* A process is its pid, which is its place in the process list: loads      *)
(* follow each other, and pids and places are given out in the same order.  *)
(* The context of a process is one value: for sched the statement of        *)
(* _start it is at, for others a number.  The variable cpu is the context    *)
(* of the running process, saved its Process::state.  The page directory of  *)
(* a process is written as its pid.                                         *)
(*                                                                         *)
(* Init is the machine when Process::run has started sched: the initramfs   *)
(* drivers, then sched, are in the list.                                    *)
(***************************************************************************)
EXTENDS SysModules, Sequences

CONSTANTS
    PIT,                \* SysModuleId::PIT
    BootDrivers,        \* how many initramfs drivers there may be
    InitLists,          \* possible /etc/init.lst: sequences of entry kinds
    CtxtSwitchInterval, \* PROCESS_CTXTSWITCH_INTERVAL
    Contexts            \* bound on the contexts of a process told apart

\* The kinds of processes, by the privilege they are loaded with; a BOOT driver
\* is loaded as KRN but has entry point 0.  BAD is a malformed line of init.lst.
Kinds == {"BOOT", "KRN", "DRV", "USR", "BAD"}

ASSUME SchedAssumption ==
    /\ PIT \in SysModuleId
    /\ BootDrivers \subseteq Nat
    /\ InitLists \subseteq Seq(Kinds \ {"BOOT"})
    /\ CtxtSwitchInterval \in Nat \ {0}
    /\ Contexts \in Nat \ {0}
    /\ \A d \in BootDrivers, l \in InitLists : 1 .. d + 1 + Len(l) \subseteq Pids

VARIABLES
    kinds,              \* kinds of the processes, in the order they are loaded
    schedPid,           \* pid of sched
    len, stored,        \* the process list: Vector::len, elements written to arr
    activeProcessPid,
    activeDirectory,
    cpu,                \* context of the active process
    saved,              \* Process::state of each process
    mode,               \* user; pit, handler, switch, return: interrupts masked
    interrupted,        \* pitHandler's local: the interrupted directory
    inService,          \* the PIC waits for the EOI of the timer interrupt
    getpidSet,          \* sched's getpid is not NULL
    procListSet,        \* sched's procList is not NULL
    currentProcess,     \* sched's currentProcess
    ticks,              \* sched's ticks, modulo CtxtSwitchInterval
    halted,             \* no, panic, or the wild read it ends in: noList, noElem
    left                \* history: the context at which a process lost the cpu

procs  == <<kinds, schedPid, len, stored>>
sched  == <<getpidSet, procListSet, currentProcess, ticks>>
timer  == <<interrupted, inService>>
vars == <<entries, procs, activeProcessPid, activeDirectory, cpu, saved, mode,
          timer, sched, halted, left>>

SchedPoint == {"claim", "setFunc", "getpid", "procList", "load", "push",
               "pushLen", "pushElem", "idle", "exit"}
SchedStart == "claim"
ProcStart  == 0

\* The context Process::state is given by ElfExecutable::load.
EntryContext(pid) == IF pid = schedPid THEN SchedStart ELSE ProcStart

Init ==
    /\ SysInit
    /\ \E d \in BootDrivers, l \in InitLists :
          /\ kinds = [i \in 1 .. d |-> "BOOT"] \o <<"KRN">> \o l
          /\ schedPid = d + 1
    /\ len = schedPid /\ stored = schedPid
    /\ activeProcessPid = schedPid /\ activeDirectory = schedPid
    /\ cpu = SchedStart
    /\ saved = [pid \in Pids |-> EntryContext(pid)]
    /\ left = [pid \in Pids |-> EntryContext(pid)]
    /\ mode = "user"
    /\ interrupted = NullDir /\ inService = FALSE
    /\ getpidSet = FALSE /\ procListSet = FALSE /\ currentProcess = 0 /\ ticks = 0
    /\ halted = "no"

Running == mode = "user" /\ halted = "no"

-----------------------------------------------------------------------------
\* _start of sched, one action per statement that other code can see.

SchedAt(point) == Running /\ activeProcessPid = schedPid /\ cpu = point

SchedGoto(point) ==
    /\ cpu' = point
    /\ UNCHANGED <<kinds, schedPid, activeProcessPid, activeDirectory, saved, mode,
                   timer, currentProcess, ticks, halted, left>>

SchedClaim ==
    /\ SchedAt("claim")
    /\ Claim(schedPid, PIT)
    /\ SchedGoto(IF Claimable(PIT) THEN "setFunc" ELSE "exit")
    /\ UNCHANGED <<len, stored, getpidSet, procListSet>>

\* Mutant of SchedSetFunc: the directory is not recorded.
SchedSetFunc_NoDir ==
    /\ SchedAt("setFunc")
    /\ SetFunc(schedPid, NullDir, PIT)
    /\ SchedGoto("getpid")
    /\ UNCHANGED <<len, stored, getpidSet, procListSet>>

SchedSetFunc ==
    /\ SchedAt("setFunc")
    /\ SetFunc(schedPid, activeDirectory, PIT)
    /\ SchedGoto("getpid")
    /\ UNCHANGED <<len, stored, getpidSet, procListSet>>

SchedGetpid ==
    /\ SchedAt("getpid")
    /\ getpidSet' = TRUE
    /\ SchedGoto("procList")
    /\ UNCHANGED <<entries, len, stored, procListSet>>

SchedProcList ==
    /\ SchedAt("procList")
    /\ procListSet' = TRUE
    /\ SchedGoto("load")
    /\ UNCHANGED <<entries, len, stored, getpidSet>>

\* The loop over init.lst: the next line is malformed, or names a process,
\* which is loaded; or there is no next line.
SchedNextLine ==
    /\ SchedAt("load")
    /\ SchedGoto(IF stored = Len(kinds) THEN "idle"
                 ELSE IF kinds[stored + 1] = "BAD" THEN "exit" ELSE "push")
    /\ UNCHANGED <<entries, len, stored, getpidSet, procListSet>>

\* processes.pushBack, arr[len++] = elem: two stores, in the order the compiler
\* chose.
SchedPushLen ==
    /\ \/ SchedAt("push") /\ SchedGoto("pushElem")
       \/ SchedAt("pushLen") /\ SchedGoto("load")
    /\ len' = len + 1
    /\ UNCHANGED <<entries, stored, getpidSet, procListSet>>

SchedPushElem ==
    /\ \/ SchedAt("push") /\ SchedGoto("pushLen")
       \/ SchedAt("pushElem") /\ SchedGoto("load")
    /\ stored' = stored + 1
    /\ UNCHANGED <<entries, len, getpidSet, procListSet>>

\* System call Exit.  Every process is REQ: run is given REQ, and load leaves
\* importance at 0, which is REQ.
Exit ==
    /\ halted' = "panic"
    /\ UNCHANGED <<entries, procs, activeProcessPid, activeDirectory, cpu, saved, mode,
                   timer, sched, left>>

SchedExit == SchedAt("exit") /\ Exit

SchedStep ==
    \/ SchedClaim \/ SchedSetFunc \/ SchedGetpid \/ SchedProcList \/ SchedNextLine
    \/ SchedPushLen \/ SchedPushElem \/ SchedExit

-----------------------------------------------------------------------------
\* The other processes: they compute, and make the system calls on modules.

ProcRuns == Running /\ activeProcessPid # schedPid

ProcStep ==
    /\ ProcRuns
    /\ cpu' = (cpu + 1) % Contexts
    /\ UNCHANGED <<entries, procs, activeProcessPid, activeDirectory, saved, mode,
                   timer, sched, halted, left>>

ProcCall(mod) ==
    /\ ProcRuns
    /\ \/ Claim(activeProcessPid, mod)
       \/ Release(activeProcessPid, mod)
       \/ SetFunc(activeProcessPid, activeDirectory, mod)
    /\ UNCHANGED <<procs, activeProcessPid, activeDirectory, cpu, saved, mode, timer,
                   sched, halted, left>>

ProcExit == ProcRuns /\ Exit

-----------------------------------------------------------------------------
\* The timer interrupt.

\* The kernel's pitHandler up to the call of the function PIT's owner
\* registered, in the owner's address space; without one it goes on to the end.
TickEnter ==
    /\ Running /\ ~inService
    /\ inService' = TRUE
    /\ left' = [left EXCEPT ![activeProcessPid] = cpu]
    /\ interrupted' = activeDirectory
    /\ IF entries[PIT].func = NullFunc
       THEN mode' = "return" /\ UNCHANGED activeDirectory
       ELSE mode' = "handler" /\ activeDirectory' = entries[PIT].ownerDir
    /\ UNCHANGED <<entries, procs, activeProcessPid, cpu, saved, sched, halted>>

\* The context of the active process is saved, once sched knows how to find it.
SaveContext_Skipped == UNCHANGED saved \* Mutant of SaveContext.
SaveContext ==
    saved' = IF getpidSet /\ procListSet
             THEN [saved EXCEPT ![activeProcessPid] = cpu]
             ELSE saved

\* Mutants of NextProcess: the same for ever; round robin; |= 1.
NextProcess_Same  == currentProcess
NextProcess_Round == (currentProcess + 1) % len
NextProcess_One   == 1

\* currentProcess ^= 1.
NextProcess == 1 - currentProcess

\* sched's pitHandler up to procCtxtSwitch.  If getpid was set and procList not
\* yet, it goes through a NULL list.
SchedHandler ==
    /\ mode = "handler" /\ halted = "no"
    /\ ticks' = (ticks + 1) % CtxtSwitchInterval
    /\ SaveContext
    /\ halted' = IF getpidSet /\ ~procListSet THEN "noList" ELSE "no"
    /\ IF procListSet /\ len > 1 /\ ticks' = 0
       THEN mode' = "switch" /\ currentProcess' = NextProcess
       ELSE mode' = "return" /\ UNCHANGED currentProcess
    /\ UNCHANGED <<entries, procs, activeProcessPid, activeDirectory, cpu, timer,
                   getpidSet, procListSet, left>>

\* PIC::sendEoi.
SendEoi_Lost == UNCHANGED inService \* Mutant of SendEoi.
SendEoi == inService' = FALSE

\* procCtxtSwitch on the process at place currentProcess of the list.
CtxtSwitch ==
    LET pid == currentProcess + 1
    IN  /\ mode = "switch" /\ halted = "no"
        /\ \/ /\ pid > stored
              /\ halted' = "noElem"
              /\ UNCHANGED <<activeProcessPid, activeDirectory, cpu, mode, inService>>
           \/ /\ pid <= stored /\ kinds[pid] \in {"DRV", "BOOT"}
              /\ activeProcessPid' = pid
              /\ halted' = "panic"
              /\ UNCHANGED <<activeDirectory, cpu, mode, inService>>
           \/ /\ pid <= stored /\ kinds[pid] \notin {"DRV", "BOOT"}
              /\ activeProcessPid' = pid
              /\ SendEoi
              /\ activeDirectory' = pid
              /\ cpu' = saved[pid]
              /\ mode' = "user"
              /\ UNCHANGED halted
        /\ UNCHANGED <<entries, procs, saved, interrupted, sched, left>>

\* The kernel's pitHandler returns to the interrupted address space.
RestoreDirectory_Forgotten == UNCHANGED activeDirectory \* Mutant.
RestoreDirectory == activeDirectory' = interrupted

\* The rest of the kernel's pitHandler.
TickLeave ==
    /\ mode = "return" /\ halted = "no"
    /\ RestoreDirectory
    /\ SendEoi
    /\ mode' = "user"
    /\ UNCHANGED <<entries, procs, activeProcessPid, cpu, saved, interrupted, sched,
                   halted, left>>

Tick == TickEnter \/ SchedHandler \/ CtxtSwitch \/ TickLeave

Next ==
    \/ SchedStep
    \/ ProcStep \/ ProcExit \/ \E mod \in SysModuleId \cup {Unknown} : ProcCall(mod)
    \/ Tick

\* The timer is periodic and the handlers do not block; sched, whenever it has
\* the processor again and again, gets to execute.
Fairness == WF_vars(Tick) /\ SF_vars(SchedStep)

Spec == Init /\ [][Next]_vars /\ Fairness

-----------------------------------------------------------------------------
\* Properties.

\* A process that does not run, or is about to be switched away from, has in its
\* Process::state the context at which it last lost the processor: what
\* resumeProcess loads is what the timer interrupted, or the entry point.
SavedContexts ==
    \A pid \in 1 .. stored :
        (pid # activeProcessPid \/ mode = "switch") /\ halted = "no"
            => saved[pid] = left[pid]

\* The function of PIT runs in the address space it was registered from, which
\* is that of sched, whatever process the timer interrupted; and the process
\* that goes on afterwards runs in its own.
AddressSpaceOfCode ==
    /\ mode \in {"handler", "switch"} /\ halted = "no" =>
          activeDirectory = schedPid /\ entries[PIT].func = schedPid
    /\ mode = "user" => activeDirectory = activeProcessPid

\* Every timer interrupt is acknowledged before a process runs again, on the way
\* back and on a context switch: otherwise it was the last one.
Acknowledged == mode = "user" => ~inService

\* The system calls of sched and of the processes, as the scheduler interleaves
\* them, are a behaviour of SysModules.
ImplementsSysModules == SysSpec

\* With two processes in the list, each of the first two comes to run again and
\* again, unless the kernel halts.
TakesTurns ==
    \A pid \in Pids \cap {1, 2} :
        stored >= 2 ~> (halted # "no" \/ activeProcessPid = pid)

\* sched gets through init.lst, however often the timer takes the processor
\* away from it, unless the kernel halts.
InitListLoaded == <>(halted # "no" \/ stored = Len(kinds))

\* sbinSrc/sched/scheduling/pitHandler.c:23, "the Process MUST exist so no safety
\* checks": the handler never looks for the active process without a list.
ProcessMustExist == halted # "noList"

\* The kpanic of ctxtSwitch is for drivers, and sched's handler chooses between
\* the first two places of the list: a driver behind them, from whatever line of
\* init.lst and however the ticks fall, never stops the kernel.
SwitchPanicsOnlyForDrivers ==
    mode = "switch" /\ halted = "panic" =>
        \E pid \in {1, 2} \cap 1 .. Len(kinds) : kinds[pid] \in {"DRV", "BOOT"}

=============================================================================
