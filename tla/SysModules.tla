------------------------------ MODULE SysModules ------------------------------
(***************************************************************************)
(* SysModuleHandler (src/sys/sysmod.hpp): the system modules, such as PIT  *)
(* and Framebuffer, which a process may claim, give a function to and      *)
(* release, by system calls.                                               *)
(*                                                                         *)
(* A process is its pid; the function it passes to setFunc is part of its  *)
(* own image, and is written as its pid; its page directory also (that the *)
(* active directory is the one of the active process is shown of           *)
(* Scheduling).                                                            *)
(***************************************************************************)
EXTENDS Naturals

CONSTANTS
    Pids,        \* pids of the processes
    SysModuleId, \* the modules that have an entry: PIT, Framebuffer
    Unknown,     \* toSysMId of any other name
    NullFunc,    \* the nullptr of Entry::func
    DoNothing    \* SysModuleHandler::doNothing

\* Pid 0 is no process: owner 0 is a module nobody owns.  nullptr and doNothing
\* are code of no process.
ASSUME PidAssumption ==
    /\ Pids \subseteq Nat \ {0}
    /\ NullFunc \notin Pids /\ DoNothing \notin Pids
    /\ Unknown \notin SysModuleId

NullDir == 0

VARIABLE entries        \* SysModuleHandler::entries

Entry == [owner : Pids \cup {0},
          func : Pids \cup {NullFunc, DoNothing},
          ownerDir : Pids \cup {NullDir}]

\* SysModuleHandler::init.
SysInit ==
    entries = [m \in SysModuleId |->
                 [owner |-> 0, func |-> NullFunc, ownerDir |-> NullDir]]

\* Mutant of Claimable: an owner is not looked for.
Claimable_Always(mod) == mod \in SysModuleId

\* Whether claim, by any process, of what mod names returns 0.
Claimable(mod) == mod \in SysModuleId /\ entries[mod].owner = 0

\* Whether process pid owns what mod names; release and setFunc return 1
\* otherwise.
Owns(pid, mod) == mod \in SysModuleId /\ entries[mod].owner = pid

Claim(pid, mod) ==
    entries' = IF Claimable(mod)
               THEN [entries EXCEPT ![mod].owner = pid]
               ELSE entries

\* Mutant of Release: the function stays.
Release_KeepsFunc(pid, mod) ==
    entries' = IF Owns(pid, mod) THEN [entries EXCEPT ![mod].owner = 0] ELSE entries

Release(pid, mod) ==
    entries' = IF Owns(pid, mod)
               THEN [entries EXCEPT ![mod].owner = 0, ![mod].func = DoNothing]
               ELSE entries

\* setFunc by process pid while directory dir is active.
SetFunc(pid, dir, mod) ==
    entries' = IF Owns(pid, mod)
               THEN [entries EXCEPT ![mod].func = pid, ![mod].ownerDir = dir]
               ELSE entries

SysNext ==
    \E pid \in Pids, mod \in SysModuleId \cup {Unknown} :
        Claim(pid, mod) \/ Release(pid, mod) \/ SetFunc(pid, pid, mod)

SysSpec == SysInit /\ [][SysNext]_entries

-----------------------------------------------------------------------------
\* Types of the entries, for the proofs.
EntriesOK == entries \in [SysModuleId -> Entry]

\* The function of a module is code of the process that owns it now, and is
\* registered with that process's page directory: no sequence of claims,
\* registrations and releases leaves a function of a former owner behind, to
\* be called by an interrupt in the wrong address space.
FuncBelongsToOwner ==
    \A m \in SysModuleId :
        entries[m].func \in Pids =>
            entries[m].func = entries[m].owner /\ entries[m].ownerDir = entries[m].owner

\* A module is never taken from its owner: it goes from one process to the next
\* only through a state in which nobody owns it.
NoTakeover ==
    [][\A m \in SysModuleId :
          entries[m].owner # 0 => entries'[m].owner \in {entries[m].owner, 0}]_entries
=============================================================================
