--------------------------- MODULE SchedulingProofs ---------------------------
(***************************************************************************)
(* Proofs about SysModules, for any set of processes and any set of        *)
(* modules, and about Scheduling, for any number of processes, any         *)
(* init.lst, any interval between context switches and any interleaving of *)
(* the timer.                                                              *)
(***************************************************************************)
EXTENDS Scheduling, SequenceTheorems, TLAPS

\* The modules: FuncBelongsToOwner is inductive together with the types.
SysInv == EntriesOK /\ FuncBelongsToOwner

\* No entry of SysModuleHandler::init has a function or an owner.
LEMMA SysInitInv == SysInit => SysInv
  BY PidAssumption
  DEF SysInit, SysInv, EntriesOK, FuncBelongsToOwner, Entry, NullDir

\* claim gives an owner to an entry that has none, hence no function of a
\* process.
LEMMA ClaimInv ==
  ASSUME SysInv, NEW pid \in Pids, NEW mod, Claim(pid, mod)
  PROVE  SysInv'
  <1>1. CASE ~Claimable(mod)
    BY <1>1 DEF Claim, SysInv, EntriesOK, FuncBelongsToOwner
  <1>2. CASE Claimable(mod)
    <2>1. entries \in [SysModuleId -> Entry] /\ mod \in SysModuleId
      BY <1>2 DEF SysInv, EntriesOK, Claimable
    <2>2. entries' = [entries EXCEPT ![mod].owner = pid]
      BY <1>2 DEF Claim
    <2>3. entries[mod].func \notin Pids
      BY <1>2, <2>1, PidAssumption DEF SysInv, FuncBelongsToOwner, Claimable, Entry
    <2>4. EntriesOK'
      BY <2>1, <2>2 DEF EntriesOK, Entry
    <2>5. FuncBelongsToOwner'
      BY <2>1, <2>2, <2>3 DEF SysInv, FuncBelongsToOwner, Entry
    <2> QED
      BY <2>4, <2>5 DEF SysInv
  <1> QED
    BY <1>1, <1>2

\* release takes owner and function together.
LEMMA ReleaseInv ==
  ASSUME SysInv, NEW pid \in Pids, NEW mod, Release(pid, mod)
  PROVE  SysInv'
  <1>1. CASE ~Owns(pid, mod)
    BY <1>1 DEF Release, SysInv, EntriesOK, FuncBelongsToOwner
  <1>2. CASE Owns(pid, mod)
    <2>1. entries \in [SysModuleId -> Entry] /\ mod \in SysModuleId
      BY <1>2 DEF SysInv, EntriesOK, Owns
    <2>2. entries' = [entries EXCEPT ![mod].owner = 0, ![mod].func = DoNothing]
      BY <1>2 DEF Release
    <2>3. EntriesOK'
      BY <2>1, <2>2 DEF EntriesOK, Entry
    <2>4. FuncBelongsToOwner'
      BY <2>1, <2>2, PidAssumption DEF SysInv, FuncBelongsToOwner, Entry
    <2> QED
      BY <2>3, <2>4 DEF SysInv
  <1> QED
    BY <1>1, <1>2

\* setFunc registers code of the owner, with the owner's directory.
LEMMA SetFuncInv ==
  ASSUME SysInv, NEW pid \in Pids, NEW mod, SetFunc(pid, pid, mod)
  PROVE  SysInv'
  <1>1. CASE ~Owns(pid, mod)
    BY <1>1 DEF SetFunc, SysInv, EntriesOK, FuncBelongsToOwner
  <1>2. CASE Owns(pid, mod)
    <2>1. entries \in [SysModuleId -> Entry] /\ mod \in SysModuleId
      BY <1>2 DEF SysInv, EntriesOK, Owns
    <2>2. entries' = [entries EXCEPT ![mod].func = pid, ![mod].ownerDir = pid]
      BY <1>2 DEF SetFunc
    <2>3. EntriesOK'
      BY <2>1, <2>2 DEF EntriesOK, Entry
    <2>4. FuncBelongsToOwner'
      BY <1>2, <2>1, <2>2 DEF SysInv, FuncBelongsToOwner, Entry, Owns
    <2> QED
      BY <2>3, <2>4 DEF SysInv
  <1> QED
    BY <1>1, <1>2

\* The system calls of any process keep the function of every module that of
\* its present owner, registered with that owner's directory, and the entries
\* well-typed.
THEOREM SysInvariant == SysSpec => []SysInv
  <1>1. SysInit => SysInv
    BY SysInitInv
  <1>2. SysInv /\ [SysNext]_entries => SysInv'
    <2> SUFFICES ASSUME SysInv, [SysNext]_entries PROVE SysInv'
      OBVIOUS
    <2>1. CASE UNCHANGED entries
      BY <2>1 DEF SysInv, EntriesOK, FuncBelongsToOwner
    <2>2. CASE SysNext
      <3>1. PICK pid \in Pids, mod \in SysModuleId \cup {Unknown} :
              Claim(pid, mod) \/ Release(pid, mod) \/ SetFunc(pid, pid, mod)
        BY <2>2 DEF SysNext
      <3> QED
        BY <3>1, ClaimInv, ReleaseInv, SetFuncInv
    <2> QED
      BY <2>1, <2>2
  <1> QED
    BY <1>1, <1>2, PTL DEF SysSpec

\* What an interrupt finds in an entry is code of the present owner of the
\* module and the directory that code is mapped in.
THEOREM FunctionsOfOwners == SysSpec => []FuncBelongsToOwner
  <1>1. SysInv => FuncBelongsToOwner
    BY DEF SysInv
  <1> QED
    BY <1>1, SysInvariant, PTL

\* claim refuses a module that has an owner, release and setFunc a caller that
\* is not the owner: whatever processes call, a module goes from one owner to
\* the next only through a state without owner.
THEOREM ModulesNotTaken == SysSpec => NoTakeover
  <1>1. ASSUME SysInv, SysNext, NEW m \in SysModuleId, entries[m].owner # 0
        PROVE  entries'[m].owner \in {entries[m].owner, 0}
    <2>1. PICK pid \in Pids, mod \in SysModuleId \cup {Unknown} :
            Claim(pid, mod) \/ Release(pid, mod) \/ SetFunc(pid, pid, mod)
      BY <1>1 DEF SysNext
    <2>2. entries \in [SysModuleId -> Entry]
      BY <1>1 DEF SysInv, EntriesOK
    <2>3. CASE Claim(pid, mod)
      BY <1>1, <2>2, <2>3 DEF Claim, Claimable, Entry
    <2>4. CASE Release(pid, mod)
      BY <1>1, <2>2, <2>4 DEF Release, Owns, Entry
    <2>5. CASE SetFunc(pid, pid, mod)
      BY <1>1, <2>2, <2>5 DEF SetFunc, Owns, Entry
    <2> QED
      BY <2>1, <2>3, <2>4, <2>5
  <1>2. SysInv /\ [SysNext]_entries =>
          [\A m \in SysModuleId :
              entries[m].owner # 0 => entries'[m].owner \in {entries[m].owner, 0}]_entries
    BY <1>1
  <1> QED
    BY <1>2, SysInvariant, PTL DEF SysSpec, NoTakeover

-----------------------------------------------------------------------------
\* Scheduling.

\* What the context of a process can be.
ContextsOf(pid) == IF pid = schedPid THEN SchedPoint ELSE Nat

\* Types: the process list holds processes, no process is given a context of
\* another, and the entries of the modules are sound.
SchedTypes ==
    /\ SysInv
    /\ schedPid \in 1 .. Len(kinds) /\ 1 .. Len(kinds) \subseteq Pids
    /\ len \in Nat /\ stored \in 0 .. Len(kinds)
    /\ activeProcessPid \in Pids
    /\ halted = "no" => cpu \in ContextsOf(activeProcessPid)
    /\ saved = [pid \in Pids |-> saved[pid]] /\ left = [pid \in Pids |-> left[pid]]
    /\ \A pid \in Pids : saved[pid] \in ContextsOf(pid)
    /\ mode \in {"user", "handler", "switch", "return"}
    /\ inService \in BOOLEAN /\ getpidSet \in BOOLEAN /\ procListSet \in BOOLEAN
    /\ currentProcess \in {0, 1}

\* Where _start of sched is, also while another process runs.
SchedContext == IF activeProcessPid = schedPid THEN cpu ELSE saved[schedPid]

\* How far sched is determines PIT's entry and its own two pointers: until the
\* list is set no other process has run, so none can have claimed PIT, and from
\* then on sched owns it.
SchedProgress ==
    /\ SchedContext = "claim" => entries[PIT].owner = 0
    /\ SchedContext # "claim" => entries[PIT].owner = schedPid
    /\ SchedContext \in {"claim", "setFunc"} =>
           entries[PIT].func = NullFunc /\ ~getpidSet
    /\ SchedContext \notin {"claim", "setFunc"} => entries[PIT].func = schedPid
    /\ SchedContext = "procList" => getpidSet
    /\ procListSet => getpidSet
    /\ ~procListSet => activeProcessPid = schedPid
    /\ SchedContext \in {"push", "pushElem"} => stored < Len(kinds)

\* Where the timer interrupt is determines what is active, and what the return
\* and the switch find.
TickProgress ==
    /\ mode # "user" => interrupted = activeProcessPid /\ left[activeProcessPid] = cpu
    /\ mode = "handler" => entries[PIT].func = schedPid
    /\ mode \in {"handler", "switch"} => activeDirectory = schedPid
    /\ mode = "switch" => procListSet /\ saved[activeProcessPid] = cpu

\* The contexts of all processes, in the list or not.
AllSaved ==
    \A pid \in Pids : pid # activeProcessPid => saved[pid] = left[pid]

SchedInv ==
    /\ SchedTypes
    /\ mode = "user" => ~inService /\ activeDirectory = activeProcessPid
    /\ halted = "no" => SchedProgress /\ TickProgress /\ AllSaved

-----------------------------------------------------------------------------
\* The list at boot: the drivers, sched, and the lines of init.lst.
LEMMA BootList ==
  ASSUME NEW d \in BootDrivers, NEW l \in InitLists,
         kinds = [i \in 1 .. d |-> "BOOT"] \o <<"KRN">> \o l
  PROVE  d + 1 \in 1 .. Len(kinds) /\ 1 .. Len(kinds) \subseteq Pids
  <1>1. d \in Nat /\ l \in Seq(Kinds)
    BY SchedAssumption, SeqMonotonic DEF Kinds
  <1> DEFINE boot == [i \in 1 .. d |-> "BOOT"]
  <1>2. boot \in Seq(Kinds) /\ Len(boot) = d
    BY <1>1 DEF Kinds
  <1>3. <<"KRN">> \in Seq(Kinds) /\ Len(<<"KRN">>) = 1
    BY DEF Kinds
  <1> HIDE DEF boot
  <1>4. boot \o <<"KRN">> \in Seq(Kinds) /\ Len(boot \o <<"KRN">>) = d + 1
    BY <1>2, <1>3, ConcatProperties
  <1>5. Len((boot \o <<"KRN">>) \o l) = Len(boot \o <<"KRN">>) + Len(l)
    BY <1>1, <1>4, ConcatProperties
  <1>6. Len(kinds) = d + 1 + Len(l)
    BY <1>4, <1>5 DEF boot
  <1>7. Len(l) \in Nat
    BY <1>1, LenProperties
  <1> QED
    BY <1>1, <1>6, <1>7, SchedAssumption

\* Process::run has started sched; PIT has no owner.
LEMMA SchedInitInv == Init => SchedInv
  <1> SUFFICES ASSUME Init PROVE SchedInv
    OBVIOUS
  <1>1. SysInv
    BY SysInitInv DEF Init
  <1>2. schedPid \in 1 .. Len(kinds) /\ 1 .. Len(kinds) \subseteq Pids
    BY BootList DEF Init
  <1>3. schedPid \in Pids /\ schedPid \in Nat /\ Len(kinds) \in Nat
    BY <1>2, PidAssumption
  <1>4. SchedTypes
    <2>1. saved = [pid \in Pids |-> EntryContext(pid)] /\ left = saved
      BY DEF Init
    <2>2. \A pid \in Pids : EntryContext(pid) \in ContextsOf(pid)
      BY DEF EntryContext, ContextsOf, SchedStart, ProcStart, SchedPoint
    <2>3. /\ saved = [pid \in Pids |-> saved[pid]] /\ left = [pid \in Pids |-> left[pid]]
          /\ \A pid \in Pids : saved[pid] \in ContextsOf(pid)
      BY <2>1, <2>2
    <2>4. cpu \in ContextsOf(activeProcessPid)
      BY DEF Init, ContextsOf, SchedStart, SchedPoint
    <2>5. len \in Nat /\ stored \in 0 .. Len(kinds) /\ activeProcessPid \in Pids
      <3>1. len = schedPid /\ stored = schedPid /\ activeProcessPid = schedPid
        BY DEF Init
      <3> QED
        BY <3>1, <1>2, <1>3
    <2>6. /\ mode = "user" /\ inService = FALSE /\ getpidSet = FALSE
          /\ procListSet = FALSE /\ currentProcess = 0
      BY DEF Init
    <2> QED
      BY <1>1, <1>2, <2>3, <2>4, <2>5, <2>6 DEF SchedTypes
  <1>5. SchedContext = "claim"
    BY DEF Init, SchedContext, SchedStart
  <1>6. SchedProgress
    BY <1>5, SchedAssumption DEF Init, SchedProgress, SysInit
  <1>7. TickProgress /\ AllSaved
    BY DEF Init, TickProgress, AllSaved
  <1> QED
    BY <1>4, <1>6, <1>7 DEF SchedInv, Init


\* Exit of any process: kpanic; nothing else changes.
LEMMA ExitInv == SchedInv /\ Exit => SchedInv'
  <1> SUFFICES ASSUME SchedInv, Exit PROVE SchedInv'
    OBVIOUS
  <1>1. halted' = "panic"
    BY DEF Exit
  <1>2. SchedTypes'
    <2>1. SchedTypes
      BY DEF SchedInv
    <2>2. SysInv'
      BY <2>1 DEF Exit, SchedTypes, SysInv, EntriesOK, FuncBelongsToOwner
    <2> QED
      BY <1>1, <2>1, <2>2 DEF Exit, SchedTypes, ContextsOf, procs, timer, sched
  <1>3. mode' = "user" => ~inService' /\ activeDirectory' = activeProcessPid'
    BY DEF SchedInv, Exit, timer
  <1> QED
    BY <1>1, <1>2, <1>3 DEF SchedInv

-----------------------------------------------------------------------------
\* The steps of sched.

\* A statement of _start: sched stays the active process, the timer and the
\* saved contexts are left alone, and sched's context is the next statement.
LEMMA SchedGotoContext ==
  ASSUME SchedInv, NEW from, NEW point \in SchedPoint, SchedAt(from), SchedGoto(point)
  PROVE  /\ SchedContext = from /\ SchedContext' = point
         /\ mode = "user" /\ mode' = "user" /\ halted = "no" /\ halted' = "no"
         /\ activeProcessPid = schedPid /\ activeDirectory = schedPid
         /\ activeProcessPid' = schedPid /\ schedPid' = schedPid /\ kinds' = kinds
         /\ cpu' \in ContextsOf(activeProcessPid)'
         /\ \A pid \in Pids : ContextsOf(pid)' = ContextsOf(pid)
         /\ ~inService'
         /\ TickProgress' /\ AllSaved'
         /\ SchedProgress
  <1>1. /\ mode = "user" /\ halted = "no" /\ activeProcessPid = schedPid /\ cpu = from
    BY DEF SchedAt, Running
  <1>2. /\ cpu' = point /\ kinds' = kinds /\ schedPid' = schedPid
        /\ activeProcessPid' = activeProcessPid /\ activeDirectory' = activeDirectory
        /\ saved' = saved /\ mode' = mode /\ inService' = inService
        /\ halted' = halted /\ left' = left
    BY DEF SchedGoto, timer
  <1>3. ~inService /\ activeDirectory = activeProcessPid /\ SchedProgress /\ AllSaved
    BY <1>1 DEF SchedInv
  <1>4. TickProgress'
    BY <1>1, <1>2 DEF TickProgress
  <1>5. AllSaved'
    BY <1>2, <1>3 DEF AllSaved
  <1>6. cpu' \in ContextsOf(activeProcessPid)'
    BY <1>1, <1>2 DEF ContextsOf
  <1>7. \A pid \in Pids : ContextsOf(pid)' = ContextsOf(pid)
    BY <1>2 DEF ContextsOf
  <1>8. SchedContext = from /\ SchedContext' = point
    BY <1>1, <1>2 DEF SchedContext
  <1> QED
    BY <1>1, <1>2, <1>3, <1>4, <1>5, <1>6, <1>7, <1>8

\* What is left to show of a statement of _start.
LEMMA SchedGotoInv ==
  ASSUME SchedInv, NEW from, NEW point \in SchedPoint, SchedAt(from), SchedGoto(point),
         SysInv', len' \in Nat, stored' \in 0 .. Len(kinds),
         getpidSet' \in BOOLEAN, procListSet' \in BOOLEAN,
         SchedProgress'
  PROVE  SchedInv'
  <1>1. /\ saved' = saved /\ left' = left /\ currentProcess' = currentProcess
        /\ activeDirectory' = activeDirectory
    BY DEF SchedGoto
  <1>2. SchedTypes'
    <2>1. /\ activeProcessPid' = schedPid /\ schedPid' = schedPid /\ kinds' = kinds
          /\ cpu' \in ContextsOf(activeProcessPid)'
          /\ \A pid \in Pids : ContextsOf(pid)' = ContextsOf(pid)
          /\ mode' = "user" /\ ~inService'
      BY SchedGotoContext
    <2>2. SchedTypes /\ schedPid \in Pids
      BY DEF SchedInv, SchedTypes
    <2>3. \A pid \in Pids : saved'[pid] \in ContextsOf(pid)'
      BY <1>1, <2>1, <2>2 DEF SchedTypes
    <2>4. /\ saved' = [pid \in Pids |-> saved'[pid]]
          /\ left' = [pid \in Pids |-> left'[pid]]
          /\ currentProcess' \in {0, 1}
          /\ schedPid' \in 1 .. Len(kinds)' /\ (1 .. Len(kinds))' \subseteq Pids
      BY <1>1, <2>1, <2>2 DEF SchedTypes
    <2>5. inService' \in BOOLEAN
      BY DEF SchedGoto, timer, SchedInv, SchedTypes
    <2> QED
      BY <2>1, <2>2, <2>3, <2>4, <2>5 DEF SchedTypes
  <1> QED
    BY <1>1, <1>2, SchedGotoContext DEF SchedInv

\* claim of PIT succeeds: nobody else has run yet.
LEMMA SchedClaimInv == SchedInv /\ SchedClaim => SchedInv'
  <1> SUFFICES ASSUME SchedInv, SchedClaim PROVE SchedInv'
    OBVIOUS
  <1>1. SchedAt("claim") /\ Claim(schedPid, PIT)
    BY DEF SchedClaim
  <1>2. /\ UNCHANGED <<len, stored, getpidSet, procListSet>>
        /\ entries \in [SysModuleId -> Entry] /\ PIT \in SysModuleId /\ schedPid \in Pids
    BY SchedAssumption DEF SchedClaim, SchedInv, SchedTypes, SysInv, EntriesOK
  <1>3. SchedProgress /\ SchedContext = "claim"
    BY <1>1 DEF SchedAt, Running, SchedInv, SchedContext
  <1>4. Claimable(PIT)
    BY <1>2, <1>3 DEF Claimable, SchedProgress
  <1>5. SchedGoto("setFunc") /\ "setFunc" \in SchedPoint
    BY <1>4 DEF SchedClaim, SchedPoint
  <1>6. /\ SchedContext' = "setFunc" /\ activeProcessPid' = schedPid
        /\ schedPid' = schedPid /\ kinds' = kinds
    BY <1>1, <1>5, SchedGotoContext
  <1>7. entries'[PIT].owner = schedPid /\ entries'[PIT].func = entries[PIT].func
    BY <1>1, <1>2, <1>4 DEF Claim, Entry
  <1>8. SchedProgress'
    BY <1>2, <1>3, <1>6, <1>7 DEF SchedProgress
  <1>9. SysInv'
    BY <1>1, <1>2, ClaimInv DEF SchedInv, SchedTypes
  <1>10. /\ len' \in Nat /\ stored' \in 0 .. Len(kinds)
         /\ getpidSet' \in BOOLEAN /\ procListSet' \in BOOLEAN
    BY <1>2 DEF SchedInv, SchedTypes
  <1> QED
    BY <1>1, <1>5, <1>8, <1>9, <1>10, SchedGotoInv

\* setFunc of PIT: sched owns it, and its own directory is active.
LEMMA SchedSetFuncInv == SchedInv /\ SchedSetFunc => SchedInv'
  <1> SUFFICES ASSUME SchedInv, SchedSetFunc PROVE SchedInv'
    OBVIOUS
  <1>1. SchedAt("setFunc") /\ SchedGoto("getpid") /\ "getpid" \in SchedPoint
    BY DEF SchedSetFunc, SchedPoint
  <1>2. /\ UNCHANGED <<len, stored, getpidSet, procListSet>>
        /\ entries \in [SysModuleId -> Entry] /\ PIT \in SysModuleId /\ schedPid \in Pids
    BY SchedAssumption DEF SchedSetFunc, SchedInv, SchedTypes, SysInv, EntriesOK
  <1>3. /\ SchedContext = "setFunc" /\ SchedContext' = "getpid" /\ SchedProgress
        /\ activeProcessPid' = schedPid /\ schedPid' = schedPid /\ kinds' = kinds
        /\ activeDirectory = schedPid
    BY <1>1, SchedGotoContext
  <1>4. SetFunc(schedPid, schedPid, PIT)
    BY <1>3 DEF SchedSetFunc
  <1>5. Owns(schedPid, PIT)
    BY <1>2, <1>3 DEF Owns, SchedProgress
  <1>6. entries'[PIT].func = schedPid /\ entries'[PIT].owner = schedPid
    BY <1>2, <1>4, <1>5 DEF SetFunc, Owns, Entry
  <1>7. SchedProgress'
    BY <1>2, <1>3, <1>6 DEF SchedProgress
  <1>8. SysInv'
    BY <1>2, <1>4, SetFuncInv DEF SchedInv, SchedTypes
  <1>9. /\ len' \in Nat /\ stored' \in 0 .. Len(kinds)
        /\ getpidSet' \in BOOLEAN /\ procListSet' \in BOOLEAN
    BY <1>2 DEF SchedInv, SchedTypes
  <1> QED
    BY <1>1, <1>7, <1>8, <1>9, SchedGotoInv

\* The statements that leave the entries of the modules alone: the two
\* pointers, the scan of init.lst, and the two stores of pushBack.
LEMMA SchedLocalInv ==
  ASSUME SchedInv, NEW from \in SchedPoint, NEW point \in SchedPoint,
         SchedAt(from), SchedGoto(point),
         entries' = entries, from # "claim", from # "setFunc",
         point # "claim", point # "setFunc",
         len' \in Nat, stored' \in 0 .. Len(kinds),
         getpidSet' \in BOOLEAN, procListSet' \in BOOLEAN,
         point = "procList" => getpidSet', procListSet' => getpidSet',
         point \in {"push", "pushElem"} => stored' < Len(kinds)
  PROVE  SchedInv'
  <1>1. /\ SchedContext = from /\ SchedContext' = point /\ SchedProgress
        /\ activeProcessPid' = schedPid /\ schedPid' = schedPid /\ kinds' = kinds
    BY SchedGotoContext
  <1>2. SchedProgress'
    BY <1>1 DEF SchedProgress
  <1>3. SysInv'
    BY DEF SchedInv, SchedTypes, SysInv, EntriesOK, FuncBelongsToOwner
  <1> QED
    BY <1>2, <1>3, SchedGotoInv

LEMMA SchedStepInv == SchedInv /\ SchedStep => SchedInv'
  <1> SUFFICES ASSUME SchedInv, SchedStep PROVE SchedInv'
    OBVIOUS
  <1>1. /\ len \in Nat /\ stored \in 0 .. Len(kinds) /\ Len(kinds) \in Nat
        /\ getpidSet \in BOOLEAN /\ procListSet \in BOOLEAN
    BY DEF SchedInv, SchedTypes
  <1>2. ASSUME NEW from, SchedAt(from)
        PROVE  SchedProgress /\ SchedContext = from
    BY <1>2 DEF SchedInv, SchedAt, Running, SchedContext
  <1>3. CASE SchedGetpid
    BY <1>1, <1>2, <1>3, SchedLocalInv DEF SchedGetpid, SchedPoint, SchedProgress
  <1>4. CASE SchedProcList
    BY <1>1, <1>2, <1>4, SchedLocalInv DEF SchedProcList, SchedPoint, SchedProgress
  <1>5. CASE SchedNextLine
    BY <1>1, <1>2, <1>5, SchedLocalInv DEF SchedNextLine, SchedPoint, SchedProgress
  <1>6. CASE SchedPushLen
    BY <1>1, <1>2, <1>6, SchedLocalInv DEF SchedPushLen, SchedPoint, SchedProgress
  <1>7. CASE SchedPushElem
    BY <1>1, <1>2, <1>7, SchedLocalInv DEF SchedPushElem, SchedPoint, SchedProgress
  <1>8. CASE SchedExit
    BY <1>8, ExitInv DEF SchedExit
  <1> QED
    BY <1>3, <1>4, <1>5, <1>6, <1>7, <1>8, SchedClaimInv, SchedSetFuncInv DEF SchedStep

-----------------------------------------------------------------------------
\* The steps of the other processes.  They run only once sched owns PIT.

LEMMA ProcRunsContext ==
  ASSUME SchedInv, ProcRuns
  PROVE  /\ SchedProgress /\ TickProgress /\ AllSaved /\ SchedTypes
         /\ mode = "user" /\ halted = "no" /\ activeProcessPid # schedPid
         /\ ~inService /\ activeDirectory = activeProcessPid
         /\ SchedContext = saved[schedPid]
         /\ SchedContext # "claim" /\ SchedContext # "setFunc"
         /\ entries[PIT].owner = schedPid /\ entries[PIT].func = schedPid
  <1>1. /\ SchedProgress /\ TickProgress /\ AllSaved /\ SchedTypes
        /\ mode = "user" /\ halted = "no" /\ activeProcessPid # schedPid
        /\ ~inService /\ activeDirectory = activeProcessPid
    BY DEF ProcRuns, Running, SchedInv
  <1>2. SchedContext = saved[schedPid]
    BY <1>1 DEF SchedContext
  <1>3. SchedContext # "claim" /\ SchedContext # "setFunc"
    BY <1>1 DEF SchedProgress
  <1> QED
    BY <1>1, <1>2, <1>3 DEF SchedProgress

LEMMA ProcStepInv == SchedInv /\ ProcStep => SchedInv'
  <1> SUFFICES ASSUME SchedInv, ProcStep PROVE SchedInv'
    OBVIOUS
  <1>1. ProcRuns /\ cpu' = (cpu + 1) % Contexts
    BY DEF ProcStep
  <1>2. /\ entries' = entries /\ kinds' = kinds /\ schedPid' = schedPid /\ len' = len
        /\ stored' = stored /\ activeProcessPid' = activeProcessPid
        /\ activeDirectory' = activeDirectory /\ saved' = saved /\ mode' = mode
        /\ interrupted' = interrupted /\ inService' = inService
        /\ getpidSet' = getpidSet /\ procListSet' = procListSet
        /\ currentProcess' = currentProcess /\ halted' = halted /\ left' = left
    BY DEF ProcStep, procs, timer, sched
  <1>3. /\ SchedProgress /\ TickProgress /\ AllSaved /\ SchedTypes /\ mode = "user"
        /\ halted = "no" /\ activeProcessPid # schedPid
        /\ ~inService /\ activeDirectory = activeProcessPid
    BY <1>1, ProcRunsContext
  <1>4. cpu' \in ContextsOf(activeProcessPid)'
    <2>1. cpu \in Nat
      BY <1>3 DEF SchedTypes, ContextsOf
    <2>2. cpu' \in Nat
      BY <1>1, <2>1, SchedAssumption
    <2> QED
      BY <1>2, <1>3, <2>2 DEF ContextsOf
  <1>5. SysInv'
    BY <1>2, <1>3 DEF SchedTypes, SysInv, EntriesOK, FuncBelongsToOwner
  <1>6. SchedTypes'
    BY <1>2, <1>3, <1>4, <1>5 DEF SchedTypes, ContextsOf
  <1>7. SchedProgress'
    BY <1>2, <1>3 DEF SchedProgress, SchedContext
  <1>8. TickProgress' /\ AllSaved'
    BY <1>2, <1>3 DEF TickProgress, AllSaved
  <1> QED
    BY <1>2, <1>3, <1>6, <1>7, <1>8 DEF SchedInv

\* No system call of another process touches PIT's owner or function.
LEMMA ProcCallInv ==
  ASSUME SchedInv, NEW mod \in SysModuleId \cup {Unknown}, ProcCall(mod)
  PROVE  SchedInv'
  <1>1. ProcRuns
    BY DEF ProcCall
  <1>2. /\ kinds' = kinds /\ schedPid' = schedPid /\ len' = len
        /\ stored' = stored /\ activeProcessPid' = activeProcessPid /\ cpu' = cpu
        /\ activeDirectory' = activeDirectory /\ saved' = saved /\ mode' = mode
        /\ interrupted' = interrupted /\ inService' = inService
        /\ getpidSet' = getpidSet /\ procListSet' = procListSet
        /\ currentProcess' = currentProcess /\ halted' = halted /\ left' = left
    BY DEF ProcCall, procs, timer, sched
  <1>3. /\ SchedProgress /\ TickProgress /\ AllSaved /\ SchedTypes /\ mode = "user"
        /\ halted = "no" /\ activeProcessPid # schedPid
        /\ ~inService /\ activeDirectory = activeProcessPid
        /\ entries[PIT].owner = schedPid /\ entries[PIT].func = schedPid
    BY <1>1, ProcRunsContext
  <1>4. \/ Claim(activeProcessPid, mod)
        \/ Release(activeProcessPid, mod)
        \/ SetFunc(activeProcessPid, activeProcessPid, mod)
    BY <1>3 DEF ProcCall
  <1>5. activeProcessPid \in Pids /\ SysInv /\ entries \in [SysModuleId -> Entry]
        /\ schedPid \in Pids
    BY <1>3 DEF SchedTypes, SysInv, EntriesOK
  <1>6. SysInv'
    BY <1>4, <1>5, ClaimInv, ReleaseInv, SetFuncInv
  <1>7. entries'[PIT] = entries[PIT]
    <2>1. schedPid # 0 /\ PIT \in SysModuleId
      BY <1>5, PidAssumption, SchedAssumption
    <2>2. CASE Claim(activeProcessPid, mod)
      BY <1>3, <1>5, <2>1, <2>2 DEF Claim, Claimable
    <2>3. CASE Release(activeProcessPid, mod)
      BY <1>3, <1>5, <2>1, <2>3 DEF Release, Owns
    <2>4. CASE SetFunc(activeProcessPid, activeProcessPid, mod)
      BY <1>3, <1>5, <2>1, <2>4 DEF SetFunc, Owns
    <2> QED
      BY <1>4, <2>2, <2>3, <2>4
  <1>8. SchedTypes'
    BY <1>2, <1>3, <1>6 DEF SchedTypes, ContextsOf
  <1>9. SchedProgress'
    BY <1>2, <1>3, <1>7 DEF SchedProgress, SchedContext
  <1>10. TickProgress' /\ AllSaved'
    BY <1>2, <1>3, <1>7 DEF TickProgress, AllSaved
  <1> QED
    BY <1>2, <1>3, <1>8, <1>9, <1>10 DEF SchedInv

-----------------------------------------------------------------------------
\* The timer interrupt.

LEMMA TickEnterInv == SchedInv /\ TickEnter => SchedInv'
  <1> SUFFICES ASSUME SchedInv, TickEnter PROVE SchedInv'
    OBVIOUS
  <1>1. /\ mode = "user" /\ halted = "no" /\ inService' = TRUE
        /\ left' = [left EXCEPT ![activeProcessPid] = cpu] /\ interrupted' = activeDirectory
    BY DEF TickEnter, Running
  <1>2. /\ entries' = entries /\ kinds' = kinds /\ schedPid' = schedPid /\ len' = len
        /\ stored' = stored /\ activeProcessPid' = activeProcessPid /\ cpu' = cpu
        /\ saved' = saved /\ getpidSet' = getpidSet /\ procListSet' = procListSet
        /\ currentProcess' = currentProcess /\ halted' = halted
    BY DEF TickEnter, procs, sched
  <1>3. /\ SchedProgress /\ AllSaved /\ SchedTypes
        /\ activeDirectory = activeProcessPid /\ activeProcessPid \in Pids
    BY <1>1 DEF SchedInv, SchedTypes
  <1>4. mode' \in {"handler", "return"}
    BY DEF TickEnter
  <1>5. mode' = "handler" => entries[PIT].func = schedPid /\ activeDirectory' = schedPid
    <2> SUFFICES ASSUME mode' = "handler"
                 PROVE  entries[PIT].func = schedPid /\ activeDirectory' = schedPid
      OBVIOUS
    <2>1. entries[PIT].func # NullFunc /\ activeDirectory' = entries[PIT].ownerDir
      BY DEF TickEnter
    <2>2. entries[PIT].func = schedPid
      BY <1>3, <2>1 DEF SchedProgress
    <2>3. entries[PIT].ownerDir = schedPid
      BY <1>3, <2>2, SchedAssumption DEF SchedTypes, SysInv, FuncBelongsToOwner
    <2> QED
      BY <2>1, <2>2, <2>3
  <1>6. /\ left' = [pid \in Pids |-> left'[pid]] /\ left'[activeProcessPid] = cpu
        /\ \A pid \in Pids : pid # activeProcessPid => left'[pid] = left[pid]
    BY <1>1, <1>3 DEF SchedTypes
  <1>7. SysInv'
    BY <1>2, <1>3 DEF SchedTypes, SysInv, EntriesOK, FuncBelongsToOwner
  <1>8. SchedTypes'
    BY <1>1, <1>2, <1>3, <1>4, <1>6, <1>7 DEF SchedTypes, ContextsOf
  <1>9. SchedProgress'
    BY <1>2, <1>3 DEF SchedProgress, SchedContext
  <1>10. TickProgress'
    BY <1>1, <1>2, <1>3, <1>4, <1>5, <1>6 DEF TickProgress
  <1>11. AllSaved'
    BY <1>2, <1>3, <1>6 DEF AllSaved
  <1> QED
    BY <1>4, <1>8, <1>9, <1>10, <1>11 DEF SchedInv

\* sched's handler saves the context before it chooses to switch.
LEMMA SchedHandlerInv == SchedInv /\ SchedHandler => SchedInv'
  <1> SUFFICES ASSUME SchedInv, SchedHandler PROVE SchedInv'
    OBVIOUS
  <1>1. mode = "handler" /\ halted = "no" /\ mode' \in {"switch", "return"}
    BY DEF SchedHandler
  <1>2. /\ entries' = entries /\ kinds' = kinds /\ schedPid' = schedPid /\ len' = len
        /\ stored' = stored /\ activeProcessPid' = activeProcessPid /\ cpu' = cpu
        /\ activeDirectory' = activeDirectory /\ left' = left
        /\ interrupted' = interrupted /\ inService' = inService
        /\ getpidSet' = getpidSet /\ procListSet' = procListSet
    BY DEF SchedHandler, procs, timer
  <1>3. SchedProgress /\ AllSaved /\ SchedTypes /\ TickProgress /\ activeProcessPid \in Pids
    BY <1>1 DEF SchedInv, SchedTypes
  <1>4. currentProcess' \in {0, 1}
    BY <1>3 DEF SchedHandler, NextProcess, SchedTypes
  <1>5. /\ saved' = [pid \in Pids |-> saved'[pid]]
        /\ \A pid \in Pids : pid # activeProcessPid => saved'[pid] = saved[pid]
        /\ saved'[activeProcessPid] \in {saved[activeProcessPid], cpu}
        /\ getpidSet /\ procListSet => saved'[activeProcessPid] = cpu
    BY <1>3 DEF SchedHandler, SaveContext, SchedTypes
  <1>6. mode' = "switch" => procListSet /\ saved'[activeProcessPid] = cpu
    <2>1. mode' = "switch" => procListSet
      BY DEF SchedHandler
    <2> QED
      BY <1>3, <1>5, <2>1 DEF SchedProgress
  <1>7. SysInv'
    BY <1>2, <1>3 DEF SchedTypes, SysInv, EntriesOK, FuncBelongsToOwner
  <1>8. \A pid \in Pids : saved'[pid] \in ContextsOf(pid)'
    BY <1>1, <1>2, <1>3, <1>5 DEF SchedTypes, ContextsOf
  <1>9. SchedTypes'
    BY <1>1, <1>2, <1>3, <1>4, <1>5, <1>7, <1>8 DEF SchedTypes, ContextsOf
  <1>10. SchedContext' = SchedContext
    BY <1>2, <1>3, <1>5 DEF SchedContext, SchedTypes
  <1>11. SchedProgress'
    BY <1>2, <1>3, <1>10 DEF SchedProgress
  <1>12. TickProgress' /\ AllSaved'
    BY <1>1, <1>2, <1>3, <1>5, <1>6 DEF TickProgress, AllSaved
  <1> QED
    BY <1>1, <1>9, <1>11, <1>12 DEF SchedInv

\* procCtxtSwitch: the process that comes to run gets the context it lost the
\* processor at, and the one that goes has its own saved.
LEMMA CtxtSwitchInv == SchedInv /\ CtxtSwitch => SchedInv'
  <1> SUFFICES ASSUME SchedInv, CtxtSwitch PROVE SchedInv'
    OBVIOUS
  <1> DEFINE pid == currentProcess + 1
  <1>1. mode = "switch" /\ halted = "no"
    BY DEF CtxtSwitch
  <1>2. /\ entries' = entries /\ kinds' = kinds /\ schedPid' = schedPid /\ len' = len
        /\ stored' = stored /\ saved' = saved /\ interrupted' = interrupted
        /\ getpidSet' = getpidSet /\ procListSet' = procListSet
        /\ currentProcess' = currentProcess /\ left' = left
    BY DEF CtxtSwitch, procs, sched
  <1>3. SchedProgress /\ AllSaved /\ SchedTypes /\ TickProgress /\ procListSet
    BY <1>1 DEF SchedInv, TickProgress
  <1>4. SysInv'
    BY <1>2, <1>3 DEF SchedTypes, SysInv, EntriesOK, FuncBelongsToOwner
  <1>5. pid <= stored => pid \in Pids
    BY <1>3 DEF SchedTypes
  <1>6. CASE pid > stored
    <2>1. /\ halted' = "noElem" /\ mode' = mode /\ inService' = inService
          /\ activeProcessPid' = activeProcessPid
      BY <1>3, <1>6 DEF CtxtSwitch, SchedTypes
    <2>2. SchedTypes'
      BY <1>2, <1>3, <1>4, <2>1 DEF SchedTypes, ContextsOf
    <2> QED
      BY <1>1, <2>1, <2>2 DEF SchedInv
  <1>7. CASE pid <= stored /\ kinds[pid] \in {"DRV", "BOOT"}
    <2>1. /\ halted' = "panic" /\ mode' = mode /\ inService' = inService
          /\ activeProcessPid' = pid
      BY <1>3, <1>7 DEF CtxtSwitch, SchedTypes
    <2>2. SchedTypes'
      BY <1>2, <1>3, <1>4, <1>5, <1>7, <2>1 DEF SchedTypes, ContextsOf
    <2> QED
      BY <1>1, <2>1, <2>2 DEF SchedInv
  <1>8. CASE pid <= stored /\ kinds[pid] \notin {"DRV", "BOOT"}
    <2>1. /\ halted' = halted /\ mode' = "user" /\ inService' = FALSE
          /\ activeProcessPid' = pid /\ activeDirectory' = pid /\ cpu' = saved[pid]
      BY <1>3, <1>8 DEF CtxtSwitch, SchedTypes, SendEoi
    <2>2. pid \in Pids
      BY <1>5, <1>8
    <2>3. SchedTypes'
      BY <1>1, <1>2, <1>3, <1>4, <2>1, <2>2 DEF SchedTypes, ContextsOf
    <2>4. saved[activeProcessPid] = cpu /\ left[activeProcessPid] = cpu
      BY <1>1, <1>3 DEF TickProgress
    <2>5. SchedContext' = SchedContext
      BY <1>2, <2>1, <2>4 DEF SchedContext
    <2>6. SchedProgress'
      BY <1>2, <1>3, <2>5 DEF SchedProgress
    <2>7. TickProgress'
      BY <2>1 DEF TickProgress
    <2>8. AllSaved'
      BY <1>2, <1>3, <2>1, <2>4 DEF AllSaved
    <2> QED
      BY <2>1, <2>3, <2>6, <2>7, <2>8 DEF SchedInv
  <1> QED
    BY <1>3, <1>6, <1>7, <1>8 DEF SchedTypes

LEMMA TickLeaveInv == SchedInv /\ TickLeave => SchedInv'
  <1> SUFFICES ASSUME SchedInv, TickLeave PROVE SchedInv'
    OBVIOUS
  <1>1. /\ mode = "return" /\ halted = "no" /\ activeDirectory' = interrupted
        /\ inService' = FALSE /\ mode' = "user"
    BY DEF TickLeave, RestoreDirectory, SendEoi
  <1>2. /\ entries' = entries /\ kinds' = kinds /\ schedPid' = schedPid /\ len' = len
        /\ stored' = stored /\ activeProcessPid' = activeProcessPid /\ cpu' = cpu
        /\ saved' = saved /\ getpidSet' = getpidSet /\ procListSet' = procListSet
        /\ currentProcess' = currentProcess /\ halted' = halted /\ left' = left
    BY DEF TickLeave, procs, sched
  <1>3. SchedProgress /\ AllSaved /\ SchedTypes /\ TickProgress
    BY <1>1 DEF SchedInv
  <1>4. activeDirectory' = activeProcessPid'
    BY <1>1, <1>2, <1>3 DEF TickProgress
  <1>5. SysInv'
    BY <1>2, <1>3 DEF SchedTypes, SysInv, EntriesOK, FuncBelongsToOwner
  <1>6. SchedTypes'
    BY <1>1, <1>2, <1>3, <1>5 DEF SchedTypes, ContextsOf
  <1>7. SchedProgress'
    BY <1>2, <1>3 DEF SchedProgress, SchedContext
  <1>8. TickProgress' /\ AllSaved'
    BY <1>1, <1>2, <1>3 DEF TickProgress, AllSaved
  <1> QED
    BY <1>1, <1>4, <1>6, <1>7, <1>8 DEF SchedInv

-----------------------------------------------------------------------------
\* The inductive invariant of the scheduler: what the timer interrupt, sched's
\* handler, _start of sched and the system calls of the processes keep, in
\* whatever order they come.
THEOREM SchedInvariant == Spec => []SchedInv
  <1>1. Init => SchedInv
    BY SchedInitInv
  <1>2. SchedInv /\ [Next]_vars => SchedInv'
    <2> SUFFICES ASSUME SchedInv, [Next]_vars PROVE SchedInv'
      OBVIOUS
    <2>1. CASE SchedStep
      BY <2>1, SchedStepInv
    <2>2. CASE ProcStep
      BY <2>2, ProcStepInv
    <2>3. CASE ProcExit
      BY <2>3, ExitInv DEF ProcExit
    <2>4. ASSUME NEW mod \in SysModuleId \cup {Unknown}, ProcCall(mod)
          PROVE  SchedInv'
      BY <2>4, ProcCallInv
    <2>5. CASE Tick
      BY <2>5, TickEnterInv, SchedHandlerInv, CtxtSwitchInv, TickLeaveInv DEF Tick
    <2>6. CASE UNCHANGED vars
      <3>1. /\ UNCHANGED <<entries, kinds, schedPid, len, stored, activeProcessPid>>
            /\ UNCHANGED <<activeDirectory, cpu, saved, mode, interrupted, inService>>
            /\ UNCHANGED <<getpidSet, procListSet, currentProcess, halted, left>>
        BY <2>6 DEF vars, procs, timer, sched
      <3> QED
        BY <3>1 DEF SchedInv, SchedTypes, SchedProgress, TickProgress, AllSaved,
             SchedContext, ContextsOf, SysInv, EntriesOK, FuncBelongsToOwner
    <2> QED
      BY <2>1, <2>2, <2>3, <2>4, <2>5, <2>6 DEF Next
  <1> QED
    BY <1>1, <1>2, PTL DEF Spec

\* resumeProcess never loads anything but the context a process lost the
\* processor at, or its entry point: sched's handler has saved it by the time
\* procCtxtSwitch gives the processor away.
THEOREM ContextsPreserved == Spec => []SavedContexts
  <1>1. SchedInv => SavedContexts
    <2> SUFFICES ASSUME SchedInv, NEW pid \in 1 .. stored, halted = "no",
                        pid # activeProcessPid \/ mode = "switch"
                 PROVE  saved[pid] = left[pid]
      BY DEF SavedContexts
    <2>1. pid \in Pids
      BY DEF SchedInv, SchedTypes
    <2>2. CASE pid # activeProcessPid
      BY <2>1, <2>2 DEF SchedInv, AllSaved
    <2>3. CASE pid = activeProcessPid
      BY <2>3 DEF SchedInv, TickProgress
    <2> QED
      BY <2>2, <2>3
  <1> QED
    BY <1>1, SchedInvariant, PTL

\* PIT's function only runs in the directory it was registered from, and a
\* process only in its own, whatever the timer interrupted.
THEOREM CodeInItsAddressSpace == Spec => []AddressSpaceOfCode
  <1>1. SchedInv => AddressSpaceOfCode
    <2> SUFFICES ASSUME SchedInv PROVE AddressSpaceOfCode
      OBVIOUS
    <2>1. mode = "user" => activeDirectory = activeProcessPid
      BY DEF SchedInv
    <2>2. ASSUME mode \in {"handler", "switch"}, halted = "no"
          PROVE  activeDirectory = schedPid /\ entries[PIT].func = schedPid
      <3>1. SchedProgress /\ TickProgress
        BY <2>2 DEF SchedInv
      <3>2. CASE mode = "handler"
        BY <3>1, <3>2 DEF TickProgress
      <3>3. CASE mode = "switch"
        <4>1. activeDirectory = schedPid /\ procListSet
          BY <3>1, <3>3 DEF TickProgress
        <4>2. SchedContext \notin {"claim", "setFunc"}
          BY <3>1, <4>1 DEF SchedProgress
        <4> QED
          BY <3>1, <4>1, <4>2 DEF SchedProgress
      <3> QED
        BY <2>2, <3>2, <3>3
    <2> QED
      BY <2>1, <2>2 DEF AddressSpaceOfCode
  <1> QED
    BY <1>1, SchedInvariant, PTL

\* Both ways out of the timer interrupt send the EOI.
THEOREM InterruptsAcknowledged == Spec => []Acknowledged
  <1>1. SchedInv => Acknowledged
    BY DEF SchedInv, Acknowledged
  <1> QED
    BY <1>1, SchedInvariant, PTL

\* The handler's choice stays between places 0 and 1: only a driver at one of
\* them meets the kpanic of ctxtSwitch, whatever init.lst has behind them.
THEOREM DriversBehindAreSafe == Spec => []SwitchPanicsOnlyForDrivers
  <1>1. Init => SwitchPanicsOnlyForDrivers
    BY DEF Init, SwitchPanicsOnlyForDrivers
  <1>2. SchedInv /\ SwitchPanicsOnlyForDrivers /\ [Next]_vars => SwitchPanicsOnlyForDrivers'
    <2> SUFFICES ASSUME SchedInv, SwitchPanicsOnlyForDrivers, [Next]_vars,
                        mode' = "switch", halted' = "panic"
                 PROVE  \E pid \in {1, 2} \cap 1 .. Len(kinds') : kinds'[pid] \in {"DRV", "BOOT"}
      BY DEF SwitchPanicsOnlyForDrivers
    <2>1. CASE SchedStep \/ ProcStep \/ ProcExit
      <3>1. mode = "user" /\ mode' = mode
        BY <2>1 DEF SchedStep, SchedClaim, SchedSetFunc, SchedGetpid, SchedProcList,
             SchedNextLine, SchedPushLen, SchedPushElem, SchedExit, SchedAt, SchedGoto,
             Exit, ProcStep, ProcExit, ProcRuns, Running
      <3> QED
        BY <3>1
    <2>2. CASE \E mod \in SysModuleId \cup {Unknown} : ProcCall(mod)
      BY <2>2 DEF ProcCall, ProcRuns, Running
    <2>3. CASE TickEnter \/ SchedHandler \/ TickLeave
      BY <2>3 DEF TickEnter, SchedHandler, TickLeave
    <2>4. CASE CtxtSwitch
      <3> DEFINE pid == currentProcess + 1
      <3>1. pid <= stored /\ kinds[pid] \in {"DRV", "BOOT"} /\ kinds' = kinds
        BY <2>4 DEF CtxtSwitch, procs
      <3>2. pid \in {1, 2} /\ pid \in 1 .. Len(kinds)
        BY <3>1 DEF SchedInv, SchedTypes
      <3> QED
        BY <3>1, <3>2
    <2>5. CASE UNCHANGED vars
      BY <2>5 DEF vars, procs, SwitchPanicsOnlyForDrivers
    <2> QED
      BY <2>1, <2>2, <2>3, <2>4, <2>5 DEF Next, Tick
  <1> QED
    BY <1>1, <1>2, SchedInvariant, PTL DEF Spec

\* Every step of the scheduler, the processes and the timer is a system call of
\* one process on one module, or leaves the modules alone.
THEOREM SchedulingImplementsSysModules == Spec => ImplementsSysModules
  <1>1. Init => SysInit
    BY DEF Init
  <1>2. SchedInv /\ [Next]_vars => [SysNext]_entries
    <2> SUFFICES ASSUME SchedInv, [Next]_vars, entries' # entries PROVE SysNext
      OBVIOUS
    <2>1. PIT \in SysModuleId \cup {Unknown} /\ schedPid \in Pids /\ activeProcessPid \in Pids
      BY SchedAssumption DEF SchedInv, SchedTypes
    <2>2. CASE SchedClaim
      BY <2>1, <2>2 DEF SchedClaim, SysNext
    <2>3. CASE SchedSetFunc
      <3>1. activeDirectory = schedPid
        BY <2>3 DEF SchedSetFunc, SchedAt, Running, SchedInv
      <3> QED
        BY <2>1, <2>3, <3>1 DEF SchedSetFunc, SysNext
    <2>4. ASSUME NEW mod \in SysModuleId \cup {Unknown}, ProcCall(mod)
          PROVE  SysNext
      <3>1. activeDirectory = activeProcessPid
        BY <2>4 DEF ProcCall, ProcRuns, Running, SchedInv
      <3> QED
        BY <2>1, <2>4, <3>1 DEF ProcCall, SysNext
    <2>5. CASE SchedGetpid \/ SchedProcList \/ SchedNextLine \/ SchedPushLen \/ SchedPushElem
      BY <2>5 DEF SchedGetpid, SchedProcList, SchedNextLine, SchedPushLen, SchedPushElem
    <2>6. CASE SchedExit \/ ProcExit \/ ProcStep
      BY <2>6 DEF SchedExit, ProcExit, Exit, ProcStep
    <2>7. CASE Tick
      BY <2>7 DEF Tick, TickEnter, SchedHandler, CtxtSwitch, TickLeave
    <2>8. CASE UNCHANGED vars
      BY <2>8 DEF vars
    <2> QED
      BY <2>2, <2>3, <2>4, <2>5, <2>6, <2>7, <2>8 DEF Next, SchedStep
  <1> QED
    BY <1>1, <1>2, SchedInvariant, PTL DEF Spec, ImplementsSysModules, SysSpec

\* What holds of the modules under any calls holds under the scheduler: while
\* sched owns PIT no process takes it.
THEOREM ScheduledModulesNotTaken == Spec => NoTakeover
  BY SchedulingImplementsSysModules, ModulesNotTaken DEF ImplementsSysModules

=============================================================================
