---------------------------- MODULE LiveSyscalls ----------------------------
(***************************************************************************)
(* The live system calls of the drivers (INT 0x30, sysclayer.cpp and       *)
(* syscstub.asm): a Map from numbers to functions that the drivers fill    *)
(* themselves, and one stub with one stack, which starts at its top for    *)
(* every call.  InitRamFs::init makes the first two calls at its end.      *)
(*                                                                         *)
(* phase is where the kernel is: "calls" at that end, "up" when the        *)
(* drivers run, "panic", "lost" when the stub returns through an           *)
(* overwritten stack, or a step of init before that (Initramfs).           *)
(***************************************************************************)
EXTENDS Maps

CONSTANTS
    LiveNumbers,    \* numbers a driver puts into eax and edi
    Functions,      \* functions a driver registers
    NoFunction,     \* what a number that nobody registered stands for
    MaxLive         \* bound: live system calls made by drivers

VARIABLES
    phase,
    syscLayerMapping,   \* Map: number -> function
    frames,     \* the live system calls being handled, the innermost last
    saved,      \* the word at liveSyscStackTop: the depth it returns to
    registered, \* history: the function registered last for a number
    live        \* history: calls made, the function the last one ran and should run, nesting

liveVars == <<syscLayerMapping, frames, saved, registered, live>>

ASSUME LiveAssumption ==
    /\ LiveNumbers \subseteq Nat /\ MaxLive \in Nat
    /\ NoFunction \notin Functions \cup {"tinyStub"}

REG_SYSCALL == 0
ALLOC == 2
FREE == 3
KRN_SYSC_END_SPEC == 4
SIZESPEC == 21

LiveInit ==
    /\ syscLayerMapping = <<>> /\ frames = <<>> /\ saved = 0 /\ registered = <<>>
    /\ live = [calls |-> 0, fn |-> NoFunction, expected |-> NoFunction, nested |-> FALSE]

\* Mutant of RegSyscall: the entry that is there is not removed.
RegSyscall_Keep(map, n, f) ==
    IF n >= SIZESPEC \/ n < KRN_SYSC_END_SPEC THEN map ELSE Insert(map, n, f)
\* liveSyscHandlr for REG_SYSCALL.
RegSyscall(map, n, f) ==
    IF n >= SIZESPEC \/ n < KRN_SYSC_END_SPEC THEN map ELSE Insert(Rmkey(map, n), n, f)

Registered(n, f) == [x \in {n} \cup DOMAIN registered |-> IF x = n THEN f ELSE registered[x]]

\* The stub saves where it came from in the first word of its one stack, and
\* calls the handler.  What the handler returns is overwritten by POPA.
LiveSyscall(n, a, f) ==
    LET here == Len(frames)
        known == Exists(syscLayerMapping, n)
        fn == syscLayerMapping[IndexIn(syscLayerMapping, n)].v
        kernel == n \in {REG_SYSCALL, ALLOC, FREE}
    IN  /\ saved' = here
        /\ frames' = Append(frames, IF kernel THEN NoFunction ELSE n)
        /\ syscLayerMapping' = IF n = REG_SYSCALL THEN RegSyscall(syscLayerMapping, a, f) ELSE syscLayerMapping
        /\ registered' = IF n = REG_SYSCALL /\ a \in KRN_SYSC_END_SPEC .. SIZESPEC - 1
                          THEN Registered(a, f) ELSE registered
        /\ live' = [calls |-> live.calls + 1, nested |-> live.nested \/ here > 0,
                     fn |-> IF known THEN fn ELSE NoFunction,
                     expected |-> IF n \in DOMAIN registered THEN registered[n] ELSE NoFunction]
        /\ phase' = IF ~kernel /\ ~known THEN "panic" ELSE phase

\* The end of init registers tinyStub and calls it (247-249).
InitCalls ==
    /\ phase = "calls" /\ frames = <<>> /\ live.calls < 2
    /\ IF live.calls = 0 THEN LiveSyscall(REG_SYSCALL, 4, "tinyStub") ELSE LiveSyscall(4, 0, NoFunction)

\* A driver, or a function that a driver registered and that is running, calls.
DriverCalls ==
    /\ phase = "up" /\ live.calls < 2 + MaxLive
    /\ frames # <<>> => Last(frames) # NoFunction
    /\ \E n \in LiveNumbers, a \in LiveNumbers, f \in Functions : LiveSyscall(n, a, f)

\* The handler returns: POP eax, MOV esp, eax.
LiveReturn ==
    /\ frames # <<>> /\ phase \in {"calls", "up"}
    /\ IF saved = Len(frames) - 1
       THEN frames' = Front(frames) /\ phase' = IF phase = "calls" /\ live.calls = 2 THEN "up" ELSE phase
       ELSE phase' = "lost" /\ UNCHANGED frames
    /\ UNCHANGED <<syscLayerMapping, saved, registered, live>>

LiveNext == InitCalls \/ DriverCalls \/ LiveReturn

\* The steps of init before its calls: no driver is up, and none of them makes a
\* live system call.
Starting == phase \notin {"calls", "up", "panic", "lost"} /\ phase' # "up" /\ UNCHANGED liveVars

LiveSpec ==
    /\ LiveInit /\ phase \notin {"calls", "up", "panic", "lost"}
    /\ [][LiveNext \/ Starting]_<<phase, liveVars>>

-----------------------------------------------------------------------------
\* A live system call runs the function that was registered last for its number,
\* and returns to its caller as long as no call was made inside a call: the stub
\* has one stack, and begins it at its top each time.
LiveDispatch ==
    /\ live.fn = live.expected
    /\ (phase = "lost" /\ live.calls > 0) => live.nested
    /\ (phase = "panic" /\ live.calls > 0) => live.expected = NoFunction
=============================================================================
