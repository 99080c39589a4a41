------------------------------ MODULE KernelBoot ------------------------------
(***************************************************************************)
(* kernelMain (src/kernel.cpp): its steps, in program order.  A step that  *)
(* can end in kpanic either does or goes on; interrupts are masked          *)
(* throughout, so nothing else happens.                                     *)
(***************************************************************************)
EXTENDS Naturals, Sequences

\* The steps of kernelMain.
Steps == <<"earlyInit", "frames", "serial", "heap", "constructors", "storage", "pci",
           "interruptControllers", "paging", "initramfs", "sysModules",
           "hardwareInterrupts", "tests", "loop", "config", "loadSched", "runSched">>

\* kassrt and kpanic: no serial line; no page tables left for the identity maps; no
\* initramfs or a broken one; no sched.
MayPanic == {"serial", "paging", "initramfs", "loadSched"}

VARIABLES
    at,         \* the step kernelMain is at
    panicked    \* kpanic was called

vars == <<at, panicked>>

Init == at = 1 /\ panicked = FALSE

\* A step is done and the next one begins.  for (;;) ; is never done, and run
\* does not return.
Done ==
    /\ Steps[at] \notin {"loop", "runSched"} /\ ~panicked
    /\ at' = at + 1
    /\ UNCHANGED panicked

Panic ==
    /\ Steps[at] \in MayPanic /\ ~panicked
    /\ panicked' = TRUE
    /\ UNCHANGED at

Next == Done \/ Panic

\* The processor executes: kernelMain gets from step to step.
Spec == Init /\ [][Next]_vars /\ WF_vars(Next)

\* README.md:22: the kernel's "main job is to get the /krn/bin/sched started up".
SchedulerStarted == <>(Steps[at] = "runSched" \/ panicked)
=============================================================================
