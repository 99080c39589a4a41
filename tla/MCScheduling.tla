----------------------------- MODULE MCScheduling -----------------------------
(***************************************************************************)
(* The scheduler with no or one initramfs driver and short init lists, a    *)
(* context switch every second tick.                                        *)
(***************************************************************************)
EXTENDS Scheduling

MCInitLists == {<<>>, <<"USR">>, <<"KRN", "USR">>, <<"DRV">>, <<"USR", "DRV">>, <<"USR", "BAD">>}

MCTwoProcesses == {<<"KRN", "USR">>}
=============================================================================
