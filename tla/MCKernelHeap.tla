----------------------------- MODULE MCKernelHeap -----------------------------
(***************************************************************************)
(* KernelHeap on a heap of 60 bytes with the target's header size.         *)
(***************************************************************************)
EXTENDS KernelHeap
=============================================================================
