---------------------------- MODULE MCAddressSpaces ----------------------------
(***************************************************************************)
(* A machine of a handful of frames and page tables of two entries.        *)
(* Directory entry 0 is the kernel's; process images are linked at page 2, *)
(* heaps begin at page 4, stacks end at page 9, driver images are linked   *)
(* at page 10: the order of 0x40000000, 0x50000000, 0xBFFF0000 and          *)
(* 0xC0000000.                                                             *)
(***************************************************************************)
EXTENDS AddressSpaces

MCProcessImages == {<<<<2>>>>, <<<<2>>, <<3>>>>}
MCDriverImages  == {<<<<10, 11>>>>, <<<<10>>, <<12>>>>}
=============================================================================
