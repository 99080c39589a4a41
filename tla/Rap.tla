--------------------------------- MODULE Rap ---------------------------------
(***************************************************************************)
(* The kernel's parser of RAP files (src/rap/rap.hpp), which reads the     *)
(* fn.rap of a driver.                                                     *)
(***************************************************************************)
EXTENDS RapText

\* RapFile::parseFile of the kernel.

\* A type runs to the next blank, a name to the one behind it, whatever comes in
\* between: the blank of an empty list is taken for a type.
RECURSIVE KernelParams(_, _, _)
KernelParams(t, i, ps) ==
    LET type == Next1(t, i, " ")
        name == Next1(t, type + 1, " ")
    IN  IF i <= Len(t) /\ t[i] = ")" THEN [at |-> i, ps |-> ps]
        ELSE IF type = 0 \/ name = 0 THEN [at |-> 0, ps |-> ps]
        ELSE KernelParams(t, name + 1,
                          Append(ps, <<SubSeq(t, i, type - 1), SubSeq(t, type + 1, name - 1)>>))

\* It ends after as many entries as there are newlines, or at the NUL.
RECURSIVE KernelEntries(_, _, _, _)
KernelEntries(t, i, count, es) ==
    LET open == IF Next1(t, i, "(") = 0 THEN Len(t) + 1 ELSE Next1(t, i, "(")
        ps   == KernelParams(t, open + 1, <<>>)
        addr == ps.at + 2
        nl   == IF Next1(t, addr, "\n") = 0 THEN Len(t) + 1 ELSE Next1(t, addr, "\n")
        all  == Append(es, [name |-> SubSeq(t, i, open - 1), params |-> ps.ps,
                            addr |-> Stoi(SubSeq(t, addr, nl - 1))])
    IN  IF ps.at = 0 \/ addr > Len(t) THEN Overrun
        ELSE IF Len(all) >= count \/ nl >= Len(t) THEN Parsed(all)
        ELSE KernelEntries(t, nl + 1, count, all)

ParseFile(t) == KernelEntries(t, 1, Len(SelectSeq(t, LAMBDA c : c = "\n")), <<>>)
=============================================================================
