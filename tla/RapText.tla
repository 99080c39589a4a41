------------------------------ MODULE RapText ------------------------------
(***************************************************************************)
(* RAP files, which tell where functions are: the kernel writes            *)
(* /krn/virt/func.rap (src/drivers/fs/virtkrn), sched and de read it with  *)
(* the same parser (UserRap), and the kernel reads a driver's fn.rap with  *)
(* its own (Rap).                                                          *)
(*                                                                         *)
(* A text is a sequence of words, digits and the characters "(", ")", "=", *)
(* " " and "\n"; a NUL follows it.  A parser that looks for a character    *)
(* which does not come any more runs past the text: Overrun.               *)
(***************************************************************************)
EXTENDS Numbers

\* The first place from i on that holds c; 0 if there is none.
Next1(t, i, c) == LET at == {j \in i .. Len(t) : t[j] = c} IN IF at = {} THEN 0 ELSE Min(at)

Overrun == [over |-> TRUE, entries |-> <<>>]
Parsed(entries) == [over |-> FALSE, entries |-> entries]

-----------------------------------------------------------------------------
\* The writer.  A function is [name, params, addr], a parameter <<type, name>>.

\* Mutant of ToStr: nothing marks an empty parameter list, and ")" is not written.
ToStr_NoClose(f) ==
    <<f.name, "(">> \o FlattenSeq([i \in DOMAIN f.params |-> <<f.params[i][1], " ", f.params[i][2], " ">>])
    \o <<"=">> \o Fromu(f.addr)

\* RapFileSubDriver::Function::toStr.
ToStr(f) ==
    <<f.name, "(">> \o FlattenSeq([i \in DOMAIN f.params |-> <<f.params[i][1], " ", f.params[i][2], " ">>])
    \o (IF f.params = <<>> THEN <<" ">> ELSE <<>>) \o <<")", "=">> \o Fromu(f.addr)

\* RapFileSubDriver::read into a buffer of len characters.
RapRead(functions, len) ==
    LET all == FlattenSeq([i \in DOMAIN functions |-> Append(ToStr(functions[i]), "\n")])
    IN  SubSeq(all, 1, Min({len, Len(all)}))

\* The functions RapFileSubDriver::init lists, at the addresses the build gave them.
RapFunctions(addr) ==
    LET u32(name) == <<"u32", name>>
        Fn(name, params) == [name |-> name, params |-> params, addr |-> addr[name]]
    IN  <<Fn("putPixel", <<u32("argb"), u32("x"), u32("y")>>), Fn("getScreenWidth", <<>>),
          Fn("getFbPhysAddr", <<>>), Fn("getScreenHeight", <<>>), Fn("getFbSizeBytes", <<>>),
          Fn("getFbPitch", <<>>),
          Fn("loadProcess", <<<<"str", "fp">>, <<"str", "procname">>, <<"u8", "privilege">>>>),
          Fn("runProcess", <<<<"ptr", "proc">>>>), Fn("getProcessList", <<>>),
          Fn("procCtxtSwitch", <<<<"ptr", "proc">>>>), Fn("getpid", <<>>)>>
=============================================================================
