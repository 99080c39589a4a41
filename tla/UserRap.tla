------------------------------ MODULE UserRap ------------------------------
(***************************************************************************)
(* How sched and the desktop find the kernel's functions: _start reads     *)
(* /krn/virt/func.rap, which the kernel writes with the addresses it has,  *)
(* and parseRap makes entries of it (sbinSrc/sched/rap, sbinSrc/de/rap).   *)
(* A loop of the parser is what each number of iterations leads to.        *)
(***************************************************************************)
EXTENDS RapText

CONSTANT
    Layouts         \* where the kernel's functions can be: name -> address

VARIABLES
    addrs,      \* the kernel's functions
    rap         \* the parsed func.rap, NotRead before _start has it

rapVars == <<addrs, rap>>

\* Every function of the table has an address, of at most the ten digits of a u32.
ASSUME LayoutsOK ==
    \A a \in Layouts :
        /\ DOMAIN a = {RapFunctions(a)[i].name : i \in DOMAIN RapFunctions(a)}
        /\ \A f \in DOMAIN a : a[f] \in Nat /\ Len(Fromu(a[f])) <= 10

-----------------------------------------------------------------------------
\* The parameters: how many there are before place at, 0 where the parser ran on
\* behind the text.  A ")" or a blank ends them.
NextParam(t, s) ==
    LET type == Next1(t, s.at, " ")
        name == Next1(t, type + 1, " ")
    IN  IF s.at = 0 THEN s
        ELSE IF s.at > Len(t) THEN [s EXCEPT !.at = 0]
        ELSE IF t[s.at] \in {")", " "} THEN s
        ELSE IF type = 0 \/ name = 0 THEN [s EXCEPT !.at = 0]
        ELSE [at |-> name + 1, n |-> s.n + 1]
UserParams(t, i) ==
    LET after[k \in Nat] == IF k = 0 THEN [at |-> i, n |-> 0] ELSE NextParam(t, after[k - 1])
    IN  after

\* paramArr has room for as many; what a parser does that writes behind it is not
\* followed.
MaxParams == 16
ParamsEnd(t, ps) == ps.at \in 1 .. Len(t) /\ t[ps.at] \in {")", " "}

\* One entry at s.at.  The array has room for as many as there are newlines; the
\* scan for a newline that is missing runs past the NUL.
NextEntry(t, s) ==
    LET open == Next1(t, s.at, "(")
        ps   == UserParams(t, open + 1)[MaxParams]
        eq   == Next1(t, ps.at, "=")
        nl   == Next1(t, eq + 1, "\n")
    IN  IF s.over \/ s.at > Len(t) THEN s
        ELSE IF open = 0 \/ ~ParamsEnd(t, ps) \/ eq = 0 \/ nl = 0 THEN [s EXCEPT !.over = TRUE]
        ELSE [over |-> FALSE, at |-> nl + 1,
              entries |-> Append(s.entries, [name |-> SubSeq(t, s.at, open - 1), params |-> ps.n,
                                             addr |-> Stou(SubSeq(t, eq + 1, nl - 1))])]
UserEntries(t) ==
    LET after[k \in Nat] == IF k = 0 THEN [over |-> FALSE, at |-> 1, entries |-> <<>>]
                            ELSE NextEntry(t, after[k - 1])
    IN  after

\* Every iteration but the last takes a newline.
ParseRap(t) ==
    LET s == UserEntries(t)[Cardinality({i \in DOMAIN t : t[i] = "\n"}) + 1]
    IN  IF s.over THEN Overrun ELSE Parsed(s.entries)

\* getRapAddr: the first entry with the name; NULL is 0.
GetRapAddr(r, func) ==
    LET i == SelectInSeq(r.entries, LAMBDA e : e.name = <<func>>)
    IN  IF i = 0 THEN 0 ELSE r.entries[i].addr

-----------------------------------------------------------------------------
NotRead == Parsed(<<>>)
MEM_DEF_ALLOCSIZE == 65536

RapInit == addrs \in Layouts /\ rap = NotRead

\* parseRap, with the buffer of its size.
ReadFuncRap ==
    /\ rap = NotRead
    /\ rap' = ParseRap(RapRead(RapFunctions(addrs), MEM_DEF_ALLOCSIZE))
    /\ UNCHANGED addrs

\* The parser by itself.
RapSpec == RapInit /\ [][ReadFuncRap]_rapVars

-----------------------------------------------------------------------------
\* Property.

\* getRapAddr gives sched and the desktop the address of the function they ask
\* for, for every function of the kernel's table, and none for "put", which is only
\* the beginning of a name in it.
RapAddresses ==
    rap # NotRead =>
        /\ ~rap.over
        /\ \A f \in DOMAIN addrs : GetRapAddr(rap, f) = addrs[f]
        /\ GetRapAddr(rap, "put") = 0
=============================================================================
