------------------------------- MODULE MCLisp -------------------------------
(* The desktop for TLC: every short text; programs with a global, two helper
   functions and a fragment function whose ret takes any operator and any two
   of a few operands; a 3 x 2 screen; ints of 16 bits. *)
EXTENDS Lisp

I(n) == [type |-> "INT", val |-> n]
S(name) == [type |-> "SYMBOL", val |-> name]
T(s) == [type |-> "STRING", val |-> s]
L(items) == [type |-> "LIST", items |-> items]
Op(op, a, b) == L(<<S(op), a, b>>)
Call(f, args) == L(<<S(f)>> \o args)
Defun(f, params, body) == L(<<S("defun"), S(f), L([i \in DOMAIN params |-> S(params[i])])>> \o body)
Ret(e) == L(<<S("ret"), e>>)

H(p) == Defun("h", <<p>>, <<Ret(Op("*", S(p), I(300)))>>)
G(p, q) == Defun("k", <<p, q>>, <<Ret(Op("-", S(p), S(q)))>>)
Operands == {S("x"), S("y"), S("c"), I(7), Call("h", <<S("x")>>), Call("h", <<I(0)>>),
             Call("k", <<S("y"), Call("h", <<S("y")>>)>>), Call("k", <<I(1), Call("k", <<S("x"), I(2)>>)>>)}
Frag(e) == Defun("fragment", <<"x", "y">>, <<Ret(e)>>)
Header(p) == <<L(<<S("glob"), S("c"), I(40)>>), H(p), G("b", "d")>>

\* Every pair of operands for "-", every operator for some pairs.
Plains ==
    {Append(Header(p), Frag(Op("-", a, b))) : p \in {"a", "x"}, a, b \in Operands}
    \cup {Append(Header("a"), Frag(Op(op, a, b))) :
             op \in {"+", "*", "/", "%", "^", "&", "|"}, a \in {S("x"), Call("h", <<S("x")>>)}, b \in {S("y"), I(7)}}

\* Programs for the other builtins and for the stops.
Others ==
    {Append(Header("a"), f) :
        f \in {Defun("fragment", <<"x", "y">>, b) :
                  b \in {<<Ret(S("x")), Ret(S("y"))>>,
                         <<L(<<S("set"), S("c"), Op("+", S("c"), S("x"))>>), Ret(S("c"))>>,
                         <<Ret(L(<<S("rgb"), S("x"), I(300), Op("~", S("y"), I(0))>>))>>,
                         <<Ret(L(<<S("sin"), Op("*", S("x"), I(785))>>))>>,
                         <<L(<<S("println"), T("s")>>), Ret(L(<<S("typename"), S("c")>>))>>,
                         <<Ret(L(<<S("typename"), I(1)>>))>>, <<Ret(L(<<S("rgb"), T("s"), S("x"), S("y")>>))>>,
                         <<L(<<S("set"), S("nope"), I(1)>>)>>,
                         <<Ret(L(<<S("nope"), I(1)>>))>>, <<Ret(S("nope"))>>,
                         <<Ret(L(<<S("+"), I(1)>>))>>, <<Ret(L(<<S("h")>>))>>,
                         <<Ret(Op("+", T("s"), I(1)))>>, <<Ret(L(<<>>))>>,
                         <<Ret(Op("/", Op("*", I(128), I(256)), Op("-", S("x"), I(2))))>>}}}
    \cup {Header("a"), Append(Header("a"), Defun("fragment", <<"x">>, <<Ret(S("x"))>>)),
          <<Defun("s", <<"a">>, <<Ret(S("a"))>>), Frag(Call("s", <<S("x")>>))>>}

MCPrograms == Plains \cup Others
MCNamePrefixes == {<<"s", "set">>, <<"s", "sin">>, <<"p", "print">>, <<"print", "println">>}

\* Every text of up to MaxLen characters out of a few classes.
CONSTANT MaxLen
Words == {"a", "b", "c", "d", "h", "k", "s", "x", "y", "fragment", "nope", "glob", "set", "rgb", "print",
          "defun", "println", "typename", "sin", "ret"}
MCClassOf ==
    [w \in Words |-> "alpha"] @@ [w \in MathOps |-> "op"] @@ [w \in Range(Digits) |-> "digit"]
    @@ ("(" :> "(") @@ (")" :> ")") @@ ("q" :> "quote") @@ (";" :> "semicolon")
    @@ ("\n" :> "newline") @@ (" " :> "blank") @@ ("?" :> "other")
MCSources ==
    UNION {[1 .. n -> {"(", ")", "q", ";", "\n", "1", "a"}] : n \in 0 .. MaxLen}
    \cup {<<"?", "1", "a", " ", "a", "1", "+", ";", "q", "\n", "(", ")">>}

\* Addresses of different lengths; two functions at one place.
Kernel == <<"putPixel", "getScreenWidth", "getFbPhysAddr", "getScreenHeight", "getFbSizeBytes", "getFbPitch",
            "loadProcess", "runProcess", "getProcessList", "procCtxtSwitch", "getpid">>
MCLayouts ==
    {[f \in Range(Kernel) |-> IF f \in {"putPixel", "getFbPitch"} THEN 1065293 ELSE IF f = "getpid" THEN 7 ELSE 1000],
     [f \in Range(Kernel) |-> 1048570 + 3 * SelectInSeq(Kernel, LAMBDA g : g = f)]}
=============================================================================
