-------------------------------- MODULE Lisp --------------------------------
(***************************************************************************)
(* The desktop process (sbinSrc/de): _start finds the kernel's functions   *)
(* in func.rap, then lispRun tokenizes the shader, reads and executes its  *)
(* expressions in turn, and calls the function fragment for every pixel.   *)
(*                                                                         *)
(* An expression is [type, val] or [type |-> "LIST", items].  A C int has  *)
(* 4 * ChanBits bits; the code has ChanBits = 8.  Names are atoms: the     *)
(* prefixes svEqLit accepts for a literal are listed in NamePrefixes.      *)
(***************************************************************************)
EXTENDS LispReader, UserRap, Bitwise

CONSTANTS
    Programs,               \* programs whose texts are run, beside Sources
    ScreenWidth, ScreenHeight,
    ChanBits,               \* bits of a colour channel
    NamePrefixes                \* the pairs <<name, literal>>: a shorter name and what it begins

ASSUME ScreenOK == ScreenWidth \in Nat \ {0} /\ ScreenHeight \in Nat \ {0} /\ ChanBits \in 1 .. 7

VARIABLES
    meant,      \* history: the program the text was written for; <<>> for any text
    pc,         \* the next top-level expression
    m,          \* the interpreter's memory: [vars, fns, last, run]
    pixel,      \* the next pixel; the screen is drawn column by column
    screen      \* the pixels drawn

execVars == <<meant, pc, m, pixel, screen>>
vars == <<readerVars, rapVars, execVars>>

-----------------------------------------------------------------------------
\* int, with the wrap-around of the machine; / and % truncate.

Modulus == 2 ^ (4 * ChanBits)
IntMin == -(Modulus \div 2)
Wrap(n) == ((n - IntMin) % Modulus) + IntMin
Word(n) == n % Modulus
Abs(n) == IF n < 0 THEN -n ELSE n
Sign(n) == IF n < 0 THEN -1 ELSE 1
Quot(a, b) == Sign(a) * Sign(b) * (Abs(a) \div Abs(b))
Rem(a, b) == a - b * Quot(a, b)

MakeInt(n) == [type |-> "INT", int |-> Wrap(n)]
NoneVal == [type |-> "NONE", int |-> 0]
\* Value is a union: the length of a string is where an int would be.
MakeString(s, len) == [type |-> "STRING", int |-> len, str |-> s]

Arith(op, a, b) ==
    CASE op = "+" -> a + b [] op = "-" -> a - b [] op = "*" -> a * b
      [] op = "/" -> IF b = 0 THEN 0 ELSE Quot(a, b)
      [] op = "%" -> IF b = 0 THEN 0 ELSE Rem(a, b)
      [] op = "^" -> Word(a) ^^ Word(b)
      [] op = "&" -> Word(a) & Word(b)
      [] op = "|" -> Word(a) | Word(b)
      [] op = "~" -> -a - 1
MathOps == {"+", "-", "*", "/", "%", "^", "&", "|", "~"}

\* sinInt: an angle in thousandths, brought to -PI .. PI.
PI == 3141
TwoPI == 6283
SinInt(a) ==
    LET x == IF a > PI THEN a - TwoPI * ((a - PI + TwoPI - 1) \div TwoPI)
             ELSE IF a < -PI THEN a + TwoPI * ((-PI - a + TwoPI - 1) \div TwoPI)
             ELSE a
        y == Quot(x * (1000 - Quot(Abs(x) * 1000, PI)), 1000)
    IN  Quot(225 * (Quot(y * Abs(y), 1000) - y), 1000) + y

-----------------------------------------------------------------------------
\* svEqLit: every character of the name agrees with the literal's, which may be
\* longer.  The builtins in the order execList tests them; a user function is what
\* is left.
SvEqLit(name, lit) == name = lit \/ <<name, lit>> \in NamePrefixes
Builtins == <<"+", "-", "*", "/", "%", "^", "&", "|", "~", "glob", "set", "rgb", "print",
              "defun", "println", "typename", "sin", "ret">>
BuiltinOf(name) ==
    LET hits == {i \in DOMAIN Builtins : SvEqLit(name, Builtins[i])}
    IN  IF hits = {} THEN "call" ELSE Builtins[CHOOSE i \in hits : \A j \in hits : i <= j]

\* The index of the first entry with a name; 0 if there is none.
IndexOf(name, entries) == SelectInSeq(entries, LAMBDA e : e.name = name)
FindFunction(s, name) == IndexOf(name, s.fns)
FindVariable(s, name) == IndexOf(name, s.vars)

\* An execution is [s, v]: the memory and the value.  A stop (HLT loop, exit) is
\* kept in s.run and nothing is executed behind it.
Result(s, v) == [s |-> s, v |-> v]
Stop(s, why) == Result([s EXCEPT !.run = why], NoneVal)

\* Mutant of SetVariable: the last variable is not looked at.
SetVariable_NotLast(s, name, v) ==
    IF FindVariable(s, name) \in {0, Len(s.vars)} THEN [s EXCEPT !.run = "halt"]
    ELSE [s EXCEPT !.vars[FindVariable(s, name)].val = v]

\* createVariable leaves a variable alone that exists; setVariable and getVariable
\* halt for one that does not.
CreateVariable(s, name, v) ==
    IF FindVariable(s, name) # 0 THEN s
    ELSE [s EXCEPT !.vars = Append(@, [name |-> name, val |-> v])]
SetVariable(s, name, v) ==
    IF FindVariable(s, name) = 0 THEN [s EXCEPT !.run = "halt"]
    ELSE [s EXCEPT !.vars[FindVariable(s, name)].val = v]
GetVariable(s, name) ==
    IF FindVariable(s, name) = 0 THEN Stop(s, "halt")
    ELSE Result(s, s.vars[FindVariable(s, name)].val)

\* addFunction: an earlier function of the name stays in front.
AddFunction(s, name, params, body) ==
    [s EXCEPT !.fns = Append(@, [name |-> name, params |-> params, body |-> body])]

RECURSIVE ExecExpr(_, _)
Running(s) == s.run = "run"

\* The values of expressions, executed in order.
RECURSIVE ExecArgs(_, _, _)
ExecArgs(es, s, vs) ==
    IF es = <<>> \/ ~Running(s) THEN [s |-> s, vs |-> vs]
    ELSE LET r == ExecExpr(Head(es), s) IN ExecArgs(Tail(es), r.s, Append(vs, r.v))

ExecMath(op, items, s) ==
    LET r == ExecArgs(SubSeq(items, 2, 3), s, <<>>)
        a == r.vs[1].int
        b == r.vs[2].int
    IN  IF ~Running(r.s) THEN Stop(r.s, r.s.run)
        ELSE IF \E i \in {1, 2} : r.vs[i].type # "INT" THEN Stop(r.s, "halt")
        ELSE IF op \in {"/", "%"} /\ a = IntMin /\ b = -1 THEN Stop(r.s, "trap")
        ELSE Result(r.s, MakeInt(Arith(op, a, b)))

ExecGlob(items, s) ==
    IF items[2].type # "SYMBOL" THEN Stop(s, "halt")
    ELSE LET r == ExecExpr(items[3], s)
         IN  IF ~Running(r.s) THEN r ELSE Result(CreateVariable(r.s, items[2].val, r.v), NoneVal)

ExecSet(items, s) ==
    IF items[2].type # "SYMBOL" THEN Stop(s, "halt")
    ELSE LET r == ExecExpr(items[3], s)
         IN  IF ~Running(r.s) THEN r ELSE Result(SetVariable(r.s, items[2].val, r.v), NoneVal)

\* rgb: each channel is cut to its bits; the types are not looked at.
ExecRgb(items, s) ==
    LET r == ExecArgs(SubSeq(items, 2, 4), s, <<>>)
        chan == 2 ^ ChanBits
    IN  IF ~Running(r.s) THEN Stop(r.s, r.s.run)
        ELSE Result(r.s, MakeInt(((r.vs[1].int % chan) * chan + (r.vs[2].int % chan)) * chan
                                 + (r.vs[3].int % chan)))

\* print; what it writes is left out.
ExecPrint(items, s) ==
    LET r == ExecExpr(items[2], s) IN Result(r.s, NoneVal)

ExecPrintln(items, s) == ExecPrint(items, s)

\* defun: a name, a list of symbols, the body.
ExecDefun(items, s) ==
    IF \/ items[3].type # "LIST" \/ items[2].type # "SYMBOL"
       \/ \E i \in DOMAIN items[3].items : items[3].items[i].type # "SYMBOL"
       \/ Len(items) < 4                    \* vectorAt of the body
    THEN Stop(s, "halt")
    ELSE Result(AddFunction(s, items[2].val,
                            [i \in DOMAIN items[3].items |-> items[3].items[i].val],
                            SubSeq(items, 4, Len(items))), NoneVal)

ExecTypename(items, s) ==
    IF items[2].type # "SYMBOL" THEN Stop(s, "exit")
    ELSE LET r == GetVariable(s, items[2].val)
         IN  IF ~Running(r.s) THEN r
             ELSE Result(s, CASE r.v.type = "INT" -> MakeString("Integer", 7)
                              [] r.v.type = "STRING" -> MakeString("String", 6)
                              [] r.v.type = "NONE" -> MakeString("None", 4))

ExecSin(items, s) ==
    LET r == ExecExpr(items[2], s)
    IN  IF ~Running(r.s) THEN r
        ELSE Result(r.s, IF r.v.type = "INT" THEN MakeInt(SinInt(r.v.int)) ELSE MakeInt(0))

\* ret: the value goes to lastReturnvalue; the function is not left.
ExecRet(items, s) ==
    LET r == ExecExpr(items[2], s)
    IN  IF ~Running(r.s) THEN r ELSE Result([r.s EXCEPT !.last = r.v], NoneVal)

\* A user function: the parameters are global variables, each set as soon as its
\* argument is evaluated; the result is lastReturnvalue, whoever set it.
RECURSIVE Bind(_, _, _), ExecBody(_, _)
Bind(params, args, s) ==
    IF params = <<>> \/ ~Running(s) THEN s
    ELSE LET created == CreateVariable(s, Head(params), MakeInt(0))
         IN  IF args = <<>> THEN [created EXCEPT !.run = "halt"]
             ELSE LET r == ExecExpr(Head(args), created)
                  IN  Bind(Tail(params), Tail(args),
                           IF Running(r.s) THEN SetVariable(r.s, Head(params), r.v) ELSE r.s)
ExecBody(body, s) ==
    IF body = <<>> \/ ~Running(s) THEN s ELSE ExecBody(Tail(body), ExecExpr(Head(body), s).s)

ExecCall(items, s) ==
    LET f == FindFunction(s, items[1].val)
    IN  IF f = 0 THEN Stop(s, "halt")
        ELSE LET t == ExecBody(s.fns[f].body, Bind(s.fns[f].params, Tail(items), s))
             IN  Result(t, t.last)

\* What vectorAt asks for before anything is executed.
Needs(b) ==
    CASE b \in MathOps \cup {"glob", "set", "defun"} -> 3
      [] b = "rgb" -> 4 [] b = "call" -> 1 [] OTHER -> 2

ExecList(items, s) ==
    IF items = <<>> \/ items[1].type # "SYMBOL" THEN Stop(s, "halt")
    ELSE LET b == BuiltinOf(items[1].val)
         IN  IF Len(items) < Needs(b) THEN Stop(s, "halt")
             ELSE CASE b \in MathOps -> ExecMath(b, items, s)
                    [] b = "glob" -> ExecGlob(items, s)
                    [] b = "set" -> ExecSet(items, s)
                    [] b = "rgb" -> ExecRgb(items, s)
                    [] b = "print" -> ExecPrint(items, s)
                    [] b = "println" -> ExecPrintln(items, s)
                    [] b = "defun" -> ExecDefun(items, s)
                    [] b = "typename" -> ExecTypename(items, s)
                    [] b = "sin" -> ExecSin(items, s)
                    [] b = "ret" -> ExecRet(items, s)
                    [] OTHER -> ExecCall(items, s)

ExecExpr(e, s) ==
    CASE e.type = "INT" -> Result(s, MakeInt(e.val))
      [] e.type = "STRING" -> Result(s, MakeString(e.val, e.len))
      [] e.type = "SYMBOL" -> GetVariable(s, e.val)
      [] OTHER -> ExecList(e.items, s)

-----------------------------------------------------------------------------
\* _start and lispRun.

\* The text of a program.
RECURSIVE Unparse(_)
UnparseAll(es) == FlattenSeq([i \in DOMAIN es |-> Unparse(es[i])])
Unparse(e) ==
    CASE e.type = "INT" -> Append(Fromu(e.val), " ")
      [] e.type = "STRING" -> <<"q", e.val, "q">>
      [] e.type = "SYMBOL" -> <<e.val, " ">>
      [] e.type = "LIST" -> <<"(">> \o UnparseAll(e.items) \o <<")", "\n">>

Fragment == FindFunction(m, "fragment")
Shading == phase = "done" /\ pc > Len(prog) + 1 /\ Running(m)

Init ==
    /\ \/ src \in Sources /\ meant = <<>>
       \/ \E p \in Programs : src = UnparseAll(p) /\ meant = p
    /\ ReaderInit
    /\ RapInit
    /\ pc = 1 /\ pixel = 0 /\ screen = <<>>
    /\ m = [vars |-> <<>>, fns |-> <<>>, last |-> NoneVal, run |-> "run"]

StartRap == ReadFuncRap /\ UNCHANGED <<readerVars, execVars>>

\* tokenize, and parseExpr once the expressions before are executed.
ReadOn ==
    /\ rap # NotRead /\ ~rap.over /\ pc > Len(prog) /\ Running(m)
    /\ ReaderNext
    /\ UNCHANGED <<rapVars, execVars>>

Toplevel ==
    /\ pc <= Len(prog) /\ Running(m)
    /\ m' = ExecExpr(prog[pc], m).s
    /\ pc' = pc + 1
    /\ UNCHANGED <<readerVars, rapVars, meant, pixel, screen>>

CheckFragment ==
    /\ phase = "done" /\ pc = Len(prog) + 1 /\ Running(m)
    /\ m' = IF Fragment = 0 \/ Len(m.fns[Fragment].params) # 2 THEN [m EXCEPT !.run = "halt"] ELSE m
    /\ pc' = pc + 1
    /\ UNCHANGED <<readerVars, rapVars, meant, pixel, screen>>

\* Mutant of ShadePixel: the parameters are created but not set again.
ShadePixel_Once ==
    /\ Shading /\ pixel < ScreenWidth * ScreenHeight
    /\ LET f == m.fns[Fragment]
           x == CreateVariable(m, f.params[1], MakeInt(pixel \div ScreenHeight))
           y == CreateVariable(x, f.params[2], MakeInt(pixel % ScreenHeight))
           s == ExecBody(f.body, y)
       IN  m' = s /\ screen' = IF Running(s) THEN Append(screen, s.last.int) ELSE screen
    /\ pixel' = pixel + 1
    /\ UNCHANGED <<readerVars, rapVars, meant, pc>>

\* One iteration of the loops over x and y.
ShadePixel ==
    /\ Shading /\ pixel < ScreenWidth * ScreenHeight
    /\ LET f == m.fns[Fragment]
           xy == <<MakeInt(pixel \div ScreenHeight), MakeInt(pixel % ScreenHeight)>>
           x == SetVariable(CreateVariable(m, f.params[1], MakeInt(0)), f.params[1], xy[1])
           y == SetVariable(CreateVariable(x, f.params[2], MakeInt(0)), f.params[2], xy[2])
           s == ExecBody(f.body, y)
       IN  m' = s /\ screen' = IF Running(s) THEN Append(screen, s.last.int) ELSE screen
    /\ pixel' = pixel + 1
    /\ UNCHANGED <<readerVars, rapVars, meant, pc>>

Next == StartRap \/ ReadOn \/ Toplevel \/ CheckFragment \/ ShadePixel

Spec == Init /\ [][Next]_vars

-----------------------------------------------------------------------------
\* The reference: what docs/shaderlang.md's C would compute.  It is defined for
\* programs of literals, globals, operators and functions whose body is one ret.

Defuns == {i \in DOMAIN meant : meant[i].items[1].val = "defun"}
Globs == {i \in DOMAIN meant : meant[i].items[1].val = "glob"}
DefunOf(name) == meant[CHOOSE i \in Defuns : meant[i].items[2].val = name /\
                        \A j \in Defuns : meant[j].items[2].val = name => i <= j].items
ParamsOf(d) == [i \in DOMAIN d[3].items |-> d[3].items[i].val]
FunctionNames == {meant[i].items[2].val : i \in Defuns}

\* An expression that the reference covers, with the given parameters.
RECURSIVE PlainExpr(_, _)
PlainExpr(e, params) ==
    CASE e.type = "INT" -> TRUE
      [] e.type = "SYMBOL" -> e.val \in params \cup {meant[i].items[2].val : i \in Globs}
      [] e.type = "LIST" /\ e.items # <<>> ->
             /\ \A i \in 2 .. Len(e.items) : PlainExpr(e.items[i], params)
             /\ \/ e.items[1].val \in MathOps /\ Len(e.items) = 3
                \/ /\ e.items[1].val \in FunctionNames
                   /\ Len(e.items) = 1 + Len(ParamsOf(DefunOf(e.items[1].val)))
      [] OTHER -> FALSE
PlainBody(d, Ok(_)) == Len(d) = 4 /\ d[4].items[1].val = "ret" /\ Ok(d[4].items[2])
Plain ==
    /\ "fragment" \in FunctionNames /\ Len(ParamsOf(DefunOf("fragment"))) = 2
    /\ \A i \in Defuns :
           PlainBody(meant[i].items, LAMBDA e : PlainExpr(e, Range(ParamsOf(meant[i].items))))

RECURSIVE RefVal(_, _)
RefVal(e, loc) ==
    CASE e.type = "INT" -> e.val
      [] e.type = "SYMBOL" /\ e.val \in DOMAIN loc -> loc[e.val]
      [] e.type = "SYMBOL" ->
             RefVal(meant[CHOOSE i \in Globs : meant[i].items[2].val = e.val].items[3], <<>>)
      [] OTHER ->
             LET args == [i \in 1 .. Len(e.items) - 1 |-> RefVal(e.items[i + 1], loc)]
                 name == e.items[1].val
             IN  IF name \in MathOps
                 THEN LET a == args[1]
                          b == args[2]
                      IN  IF name \in {"/", "%"} /\ b = 0 THEN 0 ELSE Wrap(Arith(name, a, b))
                 ELSE LET d == DefunOf(name)
                          ps == ParamsOf(d)
                      IN  RefVal(d[4].items[2],
                                 [p \in Range(ps) |-> args[IndexOf(p, [i \in DOMAIN ps |-> [name |-> ps[i]]])]])
RefPixel(n) ==
    LET d == DefunOf("fragment")
        ps == ParamsOf(d)
        x == n \div ScreenHeight
        y == n % ScreenHeight
    IN  RefVal(d[4].items[2], [p \in Range(ps) |-> IF p = ps[2] THEN y ELSE x])

\* The functions an expression calls.
RECURSIVE Calls(_)
Calls(e) ==
    IF e.type # "LIST" THEN {}
    ELSE LET inner == UNION {Calls(e.items[i]) : i \in 2 .. Len(e.items)}
             name == e.items[1].val
         IN  IF name \in FunctionNames THEN {name} \cup Calls(DefunOf(name)[4]) \cup inner ELSE inner
RECURSIVE CallsTwice(_)
CallsTwice(e) ==
    e.type = "LIST" /\ \/ \E i \in 2 .. Len(e.items) : e.items[1].val \in Calls(e.items[i])
                       \/ \E i \in 2 .. Len(e.items) : CallsTwice(e.items[i])

\* No name is a parameter of two functions or also a global, no function is called
\* in an argument of its own call, and no function has a builtin's prefix for name.
Disciplined ==
    LET names(i) == Range(ParamsOf(meant[i].items))
    IN  /\ \A i, j \in Defuns : i # j => names(i) \cap names(j) = {}
        /\ \A i \in Defuns, g \in Globs : meant[g].items[2].val \notin names(i)
        /\ \A i \in Defuns : ~CallsTwice(meant[i].items[4])
        /\ \A f \in FunctionNames : BuiltinOf(f) = "call"

-----------------------------------------------------------------------------
\* Properties.

\* Every pixel has the colour that fragment, as a C function of its coordinates,
\* gives it: nothing is left over from the pixel before, from another function or
\* from the file's first expressions, nor changed by tokenize or parseExpr.
PixelsAgree ==
    (meant # <<>> /\ screen # <<>> /\ Plain /\ Disciplined /\ Running(m)) => \A n \in DOMAIN screen : screen[n] = RefPixel(n - 1)

\* A plain, disciplined program never halts: every step of lispRun leads on to the
\* next pixel, and each is drawn.  Only the division that overflows ends it.
NeverStops ==
    (meant # <<>> /\ (~Running(m) \/ phase \in {"done", "halted", "overrun"}) /\ m.run # "trap" /\ Plain /\ Disciplined)
        => Running(m) /\ phase = "done" /\ Len(screen) = pixel
=============================================================================
