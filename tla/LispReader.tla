----------------------------- MODULE LispReader -----------------------------
(***************************************************************************)
(* The reader of the shader language (sbinSrc/de/lisp/lisp.c): tokenize    *)
(* and parseExpr, as lispRun drives them.                                  *)
(*                                                                         *)
(* The source text is a sequence of characters, or words, each of a class  *)
(* of characters.  A token keeps, as its StringView does, where its text   *)
(* starts and how long it is.  The recursion of parseList is the stack of  *)
(* the lists that are open.  Evaluating an expression between two calls of *)
(* parseExpr is module Lisp.                                               *)
(***************************************************************************)
EXTENDS Numbers, TLC

CONSTANTS
    Sources,        \* texts to read
    ClassOf         \* the class of each character

VARIABLES
    src,        \* the text; a NUL follows it
    cur,        \* tokenize's src pointer
    toks,       \* the token vector
    pos,        \* parseExpr's position in it
    stack,      \* the lists parseList is building, the innermost last
    prog,       \* the expressions parseExpr has returned to lispRun
    phase       \* "tokenize", "parse", "done", "halted" or "overrun"

readerVars == <<src, cur, toks, pos, stack, prog, phase>>

Skippable == {"blank", "newline"}
Ident == {"alpha", "digit", "op"}
Chars == Skippable \cup Ident \cup {"(", ")", "quote", "semicolon", "other"}

ASSUME SourcesOK ==
    /\ \A c \in DOMAIN ClassOf : ClassOf[c] \in Chars
    /\ \A s \in Sources : \A i \in DOMAIN s : s[i] \in DOMAIN ClassOf

-----------------------------------------------------------------------------
\* Vector: the elements and the capacity; munmap of the old array does nothing.

VecMinSize == 5
VectorInit == [items |-> <<>>, capac |-> VecMinSize]

VectorPushBack(v, e) ==
    [items |-> Append(v.items, e),
     capac |-> IF Len(v.items) >= v.capac THEN 2 * v.capac ELSE v.capac]

MakeToken(t, at, n) == [type |-> t, at |-> at, len |-> n]

-----------------------------------------------------------------------------
\* tokenize: one iteration of its loop per action.

ReaderInit ==
    /\ cur = 1 /\ toks = VectorInit
    /\ pos = 1 /\ stack = <<>> /\ prog = <<>>
    /\ phase = "tokenize"

Class(k) == ClassOf[src[k]]
AtChar(c) == phase = "tokenize" /\ cur <= Len(src) /\ Class(cur) \in c

\* The first position from k on with a character of C; behind the text if none.
Find(k, C) == Min({j \in k .. Len(src) : Class(j) \in C} \cup {Len(src) + 1})

Emit(t, at, n, next) ==
    /\ toks' = VectorPushBack(toks, MakeToken(t, at, n))
    /\ cur' = next
    /\ UNCHANGED <<src, pos, stack, prog, phase>>

\* Blanks, and characters that begin no token.
Skip ==
    /\ AtChar(Skippable \cup {"other"})
    /\ cur' = cur + 1
    /\ UNCHANGED <<src, toks, pos, stack, prog, phase>>

Paren ==
    /\ AtChar({"(", ")"})
    /\ Emit(IF src[cur] = "(" THEN "TT_OPENPAREN" ELSE "TT_CLOSEPAREN", cur, 1, cur + 1)

RunsOver ==
    /\ phase' = "overrun"
    /\ UNCHANGED <<src, cur, toks, pos, stack, prog>>

\* A string is scanned for its end without a look at the NUL.
StringLit ==
    /\ AtChar({"quote"})
    /\ LET close == Find(cur + 1, {"quote"})
       IN  IF close > Len(src) THEN RunsOver
           ELSE Emit("TT_STRLIT", cur + 1, close - cur - 1, close + 1)

\* So is a comment, for its newline.
Comment ==
    /\ AtChar({"semicolon"})
    /\ LET nl == Find(cur, {"newline"})
       IN  IF nl > Len(src) THEN RunsOver
           ELSE cur' = nl + 1 /\ UNCHANGED <<src, toks, pos, stack, prog, phase>>

\* Mutant of IntLit: a letter behind the digits is swallowed.
IntLit_Eat ==
    /\ AtChar({"digit"})
    /\ LET end == Find(cur, Chars \ {"digit"})
       IN  Emit("TT_INTLIT", cur, end - cur, Min({end, Len(src)}) + 1)

IntLit ==
    /\ AtChar({"digit"})
    /\ LET end == Find(cur, Chars \ {"digit"})
       IN  Emit("TT_INTLIT", cur, end - cur, end)

\* A digit is tested for first: an identifier does not begin with one.
IdentTok ==
    /\ AtChar(Ident \ {"digit"})
    /\ LET end == Find(cur, Chars \ Ident)
       IN  Emit("TT_IDENT", cur, end - cur, end)

TokenizeEnd ==
    /\ phase = "tokenize" /\ cur > Len(src)
    /\ phase' = "parse"
    /\ UNCHANGED <<src, cur, toks, pos, stack, prog>>

-----------------------------------------------------------------------------
\* parseExpr and parseList: one token per action.

Parsing == phase = "parse" /\ pos <= Len(toks.items)
TokType == toks.items[pos].type

\* An expression is complete: it goes to the innermost list in st, or to lispRun.
Deliver(e, st) ==
    IF st = <<>> THEN prog' = Append(prog, e) /\ stack' = <<>>
    ELSE /\ stack' = [st EXCEPT ![Len(st)] = Append(@, e)]
         /\ UNCHANGED prog

\* A word of one element is its own name.  A string has one character in each
\* element.
Name(text) == IF Len(text) = 1 THEN text[1] ELSE ToString(text)
NewExpr(t) ==
    LET text == SubSeq(src, t.at, t.at + t.len - 1)
    IN  CASE t.type = "TT_INTLIT" -> [type |-> "INT", val |-> Stoi(text)]
          [] t.type = "TT_STRLIT" -> [type |-> "STRING", val |-> Name(text), len |-> t.len]
          [] t.type = "TT_IDENT" -> [type |-> "SYMBOL", val |-> Name(text)]
NewList(items) == [type |-> "LIST", items |-> items]

ParseAtom ==
    /\ Parsing /\ TokType \in {"TT_INTLIT", "TT_STRLIT", "TT_IDENT"}
    /\ Deliver(NewExpr(toks.items[pos]), stack)
    /\ pos' = pos + 1
    /\ UNCHANGED <<src, cur, toks, phase>>

ParseListStart ==
    /\ Parsing /\ TokType = "TT_OPENPAREN"
    /\ stack' = Append(stack, <<>>)
    /\ pos' = pos + 1
    /\ UNCHANGED <<src, cur, toks, prog, phase>>

\* Mutant of ParseListEnd: the list goes to lispRun, whatever list it is in.
ParseListEnd_Top ==
    /\ Parsing /\ TokType = "TT_CLOSEPAREN" /\ stack # <<>>
    /\ prog' = Append(prog, NewList(stack[Len(stack)]))
    /\ stack' = SubSeq(stack, 1, Len(stack) - 1)
    /\ pos' = pos + 1
    /\ UNCHANGED <<src, cur, toks, phase>>

ParseListEnd ==
    /\ Parsing /\ TokType = "TT_CLOSEPAREN" /\ stack # <<>>
    /\ Deliver(NewList(stack[Len(stack)]),
               SubSeq(stack, 1, Len(stack) - 1))
    /\ pos' = pos + 1
    /\ UNCHANGED <<src, cur, toks, phase>>

\* "Unknown symbol" for a ) outside a list, vectorAt's stop for a list that is
\* still open behind the last token.
ParseHalt ==
    /\ phase = "parse"
    /\ IF Parsing THEN TokType = "TT_CLOSEPAREN" /\ stack = <<>> ELSE stack # <<>>
    /\ phase' = "halted"
    /\ UNCHANGED <<src, cur, toks, pos, stack, prog>>

\* lispRun's loop ends.
ParseEnd ==
    /\ phase = "parse" /\ pos > Len(toks.items) /\ stack = <<>>
    /\ phase' = "done"
    /\ UNCHANGED <<src, cur, toks, pos, stack, prog>>

ReaderNext ==
    \/ Skip \/ Paren \/ StringLit \/ Comment \/ IntLit \/ IdentTok \/ TokenizeEnd
    \/ ParseAtom \/ ParseListStart \/ ParseListEnd \/ ParseHalt \/ ParseEnd

\* The reader by itself, on any text.
ReaderSpec == src \in Seq(DOMAIN ClassOf) /\ ReaderInit /\ [][ReaderNext]_readerVars

-----------------------------------------------------------------------------
\* Properties.

TokenAt(k, C) ==
    \E n \in DOMAIN toks.items :
        LET t == toks.items[n] IN t.type \in C /\ t.at <= k /\ k < t.at + t.len
TokenTypes == {"TT_OPENPAREN", "TT_CLOSEPAREN", "TT_INTLIT", "TT_STRLIT", "TT_IDENT"}

\* k is behind a semicolon of its line that is not text of a string.
InComment(k) ==
    \E j \in 1 .. k :
        /\ Class(j) = "semicolon" /\ ~TokenAt(j, {"TT_STRLIT"})
        /\ \A i \in j .. k : Class(i) # "newline"

\* The tokens that tokenize returns are the words of the text: in its order, without overlap, numbers
\* and identifiers as long as they can be, and no word outside a comment missing.
TokensAreWords == (phase = "parse" /\ pos = 1) =>
    /\ \A n \in 2 .. Len(toks.items) :
           toks.items[n].at >= toks.items[n - 1].at + toks.items[n - 1].len
    /\ \A n \in DOMAIN toks.items :
           LET t == toks.items[n]
               end == t.at + t.len
           IN  /\ t.type = "TT_INTLIT" => end > Len(src) \/ Class(end) # "digit"
               /\ t.type = "TT_IDENT" => end > Len(src) \/ Class(end) \notin Ident
    /\ \A k \in 1 .. cur - 1 :
           Class(k) \in Ident \cup {"(", ")"} => TokenAt(k, TokenTypes) \/ InComment(k)

Tok(t) == [type |-> t]
\* An expression opened: a list is its elements between parentheses, an atom its
\* token, and a token is what it is.
Opened(e) ==
    CASE e.type = "LIST" -> <<Tok("TT_OPENPAREN")>> \o e.items \o <<Tok("TT_CLOSEPAREN")>>
      [] e.type = "INT" -> <<Tok("TT_INTLIT")>>
      [] e.type = "STRING" -> <<Tok("TT_STRLIT")>>
      [] e.type = "SYMBOL" -> <<Tok("TT_IDENT")>>
      [] OTHER -> <<e>>
\* The first n elements of es opened, by n.
Openings(es) ==
    LET at[n \in Nat] == IF n = 0 THEN <<>> ELSE at[n - 1] \o Opened(es[n])
    IN  at
OpenAll(es) == Openings(es)[Len(es)]
\* es opened n times over, by n.
Layers(es) ==
    LET at[n \in Nat] == IF n = 0 THEN es ELSE OpenAll(at[n - 1])
    IN  at
\* The expressions of p and, behind them, the first n of the open lists st, by n.
Joined(p, st) ==
    LET at[n \in Nat] == IF n = 0 THEN p ELSE at[n - 1] \o (<<Tok("TT_OPENPAREN")>> \o st[n])
    IN  at
SoFar(p, st) == Joined(p, st)[Len(st)]

\* The expressions, with the lists still open, are the tokens read so far, once every
\* list is opened, which takes no more layers than there are tokens: no token is
\* lost, moved or read twice, at any depth of nesting.
TreeIsTokens ==
    Layers(SoFar(prog, stack))[pos] = [k \in 1 .. pos - 1 |-> Tok(toks.items[k].type)]
=============================================================================
