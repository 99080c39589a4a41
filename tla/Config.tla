------------------------------- MODULE Config -------------------------------
(***************************************************************************)
(* The configuration parser (src/gen/conf/conf.hpp), which fills a Map.  A *)
(* text is a sequence of words, digits and single characters; "q" is the   *)
(* quote.  A section and a key are such sequences.                         *)
(***************************************************************************)
EXTENDS Rap, Maps

Whitespace == {" ", "\n"}
Punctuation == {"[", "]", "#", "=", "q", ".", ","}
IsWord(c) == c \notin Whitespace \cup Punctuation /\ ~IsDigit(c)
IsIdent(c) == IsWord(c) \/ IsDigit(c)

\* The first place from i on whose character is not in the given class.
Past(t, i, Is(_)) == Min({j \in i .. Len(t) : ~Is(t[j])} \cup {Len(t) + 1})

\* Values; those a text must not have are Bad, and Lost when a string is not
\* closed and the scan leaves it.
IntVal(n) == [state |-> "Int", int |-> n, str |-> <<>>]
StrVal(s) == [state |-> "String", int |-> 0, str |-> s]
BoolVal(b) == [state |-> "Bool", int |-> IF b THEN 1 ELSE 0, str |-> <<>>]
Bad == [state |-> "err", int |-> 0, str |-> <<>>]
Lost == [state |-> "lost", int |-> 0, str |-> <<>>]

\* parseVal: all digits, a string up to its second quote, or letters that spell
\* true or false; what is behind a string or the letters is not looked at.
ParseVal(v) ==
    IF v # <<>> /\ \A i \in DOMAIN v : IsDigit(v[i]) THEN IntVal(Stoi(v))
    ELSE IF v # <<>> /\ v[1] = "q"
    THEN LET close == Next1(v, 2, "q") IN IF close = 0 THEN Lost ELSE StrVal(SubSeq(v, 2, close - 1))
    ELSE LET word == SubSeq(v, 1, Past(v, 1, IsWord) - 1)
         IN  IF word \in {<<"true">>, <<"false">>} THEN BoolVal(word = <<"true">>) ELSE Bad

\* parseSrc, from place i on.
Conf(status, sections, map) == [status |-> status, sections |-> sections, map |-> map]
RECURSIVE ParseFrom(_, _, _, _, _)
ParseFrom(t, i, section, sections, map) ==
    IF i > Len(t) THEN Conf("ok", sections, map)
    ELSE CASE t[i] = "[" ->
             LET close == Next1(t, i, "]")
                 s == SubSeq(t, i + 1, close - 1)
             IN  IF close = 0 THEN Conf("lost", sections, map)
                 ELSE ParseFrom(t, close + 1, s, Append(sections, s), map)
           [] t[i] = "#" ->
             IF Next1(t, i, "\n") = 0 THEN Conf("lost", sections, map)
             ELSE ParseFrom(t, Next1(t, i, "\n"), section, sections, map)
           [] IsIdent(t[i]) ->
             LET end == Past(t, i, IsIdent)
                 eq  == Past(t, end, LAMBDA c : c \in Whitespace)
                 val == Past(t, eq + 1, LAMBDA c : c \in Whitespace)
                 nl  == Next1(t, val, "\n")
                 v   == ParseVal(SubSeq(t, val, nl - 1))
             IN  IF eq > Len(t) \/ t[eq] # "=" THEN Conf("err", sections, map)
                 ELSE IF nl = 0 \/ v = Lost THEN Conf("lost", sections, map)
                 ELSE IF v = Bad THEN Conf("err", sections, map)
                 ELSE ParseFrom(t, nl, section, sections,
                                Insert(map, section \o <<".">> \o SubSeq(t, i, end - 1), v))
           [] t[i] \in Whitespace -> ParseFrom(t, i + 1, section, sections, map)
           [] OTHER -> Conf("err", sections, map)
ParseSrc(t) == ParseFrom(t, 1, <<>>, <<>>, <<>>)

\* getAllSubsections.
GetAllSubsections(conf, main) == SelectSeq(conf.sections, LAMBDA s : IsPrefix(main, s))
=============================================================================
