--------------------------- MODULE LispReaderProofs ---------------------------
(***************************************************************************)
(* Proofs about LispReader: tokenize returns the words of every text, and  *)
(* parseExpr makes trees of all of its tokens.                             *)
(***************************************************************************)
EXTENDS LispReader, SequenceTheorems, WellFoundedInduction, TLAPS

Token == [type : TokenTypes, at : Nat \ {0}, len : Nat]

\* What tokenize makes tokens of, beside the strings.
Wordy == Ident \cup {"(", ")"}

\* The parts of TokensAreWords, for any list of tokens and any place c up to which
\* the text is read.
Covers(items, k, C) ==
    \E n \in 1 .. Len(items) :
        items[n].type \in C /\ items[n].at <= k /\ k < items[n].at + items[n].len
Commented(items, k) ==
    \E j \in 1 .. k : /\ Class(j) = "semicolon" /\ ~Covers(items, j, {"TT_STRLIT"})
                      /\ \A i \in j .. k : Class(i) # "newline"
InOrder(items) ==
    \A n \in 1 .. Len(items) : n > 1 => items[n].at >= items[n - 1].at + items[n - 1].len
Longest(t) ==
    /\ t.type = "TT_INTLIT" => t.at + t.len > Len(src) \/ Class(t.at + t.len) # "digit"
    /\ t.type = "TT_IDENT" => t.at + t.len > Len(src) \/ Class(t.at + t.len) \notin Ident
Complete(items, c) ==
    \A k \in 1 .. c - 1 : Class(k) \in Wordy => Covers(items, k, TokenTypes) \/ Commented(items, k)

\* No token reaches beyond what is read: this is why a new one overlaps none, and
\* why it makes no comment part of a string afterwards.
Words(items, c) ==
    /\ \A n \in 1 .. Len(items) : items[n].at + items[n].len <= c
    /\ InOrder(items) /\ Complete(items, c)
    /\ \A n \in 1 .. Len(items) : Longest(items[n])

ReaderInv ==
    /\ src \in Seq(DOMAIN ClassOf) /\ cur \in 1 .. Len(src) + 1
    /\ toks = [items |-> toks.items, capac |-> toks.capac] /\ toks.items \in Seq(Token)
    /\ Words(toks.items, cur)

-----------------------------------------------------------------------------
LEMMA Classes ==
  ASSUME ReaderInv, NEW k \in 1 .. Len(src)
  PROVE  Class(k) \in Chars
  <1>1. src \in Seq(DOMAIN ClassOf)
    BY DEF ReaderInv
  <1>2. src[k] \in DOMAIN ClassOf
    BY <1>1
  <1> QED
    BY <1>2, SourcesOK DEF Class

\* The first place from k on with a character of C.
LEMMA FindOK ==
  ASSUME ReaderInv, NEW k \in 1 .. Len(src) + 1, NEW C
  PROVE  /\ Find(k, C) \in k .. Len(src) + 1
         /\ \A j \in k .. Find(k, C) - 1 : Class(j) \notin C
         /\ Find(k, C) <= Len(src) => Class(Find(k, C)) \in C
  <1> DEFINE S == {j \in k .. Len(src) : Class(j) \in C} \cup {Len(src) + 1}
             IsLeast(x) == x \in S /\ \A y \in S : x <= y
  <1>1. Len(src) \in Nat /\ k \in Nat
    BY LenProperties DEF ReaderInv
  <1>2. S \subseteq Nat /\ Len(src) + 1 \in S
    BY <1>1
  <1>3. \E x \in S : \A y \in S : x <= y
    <2> HIDE DEF S
    <2>1. PICK x \in S : \A y \in S : ~(<<y, x>> \in OpToRel(<, Nat))
      BY <1>2, NatLessThanWellFounded, WFMin
    <2>2. \A y \in S : ~(y < x)
      BY <1>2, <2>1 DEF OpToRel
    <2>3. \A y \in S : x <= y
      BY <1>2, <2>2
    <2> QED
      BY <2>3
  <1>4. Find(k, C) \in S /\ \A y \in S : Find(k, C) <= y
    BY <1>3 DEF Find, Min
  <1> QED
    BY <1>1, <1>4

\* The text is read on to c, past nothing that would be a token: the tokens stay.
LEMMA ReadOnWords ==
  ASSUME ReaderInv, NEW c \in cur .. Len(src) + 1,
         \A k \in cur .. c - 1 : Class(k) \in Wordy => Commented(toks.items, k)
  PROVE  Words(toks.items, c)
  <1> DEFINE items == toks.items
  <1>1. /\ items \in Seq(Token) /\ Words(items, cur) /\ Len(items) \in Nat
        /\ cur \in Nat /\ Len(src) \in Nat /\ c \in Nat /\ cur <= c
        /\ \A n \in 1 .. Len(items) : items[n] \in Token
    BY LenProperties DEF ReaderInv
  <1>2. \A n \in 1 .. Len(items) : items[n].at + items[n].len <= c
    <2> SUFFICES ASSUME NEW n \in 1 .. Len(items) PROVE items[n].at + items[n].len <= c
      OBVIOUS
    <2>1. items[n].at + items[n].len <= cur /\ items[n].at \in Nat /\ items[n].len \in Nat
      BY <1>1 DEF Words, Token
    <2> HIDE DEF items
    <2> QED
      BY <1>1, <2>1
  <1>3. Complete(items, c)
    BY <1>1 DEF Words, Complete
  <1> QED
    BY <1>1, <1>2, <1>3 DEF Words

\* A token of what is read from cur to c is added.
LEMMA AddedWord ==
  ASSUME ReaderInv, NEW c \in cur .. Len(src) + 1, NEW t \in Token,
         t.at >= cur, t.at + t.len <= c, Longest(t),
         \A k \in cur .. c - 1 : Class(k) \in Wordy => t.at <= k /\ k < t.at + t.len
  PROVE  Append(toks.items, t) \in Seq(Token) /\ Words(Append(toks.items, t), c)
  <1> DEFINE old == toks.items
             new == Append(toks.items, t)
             l == Len(toks.items)
  <1>1. /\ old \in Seq(Token) /\ Words(old, cur) /\ l \in Nat
        /\ cur \in Nat \ {0} /\ Len(src) \in Nat /\ c \in Nat /\ cur <= c
        /\ \A n \in 1 .. l : old[n] \in Token
    BY LenProperties DEF ReaderInv
  <1>2. /\ new \in Seq(Token) /\ Len(new) = l + 1 /\ new[l + 1] = t
        /\ \A n \in 1 .. l : new[n] = old[n]
    BY <1>1, AppendProperties
  <1>3. /\ \A n \in 1 .. l : /\ old[n].at \in Nat /\ old[n].len \in Nat
                             /\ old[n].at + old[n].len <= cur
        /\ t.at \in Nat /\ t.len \in Nat
    BY <1>1 DEF Words, Token
  <1> HIDE DEF old, new, l
  <1>4. Words(old, cur) /\ Len(old) = l
    BY <1>1 DEF old, l
  <1>5. \A n \in 1 .. Len(new) : new[n].at + new[n].len <= c
    <2> SUFFICES ASSUME NEW n \in 1 .. l + 1 PROVE new[n].at + new[n].len <= c
      BY <1>2
    <2>1. CASE n = l + 1
      BY <1>2, <2>1
    <2>2. CASE n \in 1 .. l
      <3>1. new[n] = old[n] /\ cur \in Nat /\ c \in Nat /\ cur <= c
        BY <1>1, <1>2, <2>2
      <3>2. old[n].at \in Nat /\ old[n].len \in Nat /\ old[n].at + old[n].len <= cur
        BY <1>3, <2>2
      <3>3. \A x, y \in Nat : x + y <= cur => x + y <= c
        BY <3>1
      <3> QED
        BY <3>1, <3>2, <3>3
    <2> QED
      BY <1>1, <2>1, <2>2
  <1>6. InOrder(new)
    <2> SUFFICES ASSUME NEW n \in 1 .. l + 1, n > 1 PROVE new[n].at >= new[n - 1].at + new[n - 1].len
      BY <1>2 DEF InOrder
    <2>1. CASE n = l + 1
      <3>1. l \in 1 .. l /\ new[n - 1] = old[l] /\ new[n] = t
        BY <1>1, <1>2, <2>1
      <3>2. old[l].at + old[l].len <= cur /\ old[l].at \in Nat /\ old[l].len \in Nat
        BY <1>3, <3>1
      <3>3. cur \in Nat /\ t.at \in Nat
        BY <1>1, <1>3
      <3>4. \A x, y, z \in Nat : x + y <= cur /\ z >= cur => z >= x + y
        BY <3>3
      <3>5. new[n].at >= cur
        BY <3>1
      <3> QED
        BY <3>1, <3>2, <3>3, <3>4, <3>5
    <2>2. CASE n \in 1 .. l
      <3>1. n - 1 \in 1 .. l
        BY <1>1, <2>2
      <3> QED
        BY <1>2, <1>4, <2>2, <3>1 DEF Words, InOrder
    <2> QED
      BY <1>1, <2>1, <2>2
  <1>7. \A n \in 1 .. Len(new) : Longest(new[n])
    <2> SUFFICES ASSUME NEW n \in 1 .. l + 1 PROVE Longest(new[n])
      BY <1>2
    <2>1. CASE n = l + 1
      BY <1>2, <2>1
    <2>2. CASE n \in 1 .. l
      BY <1>2, <1>4, <2>2 DEF Words
    <2> QED
      BY <1>1, <2>1, <2>2
  <1>8. ASSUME NEW k, NEW C, Covers(old, k, C) PROVE Covers(new, k, C)
    <2>1. PICK n \in 1 .. l : old[n].type \in C /\ old[n].at <= k /\ k < old[n].at + old[n].len
      BY <1>4, <1>8 DEF Covers
    <2>2. n \in 1 .. l + 1 /\ new[n] = old[n]
      BY <1>1, <1>2
    <2> QED
      BY <1>2, <2>1, <2>2 DEF Covers
  <1>9. ASSUME NEW j \in 1 .. cur - 1, ~Covers(old, j, {"TT_STRLIT"})
        PROVE  ~Covers(new, j, {"TT_STRLIT"})
    <2> SUFFICES ASSUME NEW n \in 1 .. l + 1, new[n].type \in {"TT_STRLIT"},
                        new[n].at <= j, j < new[n].at + new[n].len
                 PROVE  FALSE
      BY <1>2 DEF Covers
    <2>1. CASE n = l + 1
      BY <1>1, <1>2, <1>3, <2>1
    <2>2. CASE n \in 1 .. l
      BY <1>2, <1>4, <1>9, <2>2 DEF Covers
    <2> QED
      BY <1>1, <2>1, <2>2
  <1>10. ASSUME NEW k \in 1 .. cur - 1, Commented(old, k) PROVE Commented(new, k)
    <2>1. PICK j \in 1 .. k : /\ Class(j) = "semicolon" /\ ~Covers(old, j, {"TT_STRLIT"})
                              /\ \A i \in j .. k : Class(i) # "newline"
      BY <1>10 DEF Commented
    <2>2. j \in 1 .. cur - 1
      BY <1>1
    <2> QED
      BY <1>9, <2>1, <2>2 DEF Commented
  <1>11. Complete(new, c)
    <2> SUFFICES ASSUME NEW k \in 1 .. c - 1, Class(k) \in Wordy
                 PROVE  Covers(new, k, TokenTypes) \/ Commented(new, k)
      BY DEF Complete
    <2>1. CASE k \in 1 .. cur - 1
      <3>1. Covers(old, k, TokenTypes) \/ Commented(old, k)
        BY <1>4, <2>1 DEF Words, Complete
      <3> QED
        BY <1>8, <1>10, <2>1, <3>1
    <2>2. CASE k \in cur .. c - 1
      <3>1. t.at <= k /\ k < t.at + t.len
        BY <2>2
      <3>2. t.type \in TokenTypes
        BY DEF Token
      <3>3. l + 1 \in 1 .. Len(new)
        BY <1>1, <1>2
      <3> QED
        BY <1>2, <3>1, <3>2, <3>3 DEF Covers
    <2> QED
      BY <1>1, <2>1, <2>2
  <1> QED
    BY <1>2, <1>5, <1>6, <1>7, <1>11 DEF Words, new

-----------------------------------------------------------------------------
\* The iterations of tokenize.

\* What an iteration knows: it is at a character of C.
LEMMA AtCharOK ==
  ASSUME ReaderInv, NEW C, AtChar(C)
  PROVE  /\ cur \in 1 .. Len(src) /\ Class(cur) \in C /\ Class(cur) \in Chars
         /\ cur + 1 \in cur .. Len(src) + 1 /\ Len(src) \in Nat /\ cur \in Nat \ {0}
  <1>1. Len(src) \in Nat /\ cur \in 1 .. Len(src) /\ Class(cur) \in C
    BY LenProperties DEF ReaderInv, AtChar
  <1>2. Class(cur) \in Chars
    BY <1>1, Classes
  <1> QED
    BY <1>1, <1>2

LEMMA MovedOn ==
  ASSUME ReaderInv, UNCHANGED <<src, toks>>, cur' \in cur .. Len(src) + 1,
         \A k \in cur .. cur' - 1 : Class(k) \in Wordy => Commented(toks.items, k)
  PROVE  ReaderInv'
  <1>1. Words(toks.items, cur')
    BY ReadOnWords
  <1>2. cur' \in 1 .. Len(src) + 1
    BY LenProperties DEF ReaderInv
  <1>3. Words(toks.items, cur)'
    BY <1>1 DEF Words, InOrder, Complete, Longest, Covers, Commented, Class
  <1> QED
    BY <1>2, <1>3 DEF ReaderInv

LEMMA EmitOK ==
  ASSUME ReaderInv, NEW type \in TokenTypes, NEW at \in Nat, NEW n \in Nat,
         NEW c \in cur .. Len(src) + 1, Emit(type, at, n, c),
         at >= cur, at + n <= c,
         type = "TT_INTLIT" => at + n > Len(src) \/ Class(at + n) # "digit",
         type = "TT_IDENT" => at + n > Len(src) \/ Class(at + n) \notin Ident,
         \A k \in cur .. c - 1 : Class(k) \in Wordy => at <= k /\ k < at + n
  PROVE  ReaderInv'
  <1> DEFINE t == MakeToken(type, at, n)
             items == Append(toks.items, t)
  <1>1. t.type = type /\ t.at = at /\ t.len = n
    BY DEF MakeToken
  <1>2. t \in Token /\ cur \in Nat \ {0} /\ Len(src) \in Nat
    <2>1. cur \in Nat \ {0} /\ Len(src) \in Nat
      BY LenProperties DEF ReaderInv
    <2> QED
      BY <2>1 DEF Token, MakeToken
  <1>3. Longest(t)
    BY <1>1 DEF Longest
  <1>4. toks'.items = items /\ toks' = [items |-> toks'.items, capac |-> toks'.capac]
        /\ cur' = c /\ src' = src
    BY DEF Emit, VectorPushBack
  <1> HIDE DEF t
  <1>5. items \in Seq(Token) /\ Words(items, c)
    BY <1>1, <1>2, <1>3, AddedWord
  <1> HIDE DEF items
  <1>6. Words(toks'.items, cur')
    BY <1>4, <1>5
  <1>7. Words(toks.items, cur)'
    BY <1>4, <1>6 DEF Words, InOrder, Complete, Longest, Covers, Commented, Class
  <1> QED
    BY <1>2, <1>4, <1>5, <1>7 DEF ReaderInv

LEMMA SkipOK == ReaderInv /\ Skip => ReaderInv'
  <1> SUFFICES ASSUME ReaderInv, Skip PROVE ReaderInv'
    OBVIOUS
  <1>1. cur' = cur + 1 /\ UNCHANGED <<src, toks>> /\ AtChar(Skippable \cup {"other"})
    BY DEF Skip
  <1>2. /\ Class(cur) \in Skippable \cup {"other"} /\ cur + 1 \in cur .. Len(src) + 1
        /\ cur \in Nat \ {0}
    BY <1>1, AtCharOK
  <1>3. Class(cur) \notin Wordy
    BY <1>2 DEF Skippable, Wordy, Ident
  <1>4. \A k \in cur .. cur' - 1 : k = cur
    BY <1>1, <1>2
  <1> QED
    BY <1>1, <1>2, <1>3, <1>4, MovedOn

LEMMA ParenOK == ReaderInv /\ Paren => ReaderInv'
  <1> SUFFICES ASSUME ReaderInv, Paren PROVE ReaderInv'
    OBVIOUS
  <1> DEFINE type == IF src[cur] = "(" THEN "TT_OPENPAREN" ELSE "TT_CLOSEPAREN"
  <1>1. AtChar({"(", ")"}) /\ Emit(type, cur, 1, cur + 1)
    BY DEF Paren
  <1>2. cur + 1 \in cur .. Len(src) + 1 /\ cur \in Nat \ {0}
    BY <1>1, AtCharOK
  <1>3. type \in TokenTypes /\ type # "TT_INTLIT" /\ type # "TT_IDENT"
    BY DEF TokenTypes
  <1> HIDE DEF type
  <1> QED
    BY <1>1, <1>2, <1>3, EmitOK

LEMMA StringLitOK == ReaderInv /\ StringLit => ReaderInv'
  <1> SUFFICES ASSUME ReaderInv, StringLit PROVE ReaderInv'
    OBVIOUS
  <1> DEFINE close == Find(cur + 1, {"quote"})
  <1>1. AtChar({"quote"})
    BY DEF StringLit
  <1>2. /\ cur + 1 \in cur .. Len(src) + 1 /\ cur \in Nat \ {0} /\ Len(src) \in Nat
        /\ Class(cur) \in {"quote"}
    BY <1>1, AtCharOK
  <1>3. /\ close \in cur + 1 .. Len(src) + 1
        /\ close <= Len(src) => Class(close) \in {"quote"}
    <2>1. cur + 1 \in 1 .. Len(src) + 1
      BY <1>2
    <2> QED
      BY <2>1, FindOK
  <1>4. CASE close > Len(src)
    <2>1. UNCHANGED <<src, cur, toks>>
      BY <1>4 DEF StringLit, RunsOver
    <2> QED
      BY <2>1 DEF ReaderInv, Words, InOrder, Complete, Longest, Covers, Commented, Class
  <1>5. CASE ~(close > Len(src))
    <2>1. Emit("TT_STRLIT", cur + 1, close - cur - 1, close + 1)
      BY <1>5 DEF StringLit
    <2> HIDE DEF close
    <2> DEFINE at == cur + 1
               n == close - cur - 1
               c == close + 1
    <2>2. at \in Nat /\ n \in Nat /\ c \in cur .. Len(src) + 1 /\ at >= cur /\ at + n <= c
      BY <1>2, <1>3, <1>5
    <2>3. "quote" \notin Wordy
      BY DEF Wordy, Ident
    <2>4. \A k \in cur .. c - 1 : Class(k) \in Wordy => at <= k /\ k < at + n
      <3> SUFFICES ASSUME NEW k \in cur .. c - 1, Class(k) \in Wordy PROVE at <= k /\ k < at + n
        OBVIOUS
      <3>1. k # cur /\ k # close
        BY <1>2, <1>3, <1>5, <2>3
      <3> QED
        BY <1>2, <1>3, <3>1
    <2>5. "TT_STRLIT" \in TokenTypes
      BY DEF TokenTypes
    <2>6. Emit("TT_STRLIT", at, n, c)
      BY <2>1
    <2> HIDE DEF at, n, c
    <2> QED
      BY <2>2, <2>4, <2>5, <2>6, EmitOK
  <1> QED
    BY <1>4, <1>5

\* What a comment hides is behind its semicolon, which is in no string.
LEMMA CommentOK == ReaderInv /\ Comment => ReaderInv'
  <1> SUFFICES ASSUME ReaderInv, Comment PROVE ReaderInv'
    OBVIOUS
  <1> DEFINE nl == Find(cur, {"newline"})
  <1>1. AtChar({"semicolon"})
    BY DEF Comment
  <1>2. /\ cur \in 1 .. Len(src) /\ cur \in Nat \ {0} /\ Len(src) \in Nat /\ Class(cur) = "semicolon"
    BY <1>1, AtCharOK
  <1>3. /\ nl \in cur .. Len(src) + 1
        /\ \A j \in cur .. nl - 1 : Class(j) \notin {"newline"}
        /\ nl <= Len(src) => Class(nl) \in {"newline"}
    <2>1. cur \in 1 .. Len(src) + 1
      BY <1>2
    <2> QED
      BY <2>1, FindOK
  <1>4. CASE nl > Len(src)
    <2>1. UNCHANGED <<src, cur, toks>>
      BY <1>4 DEF Comment, RunsOver
    <2> QED
      BY <2>1 DEF ReaderInv, Words, InOrder, Complete, Longest, Covers, Commented, Class
  <1>5. CASE ~(nl > Len(src))
    <2>1. cur' = nl + 1 /\ UNCHANGED <<src, toks>>
      BY <1>5 DEF Comment
    <2> HIDE DEF nl
    <2>2. cur' \in cur .. Len(src) + 1
      BY <1>2, <1>3, <1>5, <2>1
    <2>3. ~Covers(toks.items, cur, {"TT_STRLIT"})
      <3> SUFFICES ASSUME NEW n \in 1 .. Len(toks.items),
                          cur < toks.items[n].at + toks.items[n].len
                   PROVE  FALSE
        BY DEF Covers
      <3>1. toks.items[n] \in Token /\ toks.items[n].at + toks.items[n].len <= cur
        BY DEF ReaderInv, Words
      <3>2. toks.items[n].at \in Nat /\ toks.items[n].len \in Nat
        BY <3>1 DEF Token
      <3> QED
        BY <1>2, <3>1, <3>2
    <2>4. ASSUME NEW k \in cur .. cur' - 1, Class(k) \in Wordy PROVE Commented(toks.items, k)
      <3>1. "newline" \notin Wordy
        BY DEF Wordy, Ident
      <3>2. k # nl
        BY <1>3, <1>5, <2>4, <3>1
      <3>3. k \in cur .. nl - 1 /\ cur \in 1 .. k
        BY <1>2, <1>3, <2>1, <3>2
      <3>4. \A i \in cur .. k : Class(i) # "newline"
        BY <1>2, <1>3, <3>3
      <3> QED
        BY <1>2, <2>3, <3>3, <3>4 DEF Commented
    <2> QED
      BY <2>1, <2>2, <2>4, MovedOn
  <1> QED
    BY <1>4, <1>5

LEMMA IntLitOK == ReaderInv /\ IntLit => ReaderInv'
  <1> SUFFICES ASSUME ReaderInv, IntLit PROVE ReaderInv'
    OBVIOUS
  <1> DEFINE C == Chars \ {"digit"}
             end == Find(cur, C)
             n == end - cur
  <1>1. AtChar({"digit"}) /\ Emit("TT_INTLIT", cur, n, end)
    BY DEF IntLit
  <1>2. cur \in 1 .. Len(src) + 1 /\ cur \in Nat \ {0} /\ Len(src) \in Nat
    BY <1>1, AtCharOK
  <1>3. end \in cur .. Len(src) + 1 /\ (end <= Len(src) => Class(end) \in C)
    <2> HIDE DEF C
    <2> QED
      BY <1>2, FindOK
  <1>4. end <= Len(src) => Class(end) # "digit"
    BY <1>3
  <1> HIDE DEF end
  <1>5. n \in Nat /\ cur + n = end
    BY <1>2, <1>3
  <1> HIDE DEF n
  <1>6. end > Len(src) \/ Class(end) # "digit"
    BY <1>2, <1>3, <1>4
  <1>7. "TT_INTLIT" \in TokenTypes /\ cur \in Nat /\ cur >= cur /\ cur + n <= end
    BY <1>2, <1>3, <1>5 DEF TokenTypes
  <1>8. \A k \in cur .. end - 1 : cur <= k /\ k < cur + n
    BY <1>2, <1>3, <1>5
  <1> QED
    BY <1>1, <1>3, <1>5, <1>6, <1>7, <1>8, EmitOK

LEMMA IdentTokOK == ReaderInv /\ IdentTok => ReaderInv'
  <1> SUFFICES ASSUME ReaderInv, IdentTok PROVE ReaderInv'
    OBVIOUS
  <1> DEFINE C == Chars \ Ident
             end == Find(cur, C)
             n == end - cur
  <1>1. AtChar(Ident \ {"digit"}) /\ Emit("TT_IDENT", cur, n, end)
    BY DEF IdentTok
  <1>2. cur \in 1 .. Len(src) + 1 /\ cur \in Nat \ {0} /\ Len(src) \in Nat
    BY <1>1, AtCharOK
  <1>3. end \in cur .. Len(src) + 1 /\ (end <= Len(src) => Class(end) \in C)
    <2> HIDE DEF C
    <2> QED
      BY <1>2, FindOK
  <1>4. end <= Len(src) => Class(end) \notin Ident
    BY <1>3
  <1> HIDE DEF end
  <1>5. n \in Nat /\ cur + n = end
    BY <1>2, <1>3
  <1> HIDE DEF n
  <1>6. end > Len(src) \/ Class(end) \notin Ident
    BY <1>2, <1>3, <1>4
  <1>7. "TT_IDENT" \in TokenTypes /\ cur \in Nat /\ cur >= cur /\ cur + n <= end
    BY <1>2, <1>3, <1>5 DEF TokenTypes
  <1>8. \A k \in cur .. end - 1 : cur <= k /\ k < cur + n
    BY <1>2, <1>3, <1>5
  <1> QED
    BY <1>1, <1>3, <1>5, <1>6, <1>7, <1>8, EmitOK

\* parseExpr only reads the tokens.
LEMMA TokensKept == ReaderInv /\ UNCHANGED <<src, cur, toks>> => ReaderInv'
  BY DEF ReaderInv, Words, InOrder, Complete, Longest, Covers, Commented, Class

LEMMA ReaderStep == ReaderInv /\ [ReaderNext]_readerVars => ReaderInv'
  <1> SUFFICES ASSUME ReaderInv, [ReaderNext]_readerVars PROVE ReaderInv'
    OBVIOUS
  <1>1. CASE Skip \/ Paren \/ StringLit \/ Comment \/ IntLit \/ IdentTok
    BY <1>1, SkipOK, ParenOK, StringLitOK, CommentOK, IntLitOK, IdentTokOK
  <1>2. CASE TokenizeEnd \/ ParseAtom \/ ParseListStart \/ ParseListEnd \/ ParseHalt \/ ParseEnd
    <2>1. UNCHANGED <<src, cur, toks>>
      BY <1>2 DEF TokenizeEnd, ParseAtom, ParseListStart, ParseListEnd, ParseHalt, ParseEnd
    <2> QED
      BY <2>1, TokensKept
  <1>3. CASE UNCHANGED readerVars
    BY <1>3, TokensKept DEF readerVars
  <1> QED
    BY <1>1, <1>2, <1>3 DEF ReaderNext

\* The inductive invariant of tokenize, on every text: the tokens so far are the
\* words of what is read, and none reaches beyond it.
THEOREM ReaderInvariant == ReaderSpec => []ReaderInv
  <1>1. src \in Seq(DOMAIN ClassOf) /\ ReaderInit => ReaderInv
    <2> SUFFICES ASSUME src \in Seq(DOMAIN ClassOf), ReaderInit PROVE ReaderInv
      OBVIOUS
    <2>1. cur = 1 /\ toks = [items |-> <<>>, capac |-> VecMinSize] /\ toks.items = <<>>
      BY DEF ReaderInit, VectorInit
    <2>2. Words(toks.items, cur)
      BY <2>1 DEF Words, InOrder, Complete
    <2>3. cur \in 1 .. Len(src) + 1 /\ toks.items \in Seq(Token)
      BY <2>1, LenProperties
    <2>4. toks = [items |-> toks.items, capac |-> toks.capac]
      BY <2>1
    <2> QED
      BY <2>2, <2>3, <2>4 DEF ReaderInv
  <1> QED
    BY <1>1, ReaderStep, PTL DEF ReaderSpec

\* tokenize returns the words of the text, for every text and every assignment of
\* characters to classes: in order, without overlap, as long as they can be, and
\* no word outside a comment is missing.
THEOREM TokensAreTheWords == ReaderSpec => []TokensAreWords
  <1>1. ReaderInv => TokensAreWords
    <2> SUFFICES ASSUME ReaderInv PROVE TokensAreWords
      OBVIOUS
    <2>1. /\ toks.items \in Seq(Token) /\ Words(toks.items, cur) /\ Len(toks.items) \in Nat
          /\ DOMAIN toks.items = 1 .. Len(toks.items)
      BY LenProperties DEF ReaderInv
    <2>2. \A k, C : Covers(toks.items, k, C) <=> TokenAt(k, C)
      BY <2>1 DEF Covers, TokenAt
    <2>3. \A k : Commented(toks.items, k) <=> InComment(k)
      BY <2>2 DEF Commented, InComment
    <2>4. \A n \in 2 .. Len(toks.items) :
             toks.items[n].at >= toks.items[n - 1].at + toks.items[n - 1].len
      BY <2>1 DEF Words, InOrder
    <2>5. \A n \in DOMAIN toks.items : Longest(toks.items[n])
      BY <2>1 DEF Words
    <2>6. \A k \in 1 .. cur - 1 :
             Class(k) \in Ident \cup {"(", ")"} => TokenAt(k, TokenTypes) \/ InComment(k)
      BY <2>1, <2>2, <2>3 DEF Words, Complete, Wordy
    <2> QED
      BY <2>4, <2>5, <2>6 DEF TokensAreWords, Longest
  <1> QED
    BY <1>1, ReaderInvariant, PTL
-----------------------------------------------------------------------------
\* The recursive functions of TreeIsTokens.

Nothing == <<>>
AddOpened(es, n, s) == s \o Opened(es[n])
AddList(st, n, s) == s \o (<<Tok("TT_OPENPAREN")>> \o st[n])

LEMMA LeastOf ==
  ASSUME NEW S, S \subseteq Nat, S # {}
  PROVE  Min(S) \in S /\ \A y \in S : Min(S) <= y
  <1>1. PICK x \in S : \A y \in S : ~(<<y, x>> \in OpToRel(<, Nat))
    BY NatLessThanWellFounded, WFMin
  <1>2. \A y \in S : ~(y < x)
    BY <1>1 DEF OpToRel
  <1>3. \A y \in S : x <= y
    BY <1>2
  <1> QED
    BY <1>3 DEF Min

\* What holds for 0 and goes over from k to k + 1, as a set of naturals.
LEMMA AllNats ==
  ASSUME NEW S, 0 \in S, \A k \in Nat : k \in S => k + 1 \in S
  PROVE  Nat \subseteq S
  <1> DEFINE T == Nat \ S
  <1> SUFFICES ASSUME T # {} PROVE FALSE
    OBVIOUS
  <1>1. T \subseteq Nat
    OBVIOUS
  <1> HIDE DEF T
  <1>2. Min(T) \in T /\ \A y \in T : Min(T) <= y
    BY <1>1, LeastOf
  <1> DEFINE m == Min(T)
  <1> HIDE DEF m
  <1>3. m \in T /\ \A y \in T : m <= y
    BY <1>2 DEF m
  <1>4. m \in Nat /\ m \notin S /\ m # 0
    BY <1>3 DEF T
  <1>5. m - 1 \in Nat /\ m - 1 \notin T
    BY <1>1, <1>3, <1>4
  <1>6. m - 1 \in S
    BY <1>5 DEF T
  <1>7. (m - 1) + 1 \in S
    BY <1>5, <1>6
  <1> QED
    BY <1>4, <1>7

\* Openings is well defined.
LEMMA OpeningsDef ==
  ASSUME NEW es
  PROVE  /\ Openings(es)[0] = <<>>
         /\ \A k \in Nat : Openings(es)[k + 1] = AddOpened(es, k + 1, Openings(es)[k])
  <1> DEFINE IsPart(p, n) == p = [k \in 0 .. n |-> IF k = 0 THEN Nothing ELSE AddOpened(es, k, p[k - 1])]
             Part(n) == CHOOSE p : IsPart(p, n)
             S == {n \in Nat : \E p : IsPart(p, n)}
             w == [n \in Nat |-> Part(n)[n]]
             IsAll(f) == f = [k \in Nat |-> IF k = 0 THEN Nothing ELSE AddOpened(es, k, f[k - 1])]
  <1>1. 0 \in S
    <2> DEFINE p == [k \in 0 .. 0 |-> Nothing]
    <2>1. IsPart(p, 0)
      OBVIOUS
    <2> QED
      BY <2>1
  <1>2. ASSUME NEW n \in Nat, n \in S PROVE n + 1 \in S
    <2>1. PICK p : IsPart(p, n)
      BY <1>2
    <2> DEFINE q == [k \in 0 .. n + 1 |-> IF k = n + 1 THEN AddOpened(es, n + 1, p[n]) ELSE p[k]]
    <2>2. q = [k \in 0 .. n + 1 |-> IF k = 0 THEN Nothing ELSE AddOpened(es, k, q[k - 1])]
      <3> SUFFICES ASSUME NEW k \in 0 .. n + 1
                   PROVE  q[k] = IF k = 0 THEN Nothing ELSE AddOpened(es, k, q[k - 1])
        OBVIOUS
      <3>1. CASE k = n + 1
        <4>1. k - 1 = n /\ n \in 0 .. n + 1 /\ n # n + 1 /\ k # 0
          BY <3>1
        <4> QED
          BY <3>1, <4>1
      <3>2. CASE k # n + 1 /\ k = 0
        <4>1. p[0] = Nothing
          BY <2>1
        <4> QED
          BY <3>2, <4>1
      <3>3. CASE k # n + 1 /\ k # 0
        <4>1. k \in 0 .. n /\ k - 1 \in 0 .. n + 1 /\ k - 1 # n + 1
          BY <3>3
        <4>2. p[k] = AddOpened(es, k, p[k - 1])
          BY <2>1, <3>3, <4>1
        <4>3. q[k] = p[k] /\ q[k - 1] = p[k - 1]
          BY <3>3, <4>1
        <4> QED
          BY <3>3, <4>2, <4>3
      <3> QED
        BY <3>1, <3>2, <3>3
    <2> HIDE DEF q
    <2> QED
      BY <2>2
  <1>3. Nat \subseteq S
    <2> HIDE DEF S
    <2> QED
      BY <1>1, <1>2, AllNats
  <1>4. \A n \in Nat : IsPart(Part(n), n)
    BY <1>3
  <1> HIDE DEF Part
  <1>5. /\ \A n \in Nat : Part(n)[0] = Nothing
        /\ \A n \in Nat : \A k \in 1 .. n : Part(n)[k] = AddOpened(es, k, Part(n)[k - 1])
    <2>1. \A n \in Nat : \A k \in 0 .. n : Part(n)[k] = IF k = 0 THEN Nothing ELSE AddOpened(es, k, Part(n)[k - 1])
      BY <1>4
    <2> QED
      BY <2>1
  <1>6. \A k \in Nat : \A n \in Nat : k <= n => Part(n)[k] = Part(k)[k]
    <2> DEFINE T == {k \in Nat : \A m, n \in Nat : k <= n /\ k <= m => Part(n)[k] = Part(m)[k]}
    <2>1. 0 \in T
      BY <1>5
    <2>2. ASSUME NEW k \in Nat, k \in T PROVE k + 1 \in T
      <3> SUFFICES ASSUME NEW m \in Nat, NEW n \in Nat, k + 1 <= n, k + 1 <= m
                   PROVE  Part(n)[k + 1] = Part(m)[k + 1]
        OBVIOUS
      <3>1. Part(n)[k] = Part(m)[k]
        BY <2>2
      <3>2. k + 1 \in 1 .. n /\ k + 1 \in 1 .. m /\ (k + 1) - 1 = k
        OBVIOUS
      <3> QED
        BY <1>5, <3>1, <3>2
    <2>3. Nat \subseteq T
      <3> HIDE DEF T
      <3> QED
        BY <2>1, <2>2, AllNats
    <2> QED
      BY <2>3
  <1>7. IsAll(w)
    <2> SUFFICES ASSUME NEW k \in Nat PROVE w[k] = IF k = 0 THEN Nothing ELSE AddOpened(es, k, w[k - 1])
      OBVIOUS
    <2>1. CASE k = 0
      BY <1>5, <2>1
    <2>2. CASE k # 0
      <3>1. k \in 1 .. k /\ k - 1 \in Nat /\ k - 1 <= k
        BY <2>2
      <3>2. Part(k)[k] = AddOpened(es, k, Part(k)[k - 1]) /\ Part(k)[k - 1] = Part(k - 1)[k - 1]
        BY <1>5, <1>6, <3>1
      <3> QED
        BY <2>2, <3>1, <3>2
    <2> QED
      BY <2>1, <2>2
  <1> HIDE DEF w
  <1>8. IsAll(Openings(es))
    BY <1>7 DEF Openings, AddOpened, Nothing
  <1> DEFINE f == Openings(es)
  <1> HIDE DEF f
  <1>9. f = [k \in Nat |-> IF k = 0 THEN Nothing ELSE AddOpened(es, k, f[k - 1])]
    BY <1>8 DEF f
  <1>10. f[0] = Nothing
    BY <1>9
  <1>11. ASSUME NEW k \in Nat PROVE f[k + 1] = AddOpened(es, k + 1, f[k])
    <2>1. k + 1 \in Nat /\ k + 1 # 0 /\ (k + 1) - 1 = k
      OBVIOUS
    <2> QED
      BY <1>9, <2>1
  <1> QED
    BY <1>10, <1>11 DEF f, Nothing

\* So is Layers.
LEMMA LayersDef ==
  ASSUME NEW es
  PROVE  /\ Layers(es)[0] = es
         /\ \A k \in Nat : Layers(es)[k + 1] = OpenAll(Layers(es)[k])
  <1> DEFINE IsPart(p, n) == p = [k \in 0 .. n |-> IF k = 0 THEN es ELSE OpenAll(p[k - 1])]
             Part(n) == CHOOSE p : IsPart(p, n)
             S == {n \in Nat : \E p : IsPart(p, n)}
             w == [n \in Nat |-> Part(n)[n]]
             IsAll(f) == f = [k \in Nat |-> IF k = 0 THEN es ELSE OpenAll(f[k - 1])]
  <1>1. 0 \in S
    <2> DEFINE p == [k \in 0 .. 0 |-> es]
    <2>1. IsPart(p, 0)
      OBVIOUS
    <2> QED
      BY <2>1
  <1>2. ASSUME NEW n \in Nat, n \in S PROVE n + 1 \in S
    <2>1. PICK p : IsPart(p, n)
      BY <1>2
    <2> DEFINE q == [k \in 0 .. n + 1 |-> IF k = n + 1 THEN OpenAll(p[n]) ELSE p[k]]
    <2>2. q = [k \in 0 .. n + 1 |-> IF k = 0 THEN es ELSE OpenAll(q[k - 1])]
      <3> SUFFICES ASSUME NEW k \in 0 .. n + 1
                   PROVE  q[k] = IF k = 0 THEN es ELSE OpenAll(q[k - 1])
        OBVIOUS
      <3>1. CASE k = n + 1
        <4>1. k - 1 = n /\ n \in 0 .. n + 1 /\ n # n + 1 /\ k # 0
          BY <3>1
        <4> QED
          BY <3>1, <4>1
      <3>2. CASE k # n + 1 /\ k = 0
        <4>1. p[0] = es
          BY <2>1
        <4> QED
          BY <3>2, <4>1
      <3>3. CASE k # n + 1 /\ k # 0
        <4>1. k \in 0 .. n /\ k - 1 \in 0 .. n + 1 /\ k - 1 # n + 1
          BY <3>3
        <4>2. p[k] = OpenAll(p[k - 1])
          BY <2>1, <3>3, <4>1
        <4>3. q[k] = p[k] /\ q[k - 1] = p[k - 1]
          BY <3>3, <4>1
        <4> QED
          BY <3>3, <4>2, <4>3
      <3> QED
        BY <3>1, <3>2, <3>3
    <2> HIDE DEF q
    <2> QED
      BY <2>2
  <1>3. Nat \subseteq S
    <2> HIDE DEF S
    <2> QED
      BY <1>1, <1>2, AllNats
  <1>4. \A n \in Nat : IsPart(Part(n), n)
    BY <1>3
  <1> HIDE DEF Part
  <1>5. /\ \A n \in Nat : Part(n)[0] = es
        /\ \A n \in Nat : \A k \in 1 .. n : Part(n)[k] = OpenAll(Part(n)[k - 1])
    <2>1. \A n \in Nat : \A k \in 0 .. n : Part(n)[k] = IF k = 0 THEN es ELSE OpenAll(Part(n)[k - 1])
      BY <1>4
    <2> QED
      BY <2>1
  <1>6. \A k \in Nat : \A n \in Nat : k <= n => Part(n)[k] = Part(k)[k]
    <2> DEFINE T == {k \in Nat : \A m, n \in Nat : k <= n /\ k <= m => Part(n)[k] = Part(m)[k]}
    <2>1. 0 \in T
      BY <1>5
    <2>2. ASSUME NEW k \in Nat, k \in T PROVE k + 1 \in T
      <3> SUFFICES ASSUME NEW m \in Nat, NEW n \in Nat, k + 1 <= n, k + 1 <= m
                   PROVE  Part(n)[k + 1] = Part(m)[k + 1]
        OBVIOUS
      <3>1. Part(n)[k] = Part(m)[k]
        BY <2>2
      <3>2. k + 1 \in 1 .. n /\ k + 1 \in 1 .. m /\ (k + 1) - 1 = k
        OBVIOUS
      <3> QED
        BY <1>5, <3>1, <3>2
    <2>3. Nat \subseteq T
      <3> HIDE DEF T
      <3> QED
        BY <2>1, <2>2, AllNats
    <2> QED
      BY <2>3
  <1>7. IsAll(w)
    <2> SUFFICES ASSUME NEW k \in Nat PROVE w[k] = IF k = 0 THEN es ELSE OpenAll(w[k - 1])
      OBVIOUS
    <2>1. CASE k = 0
      BY <1>5, <2>1
    <2>2. CASE k # 0
      <3>1. k \in 1 .. k /\ k - 1 \in Nat /\ k - 1 <= k
        BY <2>2
      <3>2. Part(k)[k] = OpenAll(Part(k)[k - 1]) /\ Part(k)[k - 1] = Part(k - 1)[k - 1]
        BY <1>5, <1>6, <3>1
      <3> QED
        BY <2>2, <3>1, <3>2
    <2> QED
      BY <2>1, <2>2
  <1> HIDE DEF w
  <1>8. IsAll(Layers(es))
    BY <1>7 DEF Layers
  <1> DEFINE f == Layers(es)
  <1> HIDE DEF f
  <1>9. f = [k \in Nat |-> IF k = 0 THEN es ELSE OpenAll(f[k - 1])]
    BY <1>8 DEF f
  <1>10. f[0] = es
    BY <1>9
  <1>11. ASSUME NEW k \in Nat PROVE f[k + 1] = OpenAll(f[k])
    <2>1. k + 1 \in Nat /\ k + 1 # 0 /\ (k + 1) - 1 = k
      OBVIOUS
    <2> QED
      BY <1>9, <2>1
  <1> QED
    BY <1>10, <1>11 DEF f

\* And Joined.
LEMMA JoinedDef ==
  ASSUME NEW p0, NEW st
  PROVE  /\ Joined(p0, st)[0] = p0
         /\ \A k \in Nat : Joined(p0, st)[k + 1] = AddList(st, k + 1, Joined(p0, st)[k])
  <1> DEFINE IsPart(p, n) == p = [k \in 0 .. n |-> IF k = 0 THEN p0 ELSE AddList(st, k, p[k - 1])]
             Part(n) == CHOOSE p : IsPart(p, n)
             S == {n \in Nat : \E p : IsPart(p, n)}
             w == [n \in Nat |-> Part(n)[n]]
             IsAll(f) == f = [k \in Nat |-> IF k = 0 THEN p0 ELSE AddList(st, k, f[k - 1])]
  <1>1. 0 \in S
    <2> DEFINE p == [k \in 0 .. 0 |-> p0]
    <2>1. IsPart(p, 0)
      OBVIOUS
    <2> QED
      BY <2>1
  <1>2. ASSUME NEW n \in Nat, n \in S PROVE n + 1 \in S
    <2>1. PICK p : IsPart(p, n)
      BY <1>2
    <2> DEFINE q == [k \in 0 .. n + 1 |-> IF k = n + 1 THEN AddList(st, n + 1, p[n]) ELSE p[k]]
    <2>2. q = [k \in 0 .. n + 1 |-> IF k = 0 THEN p0 ELSE AddList(st, k, q[k - 1])]
      <3> SUFFICES ASSUME NEW k \in 0 .. n + 1
                   PROVE  q[k] = IF k = 0 THEN p0 ELSE AddList(st, k, q[k - 1])
        OBVIOUS
      <3>1. CASE k = n + 1
        <4>1. k - 1 = n /\ n \in 0 .. n + 1 /\ n # n + 1 /\ k # 0
          BY <3>1
        <4> QED
          BY <3>1, <4>1
      <3>2. CASE k # n + 1 /\ k = 0
        <4>1. p[0] = p0
          BY <2>1
        <4> QED
          BY <3>2, <4>1
      <3>3. CASE k # n + 1 /\ k # 0
        <4>1. k \in 0 .. n /\ k - 1 \in 0 .. n + 1 /\ k - 1 # n + 1
          BY <3>3
        <4>2. p[k] = AddList(st, k, p[k - 1])
          BY <2>1, <3>3, <4>1
        <4>3. q[k] = p[k] /\ q[k - 1] = p[k - 1]
          BY <3>3, <4>1
        <4> QED
          BY <3>3, <4>2, <4>3
      <3> QED
        BY <3>1, <3>2, <3>3
    <2> HIDE DEF q
    <2> QED
      BY <2>2
  <1>3. Nat \subseteq S
    <2> HIDE DEF S
    <2> QED
      BY <1>1, <1>2, AllNats
  <1>4. \A n \in Nat : IsPart(Part(n), n)
    BY <1>3
  <1> HIDE DEF Part
  <1>5. /\ \A n \in Nat : Part(n)[0] = p0
        /\ \A n \in Nat : \A k \in 1 .. n : Part(n)[k] = AddList(st, k, Part(n)[k - 1])
    <2>1. \A n \in Nat : \A k \in 0 .. n : Part(n)[k] = IF k = 0 THEN p0 ELSE AddList(st, k, Part(n)[k - 1])
      BY <1>4
    <2> QED
      BY <2>1
  <1>6. \A k \in Nat : \A n \in Nat : k <= n => Part(n)[k] = Part(k)[k]
    <2> DEFINE T == {k \in Nat : \A m, n \in Nat : k <= n /\ k <= m => Part(n)[k] = Part(m)[k]}
    <2>1. 0 \in T
      BY <1>5
    <2>2. ASSUME NEW k \in Nat, k \in T PROVE k + 1 \in T
      <3> SUFFICES ASSUME NEW m \in Nat, NEW n \in Nat, k + 1 <= n, k + 1 <= m
                   PROVE  Part(n)[k + 1] = Part(m)[k + 1]
        OBVIOUS
      <3>1. Part(n)[k] = Part(m)[k]
        BY <2>2
      <3>2. k + 1 \in 1 .. n /\ k + 1 \in 1 .. m /\ (k + 1) - 1 = k
        OBVIOUS
      <3> QED
        BY <1>5, <3>1, <3>2
    <2>3. Nat \subseteq T
      <3> HIDE DEF T
      <3> QED
        BY <2>1, <2>2, AllNats
    <2> QED
      BY <2>3
  <1>7. IsAll(w)
    <2> SUFFICES ASSUME NEW k \in Nat PROVE w[k] = IF k = 0 THEN p0 ELSE AddList(st, k, w[k - 1])
      OBVIOUS
    <2>1. CASE k = 0
      BY <1>5, <2>1
    <2>2. CASE k # 0
      <3>1. k \in 1 .. k /\ k - 1 \in Nat /\ k - 1 <= k
        BY <2>2
      <3>2. Part(k)[k] = AddList(st, k, Part(k)[k - 1]) /\ Part(k)[k - 1] = Part(k - 1)[k - 1]
        BY <1>5, <1>6, <3>1
      <3> QED
        BY <2>2, <3>1, <3>2
    <2> QED
      BY <2>1, <2>2
  <1> HIDE DEF w
  <1>8. IsAll(Joined(p0, st))
    BY <1>7 DEF Joined, AddList
  <1> DEFINE f == Joined(p0, st)
  <1> HIDE DEF f
  <1>9. f = [k \in Nat |-> IF k = 0 THEN p0 ELSE AddList(st, k, f[k - 1])]
    BY <1>8 DEF f
  <1>10. f[0] = p0
    BY <1>9
  <1>11. ASSUME NEW k \in Nat PROVE f[k + 1] = AddList(st, k + 1, f[k])
    <2>1. k + 1 \in Nat /\ k + 1 # 0 /\ (k + 1) - 1 = k
      OBVIOUS
    <2> QED
      BY <1>9, <2>1
  <1> QED
    BY <1>10, <1>11 DEF f

-----------------------------------------------------------------------------
\* Sequences of whatever elements.

IsSeq(s) == \E S : s \in Seq(S)

LEMMA IsSeqConcat ==
  ASSUME NEW s, NEW t, IsSeq(s), IsSeq(t)
  PROVE  /\ IsSeq(s \o t)
         /\ Len(s) \in Nat /\ Len(t) \in Nat
         /\ Len(s \o t) = Len(s) + Len(t)
         /\ \A i \in 1 .. Len(s) : (s \o t)[i] = s[i]
         /\ \A i \in 1 .. Len(t) : (s \o t)[Len(s) + i] = t[i]
  <1>1. PICK S : s \in Seq(S)
    BY DEF IsSeq
  <1>2. PICK T : t \in Seq(T)
    BY DEF IsSeq
  <1> DEFINE U == S \cup T
  <1>3. s \in Seq(U) /\ t \in Seq(U)
    BY <1>1, <1>2
  <1> HIDE DEF U
  <1>4. s \o t \in Seq(U)
    BY <1>3
  <1>5. IsSeq(s \o t)
    BY <1>4 DEF IsSeq
  <1> QED
    BY <1>3, <1>5

\* Two sequences that agree everywhere.
LEMMA SameSeq ==
  ASSUME NEW s, NEW t, IsSeq(s), IsSeq(t), Len(s) = Len(t),
         \A i \in 1 .. Len(s) : s[i] = t[i]
  PROVE  s = t
  <1>1. PICK S : s \in Seq(S)
    BY DEF IsSeq
  <1>2. PICK T : t \in Seq(T)
    BY DEF IsSeq
  <1> DEFINE U == S \cup T
  <1>3. s \in Seq(U) /\ t \in Seq(U)
    BY <1>1, <1>2
  <1> HIDE DEF U
  <1> QED
    BY <1>3, SeqEqual

LEMMA ConcatAssoc ==
  ASSUME NEW s, NEW t, NEW u, IsSeq(s), IsSeq(t), IsSeq(u)
  PROVE  (s \o t) \o u = s \o (t \o u)
  <1>1. PICK S : s \in Seq(S)
    BY DEF IsSeq
  <1>2. PICK T : t \in Seq(T)
    BY DEF IsSeq
  <1>3. PICK R : u \in Seq(R)
    BY DEF IsSeq
  <1> DEFINE U == S \cup T \cup R
  <1>4. s \in Seq(U) /\ t \in Seq(U) /\ u \in Seq(U)
    BY <1>1, <1>2, <1>3
  <1> HIDE DEF U
  <1> QED
    BY <1>4, ConcatAssociative

LEMMA IsSeqEmpty ==
  /\ IsSeq(<<>>) /\ Len(<<>>) = 0
  /\ \A s : IsSeq(s) => s \o <<>> = s /\ <<>> \o s = s
  <1>1. <<>> \in Seq({})
    OBVIOUS
  <1>2. ASSUME NEW s, IsSeq(s) PROVE s \o <<>> = s /\ <<>> \o s = s
    <2>1. PICK S : s \in Seq(S)
      BY <1>2 DEF IsSeq
    <2> QED
      BY <2>1, ConcatEmptySeq
  <1> QED
    BY <1>1, <1>2 DEF IsSeq

LEMMA IsSeqOne ==
  ASSUME NEW e
  PROVE  IsSeq(<<e>>) /\ Len(<<e>>) = 1 /\ <<e>>[1] = e
  <1>1. <<e>> \in Seq({e})
    OBVIOUS
  <1> QED
    BY <1>1 DEF IsSeq

LEMMA AppendOne ==
  ASSUME NEW s, NEW e, IsSeq(s)
  PROVE  Append(s, e) = s \o <<e>>
  <1>1. PICK S : s \in Seq(S)
    BY DEF IsSeq
  <1> DEFINE U == S \cup {e}
  <1>2. s \in Seq(U) /\ e \in U
    BY <1>1
  <1> HIDE DEF U
  <1> QED
    BY <1>2, AppendIsConcat

-----------------------------------------------------------------------------
\* Opening a sequence of expressions.

\* Every list among the expressions holds a sequence.
Openable(s) == IsSeq(s) /\ \A i \in 1 .. Len(s) : IsSeq(Opened(s[i]))

LEMMA OpeningsNext ==
  ASSUME NEW s
  PROVE  /\ Openings(s)[0] = <<>>
         /\ \A k \in Nat : Openings(s)[k + 1] = Openings(s)[k] \o Opened(s[k + 1])
  BY OpeningsDef DEF AddOpened

LEMMA OpeningsSeq ==
  ASSUME NEW s, Openable(s)
  PROVE  \A k \in 0 .. Len(s) : IsSeq(Openings(s)[k])
  <1> DEFINE T == {k \in Nat : k <= Len(s) => IsSeq(Openings(s)[k])}
  <1>0. Len(s) \in Nat
    BY IsSeqConcat DEF Openable
  <1>1. 0 \in T
    BY OpeningsNext, IsSeqEmpty
  <1>2. ASSUME NEW k \in Nat, k \in T PROVE k + 1 \in T
    <2> SUFFICES ASSUME k + 1 <= Len(s) PROVE IsSeq(Openings(s)[k + 1])
      OBVIOUS
    <2>1. IsSeq(Openings(s)[k])
      BY <1>0, <1>2
    <2>2. IsSeq(Opened(s[k + 1]))
      BY <1>0 DEF Openable
    <2>3. IsSeq(Openings(s)[k] \o Opened(s[k + 1]))
      BY <2>1, <2>2, IsSeqConcat
    <2> QED
      BY <2>3, OpeningsNext
  <1>3. Nat \subseteq T
    <2> HIDE DEF T
    <2> QED
      BY <1>1, <1>2, AllNats
  <1> QED
    BY <1>0, <1>3

\* What is opened of s does not depend on what follows it.
LEMMA OpeningsLeft ==
  ASSUME NEW s, NEW t, IsSeq(s), IsSeq(t)
  PROVE  \A k \in 0 .. Len(s) : Openings(s \o t)[k] = Openings(s)[k]
  <1> DEFINE T == {k \in Nat : k <= Len(s) => Openings(s \o t)[k] = Openings(s)[k]}
  <1>0. Len(s) \in Nat
    BY IsSeqConcat
  <1>1. 0 \in T
    BY OpeningsNext
  <1>2. ASSUME NEW k \in Nat, k \in T PROVE k + 1 \in T
    <2> SUFFICES ASSUME k + 1 <= Len(s) PROVE Openings(s \o t)[k + 1] = Openings(s)[k + 1]
      OBVIOUS
    <2>1. Openings(s \o t)[k] = Openings(s)[k]
      BY <1>0, <1>2
    <2>2. (s \o t)[k + 1] = s[k + 1]
      BY <1>0, IsSeqConcat
    <2>3. /\ Openings(s \o t)[k + 1] = Openings(s \o t)[k] \o Opened((s \o t)[k + 1])
          /\ Openings(s)[k + 1] = Openings(s)[k] \o Opened(s[k + 1])
      BY OpeningsNext
    <2> QED
      BY <2>1, <2>2, <2>3
  <1>3. Nat \subseteq T
    <2> HIDE DEF T
    <2> QED
      BY <1>1, <1>2, AllNats
  <1> QED
    BY <1>0, <1>3

LEMMA OpeningsRight ==
  ASSUME NEW s, NEW t, Openable(s), Openable(t)
  PROVE  \A k \in 0 .. Len(t) : Openings(s \o t)[Len(s) + k] = OpenAll(s) \o Openings(t)[k]
  <1> DEFINE T == {k \in Nat : k <= Len(t) =>
                      Openings(s \o t)[Len(s) + k] = OpenAll(s) \o Openings(t)[k]}
  <1>0. IsSeq(s) /\ IsSeq(t) /\ Len(s) \in Nat /\ Len(t) \in Nat
    BY IsSeqConcat DEF Openable
  <1>s. IsSeq(OpenAll(s))
    BY <1>0, OpeningsSeq DEF OpenAll
  <1>1. 0 \in T
    <2>1. Openings(s \o t)[Len(s)] = OpenAll(s)
      BY <1>0, OpeningsLeft DEF OpenAll
    <2>2. OpenAll(s) \o <<>> = OpenAll(s)
      BY <1>s, IsSeqEmpty
    <2>3. Openings(t)[0] = <<>>
      BY OpeningsNext
    <2>4. Len(s) + 0 = Len(s)
      BY <1>0
    <2>5. Openings(s \o t)[Len(s) + 0] = OpenAll(s) \o Openings(t)[0]
      BY <2>1, <2>2, <2>3, <2>4
    <2> QED
      BY <2>5
  <1>2. ASSUME NEW k \in Nat, k \in T PROVE k + 1 \in T
    <2> SUFFICES ASSUME k + 1 <= Len(t)
                 PROVE  Openings(s \o t)[Len(s) + (k + 1)] = OpenAll(s) \o Openings(t)[k + 1]
      OBVIOUS
    <2>1. Openings(s \o t)[Len(s) + k] = OpenAll(s) \o Openings(t)[k]
      BY <1>0, <1>2
    <2>2. (s \o t)[Len(s) + (k + 1)] = t[k + 1]
      BY <1>0, IsSeqConcat
    <2> DEFINE m == Len(s) + k
    <2>3. m \in Nat /\ m + 1 = Len(s) + (k + 1)
      BY <1>0
    <2> HIDE DEF m
    <2>4. /\ Openings(s \o t)[m + 1] = Openings(s \o t)[m] \o Opened((s \o t)[m + 1])
          /\ Openings(t)[k + 1] = Openings(t)[k] \o Opened(t[k + 1])
      BY <2>3, OpeningsNext
    <2>5. Openings(s \o t)[Len(s) + (k + 1)] = (OpenAll(s) \o Openings(t)[k]) \o Opened(t[k + 1])
      BY <2>1, <2>2, <2>3, <2>4 DEF m
    <2>6. IsSeq(Openings(t)[k]) /\ IsSeq(Opened(t[k + 1]))
      BY <1>0, OpeningsSeq DEF Openable
    <2>7. (OpenAll(s) \o Openings(t)[k]) \o Opened(t[k + 1])
              = OpenAll(s) \o (Openings(t)[k] \o Opened(t[k + 1]))
      <3> DEFINE a == OpenAll(s)
                 b == Openings(t)[k]
                 c == Opened(t[k + 1])
      <3>1. IsSeq(a) /\ IsSeq(b) /\ IsSeq(c)
        BY <1>s, <2>6
      <3> HIDE DEF a, b, c
      <3>2. (a \o b) \o c = a \o (b \o c)
        BY <3>1, ConcatAssoc
      <3> QED
        BY <3>2 DEF a, b, c
    <2> QED
      BY <2>4, <2>5, <2>7
  <1>3. Nat \subseteq T
    <2> HIDE DEF T
    <2> QED
      BY <1>1, <1>2, AllNats
  <1> QED
    BY <1>0, <1>3

LEMMA OpenAllConcat ==
  ASSUME NEW s, NEW t, Openable(s), Openable(t)
  PROVE  /\ Openable(s \o t)
         /\ OpenAll(s \o t) = OpenAll(s) \o OpenAll(t)
         /\ IsSeq(OpenAll(s))
  <1>0. IsSeq(s) /\ IsSeq(t) /\ Len(s) \in Nat /\ Len(t) \in Nat /\ Len(s \o t) = Len(s) + Len(t)
    BY IsSeqConcat DEF Openable
  <1>1. Openings(s \o t)[Len(s) + Len(t)] = OpenAll(s) \o Openings(t)[Len(t)]
    <2>1. Len(t) \in 0 .. Len(t)
      BY <1>0
    <2> QED
      BY <2>1, OpeningsRight
  <1>2. IsSeq(OpenAll(s))
    BY <1>0, OpeningsSeq DEF OpenAll
  <1>3. ASSUME NEW i \in 1 .. Len(s) + Len(t) PROVE IsSeq(Opened((s \o t)[i]))
    <2>1. CASE i <= Len(s)
      <3>1. (s \o t)[i] = s[i]
        BY <1>0, <2>1, IsSeqConcat
      <3> QED
        BY <1>0, <2>1, <3>1 DEF Openable
    <2>2. CASE i > Len(s)
      <3> DEFINE j == i - Len(s)
      <3>1. j \in 1 .. Len(t) /\ i = Len(s) + j
        BY <1>0, <2>2
      <3> HIDE DEF j
      <3>2. (s \o t)[i] = t[j]
        BY <1>0, <3>1, IsSeqConcat
      <3> QED
        BY <3>1, <3>2 DEF Openable
    <2> QED
      BY <1>0, <2>1, <2>2
  <1>4. Openable(s \o t)
    BY <1>0, <1>3, IsSeqConcat DEF Openable
  <1> QED
    BY <1>0, <1>1, <1>2, <1>4 DEF OpenAll

LEMMA OpenAllOne ==
  ASSUME NEW e, IsSeq(Opened(e))
  PROVE  OpenAll(<<e>>) = Opened(e) /\ Openable(<<e>>)
  <1> DEFINE s == <<e>>
  <1>1. Len(s) = 1 /\ s[1] = e /\ IsSeq(s)
    BY IsSeqOne
  <1> HIDE DEF s
  <1>2. Openings(s)[0 + 1] = Openings(s)[0] \o Opened(s[0 + 1])
    BY OpeningsNext
  <1>3. Openings(s)[0] = <<>>
    BY OpeningsNext
  <1>4. <<>> \o Opened(e) = Opened(e)
    BY IsSeqEmpty
  <1>5. 0 + 1 = 1
    OBVIOUS
  <1>6. Openings(s)[1] = Openings(s)[0] \o Opened(s[1])
    BY <1>2, <1>5
  <1>7. Openings(s)[1] = Opened(e)
    BY <1>1, <1>3, <1>4, <1>6
  <1>8. OpenAll(s) = Opened(e) /\ Openable(s)
    BY <1>1, <1>7 DEF OpenAll, Openable
  <1> QED
    BY <1>8 DEF s

\* Every layer of the expressions can be opened.
Good(s) == \A n \in Nat : Openable(Layers(s)[n])

LEMMA LayersNext ==
  ASSUME NEW s
  PROVE  /\ Layers(s)[0] = s
         /\ \A n \in Nat : Layers(s)[n + 1] = OpenAll(Layers(s)[n])
  BY LayersDef

\* The outermost layer can be opened first.
LEMMA LayersShift ==
  ASSUME NEW s
  PROVE  \A n \in Nat : Layers(s)[n + 1] = Layers(OpenAll(s))[n]
  <1> DEFINE T == {n \in Nat : Layers(s)[n + 1] = Layers(OpenAll(s))[n]}
  <1>1. 0 \in T
    <2>1. Layers(s)[0 + 1] = OpenAll(Layers(s)[0])
      BY LayersNext
    <2>2. Layers(s)[0] = s /\ Layers(OpenAll(s))[0] = OpenAll(s)
      BY LayersNext
    <2>3. Layers(s)[0 + 1] = Layers(OpenAll(s))[0]
      BY <2>1, <2>2
    <2> QED
      BY <2>3
  <1>2. ASSUME NEW n \in Nat, n \in T PROVE n + 1 \in T
    <2>1. Layers(s)[n + 1] = Layers(OpenAll(s))[n]
      BY <1>2
    <2>2. n + 1 \in Nat
      OBVIOUS
    <2>3. Layers(s)[(n + 1) + 1] = OpenAll(Layers(s)[n + 1])
      BY <2>2, LayersNext
    <2>4. Layers(OpenAll(s))[n + 1] = OpenAll(Layers(OpenAll(s))[n])
      BY LayersNext
    <2>5. Layers(s)[(n + 1) + 1] = Layers(OpenAll(s))[n + 1]
      BY <2>1, <2>3, <2>4
    <2> QED
      BY <2>2, <2>5
  <1>3. Nat \subseteq T
    <2> HIDE DEF T
    <2> QED
      BY <1>1, <1>2, AllNats
  <1> QED
    BY <1>3

LEMMA LayersConcat ==
  ASSUME NEW s, NEW t, Good(s), Good(t)
  PROVE  /\ \A n \in Nat : Layers(s \o t)[n] = Layers(s)[n] \o Layers(t)[n]
         /\ Good(s \o t)
  <1> DEFINE T == {n \in Nat : Layers(s \o t)[n] = Layers(s)[n] \o Layers(t)[n]}
  <1>1. 0 \in T
    <2>1. Layers(s \o t)[0] = s \o t /\ Layers(s)[0] = s /\ Layers(t)[0] = t
      BY LayersNext
    <2>2. Layers(s \o t)[0] = Layers(s)[0] \o Layers(t)[0]
      BY <2>1
    <2> QED
      BY <2>2
  <1>2. ASSUME NEW n \in Nat, n \in T PROVE n + 1 \in T
    <2> DEFINE a == Layers(s)[n]
               b == Layers(t)[n]
    <2>1. Openable(a) /\ Openable(b)
      BY DEF Good
    <2>2. Layers(s \o t)[n + 1] = OpenAll(Layers(s \o t)[n])
      BY LayersNext
    <2>3. Layers(s)[n + 1] = OpenAll(a) /\ Layers(t)[n + 1] = OpenAll(b)
      BY LayersNext
    <2>4. Layers(s \o t)[n] = a \o b
      BY <1>2
    <2> HIDE DEF a, b
    <2>5. OpenAll(a \o b) = OpenAll(a) \o OpenAll(b)
      BY <2>1, OpenAllConcat
    <2>6. Layers(s \o t)[n + 1] = Layers(s)[n + 1] \o Layers(t)[n + 1]
      BY <2>2, <2>3, <2>4, <2>5
    <2>7. n + 1 \in Nat
      OBVIOUS
    <2> QED
      BY <2>6, <2>7
  <1>3. Nat \subseteq T
    <2> HIDE DEF T
    <2> QED
      BY <1>1, <1>2, AllNats
  <1>4. \A n \in Nat : Layers(s \o t)[n] = Layers(s)[n] \o Layers(t)[n]
    BY <1>3
  <1>5. ASSUME NEW n \in Nat PROVE Openable(Layers(s \o t)[n])
    <2> DEFINE a == Layers(s)[n]
               b == Layers(t)[n]
    <2>1. Openable(a) /\ Openable(b) /\ Layers(s \o t)[n] = a \o b
      BY <1>4 DEF Good
    <2> HIDE DEF a, b
    <2>2. Openable(a \o b)
      BY <2>1, OpenAllConcat
    <2> QED
      BY <2>1, <2>2
  <1>6. Good(s \o t)
    BY <1>5 DEF Good
  <1> QED
    BY <1>4, <1>6

LEMMA GoodOpened ==
  ASSUME NEW s, Openable(s), Good(OpenAll(s))
  PROVE  Good(s)
  <1>1. ASSUME NEW n \in Nat PROVE Openable(Layers(s)[n])
    <2>1. CASE n = 0
      BY <2>1, LayersNext
    <2>2. CASE n # 0
      <3> DEFINE m == n - 1
      <3>1. m \in Nat /\ n = m + 1
        BY <2>2
      <3> HIDE DEF m
      <3>2. Layers(s)[n] = Layers(OpenAll(s))[m]
        BY <3>1, LayersShift
      <3> QED
        BY <3>1, <3>2 DEF Good
    <2> QED
      BY <2>1, <2>2
  <1> QED
    BY <1>1 DEF Good

-----------------------------------------------------------------------------
\* Tokens stay what they are.

IsTok(x) == \E t \in TokenTypes : x = Tok(t)
AllTok(s) == IsSeq(s) /\ \A i \in 1 .. Len(s) : IsTok(s[i])

LEMMA TokOpened ==
  ASSUME NEW x, IsTok(x)
  PROVE  Opened(x) = <<x>>
  <1>1. x.type \in TokenTypes
    BY DEF IsTok, Tok
  <1>2. x.type \notin {"LIST", "INT", "STRING", "SYMBOL"}
    BY <1>1 DEF TokenTypes
  <1> QED
    BY <1>2 DEF Opened

LEMMA AllTokOpened ==
  ASSUME NEW s, AllTok(s)
  PROVE  Openable(s) /\ OpenAll(s) = s
  <1> DEFINE O(k) == Openings(s)[k]
             T == {k \in Nat : k <= Len(s) =>
                       /\ IsSeq(O(k)) /\ Len(O(k)) = k
                       /\ \A i \in 1 .. k : O(k)[i] = s[i]}
  <1>0. IsSeq(s) /\ Len(s) \in Nat
    BY IsSeqConcat DEF AllTok
  <1>1. 0 \in T
    <2>1. O(0) = <<>>
      BY OpeningsNext
    <2>2. IsSeq(O(0)) /\ Len(O(0)) = 0
      BY <2>1, IsSeqEmpty
    <2> HIDE DEF O
    <2> QED
      BY <2>2
  <1>2. ASSUME NEW k \in Nat, k \in T PROVE k + 1 \in T
    <2> SUFFICES ASSUME k + 1 <= Len(s)
                 PROVE  /\ IsSeq(O(k + 1)) /\ Len(O(k + 1)) = k + 1
                        /\ \A i \in 1 .. k + 1 : O(k + 1)[i] = s[i]
      OBVIOUS
    <2> DEFINE e == s[k + 1]
    <2>1. IsTok(e)
      BY <1>0 DEF AllTok
    <2>2. Opened(e) = <<e>>
      BY <2>1, TokOpened
    <2>3. O(k + 1) = O(k) \o Opened(e)
      BY OpeningsNext
    <2>4. IsSeq(O(k)) /\ Len(O(k)) = k /\ \A i \in 1 .. k : O(k)[i] = s[i]
      BY <1>0, <1>2
    <2> HIDE DEF O, e
    <2> DEFINE z == <<e>>
    <2>5. IsSeq(z) /\ Len(z) = 1 /\ z[1] = e
      BY IsSeqOne
    <2>6. O(k + 1) = O(k) \o z
      BY <2>2, <2>3
    <2> HIDE DEF z
    <2>7. /\ IsSeq(O(k) \o z) /\ Len(O(k) \o z) = k + 1
          /\ \A i \in 1 .. k : (O(k) \o z)[i] = O(k)[i]
          /\ (O(k) \o z)[k + 1] = e
      <3> DEFINE o == O(k)
      <3>1. IsSeq(o) /\ Len(o) = k
        BY <2>4
      <3> HIDE DEF o
      <3>2. /\ IsSeq(o \o z) /\ Len(o \o z) = Len(o) + Len(z)
            /\ \A i \in 1 .. Len(o) : (o \o z)[i] = o[i]
            /\ \A i \in 1 .. Len(z) : (o \o z)[Len(o) + i] = z[i]
        <4>1. IsSeq(o) /\ IsSeq(z)
          BY <2>5, <3>1
        <4> QED
          BY <4>1, IsSeqConcat
      <3>3. (o \o z)[k + 1] = e
        BY <2>5, <3>1, <3>2
      <3>4. IsSeq(o \o z) /\ Len(o \o z) = k + 1 /\ \A i \in 1 .. k : (o \o z)[i] = o[i]
        BY <2>5, <3>1, <3>2
      <3> QED
        BY <3>3, <3>4 DEF o
    <2>8. ASSUME NEW i \in 1 .. k + 1 PROVE (O(k) \o z)[i] = s[i]
      <3>1. CASE i = k + 1
        BY <2>7, <3>1 DEF e
      <3>2. CASE i # k + 1
        <4>1. i \in 1 .. k
          BY <3>2
        <4> QED
          BY <2>4, <2>7, <4>1
      <3> QED
        BY <3>1, <3>2
    <2> QED
      BY <2>6, <2>7, <2>8
  <1>3. Nat \subseteq T
    <2> HIDE DEF T
    <2> QED
      BY <1>1, <1>2, AllNats
  <1>4. /\ IsSeq(O(Len(s))) /\ Len(O(Len(s))) = Len(s)
        /\ \A i \in 1 .. Len(s) : O(Len(s))[i] = s[i]
    <2> HIDE DEF O
    <2> QED
      BY <1>0, <1>3
  <1>5. O(Len(s)) = s
    <2> DEFINE o == O(Len(s))
    <2>1. IsSeq(o) /\ Len(o) = Len(s) /\ \A i \in 1 .. Len(o) : o[i] = s[i]
      BY <1>4
    <2> HIDE DEF o
    <2>2. o = s
      BY <1>0, <2>1, SameSeq
    <2> QED
      BY <2>2 DEF o
  <1>6. ASSUME NEW i \in 1 .. Len(s) PROVE IsSeq(Opened(s[i]))
    <2>1. Opened(s[i]) = <<s[i]>>
      BY TokOpened DEF AllTok
    <2> QED
      BY <2>1, IsSeqOne
  <1> QED
    BY <1>0, <1>5, <1>6 DEF OpenAll, Openable

LEMMA AllTokLayers ==
  ASSUME NEW s, AllTok(s)
  PROVE  Good(s) /\ \A n \in Nat : Layers(s)[n] = s
  <1> DEFINE T == {n \in Nat : Layers(s)[n] = s}
  <1>1. 0 \in T
    BY LayersNext
  <1>2. ASSUME NEW n \in Nat, n \in T PROVE n + 1 \in T
    <2>1. Layers(s)[n + 1] = OpenAll(Layers(s)[n])
      BY LayersNext
    <2>2. Layers(s)[n + 1] = s
      BY <1>2, <2>1, AllTokOpened
    <2> QED
      BY <2>2
  <1>3. Nat \subseteq T
    <2> HIDE DEF T
    <2> QED
      BY <1>1, <1>2, AllNats
  <1>4. \A n \in Nat : Layers(s)[n] = s
    BY <1>3
  <1> QED
    BY <1>4, AllTokOpened DEF Good

-----------------------------------------------------------------------------
\* The lists that are open.

Open == Tok("TT_OPENPAREN")
Stacked(st) == IsSeq(st) /\ \A i \in 1 .. Len(st) : Good(st[i])

LEMMA GoodSeq ==
  ASSUME NEW s, Good(s)
  PROVE  IsSeq(s)
  <1>1. Layers(s)[0] = s
    BY LayersNext
  <1>2. Openable(Layers(s)[0])
    BY DEF Good
  <1> QED
    BY <1>1, <1>2 DEF Openable

LEMMA GoodTok ==
  ASSUME NEW x, IsTok(x)
  PROVE  Good(<<x>>) /\ \A n \in Nat : Layers(<<x>>)[n] = <<x>>
  <1> DEFINE s == <<x>>
  <1>1. IsSeq(s) /\ Len(s) = 1 /\ s[1] = x
    BY IsSeqOne
  <1> HIDE DEF s
  <1>2. AllTok(s)
    <2>1. \A i \in 1 .. Len(s) : s[i] = x
      BY <1>1
    <2> QED
      BY <1>1, <2>1 DEF AllTok
  <1>3. Good(s) /\ \A n \in Nat : Layers(s)[n] = s
    BY <1>2, AllTokLayers
  <1> QED
    BY <1>3 DEF s

LEMMA OpenTok == IsTok(Open) /\ IsTok(Tok("TT_CLOSEPAREN"))
  BY DEF IsTok, Open, TokenTypes

LEMMA JoinedZero ==
  ASSUME NEW p, NEW st
  PROVE  Joined(p, st)[0] = p
  BY JoinedDef

LEMMA JoinedNext ==
  ASSUME NEW p, NEW st, NEW k \in Nat
  PROVE  Joined(p, st)[k + 1] = Joined(p, st)[k] \o (<<Open>> \o st[k + 1])
  <1>1. Joined(p, st)[k + 1] = AddList(st, k + 1, Joined(p, st)[k])
    BY JoinedDef
  <1> QED
    BY <1>1 DEF AddList, Open

LEMMA JoinedGood ==
  ASSUME NEW p, NEW st, Good(p), Stacked(st)
  PROVE  \A k \in 0 .. Len(st) : Good(Joined(p, st)[k])
  <1> DEFINE T == {k \in Nat : k <= Len(st) => Good(Joined(p, st)[k])}
  <1>0. Len(st) \in Nat
    BY IsSeqConcat DEF Stacked
  <1>1. 0 \in T
    BY JoinedZero
  <1>2. ASSUME NEW k \in Nat, k \in T PROVE k + 1 \in T
    <2> SUFFICES ASSUME k + 1 <= Len(st) PROVE Good(Joined(p, st)[k + 1])
      OBVIOUS
    <2> DEFINE a == Joined(p, st)[k]
               b == st[k + 1]
               o == <<Open>>
    <2>1. Good(a) /\ Good(b)
      BY <1>0, <1>2 DEF Stacked
    <2>2. Good(o)
      BY OpenTok, GoodTok
    <2>3. Joined(p, st)[k + 1] = a \o (o \o b)
      BY JoinedNext
    <2> HIDE DEF a, b, o
    <2>4. Good(o \o b)
      BY <2>1, <2>2, LayersConcat
    <2> DEFINE c == o \o b
    <2> HIDE DEF c
    <2>5. Good(a \o c)
      BY <2>1, <2>4, LayersConcat DEF c
    <2> QED
      BY <2>3, <2>5 DEF c
  <1>3. Nat \subseteq T
    <2> HIDE DEF T
    <2> QED
      BY <1>1, <1>2, AllNats
  <1> QED
    BY <1>0, <1>3

LEMMA JoinedSame ==
  ASSUME NEW p, NEW st, NEW su, NEW n \in Nat, \A i \in 1 .. n : st[i] = su[i]
  PROVE  \A k \in 0 .. n : Joined(p, st)[k] = Joined(p, su)[k]
  <1> DEFINE T == {k \in Nat : k <= n => Joined(p, st)[k] = Joined(p, su)[k]}
  <1>1. 0 \in T
    BY JoinedZero
  <1>2. ASSUME NEW k \in Nat, k \in T PROVE k + 1 \in T
    <2> SUFFICES ASSUME k + 1 <= n PROVE Joined(p, st)[k + 1] = Joined(p, su)[k + 1]
      OBVIOUS
    <2>1. Joined(p, st)[k] = Joined(p, su)[k] /\ st[k + 1] = su[k + 1]
      BY <1>2
    <2>2. /\ Joined(p, st)[k + 1] = Joined(p, st)[k] \o (<<Open>> \o st[k + 1])
          /\ Joined(p, su)[k + 1] = Joined(p, su)[k] \o (<<Open>> \o su[k + 1])
      BY JoinedNext
    <2> QED
      BY <2>1, <2>2
  <1>3. Nat \subseteq T
    <2> HIDE DEF T
    <2> QED
      BY <1>1, <1>2, AllNats
  <1> QED
    BY <1>3

\* The last list of the stack follows what is before it.
LEMMA SoFarLast ==
  ASSUME NEW p, NEW st, NEW su, IsSeq(st), IsSeq(su), Len(st) = Len(su) + 1,
         \A i \in 1 .. Len(su) : st[i] = su[i]
  PROVE  SoFar(p, st) = SoFar(p, su) \o (<<Open>> \o st[Len(st)])
  <1> DEFINE n == Len(su)
  <1>1. n \in Nat
    BY IsSeqConcat
  <1>2. Len(st) = n + 1 /\ \A i \in 1 .. n : st[i] = su[i]
    OBVIOUS
  <1> HIDE DEF n
  <1>3. Joined(p, st)[n] = Joined(p, su)[n]
    BY <1>1, <1>2, JoinedSame
  <1>4. Joined(p, st)[n + 1] = Joined(p, st)[n] \o (<<Open>> \o st[n + 1])
    BY <1>1, JoinedNext
  <1>5. Joined(p, st)[Len(st)] = Joined(p, su)[n] \o (<<Open>> \o st[Len(st)])
    BY <1>2, <1>3, <1>4
  <1> QED
    BY <1>5 DEF SoFar, n

-----------------------------------------------------------------------------
\* The tokens read so far.

Read(n) == [k \in 1 .. n |-> Tok(toks.items[k].type)]

TreeInv ==
    /\ pos \in 1 .. Len(toks.items) + 1
    /\ phase = "tokenize" => pos = 1 /\ prog = <<>> /\ stack = <<>>
    /\ Good(prog) /\ Stacked(stack)
    /\ TreeIsTokens

LEMMA TokenIsTok ==
  ASSUME ReaderInv, NEW k \in 1 .. Len(toks.items)
  PROVE  toks.items[k].type \in TokenTypes /\ IsTok(Tok(toks.items[k].type))
  <1>1. toks.items[k] \in Token
    BY DEF ReaderInv
  <1>2. toks.items[k].type \in TokenTypes
    BY <1>1 DEF Token
  <1> QED
    BY <1>2 DEF IsTok

LEMMA ReadOK ==
  ASSUME ReaderInv, NEW n \in 0 .. Len(toks.items)
  PROVE  AllTok(Read(n)) /\ Len(Read(n)) = n /\ \A k \in 1 .. n : Read(n)[k] = Tok(toks.items[k].type)
  <1> DEFINE S == {Tok(t) : t \in TokenTypes}
  <1>0. Len(toks.items) \in Nat /\ n \in Nat
    BY LenProperties DEF ReaderInv
  <1>1. \A k \in 1 .. n : Tok(toks.items[k].type) \in S
    BY <1>0, TokenIsTok
  <1>2. \A x \in S : IsTok(x)
    BY DEF IsTok
  <1> HIDE DEF S
  <1>3. Read(n) \in Seq(S) /\ Len(Read(n)) = n /\ \A k \in 1 .. n : Read(n)[k] = Tok(toks.items[k].type)
    BY <1>0, <1>1 DEF Read
  <1>4. IsSeq(Read(n)) /\ \A k \in 1 .. n : Read(n)[k] \in S
    BY <1>1, <1>3 DEF IsSeq
  <1> QED
    BY <1>2, <1>3, <1>4 DEF AllTok

LEMMA ReadNext ==
  ASSUME ReaderInv, NEW n \in Nat, n + 1 <= Len(toks.items)
  PROVE  Read(n + 1) = Read(n) \o <<Tok(toks.items[n + 1].type)>>
  <1> DEFINE x == Tok(toks.items[n + 1].type)
             a == Read(n)
             b == Read(n + 1)
             z == <<x>>
  <1>0. Len(toks.items) \in Nat
    BY LenProperties DEF ReaderInv
  <1>1. IsSeq(a) /\ Len(a) = n /\ \A k \in 1 .. n : a[k] = Tok(toks.items[k].type)
    BY <1>0, ReadOK DEF AllTok
  <1>2. IsSeq(b) /\ Len(b) = n + 1 /\ \A k \in 1 .. n + 1 : b[k] = Tok(toks.items[k].type)
    BY <1>0, ReadOK DEF AllTok
  <1>3. IsSeq(z) /\ Len(z) = 1 /\ z[1] = x
    BY IsSeqOne
  <1>x. b[n + 1] = x
    BY <1>2
  <1> HIDE DEF x, a, b, z
  <1>4. IsSeq(a) /\ IsSeq(z)
    BY <1>1, <1>3
  <1>5. /\ IsSeq(a \o z) /\ Len(a \o z) = Len(a) + Len(z)
        /\ \A k \in 1 .. Len(a) : (a \o z)[k] = a[k]
        /\ \A k \in 1 .. Len(z) : (a \o z)[Len(a) + k] = z[k]
    BY <1>4, IsSeqConcat
  <1>6. Len(a \o z) = Len(b)
    BY <1>1, <1>2, <1>3, <1>5
  <1>7. ASSUME NEW k \in 1 .. n + 1 PROVE b[k] = (a \o z)[k]
    <2>1. CASE k = n + 1
      <3>1. (a \o z)[n + 1] = x
        BY <1>1, <1>3, <1>5
      <3> QED
        BY <1>x, <2>1, <3>1
    <2>2. CASE k # n + 1
      <3>1. k \in 1 .. n
        BY <2>2
      <3> QED
        BY <1>1, <1>2, <1>5, <3>1
    <2> QED
      BY <2>1, <2>2
  <1>8. \A k \in 1 .. Len(b) : b[k] = (a \o z)[k]
    BY <1>2, <1>7
  <1> DEFINE c == a \o z
  <1>9. IsSeq(b) /\ IsSeq(c) /\ Len(b) = Len(c) /\ \A k \in 1 .. Len(b) : b[k] = c[k]
    BY <1>2, <1>5, <1>6, <1>8
  <1> HIDE DEF c
  <1>10. b = c
    BY <1>9, SameSeq
  <1> QED
    BY <1>10 DEF a, b, c, z, x

\* What comes behind the expressions so far is read last: the layers of e make
\* the next token.
LEMMA OneMore ==
  ASSUME ReaderInv, NEW s, NEW e, NEW n \in Nat, n + 1 <= Len(toks.items),
         Good(s), Good(<<e>>), Layers(s)[n + 1] = Read(n),
         Layers(<<e>>)[(n + 1) + 1] = <<Tok(toks.items[n + 1].type)>>
  PROVE  Layers(s \o <<e>>)[(n + 1) + 1] = Read(n + 1)
  <1> DEFINE z == <<e>>
             y == <<Tok(toks.items[n + 1].type)>>
             m == n + 1
  <1>0. Len(toks.items) \in Nat /\ m \in Nat /\ m + 1 \in Nat
    BY LenProperties DEF ReaderInv
  <1>1. Good(z) /\ Layers(s)[m] = Read(n) /\ Layers(z)[m + 1] = y
    OBVIOUS
  <1>2. Read(n + 1) = Read(n) \o y
    BY ReadNext
  <1> HIDE DEF z, y, m
  <1>3. AllTok(Read(n))
    BY <1>0, ReadOK
  <1>4. Layers(s)[m + 1] = OpenAll(Layers(s)[m])
    BY <1>0, LayersNext
  <1>5. Layers(s)[m + 1] = Read(n)
    BY <1>1, <1>3, <1>4, AllTokOpened
  <1>6. Layers(s \o z)[m + 1] = Layers(s)[m + 1] \o Layers(z)[m + 1]
    <2>1. \A k \in Nat : Layers(s \o z)[k] = Layers(s)[k] \o Layers(z)[k]
      BY <1>1, LayersConcat
    <2> QED
      BY <1>0, <2>1
  <1>7. Layers(s \o z)[m + 1] = Read(n + 1)
    BY <1>1, <1>2, <1>5, <1>6
  <1> QED
    BY <1>7 DEF z, m

\* A list is opened to its parentheses and what is between them.
LEMMA ListLayers ==
  ASSUME NEW top, Good(top)
  PROVE  /\ Good(<<NewList(top)>>)
         /\ \A n \in Nat : Layers(<<NewList(top)>>)[n + 1]
                               = (<<Open>> \o Layers(top)[n]) \o <<Tok("TT_CLOSEPAREN")>>
  <1> DEFINE e == NewList(top)
             o == <<Open>>
             c == <<Tok("TT_CLOSEPAREN")>>
             z == <<e>>
  <1>1. Opened(e) = (o \o top) \o c
    BY DEF NewList, Opened, Open
  <1>2. Good(o) /\ Good(c) /\ \A n \in Nat : Layers(o)[n] = o /\ Layers(c)[n] = c
    BY OpenTok, GoodTok
  <1> HIDE DEF o, c, e
  <1>3. Good(o \o top) /\ \A n \in Nat : Layers(o \o top)[n] = Layers(o)[n] \o Layers(top)[n]
    BY <1>2, LayersConcat
  <1> DEFINE l == o \o top
  <1>4. Good(l) /\ \A n \in Nat : Layers(l)[n] = o \o Layers(top)[n]
    BY <1>2, <1>3
  <1> HIDE DEF l
  <1>5. Good(l \o c) /\ \A n \in Nat : Layers(l \o c)[n] = Layers(l)[n] \o Layers(c)[n]
    <2>1. Good(l) /\ Good(c)
      BY <1>2, <1>4
    <2> QED
      BY <2>1, LayersConcat
  <1>6. Opened(e) = l \o c
    BY <1>1 DEF l
  <1>7. IsSeq(Opened(e))
    BY <1>5, <1>6, GoodSeq
  <1>8. OpenAll(z) = Opened(e) /\ Openable(z)
    BY <1>7, OpenAllOne
  <1> HIDE DEF z
  <1>9. Good(z)
    BY <1>5, <1>6, <1>8, GoodOpened
  <1>10. ASSUME NEW n \in Nat PROVE Layers(z)[n + 1] = (o \o Layers(top)[n]) \o c
    <2>1. Layers(z)[n + 1] = Layers(l \o c)[n]
      BY <1>6, <1>8, LayersShift
    <2> QED
      BY <1>2, <1>4, <1>5, <2>1
  <1> QED
    BY <1>9, <1>10 DEF z, e, o, c

LEMMA ListClosed ==
  ASSUME ReaderInv, NEW A, NEW top, NEW n \in Nat, n + 1 <= Len(toks.items),
         Good(A), Good(top), toks.items[n + 1].type = "TT_CLOSEPAREN",
         Layers(A \o (<<Open>> \o top))[n + 1] = Read(n)
  PROVE  Layers(A \o <<NewList(top)>>)[(n + 1) + 1] = Read(n + 1)
  <1> DEFINE m == n + 1
             o == <<Open>>
             c == <<Tok("TT_CLOSEPAREN")>>
             z == <<NewList(top)>>
             a == Layers(A)[m]
             t == Layers(top)[m]
  <1>0. Len(toks.items) \in Nat /\ m \in Nat /\ m + 1 \in Nat
    BY LenProperties DEF ReaderInv
  <1>1. Good(z) /\ Layers(z)[m + 1] = (o \o t) \o c
    BY <1>0, ListLayers
  <1>2. Good(o) /\ Layers(o)[m] = o /\ IsSeq(c)
    BY <1>0, OpenTok, GoodTok, GoodSeq
  <1>3. Read(n + 1) = Read(n) \o c
    BY ReadNext
  <1>4. IsSeq(a) /\ IsSeq(t) /\ IsSeq(o)
    BY <1>0, <1>2, GoodSeq DEF Good, Openable
  <1>5. Layers(A \o (o \o top))[m] = Read(n)
    OBVIOUS
  <1>6. Layers(A)[m + 1] = OpenAll(a)
    BY <1>0, LayersNext
  <1> HIDE DEF z, o, c
  <1>7. Good(o \o top) /\ Layers(o \o top)[m] = o \o t
    <2>1. Good(o \o top) /\ \A k \in Nat : Layers(o \o top)[k] = Layers(o)[k] \o Layers(top)[k]
      BY <1>2, LayersConcat
    <2> QED
      BY <1>0, <1>2, <2>1
  <1> DEFINE l == o \o top
             u == o \o t
  <1>8. Good(l) /\ Layers(l)[m] = u /\ Layers(A \o l)[m] = Read(n)
    BY <1>5, <1>7
  <1>9. IsSeq(u)
    BY <1>4, IsSeqConcat
  <1> HIDE DEF l
  <1>10. Read(n) = a \o u
    <2>1. \A k \in Nat : Layers(A \o l)[k] = Layers(A)[k] \o Layers(l)[k]
      BY <1>8, LayersConcat
    <2> QED
      BY <1>0, <1>8, <2>1
  <1>11. AllTok(Read(n)) /\ Len(Read(n)) = n
    BY <1>0, ReadOK
  <1>12. Layers(A \o z)[m + 1] = OpenAll(a) \o (u \o c)
    <2>1. \A k \in Nat : Layers(A \o z)[k] = Layers(A)[k] \o Layers(z)[k]
      BY <1>1, LayersConcat
    <2> QED
      BY <1>0, <1>1, <1>6, <2>1
  <1> HIDE DEF a, u, t
  <1>13. OpenAll(a) = a
    <2>1. /\ Len(a) \in Nat /\ Len(u) \in Nat /\ Len(a \o u) = Len(a) + Len(u)
          /\ \A i \in 1 .. Len(a) : (a \o u)[i] = a[i]
      BY <1>4, <1>9, IsSeqConcat
    <2>2. ASSUME NEW i \in 1 .. Len(a) PROVE IsTok(a[i])
      <3>1. i \in 1 .. Len(Read(n)) /\ Read(n)[i] = a[i]
        BY <1>10, <2>1
      <3> QED
        BY <1>11, <3>1 DEF AllTok
    <2>3. AllTok(a)
      BY <1>4, <2>2 DEF AllTok
    <2> QED
      BY <2>3, AllTokOpened
  <1>14. a \o (u \o c) = (a \o u) \o c
    <2>1. IsSeq(a) /\ IsSeq(u) /\ IsSeq(c)
      BY <1>2, <1>4, <1>9
    <2> QED
      BY <2>1, ConcatAssoc
  <1>15. Layers(A \o z)[m + 1] = Read(n + 1)
    BY <1>3, <1>10, <1>12, <1>13, <1>14
  <1> QED
    BY <1>15 DEF z, m

-----------------------------------------------------------------------------
\* A stack without its last list.
LEMMA FrontSeq ==
  ASSUME NEW S, NEW s \in Seq(S), Len(s) >= 1
  PROVE  /\ SubSeq(s, 1, Len(s) - 1) \in Seq(S)
         /\ Len(SubSeq(s, 1, Len(s) - 1)) = Len(s) - 1
         /\ \A i \in 1 .. Len(s) - 1 : SubSeq(s, 1, Len(s) - 1)[i] = s[i]
  <1> DEFINE n == Len(s)
             k == n - 1
  <1>1. n \in Nat /\ k \in Nat /\ \A i \in 1 .. k : s[i] \in S
    OBVIOUS
  <1> HIDE DEF n, k
  <1>2. /\ SubSeq(s, 1, k) \in Seq(S)
        /\ Len(SubSeq(s, 1, k)) = IF 1 <= k THEN k - 1 + 1 ELSE 0
        /\ \A i \in 1 .. k - 1 + 1 : SubSeq(s, 1, k)[i] = s[1 + i - 1]
    BY <1>1, SubSeqProperties
  <1>3. Len(SubSeq(s, 1, k)) = k /\ \A i \in 1 .. k : SubSeq(s, 1, k)[i] = s[i]
    BY <1>1, <1>2
  <1> QED
    BY <1>2, <1>3 DEF n, k

\* An expression that is complete is the last of those so far.
LEMMA Delivered ==
  ASSUME NEW e, NEW st, Good(prog), Stacked(st), Good(<<e>>), Deliver(e, st)
  PROVE  /\ SoFar(prog', stack') = SoFar(prog, st) \o <<e>>
         /\ Good(prog') /\ Stacked(stack')
  <1> DEFINE z == <<e>>
  <1>0. Good(z) /\ IsSeq(z)
    BY GoodSeq
  <1>1. CASE st = <<>>
    <2>1. prog' = Append(prog, e) /\ stack' = <<>>
      BY <1>1 DEF Deliver
    <2>2. prog' = prog \o z
      BY <2>1, GoodSeq, AppendOne
    <2> HIDE DEF z
    <2>3. Good(prog')
      BY <1>0, <2>2, LayersConcat
    <2>4. IsSeq(<<>>) /\ Len(<<>>) = 0
      BY IsSeqEmpty
    <2>5. Stacked(stack')
      BY <2>1, <2>4 DEF Stacked
    <2>6. \A p : SoFar(p, <<>>) = p
      BY <2>4, JoinedZero DEF SoFar
    <2>7. SoFar(prog', stack') = SoFar(prog, st) \o z
      BY <1>1, <2>1, <2>2, <2>6
    <2> QED
      BY <2>3, <2>5, <2>7 DEF z
  <1>2. CASE st # <<>>
    <2> DEFINE n == Len(st)
               h == Append(st[n], e)
               su == SubSeq(st, 1, n - 1)
    <2>1. PICK S : st \in Seq(S)
      BY DEF Stacked, IsSeq
    <2>2. n \in Nat /\ n >= 1
      BY <1>2, <2>1, EmptySeq
    <2>3. stack' = [st EXCEPT ![n] = h] /\ prog' = prog
      BY <1>2, <2>1, <2>2 DEF Deliver
    <2>4. su \in Seq(S) /\ Len(su) = n - 1 /\ \A i \in 1 .. n - 1 : su[i] = st[i]
      BY <2>1, <2>2, FrontSeq
    <2> HIDE DEF n, h, su
    <2> DEFINE U == S \cup {h}
    <2>5. st \in Seq(U) /\ h \in U
      BY <2>1
    <2> HIDE DEF U
    <2>6. /\ stack' \in Seq(U) /\ Len(stack') = n
          /\ \A i \in 1 .. n : stack'[i] = IF i = n THEN h ELSE st[i]
      BY <2>2, <2>3, <2>5, ExceptSeq DEF n
    <2>7. IsSeq(st) /\ IsSeq(su) /\ IsSeq(stack')
      BY <2>1, <2>4, <2>6 DEF IsSeq
    <2>8. Good(st[n]) /\ h = st[n] \o z
      <3>1. Good(st[n])
        BY <2>2 DEF Stacked, n
      <3> QED
        BY <3>1, GoodSeq, AppendOne DEF h
    <2> HIDE DEF z
    <2>9. Good(h)
      BY <1>0, <2>8, LayersConcat
    <2>10. Stacked(stack')
      <3>1. ASSUME NEW i \in 1 .. n PROVE Good(stack'[i])
        BY <2>6, <2>9 DEF Stacked, n
      <3> QED
        BY <2>6, <2>7, <3>1 DEF Stacked
    <2>11. SoFar(prog, st) = SoFar(prog, su) \o (<<Open>> \o st[n])
      <3>1. Len(st) = Len(su) + 1 /\ \A i \in 1 .. Len(su) : st[i] = su[i]
        BY <2>2, <2>4 DEF n
      <3> QED
        BY <2>7, <3>1, SoFarLast DEF n
    <2>12. SoFar(prog, stack') = SoFar(prog, su) \o (<<Open>> \o stack'[n])
      <3>1. Len(stack') = Len(su) + 1
        BY <2>2, <2>4, <2>6
      <3>2. ASSUME NEW i \in 1 .. Len(su) PROVE stack'[i] = su[i]
        BY <2>2, <2>4, <2>6
      <3> QED
        BY <2>6, <2>7, <3>1, <3>2, SoFarLast
    <2>13. stack'[n] = st[n] \o z
      BY <2>2, <2>6, <2>8
    <2> DEFINE a == SoFar(prog, su)
               o == <<Open>>
               b == st[n]
    <2>14. IsSeq(a) /\ IsSeq(o) /\ IsSeq(b)
      <3>1. Stacked(su)
        BY <2>2, <2>4, <2>7 DEF Stacked, n
      <3>2. Len(su) \in 0 .. Len(su)
        BY <2>2, <2>4
      <3>3. Good(SoFar(prog, su))
        BY <3>1, <3>2, JoinedGood DEF SoFar
      <3> QED
        BY <2>8, <3>3, GoodSeq, IsSeqOne
    <2>15. SoFar(prog, st) = a \o (o \o b) /\ SoFar(prog, stack') = a \o (o \o (b \o z))
      BY <2>11, <2>12, <2>13
    <2> HIDE DEF a, o, b
    <2>16. (a \o (o \o b)) \o z = a \o (o \o (b \o z))
      <3> DEFINE l == o \o b
      <3>1. (o \o b) \o z = o \o (b \o z)
        BY <1>0, <2>14, ConcatAssoc
      <3>2. IsSeq(a) /\ IsSeq(l) /\ IsSeq(z)
        BY <1>0, <2>14, IsSeqConcat
      <3>3. l \o z = o \o (b \o z)
        BY <3>1
      <3> HIDE DEF l
      <3>4. (a \o l) \o z = a \o (l \o z)
        BY <3>2, ConcatAssoc
      <3>5. (a \o l) \o z = a \o (o \o (b \o z))
        BY <3>3, <3>4
      <3> QED
        BY <3>5 DEF l
    <2>17. SoFar(prog', stack') = SoFar(prog, st) \o z
      BY <2>3, <2>15, <2>16
    <2> QED
      BY <2>3, <2>10, <2>17 DEF z
  <1> QED
    BY <1>1, <1>2

-----------------------------------------------------------------------------
\* One lemma per kind of step.

\* TreeIsTokens, with the number n of tokens read.
LEMMA TreeOf ==
  ASSUME NEW n \in Nat, pos = n + 1
  PROVE  TreeIsTokens <=> Layers(SoFar(prog, stack))[n + 1] = Read(n)
  <1>1. pos - 1 = n
    OBVIOUS
  <1> QED
    BY <1>1 DEF TreeIsTokens, Read

\* A step of parseExpr that makes expressions of one more token.
LEMMA TokenRead ==
  ASSUME ReaderInv, TreeInv, Parsing, pos' = pos + 1, UNCHANGED <<toks, phase>>,
         Good(prog'), Stacked(stack'),
         Layers(SoFar(prog', stack'))[pos + 1] = Read(pos)
  PROVE  TreeInv'
  <1>0. Len(toks.items) \in Nat /\ pos \in Nat
    BY LenProperties DEF ReaderInv, TreeInv
  <1>1. pos' \in 1 .. Len(toks'.items) + 1
    BY <1>0 DEF Parsing
  <1>2. phase' # "tokenize"
    BY DEF Parsing
  <1>3. TreeIsTokens'
    <2>1. pos' - 1 = pos
      BY <1>0
    <2>2. [k \in 1 .. pos' - 1 |-> Tok(toks'.items[k].type)] = Read(pos)
      BY <2>1 DEF Read
    <2> QED
      BY <2>2 DEF TreeIsTokens
  <1> QED
    BY <1>1, <1>2, <1>3 DEF TreeInv, Good, Stacked, IsSeq, Openable

\* What the tokenizer and the end of the reading leave alone.
LEMMA TreeKept ==
  ASSUME ReaderInv, ReaderInv', TreeInv, UNCHANGED <<pos, stack, prog>>,
         (phase = "tokenize" \/ toks' = toks), phase' = phase \/ phase' # "tokenize"
  PROVE  TreeInv'
  <1>0. Len(toks.items) \in Nat /\ Len(toks'.items) \in Nat /\ pos \in Nat
    BY LenProperties DEF ReaderInv, TreeInv
  <1>1. CASE toks' = toks
    BY <1>1 DEF TreeInv, TreeIsTokens
  <1>2. CASE phase = "tokenize"
    <2>1. pos = 1 /\ prog = <<>> /\ stack = <<>>
      BY <1>2 DEF TreeInv
    <2>2. [k \in 1 .. pos - 1 |-> Tok(toks.items[k].type)] = [k \in 1 .. pos - 1 |-> Tok(toks'.items[k].type)]
      BY <2>1
    <2>3. TreeIsTokens'
      BY <2>2 DEF TreeInv, TreeIsTokens
    <2> QED
      BY <1>0, <2>1, <2>3 DEF TreeInv
  <1> QED
    BY <1>1, <1>2

LEMMA ParseAtomTree == ReaderInv /\ TreeInv /\ ParseAtom => TreeInv'
  <1> SUFFICES ASSUME ReaderInv, TreeInv, ParseAtom PROVE TreeInv'
    OBVIOUS
  <1> DEFINE n == pos - 1
             e == NewExpr(toks.items[pos])
             x == Tok(toks.items[pos].type)
  <1>0. Len(toks.items) \in Nat /\ n \in Nat /\ pos = n + 1 /\ n + 1 <= Len(toks.items) /\ pos \in 1 .. Len(toks.items)
    BY LenProperties DEF ReaderInv, TreeInv, ParseAtom, Parsing
  <1>1. Opened(e) = <<x>>
    BY DEF ParseAtom, TokType, NewExpr, Opened
  <1>2. IsTok(x)
    BY <1>0, TokenIsTok
  <1>3. Deliver(e, stack) /\ pos' = pos + 1 /\ UNCHANGED <<toks, phase>> /\ Parsing
    BY DEF ParseAtom
  <1>4. Good(prog) /\ Stacked(stack) /\ TreeIsTokens
    BY DEF TreeInv
  <1>5. x = Tok(toks.items[n + 1].type)
    BY <1>0
  <1> HIDE DEF e, x, n
  <1>6. OpenAll(<<e>>) = <<x>> /\ Openable(<<e>>)
    BY <1>1, IsSeqOne, OpenAllOne
  <1>7. Good(<<x>>) /\ \A k \in Nat : Layers(<<x>>)[k] = <<x>>
    BY <1>2, GoodTok
  <1>8. Good(<<e>>)
    BY <1>6, <1>7, GoodOpened
  <1>9. Layers(<<e>>)[(n + 1) + 1] = <<x>>
    <2>1. n + 1 \in Nat
      BY <1>0
    <2>2. Layers(<<e>>)[(n + 1) + 1] = Layers(OpenAll(<<e>>))[n + 1]
      BY <2>1, LayersShift
    <2> QED
      BY <1>6, <1>7, <2>1, <2>2
  <1>10. SoFar(prog', stack') = SoFar(prog, stack) \o <<e>> /\ Good(prog') /\ Stacked(stack')
    BY <1>3, <1>4, <1>8, Delivered
  <1>11. Good(SoFar(prog, stack))
    <2>1. Len(stack) \in 0 .. Len(stack)
      BY <1>4, IsSeqConcat DEF Stacked
    <2> QED
      BY <1>4, <2>1, JoinedGood DEF SoFar
  <1>12. Layers(SoFar(prog, stack))[n + 1] = Read(n)
    BY <1>0, <1>4, TreeOf
  <1> DEFINE s == SoFar(prog, stack)
  <1>13. Good(s) /\ Layers(s)[n + 1] = Read(n)
    BY <1>11, <1>12
  <1> HIDE DEF s
  <1>14. Layers(s \o <<e>>)[(n + 1) + 1] = Read(n + 1)
    BY <1>0, <1>5, <1>8, <1>9, <1>13, OneMore
  <1>15. Layers(SoFar(prog', stack'))[pos + 1] = Read(pos)
    BY <1>0, <1>10, <1>14 DEF s
  <1> QED
    BY <1>3, <1>10, <1>15, TokenRead

LEMMA ParseListStartTree == ReaderInv /\ TreeInv /\ ParseListStart => TreeInv'
  <1> SUFFICES ASSUME ReaderInv, TreeInv, ParseListStart PROVE TreeInv'
    OBVIOUS
  <1> DEFINE n == pos - 1
             s == SoFar(prog, stack)
             o == <<Open>>
             N == <<>>
  <1>0. Len(toks.items) \in Nat /\ n \in Nat /\ pos = n + 1 /\ n + 1 <= Len(toks.items)
    BY LenProperties DEF ReaderInv, TreeInv, ParseListStart, Parsing
  <1>1. /\ Parsing /\ pos' = pos + 1 /\ UNCHANGED <<toks, phase>> /\ prog' = prog
        /\ stack' = Append(stack, N) /\ toks.items[n + 1].type = "TT_OPENPAREN"
    BY <1>0 DEF ParseListStart, TokType
  <1>2. Good(prog) /\ Stacked(stack) /\ TreeIsTokens
    BY DEF TreeInv
  <1>3. Tok(toks.items[n + 1].type) = Open
    BY <1>1 DEF Open
  <1>4. Good(o) /\ \A k \in Nat : Layers(o)[k] = o
    BY OpenTok, GoodTok
  <1>5. Good(N) /\ IsSeq(N) /\ Len(N) = 0
    <2>1. IsSeq(N) /\ Len(N) = 0
      BY IsSeqEmpty
    <2>2. AllTok(N)
      BY <2>1 DEF AllTok
    <2> HIDE DEF N
    <2> QED
      BY <2>1, <2>2, AllTokLayers
  <1>6. o \o N = o
    BY IsSeqOne, IsSeqEmpty
  <1> HIDE DEF n, o, N
  <1>7. PICK S : stack \in Seq(S)
    BY <1>2 DEF Stacked, IsSeq
  <1> DEFINE U == S \cup {N}
             m == Len(stack)
  <1>8. stack \in Seq(U) /\ N \in U /\ m \in Nat
    BY <1>7
  <1> HIDE DEF U
  <1>9. /\ stack' \in Seq(U) /\ Len(stack') = m + 1 /\ stack'[m + 1] = N
        /\ \A i \in 1 .. m : stack'[i] = stack[i]
    BY <1>1, <1>8, AppendProperties
  <1>10. IsSeq(stack) /\ IsSeq(stack')
    BY <1>7, <1>9 DEF IsSeq
  <1>11. Stacked(stack')
    <2>1. ASSUME NEW i \in 1 .. m + 1 PROVE Good(stack'[i])
      <3>1. CASE i = m + 1
        BY <1>5, <1>9, <3>1
      <3>2. CASE i # m + 1
        <4>1. i \in 1 .. m
          BY <1>8, <3>2
        <4> QED
          BY <1>2, <1>9, <4>1 DEF Stacked
      <3> QED
        BY <3>1, <3>2
    <2> QED
      BY <1>9, <1>10, <2>1 DEF Stacked
  <1>12. SoFar(prog, stack') = s \o (o \o N)
    <2>1. SoFar(prog, stack') = s \o (o \o stack'[Len(stack')])
      BY <1>9, <1>10, SoFarLast DEF o
    <2> QED
      BY <1>9, <2>1
  <1>13. Good(s)
    <2>1. m \in 0 .. m
      BY <1>8
    <2> QED
      BY <1>2, <2>1, JoinedGood DEF SoFar
  <1>14. Layers(s)[n + 1] = Read(n)
    BY <1>0, <1>2, TreeOf
  <1>15. Layers(o)[(n + 1) + 1] = <<Tok(toks.items[n + 1].type)>>
    <2>1. (n + 1) + 1 \in Nat
      BY <1>0
    <2> QED
      BY <1>3, <1>4, <2>1 DEF o
  <1> HIDE DEF s
  <1>16. Layers(s \o o)[(n + 1) + 1] = Read(n + 1)
    BY <1>0, <1>4, <1>13, <1>14, <1>15, OneMore DEF o
  <1>17. Layers(SoFar(prog', stack'))[pos + 1] = Read(pos)
    BY <1>0, <1>1, <1>6, <1>12, <1>16
  <1> QED
    BY <1>1, <1>2, <1>11, <1>17, TokenRead

LEMMA ParseListEndTree == ReaderInv /\ TreeInv /\ ParseListEnd => TreeInv'
  <1> SUFFICES ASSUME ReaderInv, TreeInv, ParseListEnd PROVE TreeInv'
    OBVIOUS
  <1> DEFINE n == pos - 1
             m == Len(stack)
             st == SubSeq(stack, 1, m - 1)
             top == stack[m]
             A == SoFar(prog, st)
  <1>0. Len(toks.items) \in Nat /\ n \in Nat /\ pos = n + 1 /\ n + 1 <= Len(toks.items)
    BY LenProperties DEF ReaderInv, TreeInv, ParseListEnd, Parsing
  <1>1. /\ Parsing /\ pos' = pos + 1 /\ UNCHANGED <<toks, phase>> /\ stack # <<>>
        /\ Deliver(NewList(top), st) /\ toks.items[n + 1].type = "TT_CLOSEPAREN"
    BY <1>0 DEF ParseListEnd, TokType
  <1>2. Good(prog) /\ Stacked(stack) /\ TreeIsTokens
    BY DEF TreeInv
  <1>3. PICK S : stack \in Seq(S)
    BY <1>2 DEF Stacked, IsSeq
  <1>4. m \in Nat /\ m >= 1
    BY <1>1, <1>3, EmptySeq
  <1>5. st \in Seq(S) /\ Len(st) = m - 1 /\ \A i \in 1 .. m - 1 : st[i] = stack[i]
    BY <1>3, <1>4, FrontSeq
  <1>6. Good(top)
    BY <1>2, <1>4 DEF Stacked
  <1>7. Layers(SoFar(prog, stack))[n + 1] = Read(n)
    BY <1>0, <1>2, TreeOf
  <1> HIDE DEF n, st
  <1>8. Stacked(st) /\ IsSeq(st) /\ IsSeq(stack)
    <2>1. IsSeq(st) /\ IsSeq(stack)
      BY <1>3, <1>5 DEF IsSeq
    <2>2. ASSUME NEW i \in 1 .. m - 1 PROVE Good(st[i])
      BY <1>2, <1>4, <1>5 DEF Stacked
    <2> QED
      BY <1>5, <2>1, <2>2 DEF Stacked
  <1>9. SoFar(prog, stack) = A \o (<<Open>> \o top)
    <2>1. Len(stack) = Len(st) + 1 /\ \A i \in 1 .. Len(st) : stack[i] = st[i]
      BY <1>4, <1>5
    <2> QED
      BY <1>8, <2>1, SoFarLast
  <1>10. Good(A)
    <2>1. Len(st) \in 0 .. Len(st)
      BY <1>4, <1>5
    <2> QED
      BY <1>2, <1>8, <2>1, JoinedGood DEF SoFar
  <1>11. Good(<<NewList(top)>>)
    BY <1>6, ListLayers
  <1>12. /\ SoFar(prog', stack') = A \o <<NewList(top)>>
         /\ Good(prog') /\ Stacked(stack')
    BY <1>1, <1>2, <1>8, <1>11, Delivered
  <1> HIDE DEF A, top
  <1>13. Layers(A \o (<<Open>> \o top))[n + 1] = Read(n)
    BY <1>7, <1>9
  <1>14. Layers(A \o <<NewList(top)>>)[(n + 1) + 1] = Read(n + 1)
    BY <1>0, <1>1, <1>6, <1>10, <1>13, ListClosed
  <1>15. Layers(SoFar(prog', stack'))[pos + 1] = Read(pos)
    BY <1>0, <1>12, <1>14
  <1> QED
    BY <1>1, <1>12, <1>15, TokenRead

LEMMA TreeInit == src \in Seq(DOMAIN ClassOf) /\ ReaderInit => TreeInv
  <1> SUFFICES ASSUME ReaderInit PROVE TreeInv
    OBVIOUS
  <1> DEFINE N == <<>>
  <1>1. prog = N /\ stack = N /\ pos = 1 /\ Len(toks.items) = 0
    BY DEF ReaderInit, VectorInit
  <1>2. IsSeq(N) /\ Len(N) = 0
    BY IsSeqEmpty
  <1>3. AllTok(N)
    BY <1>2 DEF AllTok
  <1>4. Joined(N, N)[0] = N
    BY JoinedZero
  <1>5. [k \in 1 .. pos - 1 |-> Tok(toks.items[k].type)] = N
    BY <1>1
  <1> HIDE DEF N
  <1>6. Good(N) /\ \A k \in Nat : Layers(N)[k] = N
    BY <1>3, AllTokLayers
  <1>7. SoFar(prog, stack) = N
    BY <1>1, <1>2, <1>4 DEF SoFar
  <1>8. TreeIsTokens
    BY <1>1, <1>5, <1>6, <1>7 DEF TreeIsTokens
  <1>9. Stacked(stack)
    BY <1>1, <1>2 DEF Stacked
  <1> QED
    BY <1>1, <1>6, <1>8, <1>9 DEF TreeInv, N

LEMMA TreeStep == ReaderInv /\ ReaderInv' /\ TreeInv /\ [ReaderNext]_readerVars => TreeInv'
  <1> SUFFICES ASSUME ReaderInv, ReaderInv', TreeInv, [ReaderNext]_readerVars PROVE TreeInv'
    OBVIOUS
  <1>1. CASE Skip \/ Paren \/ StringLit \/ Comment \/ IntLit \/ IdentTok
    <2>1. UNCHANGED <<pos, stack, prog>> /\ phase = "tokenize" /\ (phase' = phase \/ phase' = "overrun")
      BY <1>1 DEF Skip, Paren, StringLit, Comment, IntLit, IdentTok, AtChar, Emit, RunsOver
    <2> QED
      BY <2>1, TreeKept
  <1>2. CASE TokenizeEnd \/ ParseHalt \/ ParseEnd \/ UNCHANGED readerVars
    <2>1. UNCHANGED <<pos, stack, prog>> /\ toks' = toks /\ (phase' = phase \/ phase' # "tokenize")
      BY <1>2 DEF TokenizeEnd, ParseHalt, ParseEnd, readerVars
    <2> QED
      BY <2>1, TreeKept
  <1>3. CASE ParseAtom
    BY <1>3, ParseAtomTree
  <1>4. CASE ParseListStart
    BY <1>4, ParseListStartTree
  <1>5. CASE ParseListEnd
    BY <1>5, ParseListEndTree
  <1> QED
    BY <1>1, <1>2, <1>3, <1>4, <1>5 DEF ReaderNext

\* On any text, the expressions that parseExpr has returned and the lists that
\* parseList still builds are, with every list opened, the tokens read so far:
\* no token is lost, moved or read twice, at any depth of nesting.
THEOREM TreeOfTokens == ReaderSpec => []TreeIsTokens
  <1>1. src \in Seq(DOMAIN ClassOf) /\ ReaderInit => TreeInv
    BY TreeInit
  <1>2. ReaderInv /\ ReaderInv' /\ TreeInv /\ [ReaderNext]_readerVars => TreeInv'
    BY TreeStep
  <1>3. TreeInv => TreeIsTokens
    BY DEF TreeInv
  <1> QED
    BY <1>1, <1>2, <1>3, ReaderInvariant, PTL DEF ReaderSpec

=============================================================================
