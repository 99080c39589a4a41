---------------------------- MODULE UserRapProofs ----------------------------
(***************************************************************************)
(* Proofs about UserRap: sched and the desktop find every function of the  *)
(* kernel at its address, wherever the kernel has them.  What the parser   *)
(* makes of a text is the writer's table again; the facts about sequences  *)
(* and naturals are those of LispReaderProofs.                             *)
(***************************************************************************)
EXTENDS UserRap, LispReaderProofs, FiniteSetTheorems

\* The recursive functions of Numbers and of the parser, by their steps.
AddDigit(s, n, v) == 10 * v + DigitVal(s[n])
FirstParam(i) == [at |-> i, n |-> 0]
FirstEntry == [over |-> FALSE, at |-> 1, entries |-> <<>>]
ParamAfter(t, k, s) == NextParam(t, s)
EntryAfter(t, k, s) == NextEntry(t, s)

\* The value of a text is well defined.
LEMMA ValuesDef ==
  ASSUME NEW s
  PROVE  /\ Values(s)[0] = 0
         /\ \A k \in Nat : Values(s)[k + 1] = AddDigit(s, k + 1, Values(s)[k])
  <1> DEFINE IsPart(p, n) == p = [k \in 0 .. n |-> IF k = 0 THEN 0 ELSE AddDigit(s, k, p[k - 1])]
             Part(n) == CHOOSE p : IsPart(p, n)
             S == {n \in Nat : \E p : IsPart(p, n)}
             w == [n \in Nat |-> Part(n)[n]]
             IsAll(f) == f = [k \in Nat |-> IF k = 0 THEN 0 ELSE AddDigit(s, k, f[k - 1])]
  <1>1. 0 \in S
    <2> DEFINE p == [k \in 0 .. 0 |-> 0]
    <2>1. IsPart(p, 0)
      OBVIOUS
    <2> QED
      BY <2>1
  <1>2. ASSUME NEW n \in Nat, n \in S PROVE n + 1 \in S
    <2>1. PICK p : IsPart(p, n)
      BY <1>2
    <2> DEFINE q == [k \in 0 .. n + 1 |-> IF k = n + 1 THEN AddDigit(s, n + 1, p[n]) ELSE p[k]]
    <2>2. q = [k \in 0 .. n + 1 |-> IF k = 0 THEN 0 ELSE AddDigit(s, k, q[k - 1])]
      <3> SUFFICES ASSUME NEW k \in 0 .. n + 1
                   PROVE  q[k] = IF k = 0 THEN 0 ELSE AddDigit(s, k, q[k - 1])
        OBVIOUS
      <3>1. CASE k = n + 1
        <4>1. k - 1 = n /\ n \in 0 .. n + 1 /\ n # n + 1 /\ k # 0
          BY <3>1
        <4> QED
          BY <3>1, <4>1
      <3>2. CASE k # n + 1 /\ k = 0
        <4>1. p[0] = 0
          BY <2>1
        <4> QED
          BY <3>2, <4>1
      <3>3. CASE k # n + 1 /\ k # 0
        <4>1. k \in 0 .. n /\ k - 1 \in 0 .. n + 1 /\ k - 1 # n + 1
          BY <3>3
        <4>2. p[k] = AddDigit(s, k, p[k - 1])
          BY <2>1, <3>3, <4>1
        <4>3. q[k] = p[k] /\ q[k - 1] = p[k - 1]
          BY <3>3, <4>1
        <4> QED
          BY <3>3, <4>2, <4>3
      <3> QED
        BY <3>1, <3>2, <3>3
    <2> HIDE DEF q
    <2> QED
      BY <2>2
  <1>3. Nat \subseteq S
    <2> HIDE DEF S
    <2> QED
      BY <1>1, <1>2, AllNats
  <1>4. \A n \in Nat : IsPart(Part(n), n)
    BY <1>3
  <1> HIDE DEF Part
  <1>5. /\ \A n \in Nat : Part(n)[0] = 0
        /\ \A n \in Nat : \A k \in 1 .. n : Part(n)[k] = AddDigit(s, k, Part(n)[k - 1])
    <2>1. \A n \in Nat : \A k \in 0 .. n :
              Part(n)[k] = IF k = 0 THEN 0 ELSE AddDigit(s, k, Part(n)[k - 1])
      BY <1>4
    <2> QED
      BY <2>1
  <1>6. \A k \in Nat : \A n \in Nat : k <= n => Part(n)[k] = Part(k)[k]
    <2> DEFINE T == {k \in Nat : \A m, n \in Nat : k <= n /\ k <= m => Part(n)[k] = Part(m)[k]}
    <2>1. 0 \in T
      BY <1>5
    <2>2. ASSUME NEW k \in Nat, k \in T PROVE k + 1 \in T
      <3> SUFFICES ASSUME NEW m \in Nat, NEW n \in Nat, k + 1 <= n, k + 1 <= m
                   PROVE  Part(n)[k + 1] = Part(m)[k + 1]
        OBVIOUS
      <3>1. Part(n)[k] = Part(m)[k]
        BY <2>2
      <3>2. k + 1 \in 1 .. n /\ k + 1 \in 1 .. m /\ (k + 1) - 1 = k
        OBVIOUS
      <3> QED
        BY <1>5, <3>1, <3>2
    <2>3. Nat \subseteq T
      <3> HIDE DEF T
      <3> QED
        BY <2>1, <2>2, AllNats
    <2> QED
      BY <2>3
  <1>7. IsAll(w)
    <2> SUFFICES ASSUME NEW k \in Nat PROVE w[k] = IF k = 0 THEN 0 ELSE AddDigit(s, k, w[k - 1])
      OBVIOUS
    <2>1. CASE k = 0
      BY <1>5, <2>1
    <2>2. CASE k # 0
      <3>1. k \in 1 .. k /\ k - 1 \in Nat /\ k - 1 <= k
        BY <2>2
      <3>2. Part(k)[k] = AddDigit(s, k, Part(k)[k - 1]) /\ Part(k)[k - 1] = Part(k - 1)[k - 1]
        BY <1>5, <1>6, <3>1
      <3> QED
        BY <2>2, <3>1, <3>2
    <2> QED
      BY <2>1, <2>2
  <1> HIDE DEF w
  <1>8. IsAll(Values(s))
    BY <1>7 DEF Values, AddDigit
  <1> DEFINE f == Values(s)
  <1> HIDE DEF f
  <1>9. f = [k \in Nat |-> IF k = 0 THEN 0 ELSE AddDigit(s, k, f[k - 1])]
    BY <1>8 DEF f
  <1>10. f[0] = 0
    BY <1>9
  <1>11. ASSUME NEW k \in Nat PROVE f[k + 1] = AddDigit(s, k + 1, f[k])
    <2>1. k + 1 \in Nat /\ k + 1 # 0 /\ (k + 1) - 1 = k
      OBVIOUS
    <2> QED
      BY <1>9, <2>1
  <1> QED
    BY <1>10, <1>11 DEF f

\* So is what a number of iterations leads to.
LEMMA UserParamsDef ==
  ASSUME NEW t, NEW i
  PROVE  /\ UserParams(t, i)[0] = FirstParam(i)
         /\ \A k \in Nat : UserParams(t, i)[k + 1] = ParamAfter(t, k + 1, UserParams(t, i)[k])
  <1> DEFINE IsPart(p, n) ==
                 p = [k \in 0 .. n |-> IF k = 0 THEN FirstParam(i) ELSE ParamAfter(t, k, p[k - 1])]
             Part(n) == CHOOSE p : IsPart(p, n)
             S == {n \in Nat : \E p : IsPart(p, n)}
             w == [n \in Nat |-> Part(n)[n]]
             IsAll(f) == f = [k \in Nat |-> IF k = 0 THEN FirstParam(i) ELSE ParamAfter(t, k, f[k - 1])]
  <1>1. 0 \in S
    <2> DEFINE p == [k \in 0 .. 0 |-> FirstParam(i)]
    <2>1. IsPart(p, 0)
      OBVIOUS
    <2> QED
      BY <2>1
  <1>2. ASSUME NEW n \in Nat, n \in S PROVE n + 1 \in S
    <2>1. PICK p : IsPart(p, n)
      BY <1>2
    <2> DEFINE q == [k \in 0 .. n + 1 |-> IF k = n + 1 THEN ParamAfter(t, n + 1, p[n]) ELSE p[k]]
    <2>2. q = [k \in 0 .. n + 1 |-> IF k = 0 THEN FirstParam(i) ELSE ParamAfter(t, k, q[k - 1])]
      <3> SUFFICES ASSUME NEW k \in 0 .. n + 1
                   PROVE  q[k] = IF k = 0 THEN FirstParam(i) ELSE ParamAfter(t, k, q[k - 1])
        OBVIOUS
      <3>1. CASE k = n + 1
        <4>1. k - 1 = n /\ n \in 0 .. n + 1 /\ n # n + 1 /\ k # 0
          BY <3>1
        <4> QED
          BY <3>1, <4>1
      <3>2. CASE k # n + 1 /\ k = 0
        <4>1. p[0] = FirstParam(i)
          BY <2>1
        <4> QED
          BY <3>2, <4>1
      <3>3. CASE k # n + 1 /\ k # 0
        <4>1. k \in 0 .. n /\ k - 1 \in 0 .. n + 1 /\ k - 1 # n + 1
          BY <3>3
        <4>2. p[k] = ParamAfter(t, k, p[k - 1])
          BY <2>1, <3>3, <4>1
        <4>3. q[k] = p[k] /\ q[k - 1] = p[k - 1]
          BY <3>3, <4>1
        <4> QED
          BY <3>3, <4>2, <4>3
      <3> QED
        BY <3>1, <3>2, <3>3
    <2> HIDE DEF q
    <2> QED
      BY <2>2
  <1>3. Nat \subseteq S
    <2> HIDE DEF S
    <2> QED
      BY <1>1, <1>2, AllNats
  <1>4. \A n \in Nat : IsPart(Part(n), n)
    BY <1>3
  <1> HIDE DEF Part
  <1>5. /\ \A n \in Nat : Part(n)[0] = FirstParam(i)
        /\ \A n \in Nat : \A k \in 1 .. n : Part(n)[k] = ParamAfter(t, k, Part(n)[k - 1])
    <2>1. \A n \in Nat : \A k \in 0 .. n :
              Part(n)[k] = IF k = 0 THEN FirstParam(i) ELSE ParamAfter(t, k, Part(n)[k - 1])
      BY <1>4
    <2> QED
      BY <2>1
  <1>6. \A k \in Nat : \A n \in Nat : k <= n => Part(n)[k] = Part(k)[k]
    <2> DEFINE T == {k \in Nat : \A m, n \in Nat : k <= n /\ k <= m => Part(n)[k] = Part(m)[k]}
    <2>1. 0 \in T
      BY <1>5
    <2>2. ASSUME NEW k \in Nat, k \in T PROVE k + 1 \in T
      <3> SUFFICES ASSUME NEW m \in Nat, NEW n \in Nat, k + 1 <= n, k + 1 <= m
                   PROVE  Part(n)[k + 1] = Part(m)[k + 1]
        OBVIOUS
      <3>1. Part(n)[k] = Part(m)[k]
        BY <2>2
      <3>2. k + 1 \in 1 .. n /\ k + 1 \in 1 .. m /\ (k + 1) - 1 = k
        OBVIOUS
      <3> QED
        BY <1>5, <3>1, <3>2
    <2>3. Nat \subseteq T
      <3> HIDE DEF T
      <3> QED
        BY <2>1, <2>2, AllNats
    <2> QED
      BY <2>3
  <1>7. IsAll(w)
    <2> SUFFICES ASSUME NEW k \in Nat
                 PROVE  w[k] = IF k = 0 THEN FirstParam(i) ELSE ParamAfter(t, k, w[k - 1])
      OBVIOUS
    <2>1. CASE k = 0
      BY <1>5, <2>1
    <2>2. CASE k # 0
      <3>1. k \in 1 .. k /\ k - 1 \in Nat /\ k - 1 <= k
        BY <2>2
      <3>2. Part(k)[k] = ParamAfter(t, k, Part(k)[k - 1]) /\ Part(k)[k - 1] = Part(k - 1)[k - 1]
        BY <1>5, <1>6, <3>1
      <3> QED
        BY <2>2, <3>1, <3>2
    <2> QED
      BY <2>1, <2>2
  <1> HIDE DEF w
  <1>8. IsAll(UserParams(t, i))
    BY <1>7 DEF UserParams, ParamAfter, FirstParam
  <1> DEFINE f == UserParams(t, i)
  <1> HIDE DEF f
  <1>9. f = [k \in Nat |-> IF k = 0 THEN FirstParam(i) ELSE ParamAfter(t, k, f[k - 1])]
    BY <1>8 DEF f
  <1>10. f[0] = FirstParam(i)
    BY <1>9
  <1>11. ASSUME NEW k \in Nat PROVE f[k + 1] = ParamAfter(t, k + 1, f[k])
    <2>1. k + 1 \in Nat /\ k + 1 # 0 /\ (k + 1) - 1 = k
      OBVIOUS
    <2> QED
      BY <1>9, <2>1
  <1> QED
    BY <1>10, <1>11 DEF f

\* Over the parameters and over the entries.
LEMMA UserEntriesDef ==
  ASSUME NEW t
  PROVE  /\ UserEntries(t)[0] = FirstEntry
         /\ \A k \in Nat : UserEntries(t)[k + 1] = EntryAfter(t, k + 1, UserEntries(t)[k])
  <1> DEFINE IsPart(p, n) ==
                 p = [k \in 0 .. n |-> IF k = 0 THEN FirstEntry ELSE EntryAfter(t, k, p[k - 1])]
             Part(n) == CHOOSE p : IsPart(p, n)
             S == {n \in Nat : \E p : IsPart(p, n)}
             w == [n \in Nat |-> Part(n)[n]]
             IsAll(f) == f = [k \in Nat |-> IF k = 0 THEN FirstEntry ELSE EntryAfter(t, k, f[k - 1])]
  <1>1. 0 \in S
    <2> DEFINE p == [k \in 0 .. 0 |-> FirstEntry]
    <2>1. IsPart(p, 0)
      OBVIOUS
    <2> QED
      BY <2>1
  <1>2. ASSUME NEW n \in Nat, n \in S PROVE n + 1 \in S
    <2>1. PICK p : IsPart(p, n)
      BY <1>2
    <2> DEFINE q == [k \in 0 .. n + 1 |-> IF k = n + 1 THEN EntryAfter(t, n + 1, p[n]) ELSE p[k]]
    <2>2. q = [k \in 0 .. n + 1 |-> IF k = 0 THEN FirstEntry ELSE EntryAfter(t, k, q[k - 1])]
      <3> SUFFICES ASSUME NEW k \in 0 .. n + 1
                   PROVE  q[k] = IF k = 0 THEN FirstEntry ELSE EntryAfter(t, k, q[k - 1])
        OBVIOUS
      <3>1. CASE k = n + 1
        <4>1. k - 1 = n /\ n \in 0 .. n + 1 /\ n # n + 1 /\ k # 0
          BY <3>1
        <4> QED
          BY <3>1, <4>1
      <3>2. CASE k # n + 1 /\ k = 0
        <4>1. p[0] = FirstEntry
          BY <2>1
        <4> QED
          BY <3>2, <4>1
      <3>3. CASE k # n + 1 /\ k # 0
        <4>1. k \in 0 .. n /\ k - 1 \in 0 .. n + 1 /\ k - 1 # n + 1
          BY <3>3
        <4>2. p[k] = EntryAfter(t, k, p[k - 1])
          BY <2>1, <3>3, <4>1
        <4>3. q[k] = p[k] /\ q[k - 1] = p[k - 1]
          BY <3>3, <4>1
        <4> QED
          BY <3>3, <4>2, <4>3
      <3> QED
        BY <3>1, <3>2, <3>3
    <2> HIDE DEF q
    <2> QED
      BY <2>2
  <1>3. Nat \subseteq S
    <2> HIDE DEF S
    <2> QED
      BY <1>1, <1>2, AllNats
  <1>4. \A n \in Nat : IsPart(Part(n), n)
    BY <1>3
  <1> HIDE DEF Part
  <1>5. /\ \A n \in Nat : Part(n)[0] = FirstEntry
        /\ \A n \in Nat : \A k \in 1 .. n : Part(n)[k] = EntryAfter(t, k, Part(n)[k - 1])
    <2>1. \A n \in Nat : \A k \in 0 .. n :
              Part(n)[k] = IF k = 0 THEN FirstEntry ELSE EntryAfter(t, k, Part(n)[k - 1])
      BY <1>4
    <2> QED
      BY <2>1
  <1>6. \A k \in Nat : \A n \in Nat : k <= n => Part(n)[k] = Part(k)[k]
    <2> DEFINE T == {k \in Nat : \A m, n \in Nat : k <= n /\ k <= m => Part(n)[k] = Part(m)[k]}
    <2>1. 0 \in T
      BY <1>5
    <2>2. ASSUME NEW k \in Nat, k \in T PROVE k + 1 \in T
      <3> SUFFICES ASSUME NEW m \in Nat, NEW n \in Nat, k + 1 <= n, k + 1 <= m
                   PROVE  Part(n)[k + 1] = Part(m)[k + 1]
        OBVIOUS
      <3>1. Part(n)[k] = Part(m)[k]
        BY <2>2
      <3>2. k + 1 \in 1 .. n /\ k + 1 \in 1 .. m /\ (k + 1) - 1 = k
        OBVIOUS
      <3> QED
        BY <1>5, <3>1, <3>2
    <2>3. Nat \subseteq T
      <3> HIDE DEF T
      <3> QED
        BY <2>1, <2>2, AllNats
    <2> QED
      BY <2>3
  <1>7. IsAll(w)
    <2> SUFFICES ASSUME NEW k \in Nat
                 PROVE  w[k] = IF k = 0 THEN FirstEntry ELSE EntryAfter(t, k, w[k - 1])
      OBVIOUS
    <2>1. CASE k = 0
      BY <1>5, <2>1
    <2>2. CASE k # 0
      <3>1. k \in 1 .. k /\ k - 1 \in Nat /\ k - 1 <= k
        BY <2>2
      <3>2. Part(k)[k] = EntryAfter(t, k, Part(k)[k - 1]) /\ Part(k)[k - 1] = Part(k - 1)[k - 1]
        BY <1>5, <1>6, <3>1
      <3> QED
        BY <2>2, <3>1, <3>2
    <2> QED
      BY <2>1, <2>2
  <1> HIDE DEF w
  <1>8. IsAll(UserEntries(t))
    BY <1>7 DEF UserEntries, EntryAfter, FirstEntry
  <1> DEFINE f == UserEntries(t)
  <1> HIDE DEF f
  <1>9. f = [k \in Nat |-> IF k = 0 THEN FirstEntry ELSE EntryAfter(t, k, f[k - 1])]
    BY <1>8 DEF f
  <1>10. f[0] = FirstEntry
    BY <1>9
  <1>11. ASSUME NEW k \in Nat PROVE f[k + 1] = EntryAfter(t, k + 1, f[k])
    <2>1. k + 1 \in Nat /\ k + 1 # 0 /\ (k + 1) - 1 = k
      OBVIOUS
    <2> QED
      BY <1>9, <2>1
  <1> QED
    BY <1>10, <1>11 DEF f

-----------------------------------------------------------------------------
\* Numbers.

DecimalOf(k, shorter) == IF k < 10 THEN <<Digits[k + 1]>> ELSE Append(shorter, Digits[(k % 10) + 1])

\* The digits of a number are well defined: each is a digit behind those of a
\* smaller one.
LEMMA DecimalsDef == \A k \in Nat : Decimals[k] = DecimalOf(k, Decimals[k \div 10])
  <1> DEFINE IsPart(p, n) == p = [k \in 0 .. n |-> DecimalOf(k, p[k \div 10])]
             Part(n) == CHOOSE p : IsPart(p, n)
             S == {n \in Nat : \E p : IsPart(p, n)}
             w == [n \in Nat |-> Part(n)[n]]
             IsAll(f) == f = [k \in Nat |-> DecimalOf(k, f[k \div 10])]
  <1>0. \A k \in Nat : k \div 10 \in 0 .. k /\ (k # 0 => k \div 10 \in 0 .. k - 1)
    OBVIOUS
  <1>d. \A x, y : DecimalOf(0, x) = DecimalOf(0, y)
    BY DEF DecimalOf
  <1>1. 0 \in S
    <2> DEFINE p == [k \in 0 .. 0 |-> DecimalOf(k, <<>>)]
    <2>1. p = [k \in 0 .. 0 |-> DecimalOf(k, p[k \div 10])]
      <3> SUFFICES ASSUME NEW k \in 0 .. 0 PROVE DecimalOf(k, <<>>) = DecimalOf(k, p[k \div 10])
        OBVIOUS
      <3> HIDE DEF p
      <3>1. k = 0
        OBVIOUS
      <3> QED
        BY <1>d, <3>1
    <2> HIDE DEF p
    <2>2. IsPart(p, 0)
      BY <2>1
    <2> QED
      BY <2>2
  <1>2. ASSUME NEW n \in Nat, n \in S PROVE n + 1 \in S
    <2>1. PICK p : IsPart(p, n)
      BY <1>2
    <2> DEFINE q == [k \in 0 .. n + 1 |->
                        IF k = n + 1 THEN DecimalOf(n + 1, p[(n + 1) \div 10]) ELSE p[k]]
    <2>2. q = [k \in 0 .. n + 1 |-> DecimalOf(k, q[k \div 10])]
      <3> SUFFICES ASSUME NEW k \in 0 .. n + 1
                   PROVE  q[k] = DecimalOf(k, q[k \div 10])
        OBVIOUS
      <3>1. CASE k = n + 1
        <4>1. (n + 1) \div 10 \in 0 .. n
          BY <1>0
        <4>2. q[(n + 1) \div 10] = p[(n + 1) \div 10]
          BY <4>1
        <4>3. q[n + 1] = DecimalOf(n + 1, p[(n + 1) \div 10])
          OBVIOUS
        <4> HIDE DEF q
        <4> QED
          BY <3>1, <4>2, <4>3
      <3>2. CASE k # n + 1
        <4>1. k \in 0 .. n /\ k \div 10 \in 0 .. n
          BY <1>0, <3>2
        <4>2. p[k] = DecimalOf(k, p[k \div 10])
          BY <2>1, <4>1
        <4>3. q[k] = p[k] /\ q[k \div 10] = p[k \div 10]
          BY <3>2, <4>1
        <4> HIDE DEF q
        <4> QED
          BY <4>2, <4>3
      <3> QED
        BY <3>1, <3>2
    <2> HIDE DEF q
    <2>3. IsPart(q, n + 1)
      BY <2>2
    <2> QED
      BY <2>3
  <1>3. Nat \subseteq S
    <2> HIDE DEF S
    <2> QED
      BY <1>1, <1>2, AllNats
  <1>4. \A n \in Nat : IsPart(Part(n), n)
    BY <1>3
  <1> HIDE DEF Part
  <1>5. \A n \in Nat : \A k \in 0 .. n : Part(n)[k] = DecimalOf(k, Part(n)[k \div 10])
    BY <1>4
  <1>6. \A k \in Nat : \A n \in Nat : k <= n => Part(n)[k] = Part(k)[k]
    <2> DEFINE T == {k \in Nat : \A j \in 0 .. k : \A m, n \in Nat :
                        j <= n /\ j <= m => Part(n)[j] = Part(m)[j]}
    <2>1. 0 \in T
      <3> SUFFICES ASSUME NEW j \in 0 .. 0, NEW m \in Nat, NEW n \in Nat PROVE Part(n)[j] = Part(m)[j]
        OBVIOUS
      <3>1. j = 0 /\ 0 \in 0 .. n /\ 0 \in 0 .. m
        OBVIOUS
      <3> QED
        BY <1>5, <1>d, <3>1
    <2>2. ASSUME NEW k \in Nat, k \in T PROVE k + 1 \in T
      <3> SUFFICES ASSUME NEW j \in 0 .. k + 1, NEW m \in Nat, NEW n \in Nat, j <= n, j <= m
                   PROVE  Part(n)[j] = Part(m)[j]
        OBVIOUS
      <3>1. CASE j # k + 1
        <4>1. j \in 0 .. k
          BY <3>1
        <4> QED
          BY <2>2, <4>1
      <3>2. CASE j = k + 1
        <4> DEFINE h == j \div 10
        <4>1. h \in 0 .. k /\ h <= n /\ h <= m
          BY <1>0, <3>2
        <4>2. Part(n)[h] = Part(m)[h]
          BY <2>2, <4>1
        <4>3. j \in 0 .. n /\ j \in 0 .. m
          OBVIOUS
        <4>4. Part(n)[j] = DecimalOf(j, Part(n)[h]) /\ Part(m)[j] = DecimalOf(j, Part(m)[h])
          BY <1>5, <4>3
        <4> QED
          BY <4>2, <4>4
      <3> QED
        BY <3>1, <3>2
    <2>3. Nat \subseteq T
      <3> HIDE DEF T
      <3> QED
        BY <2>1, <2>2, AllNats
    <2>4. ASSUME NEW k \in Nat, NEW n \in Nat, k <= n PROVE Part(n)[k] = Part(k)[k]
      <3>1. \A j \in 0 .. k : \A m, l \in Nat : j <= l /\ j <= m => Part(l)[j] = Part(m)[j]
        BY <2>3
      <3>2. k \in 0 .. k /\ k <= k
        OBVIOUS
      <3> QED
        BY <2>4, <3>1, <3>2
    <2> QED
      BY <2>4
  <1>7. IsAll(w)
    <2> SUFFICES ASSUME NEW k \in Nat PROVE w[k] = DecimalOf(k, w[k \div 10])
      OBVIOUS
    <2> DEFINE h == k \div 10
    <2>1. h \in Nat /\ h <= k
      BY <1>0
    <2>2. Part(k)[k] = DecimalOf(k, Part(k)[h])
      BY <1>5
    <2> HIDE DEF h
    <2>3. Part(k)[h] = Part(h)[h]
      BY <1>6, <2>1
    <2>4. w[k] = Part(k)[k] /\ w[h] = Part(h)[h]
      BY <2>1
    <2>5. w[k] = DecimalOf(k, w[h])
      BY <2>2, <2>3, <2>4
    <2> QED
      BY <2>5 DEF h
  <1> HIDE DEF w
  <1>8. IsAll(Decimals)
    BY <1>7 DEF Decimals, DecimalOf
  <1> DEFINE f == Decimals
  <1> HIDE DEF f
  <1>9. f = [k \in Nat |-> DecimalOf(k, f[k \div 10])]
    BY <1>8 DEF f
  <1>10. \A k \in Nat : f[k] = DecimalOf(k, f[k \div 10])
    BY <1>9
  <1> QED
    BY <1>10 DEF f

Punct == {"(", ")", "=", " ", "\n"}
DigitChars == {Digits[d + 1] : d \in 0 .. 9}

\* The value of each digit.
LEMMA DigitsOK ==
  ASSUME NEW d \in 0 .. 9
  PROVE  Digits[d + 1] \in DigitChars /\ DigitVal(Digits[d + 1]) = d
  <1> DEFINE c == Digits[d + 1]
             I == {i \in 1 .. 10 : Digits[i] = c}
  <1>1. \A i, j \in 1 .. 10 : Digits[i] = Digits[j] => i = j
    BY DEF Digits
  <1>2. d + 1 \in I /\ \A i \in I : i = d + 1
    BY <1>1
  <1>3. I # {} /\ I \subseteq Nat
    BY <1>2
  <1>4. Min(I) \in I
    BY <1>3, LeastOf
  <1>5. Min(I) = d + 1
    BY <1>2, <1>4
  <1>6. Len(Digits) = 10
    BY DEF Digits
  <1>7. SelectInSeq(Digits, LAMBDA x : x = c) = d + 1
    BY <1>3, <1>5, <1>6 DEF SelectInSeq
  <1>8. DigitVal(c) = d
    BY <1>7 DEF DigitVal
  <1> QED
    BY <1>8 DEF DigitChars

\* No digit is one of the characters the parser looks for.
LEMMA DigitCharsOK ==
  /\ DigitChars \cap Punct = {}
  /\ \A c \in DigitChars : IsDigit(c)
  <1> DEFINE D == {"0", "1", "2", "3", "4", "5", "6", "7", "8", "9"}
  <1>0. \A i \in 1 .. 10 : Digits[i] \in D
    BY DEF Digits
  <1>3. D \cap Punct = {}
    BY DEF Punct
  <1> HIDE DEF D
  <1>1. \A d \in 0 .. 9 : Digits[d + 1] \notin Punct
    <2> SUFFICES ASSUME NEW d \in 0 .. 9 PROVE Digits[d + 1] \notin Punct
      OBVIOUS
    <2>1. d + 1 \in 1 .. 10
      OBVIOUS
    <2>2. Digits[d + 1] \in D
      BY <1>0, <2>1
    <2> QED
      BY <1>3, <2>2
  <1>2. \A d \in 0 .. 9 : DigitVal(Digits[d + 1]) >= 0
    BY DigitsOK
  <1> QED
    BY <1>1, <1>2 DEF DigitChars, IsDigit

\* The value of a text with one more digit.
LEMMA ValueAppend ==
  ASSUME NEW s \in Seq(DigitChars), NEW c \in DigitChars
  PROVE  Value(Append(s, c)) = 10 * Value(s) + DigitVal(c)
  <1> DEFINE a == Append(s, c)
             n == Len(s)
             T == {k \in Nat : k <= n => Values(a)[k] = Values(s)[k]}
  <1>0. n \in Nat /\ Len(a) = n + 1 /\ a[n + 1] = c /\ \A i \in 1 .. n : a[i] = s[i]
    OBVIOUS
  <1> HIDE DEF a, n
  <1>v. \A x : Values(x)[0] = 0 /\ \A k \in Nat : Values(x)[k + 1] = AddDigit(x, k + 1, Values(x)[k])
    BY ValuesDef
  <1>1. 0 \in T
    BY <1>v
  <1>2. ASSUME NEW k \in Nat, k \in T PROVE k + 1 \in T
    <2> SUFFICES ASSUME k + 1 <= n PROVE Values(a)[k + 1] = Values(s)[k + 1]
      OBVIOUS
    <2>1. Values(a)[k] = Values(s)[k] /\ a[k + 1] = s[k + 1]
      BY <1>0, <1>2
    <2>2. AddDigit(a, k + 1, Values(a)[k]) = AddDigit(s, k + 1, Values(s)[k])
      BY <2>1 DEF AddDigit
    <2> QED
      BY <1>v, <2>2
  <1>3. Nat \subseteq T
    <2> HIDE DEF T
    <2> QED
      BY <1>1, <1>2, AllNats
  <1>4. Values(a)[n] = Values(s)[n]
    BY <1>0, <1>3
  <1>5. Values(a)[n + 1] = AddDigit(a, n + 1, Values(a)[n])
    BY <1>0, <1>v
  <1>6. Values(a)[n + 1] = 10 * Values(s)[n] + DigitVal(c)
    BY <1>0, <1>4, <1>5 DEF AddDigit
  <1> QED
    BY <1>0, <1>6 DEF Value, a, n

\* fromu writes digits, and their value is the number.
LEMMA FromuOK ==
  \A n \in Nat : Fromu(n) \in Seq(DigitChars) /\ Len(Fromu(n)) >= 1 /\ Value(Fromu(n)) = n
  <1> DEFINE P(n) == Fromu(n) \in Seq(DigitChars) /\ Len(Fromu(n)) >= 1 /\ Value(Fromu(n)) = n
             T == {n \in Nat : \A k \in 0 .. n : P(k)}
  <1>1. ASSUME NEW k \in 0 .. 9 PROVE P(k)
    <2> DEFINE c == Digits[k + 1]
               e == <<>>
    <2>1. Fromu(k) = <<c>>
      <3>1. k \in Nat /\ k < 10
        OBVIOUS
      <3>2. Decimals[k] = DecimalOf(k, Decimals[k \div 10])
        BY <3>1, DecimalsDef
      <3> QED
        BY <3>1, <3>2 DEF Fromu, DecimalOf
    <2>2. c \in DigitChars /\ DigitVal(c) = k
      BY DigitsOK
    <2>3. e \in Seq(DigitChars) /\ Append(e, c) = <<c>> /\ Len(e) = 0
      BY <2>2
    <2> HIDE DEF c, e
    <2>4. Value(Append(e, c)) = 10 * Value(e) + DigitVal(c)
      BY <2>2, <2>3, ValueAppend
    <2>5. Value(e) = 0
      BY <2>3, ValuesDef DEF Value
    <2>6. Value(<<c>>) = k
      BY <2>2, <2>3, <2>4, <2>5
    <2>7. <<c>> \in Seq(DigitChars) /\ Len(<<c>>) = 1
      BY <2>2
    <2> QED
      BY <2>1, <2>6, <2>7
  <1>2. 0 \in T
    BY <1>1
  <1>3. ASSUME NEW n \in Nat, n \in T PROVE n + 1 \in T
    <2> SUFFICES ASSUME n + 1 >= 10 PROVE P(n + 1)
      <3>1. ASSUME NEW k \in 0 .. n + 1 PROVE P(k)
        <4> HIDE DEF P
        <4>1. CASE k = n + 1 /\ n + 1 < 10
          <5>1. k \in 0 .. 9
            BY <4>1
          <5> QED
            BY <1>1, <5>1
        <4>2. CASE k = n + 1 /\ n + 1 >= 10
          BY <4>2
        <4>3. CASE k # n + 1
          <5>1. k \in 0 .. n
            BY <4>3
          <5> QED
            BY <1>3, <5>1
        <4> QED
          BY <4>1, <4>2, <4>3
      <3> QED
        BY <3>1
    <2> DEFINE j == n + 1
               h == j \div 10
               d == j % 10
               c == Digits[d + 1]
               s == Fromu(h)
    <2>1. h \in 0 .. n /\ d \in 0 .. 9 /\ j = 10 * h + d /\ j \in Nat /\ ~(j < 10)
      OBVIOUS
    <2>2. P(h)
      BY <1>3, <2>1
    <2>3. Decimals[j] = DecimalOf(j, Decimals[h])
      BY <2>1, DecimalsDef
    <2>4. Fromu(j) = Append(s, c)
      BY <2>1, <2>3 DEF Fromu, DecimalOf
    <2>5. c \in DigitChars /\ DigitVal(c) = d
      BY <2>1, DigitsOK
    <2>6. s \in Seq(DigitChars) /\ Len(s) >= 1 /\ Value(s) = h
      BY <2>2
    <2> HIDE DEF j, h, d, c, s
    <2>7. Value(Append(s, c)) = 10 * Value(s) + DigitVal(c)
      BY <2>5, <2>6, ValueAppend
    <2>8. Append(s, c) \in Seq(DigitChars) /\ Len(Append(s, c)) >= 1
      BY <2>5, <2>6
    <2>9. Value(Append(s, c)) = j
      BY <2>1, <2>5, <2>6, <2>7
    <2>10. P(j)
      BY <2>4, <2>8, <2>9
    <2> QED
      BY <2>10 DEF j
  <1>4. Nat \subseteq T
    <2> HIDE DEF T
    <2> QED
      BY <1>2, <1>3, AllNats
  <1>5. ASSUME NEW n \in Nat PROVE P(n)
    <2>1. \A k \in 0 .. n : P(k)
      BY <1>4
    <2>2. n \in 0 .. n
      OBVIOUS
    <2> HIDE DEF P
    <2> QED
      BY <2>1, <2>2
  <1> QED
    BY <1>5

\* stou reads what fromu wrote.
LEMMA StouFromu ==
  ASSUME NEW n \in Nat
  PROVE  Stou(Fromu(n)) = n
  <1> DEFINE s == Fromu(n)
  <1>1. s \in Seq(DigitChars) /\ Value(s) = n
    BY FromuOK
  <1> HIDE DEF s
  <1>2. \A i \in DOMAIN s : IsDigit(s[i])
    <2>1. \A i \in DOMAIN s : s[i] \in DigitChars
      BY <1>1
    <2> QED
      BY <2>1, DigitCharsOK
  <1>3. {i \in DOMAIN s : ~IsDigit(s[i])} = {}
    BY <1>2
  <1>4. Stou(s) = n
    BY <1>1, <1>3 DEF Stou
  <1> QED
    BY <1>4 DEF s

-----------------------------------------------------------------------------
\* Texts put together.

Cat(ss, i, s) == IF i = 1 THEN ss[i] ELSE s \o ss[i]

\* FlattenSeq by its steps: the pieces one after the other.
LEMMA FlattenDef ==
  ASSUME NEW ss, NEW n \in Nat, n >= 1, Len(ss) = n
  PROVE  \E F : /\ FlattenSeq(ss) = F[n]
                /\ \A i \in 1 .. n : F[i] = Cat(ss, i, F[i - 1])
  <1> DEFINE IsPart(p, k) == p = [i \in 1 .. k |-> Cat(ss, i, p[i - 1])]
             S == {k \in Nat : \E p : IsPart(p, k)}
             F == CHOOSE p : IsPart(p, n)
  <1>1. 0 \in S
    <2> DEFINE p == [i \in 1 .. 0 |-> Cat(ss, i, <<>>)]
    <2>1. IsPart(p, 0)
      OBVIOUS
    <2> QED
      BY <2>1
  <1>2. ASSUME NEW k \in Nat, k \in S PROVE k + 1 \in S
    <2>1. PICK p : IsPart(p, k)
      BY <1>2
    <2> DEFINE q == [i \in 1 .. k + 1 |-> IF i = k + 1 THEN Cat(ss, k + 1, p[k]) ELSE p[i]]
    <2>2. q = [i \in 1 .. k + 1 |-> Cat(ss, i, q[i - 1])]
      <3> SUFFICES ASSUME NEW i \in 1 .. k + 1 PROVE q[i] = Cat(ss, i, q[i - 1])
        OBVIOUS
      <3>1. CASE i = k + 1
        <4>1. CASE k = 0
          BY <3>1, <4>1 DEF Cat
        <4>2. CASE k # 0
          <5>1. k \in 1 .. k + 1 /\ k # k + 1 /\ i - 1 = k
            BY <3>1, <4>2
          <5> QED
            BY <3>1, <5>1
        <4> QED
          BY <4>1, <4>2
      <3>2. CASE i # k + 1
        <4>1. i \in 1 .. k
          BY <3>2
        <4>2. p[i] = Cat(ss, i, p[i - 1])
          BY <2>1, <4>1
        <4>3. CASE i = 1
          BY <3>2, <4>2, <4>3 DEF Cat
        <4>4. CASE i # 1
          <5>1. i - 1 \in 1 .. k + 1 /\ i - 1 # k + 1
            BY <4>1, <4>4
          <5> QED
            BY <3>2, <4>2, <5>1
        <4> QED
          BY <4>3, <4>4
      <3> QED
        BY <3>1, <3>2
    <2> HIDE DEF q
    <2>3. IsPart(q, k + 1)
      BY <2>2
    <2> QED
      BY <2>3
  <1>3. Nat \subseteq S
    <2> HIDE DEF S
    <2> QED
      BY <1>1, <1>2, AllNats
  <1>4. IsPart(F, n)
    BY <1>3
  <1>5. FlattenSeq(ss) = F[n]
    BY DEF FlattenSeq, Cat
  <1> HIDE DEF F
  <1>6. \A i \in 1 .. n : F[i] = Cat(ss, i, F[i - 1])
    BY <1>4
  <1> QED
    BY <1>5, <1>6

\* Where each piece is in the whole.
LEMMA FlattenAt ==
  ASSUME NEW W, NEW ss \in Seq(Seq(W))
  PROVE  /\ FlattenSeq(ss) \in Seq(W)
         /\ \E off \in [0 .. Len(ss) -> Nat] :
               /\ off[0] = 0 /\ off[Len(ss)] = Len(FlattenSeq(ss))
               /\ \A k \in 1 .. Len(ss) :
                     /\ off[k] = off[k - 1] + Len(ss[k])
                     /\ \A j \in 1 .. Len(ss[k]) : FlattenSeq(ss)[off[k - 1] + j] = ss[k][j]
  <1> DEFINE n == Len(ss)
             whole == FlattenSeq(ss)
  <1>0. n \in Nat /\ \A k \in 1 .. n : ss[k] \in Seq(W)
    OBVIOUS
  <1>1. CASE n = 0
    <2> DEFINE off == [k \in 0 .. n |-> 0]
    <2>1. whole = <<>>
      BY <1>1 DEF FlattenSeq
    <2>2. whole \in Seq(W) /\ Len(whole) = 0
      BY <2>1
    <2> HIDE DEF whole
    <2>3. off \in [0 .. n -> Nat] /\ off[0] = 0 /\ off[n] = 0 /\ 1 .. n = {}
      BY <1>1
    <2> HIDE DEF off, n
    <2> QED
      BY <2>2, <2>3 DEF whole, n
  <1>2. CASE n # 0
    <2>1. n >= 1
      BY <1>0, <1>2
    <2>2. PICK F : whole = F[n] /\ \A i \in 1 .. n : F[i] = Cat(ss, i, F[i - 1])
      BY <1>0, <2>1, FlattenDef
    <2> HIDE DEF n, whole
    <2>3. F[1] = ss[1] /\ \A i \in 1 .. n : i # 1 => F[i] = F[i - 1] \o ss[i]
      <3>1. 1 \in 1 .. n
        BY <1>0, <2>1
      <3>2. F[1] = Cat(ss, 1, F[1 - 1])
        BY <2>2, <3>1
      <3>3. Cat(ss, 1, F[1 - 1]) = ss[1]
        BY DEF Cat
      <3>4. ASSUME NEW i \in 1 .. n, i # 1 PROVE F[i] = F[i - 1] \o ss[i]
        <4>1. Cat(ss, i, F[i - 1]) = F[i - 1] \o ss[i]
          BY <3>4 DEF Cat
        <4> QED
          BY <2>2, <4>1
      <3> QED
        BY <3>2, <3>3, <3>4
    <2> DEFINE Pre(a, b) == Len(a) <= Len(b) /\ \A j \in 1 .. Len(a) : b[j] = a[j]
               T == {k \in Nat : k + 1 <= n =>
                         F[k + 1] \in Seq(W) /\ \A i \in 1 .. k + 1 : Pre(F[i], F[k + 1])}
    <2>4. 0 \in T
      <3>1. F[1] \in Seq(W)
        BY <1>0, <2>1, <2>3
      <3>2. \A i \in 1 .. 0 + 1 : Pre(F[i], F[0 + 1])
        BY <3>1
      <3> QED
        BY <3>1, <3>2
    <2>5. ASSUME NEW k \in Nat, k \in T PROVE k + 1 \in T
      <3> SUFFICES ASSUME (k + 1) + 1 <= n
                   PROVE  /\ F[(k + 1) + 1] \in Seq(W)
                          /\ \A i \in 1 .. (k + 1) + 1 : Pre(F[i], F[(k + 1) + 1])
        OBVIOUS
      <3> DEFINE a == F[k + 1]
                 b == ss[(k + 1) + 1]
                 c == F[(k + 1) + 1]
      <3>1. a \in Seq(W) /\ \A i \in 1 .. k + 1 : Pre(F[i], a)
        BY <1>0, <2>5
      <3>2. b \in Seq(W)
        BY <1>0
      <3>3. c = a \o b
        <4>1. (k + 1) + 1 \in 1 .. n /\ (k + 1) + 1 # 1 /\ ((k + 1) + 1) - 1 = k + 1
          BY <1>0
        <4> QED
          BY <2>3, <4>1
      <3> HIDE DEF a, b, c
      <3>4. c \in Seq(W) /\ Pre(a, c) /\ Pre(c, c)
        BY <3>1, <3>2, <3>3
      <3>5. ASSUME NEW i \in 1 .. (k + 1) + 1 PROVE Pre(F[i], c)
        <4>1. CASE i = (k + 1) + 1
          BY <3>4, <4>1 DEF c
        <4>2. CASE i # (k + 1) + 1
          <5>1. i \in 1 .. k + 1
            BY <4>2
          <5> DEFINE f == F[i]
          <5>2. Pre(f, a)
            BY <3>1, <5>1
          <5> HIDE DEF f
          <5>3. Pre(f, c)
            BY <3>1, <3>4, <5>2
          <5> QED
            BY <5>3 DEF f
        <4> QED
          BY <4>1, <4>2
      <3> QED
        BY <3>4, <3>5 DEF c
    <2>6. Nat \subseteq T
      <3> HIDE DEF T
      <3> QED
        BY <2>4, <2>5, AllNats
    <2>7. ASSUME NEW k \in 1 .. n PROVE F[k] \in Seq(W) /\ \A i \in 1 .. k : Pre(F[i], F[k])
      <3> DEFINE m == k - 1
      <3>1. m \in Nat /\ m + 1 = k /\ m + 1 <= n
        BY <1>0
      <3> HIDE DEF m
      <3>2. F[m + 1] \in Seq(W) /\ \A i \in 1 .. m + 1 : Pre(F[i], F[m + 1])
        BY <2>6, <3>1
      <3> QED
        BY <3>1, <3>2
    <2> DEFINE off == [k \in 0 .. n |-> IF k = 0 THEN 0 ELSE Len(F[k])]
    <2>8. whole \in Seq(W)
      BY <1>0, <2>1, <2>2, <2>7
    <2>9. off \in [0 .. n -> Nat] /\ off[0] = 0 /\ off[n] = Len(whole)
      BY <1>0, <2>1, <2>2, <2>7
    <2>10. ASSUME NEW k \in 1 .. n
           PROVE  /\ off[k] = off[k - 1] + Len(ss[k])
                  /\ \A j \in 1 .. Len(ss[k]) : whole[off[k - 1] + j] = ss[k][j]
      <3>1. Pre(F[k], whole) /\ F[k] \in Seq(W) /\ ss[k] \in Seq(W) /\ off[k] = Len(F[k])
        BY <1>0, <2>1, <2>2, <2>7
      <3>2. CASE k = 1
        <4>1. off[k - 1] = 0 /\ F[k] = ss[k]
          BY <1>0, <2>3, <3>2
        <4> HIDE DEF off
        <4> QED
          BY <3>1, <4>1
      <3>3. CASE k # 1
        <4> DEFINE a == F[k - 1]
                   b == ss[k]
                   c == F[k]
        <4>0. k - 1 \in 1 .. n /\ k - 1 \in 0 .. n /\ k - 1 # 0
          BY <1>0, <3>3
        <4>5. a \in Seq(W)
          BY <2>7, <4>0
        <4>6. c = a \o b
          BY <2>3, <3>3
        <4>7. off[k - 1] = Len(a)
          BY <4>0
        <4>1. off[k - 1] = Len(a) /\ c = a \o b /\ a \in Seq(W)
          BY <4>5, <4>6, <4>7
        <4>2. Pre(c, whole) /\ c \in Seq(W) /\ b \in Seq(W) /\ off[k] = Len(c)
          BY <3>1
        <4> HIDE DEF off, a, b, c
        <4>3. Len(c) = Len(a) + Len(b) /\ \A j \in 1 .. Len(b) : c[Len(a) + j] = b[j]
          BY <4>1, <4>2
        <4>4. ASSUME NEW j \in 1 .. Len(b) PROVE whole[Len(a) + j] = b[j]
          <5>1. Len(a) + j \in 1 .. Len(c)
            BY <4>1, <4>2, <4>3
          <5> QED
            BY <4>2, <4>3, <5>1
        <4> QED
          BY <4>1, <4>2, <4>3, <4>4 DEF b
      <3> QED
        BY <3>2, <3>3
    <2> HIDE DEF off
    <2> QED
      BY <2>8, <2>9, <2>10 DEF n, whole
  <1> QED
    BY <1>1, <1>2

-----------------------------------------------------------------------------
\* Places in a text.

LEMMA AppendAt ==
  ASSUME NEW s, NEW e, IsSeq(s)
  PROVE  /\ IsSeq(Append(s, e)) /\ Len(s) \in Nat /\ Len(Append(s, e)) = Len(s) + 1
         /\ \A j \in 1 .. Len(s) : Append(s, e)[j] = s[j]
         /\ Append(s, e)[Len(s) + 1] = e
  <1>1. PICK S : s \in Seq(S)
    BY DEF IsSeq
  <1> DEFINE U == S \cup {e}
  <1>2. s \in Seq(U) /\ e \in U
    BY <1>1
  <1> HIDE DEF U
  <1>3. Append(s, e) \in Seq(U)
    BY <1>2
  <1>4. IsSeq(Append(s, e))
    BY <1>3 DEF IsSeq
  <1> QED
    BY <1>2, <1>4

\* The first place that holds a character.
LEMMA FirstPlace ==
  ASSUME NEW t, NEW i \in Nat, NEW c, NEW p \in Nat, i <= p, p <= Len(t), Len(t) \in Nat,
         t[p] = c, \A j \in i .. p - 1 : t[j] # c
  PROVE  Next1(t, i, c) = p
  <1> DEFINE at == {j \in i .. Len(t) : t[j] = c}
  <1>1. p \in at /\ at \subseteq Nat
    OBVIOUS
  <1>2. Min(at) \in at /\ \A y \in at : Min(at) <= y
    BY <1>1, LeastOf
  <1>3. Min(at) = p
    <2> DEFINE m == Min(at)
    <2>1. m \in i .. Len(t) /\ t[m] = c /\ m <= p
      BY <1>1, <1>2
    <2> HIDE DEF m
    <2>2. CASE m # p
      <3>1. m \in i .. p - 1
        BY <2>1, <2>2
      <3> QED
        BY <2>1, <3>1
    <2> QED
      BY <2>2 DEF m
  <1>4. at # {}
    BY <1>1
  <1> QED
    BY <1>3, <1>4 DEF Next1

-----------------------------------------------------------------------------
\* An entry of func.rap.

Entry(f) == Append(ToStr(f), "\n")
Blank(f) == IF f.params = <<>> THEN 1 ELSE 0
Close(f) == 3 + 4 * Len(f.params) + Blank(f)
EntryLen(f) == Close(f) + 2 + Len(Fromu(f.addr))

\* A function whose name and parameters are words, and no more parameters than
\* paramArr holds.
FnOK(f) ==
    /\ f.name \notin Punct
    /\ IsSeq(f.params) /\ Len(f.params) <= MaxParams
    /\ \A k \in 1 .. Len(f.params) : f.params[k][1] \notin Punct /\ f.params[k][2] \notin Punct
    /\ f.addr \in Nat

\* Where an entry that begins at place p has its parts.
Layout(t, p, f) ==
    /\ t[p] = f.name /\ t[p + 1] = "("
    /\ \A k \in 1 .. Len(f.params) :
          /\ t[p + 4 * k - 2] = f.params[k][1] /\ t[p + 4 * k - 1] = " "
          /\ t[p + 4 * k] = f.params[k][2] /\ t[p + 4 * k + 1] = " "
    /\ f.params = <<>> => t[p + 2] = " "
    /\ t[p + Close(f) - 1] = ")" /\ t[p + Close(f)] = "="
    /\ \A j \in 1 .. Len(Fromu(f.addr)) : t[p + Close(f) + j] = Fromu(f.addr)[j]
    /\ t[p + EntryLen(f) - 1] = "\n"

Piece(p, c) == <<p[1], c, p[2], c>>

\* Where each piece is in the whole.
LEMMA PlacesOf ==
  ASSUME NEW ss, IsSeq(ss), \A k \in 1 .. Len(ss) : IsSeq(ss[k])
  PROVE  /\ IsSeq(FlattenSeq(ss)) /\ Len(ss) \in Nat
         /\ \E off \in [0 .. Len(ss) -> Nat] :
               /\ off[0] = 0 /\ off[Len(ss)] = Len(FlattenSeq(ss))
               /\ \A k \in 1 .. Len(ss) :
                     /\ off[k] = off[k - 1] + Len(ss[k])
                     /\ \A j \in 1 .. Len(ss[k]) : FlattenSeq(ss)[off[k - 1] + j] = ss[k][j]
  <1> DEFINE n == Len(ss)
             W == UNION {{ss[k][j] : j \in 1 .. Len(ss[k])} : k \in 1 .. n}
  <1>1. PICK S : ss \in Seq(S)
    BY DEF IsSeq
  <1>2. n \in Nat /\ DOMAIN ss = 1 .. n
    BY <1>1
  <1>3. ASSUME NEW k \in 1 .. n PROVE ss[k] \in Seq(W)
    <2> DEFINE x == ss[k]
    <2>1. IsSeq(x)
      OBVIOUS
    <2>2. PICK R : x \in Seq(R)
      BY <2>1 DEF IsSeq
    <2>3. \A j \in 1 .. Len(x) : x[j] \in W
      OBVIOUS
    <2> HIDE DEF x, W
    <2>4. x \in Seq(W)
      BY ONLY <2>2, <2>3
    <2> QED
      BY <2>4 DEF x
  <1> HIDE DEF W
  <1>4. ss \in Seq(Seq(W))
    BY ONLY <1>1, <1>3 DEF n
  <1>5. FlattenSeq(ss) \in Seq(W)
    BY ONLY <1>4, FlattenAt
  <1>6. IsSeq(FlattenSeq(ss))
    BY ONLY <1>5 DEF IsSeq
  <1>7. \E off \in [0 .. Len(ss) -> Nat] :
               /\ off[0] = 0 /\ off[Len(ss)] = Len(FlattenSeq(ss))
               /\ \A k \in 1 .. Len(ss) :
                     /\ off[k] = off[k - 1] + Len(ss[k])
                     /\ \A j \in 1 .. Len(ss[k]) : FlattenSeq(ss)[off[k - 1] + j] = ss[k][j]
    BY ONLY <1>4, FlattenAt
  <1> QED
    BY <1>2, <1>6, <1>7

ParamsOf(ps, c) == FlattenSeq([i \in DOMAIN ps |-> Piece(ps[i], c)])

\* The parameters' text: four places for each.
LEMMA ParamText ==
  ASSUME NEW ps, NEW c, IsSeq(ps)
  PROVE  /\ IsSeq(ParamsOf(ps, c)) /\ Len(ParamsOf(ps, c)) = 4 * Len(ps)
         /\ \A k \in 1 .. Len(ps) : \A j \in 1 .. 4 :
               ParamsOf(ps, c)[4 * (k - 1) + j] = Piece(ps[k], c)[j]
  <1> DEFINE n == Len(ps)
             ss == [i \in DOMAIN ps |-> Piece(ps[i], c)]
             whole == FlattenSeq(ss)
  <1>a. PICK S : ps \in Seq(S)
    BY DEF IsSeq
  <1>0. n \in Nat /\ DOMAIN ps = 1 .. n
    BY <1>a
  <1>1. ASSUME NEW i \in 1 .. n PROVE IsSeq(Piece(ps[i], c)) /\ Len(Piece(ps[i], c)) = 4
    <2> DEFINE x == ps[i]
    <2> HIDE DEF x
    <2>1. Piece(x, c) \in Seq({x[1], x[2], c}) /\ Len(Piece(x, c)) = 4
      BY DEF Piece
    <2>2. IsSeq(Piece(x, c))
      BY ONLY <2>1 DEF IsSeq
    <2> QED
      BY <2>1, <2>2 DEF x
  <1>2. ss \in Seq({Piece(ps[i], c) : i \in 1 .. n}) /\ Len(ss) = n
    BY <1>0
  <1>3. \A k \in 1 .. n : ss[k] = Piece(ps[k], c)
    BY <1>0
  <1> HIDE DEF ss, n
  <1>4. IsSeq(ss) /\ \A k \in 1 .. Len(ss) : IsSeq(ss[k])
    <2>1. IsSeq(ss)
      BY ONLY <1>2 DEF IsSeq
    <2> QED
      BY <1>1, <1>2, <1>3, <2>1
  <1>5. /\ IsSeq(whole)
        /\ \E off \in [0 .. Len(ss) -> Nat] :
               /\ off[0] = 0 /\ off[Len(ss)] = Len(whole)
               /\ \A k \in 1 .. Len(ss) :
                     /\ off[k] = off[k - 1] + Len(ss[k])
                     /\ \A j \in 1 .. Len(ss[k]) : whole[off[k - 1] + j] = ss[k][j]
    BY ONLY <1>4, PlacesOf
  <1> HIDE DEF whole
  <1>6. PICK off \in [0 .. n -> Nat] :
               /\ off[0] = 0 /\ off[n] = Len(whole)
               /\ \A k \in 1 .. n :
                     /\ off[k] = off[k - 1] + Len(ss[k])
                     /\ \A j \in 1 .. Len(ss[k]) : whole[off[k - 1] + j] = ss[k][j]
    BY ONLY <1>2, <1>5
  <1>7. \A k \in 1 .. n :
           off[k] = off[k - 1] + 4 /\ \A j \in 1 .. 4 : whole[off[k - 1] + j] = Piece(ps[k], c)[j]
    <2> SUFFICES ASSUME NEW k \in 1 .. n
                 PROVE  /\ off[k] = off[k - 1] + 4
                        /\ \A j \in 1 .. 4 : whole[off[k - 1] + j] = Piece(ps[k], c)[j]
      OBVIOUS
    <2>1. ss[k] = Piece(ps[k], c) /\ Len(ss[k]) = 4
      BY <1>1, <1>3
    <2>2. /\ off[k] = off[k - 1] + Len(ss[k])
          /\ \A j \in 1 .. Len(ss[k]) : whole[off[k - 1] + j] = ss[k][j]
      BY <1>6
    <2> QED
      BY ONLY <2>1, <2>2
  <1> DEFINE T == {k \in Nat : k <= n => off[k] = 4 * k}
  <1>8. 0 \in T
    BY <1>6
  <1>9. ASSUME NEW k \in Nat, k \in T PROVE k + 1 \in T
    <2> SUFFICES ASSUME k + 1 <= n PROVE off[k + 1] = 4 * (k + 1)
      OBVIOUS
    <2>1. k + 1 \in 1 .. n /\ (k + 1) - 1 = k
      BY <1>0
    <2>2. off[k + 1] = off[k] + 4
      BY <1>7, <2>1
    <2>3. off[k] = 4 * k
      BY <1>0, <1>9
    <2> QED
      BY <2>2, <2>3
  <1>10. Nat \subseteq T
    <2> HIDE DEF T
    <2> QED
      BY <1>8, <1>9, AllNats
  <1>11. \A k \in 0 .. n : off[k] = 4 * k
    BY <1>0, <1>10
  <1>12. Len(whole) = 4 * n
    <2>1. n \in 0 .. n
      BY <1>0
    <2> QED
      BY <1>6, <1>11, <2>1
  <1>13. ASSUME NEW k \in 1 .. n, NEW j \in 1 .. 4 PROVE whole[4 * (k - 1) + j] = Piece(ps[k], c)[j]
    <2>1. k - 1 \in 0 .. n
      BY <1>0
    <2>2. off[k - 1] = 4 * (k - 1)
      BY <1>11, <2>1
    <2>3. whole[off[k - 1] + j] = Piece(ps[k], c)[j]
      BY <1>7
    <2> QED
      BY <2>2, <2>3
  <1> QED
    BY <1>5, <1>12, <1>13 DEF whole, ss, n, ParamsOf

Sizes(P, B, D, p, b, d) == p = Len(P) /\ b = Len(B) /\ d = Len(D)
Whole(h, P, B, g, D, z) == Append(h \o P \o B \o g \o D, z)

\* The parts of an entry, and where they are in the whole.
LEMMA PartsAt ==
  ASSUME NEW h, NEW P, NEW B, NEW g, NEW D, NEW z,
         IsSeq(h), IsSeq(P), IsSeq(B), IsSeq(g), IsSeq(D), Len(h) = 2, Len(g) = 2,
         NEW s, s = Whole(h, P, B, g, D, z), NEW p, NEW b, NEW d, Sizes(P, B, D, p, b, d)
  PROVE  /\ IsSeq(s) /\ Len(s) = 5 + p + b + d
         /\ \A j \in 1 .. 2 : s[j] = h[j]
         /\ \A j \in 1 .. p : s[2 + j] = P[j]
         /\ \A j \in 1 .. b : s[2 + p + j] = B[j]
         /\ \A j \in 1 .. 2 : s[2 + p + b + j] = g[j]
         /\ \A j \in 1 .. d : s[4 + p + b + j] = D[j]
         /\ s[5 + p + b + d] = z
  <1> DEFINE s1 == h \o P
             s2 == s1 \o B
             s3 == s2 \o g
             s4 == s3 \o D
  <1>a. s = Append(s4, z)
    BY DEF Whole
  <1> HIDE DEF s1, s2, s3, s4
  <1>1. /\ IsSeq(s1) /\ Len(h) \in Nat /\ Len(P) \in Nat /\ Len(s1) = Len(h) + Len(P)
        /\ (\A j \in 1 .. Len(h) : s1[j] = h[j])
        /\ \A j \in 1 .. Len(P) : s1[Len(h) + j] = P[j]
    <2>1. IsSeq(h) /\ IsSeq(P)
      OBVIOUS
    <2> QED
      BY ONLY <2>1, IsSeqConcat DEF s1
  <1>2. /\ IsSeq(s2) /\ Len(s1) \in Nat /\ Len(B) \in Nat /\ Len(s2) = Len(s1) + Len(B)
        /\ (\A j \in 1 .. Len(s1) : s2[j] = s1[j])
        /\ \A j \in 1 .. Len(B) : s2[Len(s1) + j] = B[j]
    <2>1. IsSeq(s1) /\ IsSeq(B)
      BY <1>1
    <2> QED
      BY ONLY <2>1, IsSeqConcat DEF s2
  <1>3. /\ IsSeq(s3) /\ Len(s2) \in Nat /\ Len(g) \in Nat /\ Len(s3) = Len(s2) + Len(g)
        /\ (\A j \in 1 .. Len(s2) : s3[j] = s2[j])
        /\ \A j \in 1 .. Len(g) : s3[Len(s2) + j] = g[j]
    <2>1. IsSeq(s2) /\ IsSeq(g)
      BY <1>2
    <2> QED
      BY ONLY <2>1, IsSeqConcat DEF s3
  <1>4. /\ IsSeq(s4) /\ Len(s3) \in Nat /\ Len(D) \in Nat /\ Len(s4) = Len(s3) + Len(D)
        /\ (\A j \in 1 .. Len(s3) : s4[j] = s3[j])
        /\ \A j \in 1 .. Len(D) : s4[Len(s3) + j] = D[j]
    <2>1. IsSeq(s3) /\ IsSeq(D)
      BY <1>3
    <2> QED
      BY ONLY <2>1, IsSeqConcat DEF s4
  <1>5. IsSeq(s) /\ Len(s) = Len(s4) + 1 /\ (\A j \in 1 .. Len(s4) : s[j] = s4[j]) /\ s[Len(s4) + 1] = z
    <2>1. IsSeq(s4)
      BY <1>4
    <2> QED
      BY ONLY <2>1, <1>a, AppendAt
  <1>0. p \in Nat /\ b \in Nat /\ d \in Nat
    BY <1>1, <1>2, <1>4 DEF Sizes
  <1>6. /\ Len(s1) = 2 + p /\ Len(s2) = 2 + p + b /\ Len(s3) = 4 + p + b
        /\ Len(s4) = 4 + p + b + d /\ Len(s) = 5 + p + b + d
    BY <1>0, <1>1, <1>2, <1>3, <1>4, <1>5 DEF Sizes
  <1>z. p = Len(P) /\ b = Len(B) /\ d = Len(D)
    BY DEF Sizes
  <1>7. \A j \in 1 .. 4 + p + b : s[j] = s3[j]
    BY <1>0, <1>z, <1>4, <1>5, <1>6
  <1>8. \A j \in 1 .. 2 + p : s[j] = s1[j]
    BY <1>0, <1>z, <1>2, <1>3, <1>6, <1>7
  <1>9. \A j \in 1 .. 2 : s[j] = h[j]
    BY <1>0, <1>z, <1>1, <1>8
  <1>10. \A j \in 1 .. p : s[2 + j] = P[j]
    BY <1>0, <1>z, <1>1, <1>8
  <1>11. \A j \in 1 .. b : s[2 + p + j] = B[j]
    BY <1>0, <1>z, <1>2, <1>3, <1>6, <1>7
  <1>12. \A j \in 1 .. 2 : s[2 + p + b + j] = g[j]
    <2> SUFFICES ASSUME NEW j \in 1 .. 2 PROVE s[2 + p + b + j] = g[j]
      OBVIOUS
    <2>1. s3[2 + p + b + j] = g[j]
      BY <1>3, <1>6
    <2>2. 2 + p + b + j \in 1 .. 4 + p + b
      BY <1>0
    <2>3. s[2 + p + b + j] = s3[2 + p + b + j]
      BY ONLY <1>7, <2>2
    <2> QED
      BY <2>1, <2>3
  <1>13. \A j \in 1 .. d : s[4 + p + b + j] = D[j]
    BY <1>0, <1>z, <1>4, <1>5, <1>6
  <1>14. s[5 + p + b + d] = z
    BY <1>0, <1>z, <1>5, <1>6
  <1> QED
    BY <1>5, <1>6, <1>9, <1>10, <1>11, <1>12, <1>13, <1>14

\* What Append(ToStr(f), "\n") is made of.
LEMMA EntryParts ==
  ASSUME NEW f
  PROVE  Entry(f) = Whole(<<f.name, "(">>, ParamsOf(f.params, " "),
                          IF f.params = <<>> THEN <<" ">> ELSE <<>>, <<")", "=">>, Fromu(f.addr), "\n")
  BY DEF Entry, ToStr, Whole, Piece, ParamsOf

\* A sequence of two.
LEMMA TwoSeq ==
  ASSUME NEW x, NEW y
  PROVE  IsSeq(<<x, y>>) /\ Len(<<x, y>>) = 2 /\ <<x, y>>[1] = x /\ <<x, y>>[2] = y
  <1>1. <<x, y>> \in Seq({x, y})
    OBVIOUS
  <1> QED
    BY <1>1 DEF IsSeq

\* Where the parts of an entry are, as toStr and read write it.
LEMMA EntryLayout ==
  ASSUME NEW f, FnOK(f)
  PROVE  /\ IsSeq(Entry(f)) /\ Len(Entry(f)) = EntryLen(f) /\ Layout(Entry(f), 1, f)
         /\ Len(f.params) \in Nat /\ Len(Fromu(f.addr)) \in Nat /\ Len(Fromu(f.addr)) >= 1
  <1> DEFINE open == "("
             close == ")"
             equals == "="
             blank == " "
             newline == "\n"
             h == <<f.name, open>>
             P == ParamsOf(f.params, blank)
             B == IF f.params = <<>> THEN <<blank>> ELSE <<>>
             g == <<close, equals>>
             D == Fromu(f.addr)
             e == Entry(f)
             m == Len(f.params)
             b == Blank(f)
             d == Len(D)
  <1>1. e = Whole(h, P, B, g, D, newline)
    BY EntryParts
  <1> HIDE DEF open, close, equals, blank, newline
  <1>2. IsSeq(h) /\ Len(h) = 2 /\ h[1] = f.name /\ h[2] = open
    BY ONLY TwoSeq
  <1>3. IsSeq(g) /\ Len(g) = 2 /\ g[1] = close /\ g[2] = equals
    BY ONLY TwoSeq
  <1>4. IsSeq(f.params) /\ f.addr \in Nat
    BY DEF FnOK
  <1>5. /\ IsSeq(P) /\ Len(P) = 4 * m
        /\ \A k \in 1 .. m : \A j \in 1 .. 4 : P[4 * (k - 1) + j] = Piece(f.params[k], blank)[j]
    <2> DEFINE ps == f.params
    <2>1. IsSeq(ps)
      BY <1>4
    <2> HIDE DEF ps
    <2>2. /\ IsSeq(ParamsOf(ps, blank)) /\ Len(ParamsOf(ps, blank)) = 4 * Len(ps)
          /\ \A k \in 1 .. Len(ps) : \A j \in 1 .. 4 :
                ParamsOf(ps, blank)[4 * (k - 1) + j] = Piece(ps[k], blank)[j]
      BY ONLY <2>1, ParamText
    <2> QED
      BY <2>2 DEF ps
  <1>6. m \in Nat /\ (f.params = <<>> => m = 0)
    <2>1. PICK S : f.params \in Seq(S)
      BY ONLY <1>4 DEF IsSeq
    <2>2. m \in Nat
      BY <2>1
    <2>3. f.params = <<>> => m = 0
      OBVIOUS
    <2> QED
      BY <2>2, <2>3
  <1>7. IsSeq(B) /\ Len(B) = b /\ (f.params = <<>> => B[1] = blank) /\ b \in {0, 1}
    <2>1. CASE f.params = <<>>
      <3>1. B = <<blank>> /\ b = 1
        BY <2>1 DEF Blank
      <3> QED
        BY <3>1, IsSeqOne
    <2>2. CASE f.params # <<>>
      <3>1. B = <<>> /\ b = 0
        BY <2>2 DEF Blank
      <3> QED
        BY <2>2, <3>1, IsSeqEmpty
    <2> QED
      BY <2>1, <2>2
  <1>8. IsSeq(D) /\ d \in Nat /\ d >= 1
    <2>1. D \in Seq(DigitChars) /\ d >= 1
      BY <1>4, FromuOK
    <2> QED
      BY ONLY <2>1 DEF IsSeq
  <1> HIDE DEF h, P, B, g, D, e, m, b, d
  <1>9. /\ IsSeq(e) /\ Len(e) = 5 + 4 * m + b + d
        /\ \A j \in 1 .. 2 : e[j] = h[j]
        /\ \A j \in 1 .. 4 * m : e[2 + j] = P[j]
        /\ \A j \in 1 .. b : e[2 + 4 * m + j] = B[j]
        /\ \A j \in 1 .. 2 : e[2 + 4 * m + b + j] = g[j]
        /\ \A j \in 1 .. d : e[4 + 4 * m + b + j] = D[j]
        /\ e[5 + 4 * m + b + d] = newline
    <2>1. /\ IsSeq(h) /\ IsSeq(P) /\ IsSeq(B) /\ IsSeq(g) /\ IsSeq(D) /\ Len(h) = 2 /\ Len(g) = 2
          /\ Sizes(P, B, D, 4 * m, b, d)
      BY <1>2, <1>3, <1>5, <1>7, <1>8 DEF d, Sizes
    <2> QED
      BY ONLY <1>1, <2>1, PartsAt
  <1>10. Close(f) = 3 + 4 * m + b /\ EntryLen(f) = 5 + 4 * m + b + d
    BY <1>6, <1>7, <1>8 DEF Close, EntryLen, m, b, d, D
  <1>11. e[1] = f.name /\ e[2] = open
    BY <1>2, <1>9
  <1>12. ASSUME NEW k \in 1 .. m
         PROVE  /\ e[1 + 4 * k - 2] = f.params[k][1] /\ e[1 + 4 * k - 1] = blank
                /\ e[1 + 4 * k] = f.params[k][2] /\ e[1 + 4 * k + 1] = blank
    <2>1. \A j \in 1 .. 4 : 4 * (k - 1) + j \in 1 .. 4 * m
      BY <1>6
    <2>2. \A j \in 1 .. 4 : e[2 + (4 * (k - 1) + j)] = Piece(f.params[k], blank)[j]
      BY <1>5, <1>9, <2>1
    <2> DEFINE x == f.params[k]
    <2>3. /\ Piece(x, blank)[1] = x[1] /\ Piece(x, blank)[2] = blank
          /\ Piece(x, blank)[3] = x[2] /\ Piece(x, blank)[4] = blank
      <3> HIDE DEF x
      <3> QED
        BY DEF Piece
    <2>4. /\ e[2 + (4 * (k - 1) + 1)] = x[1] /\ e[2 + (4 * (k - 1) + 2)] = blank
          /\ e[2 + (4 * (k - 1) + 3)] = x[2] /\ e[2 + (4 * (k - 1) + 4)] = blank
      BY ONLY <2>2, <2>3
    <2>5. /\ 2 + (4 * (k - 1) + 1) = 1 + 4 * k - 2 /\ 2 + (4 * (k - 1) + 2) = 1 + 4 * k - 1
          /\ 2 + (4 * (k - 1) + 3) = 1 + 4 * k /\ 2 + (4 * (k - 1) + 4) = 1 + 4 * k + 1
      BY <1>6
    <2> QED
      BY ONLY <2>4, <2>5
  <1>13. f.params = <<>> => e[1 + 2] = blank
    <2> SUFFICES ASSUME f.params = <<>> PROVE e[3] = blank
      OBVIOUS
    <2>1. m = 0 /\ b = 1 /\ B[1] = blank
      BY <1>6, <1>7 DEF b, Blank
    <2>2. e[2 + 4 * m + 1] = B[1]
      BY ONLY <1>9, <2>1
    <2> QED
      BY ONLY <2>1, <2>2
  <1>14. e[1 + Close(f) - 1] = close /\ e[1 + Close(f)] = equals
    <2>1. e[2 + 4 * m + b + 1] = close /\ e[2 + 4 * m + b + 2] = equals
      BY ONLY <1>3, <1>9
    <2>2. 2 + 4 * m + b + 1 = 1 + Close(f) - 1 /\ 2 + 4 * m + b + 2 = 1 + Close(f)
      BY <1>6, <1>7, <1>10
    <2> QED
      BY ONLY <2>1, <2>2
  <1>15. ASSUME NEW j \in 1 .. d PROVE e[1 + Close(f) + j] = D[j]
    <2>1. e[4 + 4 * m + b + j] = D[j]
      BY <1>9
    <2>2. 4 + 4 * m + b + j = 1 + Close(f) + j
      BY <1>6, <1>7, <1>10
    <2> QED
      BY ONLY <2>1, <2>2
  <1>16. e[1 + EntryLen(f) - 1] = newline
    <2>1. 1 + EntryLen(f) - 1 = 5 + 4 * m + b + d
      BY <1>6, <1>7, <1>8, <1>10
    <2> QED
      BY ONLY <1>9, <2>1
  <1>17. Layout(e, 1, f)
    <2>1. e[1 + 1] = open
      BY <1>11
    <2> QED
      BY ONLY <1>11, <2>1, <1>12, <1>13, <1>14, <1>15, <1>16
      DEF Layout, open, close, equals, blank, newline, D, d, m
  <1>18. Len(e) = EntryLen(f)
    BY ONLY <1>9, <1>10
  <1> QED
    BY ONLY <1>6, <1>8, <1>9, <1>17, <1>18 DEF e, m, d, D

\* The length and the places of a sequence.
LEMMA SeqLen ==
  ASSUME NEW t, IsSeq(t)
  PROVE  Len(t) \in Nat /\ DOMAIN t = 1 .. Len(t) /\ (Len(t) = 0 => t = <<>>)
  <1>1. PICK S : t \in Seq(S)
    BY DEF IsSeq
  <1> QED
    BY <1>1

\* The characters between the words.
LEMMA PunctOK == "(" \in Punct /\ ")" \in Punct /\ "=" \in Punct /\ " " \in Punct /\ "\n" \in Punct
  BY DEF Punct

\* One parameter.
LEMMA ParamStep ==
  ASSUME NEW t, IsSeq(t), NEW at \in Nat, NEW n \in Nat, at >= 1, at + 3 <= Len(t),
         t[at] \notin Punct, t[at + 1] = " ", t[at + 2] \notin Punct, t[at + 3] = " "
  PROVE  NextParam(t, [at |-> at, n |-> n]) = [at |-> at + 4, n |-> n + 1]
  <1> DEFINE blank == " "
             s == [at |-> at, n |-> n]
  <1>1. t[at] # blank /\ t[at + 2] # blank
    BY PunctOK
  <1>b. t[at] \notin {")", " "}
    BY PunctOK
  <1>2. t[at + 1] = blank /\ t[at + 3] = blank
    OBVIOUS
  <1>a. at \in Nat /\ at >= 1 /\ at + 3 <= Len(t) /\ n \in Nat
    OBVIOUS
  <1>0. Len(t) \in Nat
    BY SeqLen
  <1> HIDE DEF blank
  <1>3. Next1(t, at, blank) = at + 1
    <2> DEFINE p == at + 1
    <2>1. at \in Nat /\ p \in Nat /\ at <= p /\ p <= Len(t) /\ t[p] = blank
      BY ONLY <1>0, <1>a, <1>2
    <2>2. \A j \in at .. p - 1 : t[j] # blank
      BY ONLY <1>1, <1>a
    <2> HIDE DEF p
    <2>3. Next1(t, at, blank) = p
      BY ONLY <1>0, <2>1, <2>2, FirstPlace
    <2> QED
      BY <2>3 DEF p
  <1>4. Next1(t, (at + 1) + 1, blank) = at + 3
    <2> DEFINE p == at + 3
               i == (at + 1) + 1
    <2>1. i \in Nat /\ p \in Nat /\ i <= p /\ p <= Len(t) /\ t[p] = blank
      BY ONLY <1>0, <1>a, <1>2
    <2>2. \A j \in i .. p - 1 : t[j] # blank
      BY ONLY <1>1, <1>a
    <2> HIDE DEF p, i
    <2>3. Next1(t, i, blank) = p
      BY ONLY <1>0, <2>1, <2>2, FirstPlace
    <2> QED
      BY <2>3 DEF p, i
  <1>5. /\ s.at = at /\ s.n = n /\ at # 0 /\ ~(at > Len(t)) /\ at + 1 # 0 /\ at + 3 # 0
        /\ (at + 3) + 1 = at + 4
    BY ONLY <1>0, <1>a
  <1> HIDE DEF s
  <1>6. NextParam(t, s) = [at |-> (at + 3) + 1, n |-> n + 1]
    BY <1>b, <1>3, <1>4, <1>5 DEF NextParam, blank
  <1> QED
    BY <1>5, <1>6 DEF s

\* The end of the parameters.
LEMMA ParamStop ==
  ASSUME NEW t, IsSeq(t), NEW at \in Nat, NEW n \in Nat, at >= 1, at <= Len(t), t[at] \in {")", " "}
  PROVE  NextParam(t, [at |-> at, n |-> n]) = [at |-> at, n |-> n]
  <1> DEFINE s == [at |-> at, n |-> n]
  <1>0. Len(t) \in Nat
    BY SeqLen
  <1>a. at \in Nat /\ at >= 1 /\ at <= Len(t)
    OBVIOUS
  <1>5. s.at = at /\ at # 0 /\ ~(at > Len(t))
    BY ONLY <1>0, <1>a
  <1> HIDE DEF s
  <1>6. NextParam(t, s) = s
    BY <1>5 DEF NextParam
  <1> QED
    BY <1>6 DEF s

\* An entry stands at place p.
IsAt(t, p, f) == IsSeq(t) /\ p \in Nat /\ p >= 1 /\ p + EntryLen(f) - 1 <= Len(t) /\ Layout(t, p, f)

\* Every iteration reads a parameter until they are at their end.
LEMMA ParamsRead ==
  ASSUME NEW t, NEW p, NEW f, FnOK(f), IsAt(t, p, f)
  PROVE  /\ UserParams(t, p + 2)[MaxParams] = [at |-> p + 2 + 4 * Len(f.params), n |-> Len(f.params)]
         /\ p + 2 + 4 * Len(f.params) \in 1 .. Len(t) /\ t[p + 2 + 4 * Len(f.params)] \in {")", " "}
  <1> DEFINE m == Len(f.params)
             d == Len(Fromu(f.addr))
             b == Blank(f)
             u == UserParams(t, p + 2)
             Least(k) == IF k <= m THEN k ELSE m
             State(k) == [at |-> p + 2 + 4 * k, n |-> k]
             T == {k \in Nat : u[k] = State(Least(k))}
  <1>1. IsSeq(t) /\ p \in Nat /\ p >= 1 /\ p + EntryLen(f) - 1 <= Len(t) /\ Layout(t, p, f)
    BY DEF IsAt
  <1>p. p \in Nat /\ p >= 1 /\ p + EntryLen(f) - 1 <= Len(t)
    BY DEF IsAt
  <1>2. m \in Nat /\ d \in Nat /\ b \in {0, 1}
    BY EntryLayout DEF Blank
  <1> HIDE DEF m, d, b
  <1>c. Close(f) = 3 + 4 * m + b /\ EntryLen(f) = 5 + 4 * m + b + d
    <2>1. Close(f) = 3 + 4 * m + b /\ EntryLen(f) = Close(f) + 2 + d
      BY DEF Close, EntryLen, m, b, d
    <2> QED
      BY ONLY <1>2, <2>1
  <1>3. p + 2 + 4 * m <= Len(t) /\ Len(t) \in Nat
    <2>1. Len(t) \in Nat
      BY <1>1, SeqLen
    <2> QED
      BY ONLY <1>p, <1>2, <1>c, <2>1
  <1>4. m <= 16 /\ (m = 0 => f.params = <<>>)
    BY SeqLen DEF FnOK, MaxParams, m
  <1>u. u[0] = FirstParam(p + 2) /\ \A k \in Nat : u[k + 1] = ParamAfter(t, k + 1, u[k])
    BY UserParamsDef
  <1>5. t[p + 2 + 4 * m] \in {")", " "}
    <2>1. CASE m = 0
      <3>1. t[p + 2] = " "
        BY <1>1, <1>4, <2>1 DEF Layout
      <3>2. p + 2 + 4 * m = p + 2
        BY ONLY <1>p, <2>1
      <3> QED
        BY ONLY <3>1, <3>2
    <2>2. CASE m # 0
      <3>1. b = 0
        BY <2>2 DEF Blank, b, m
      <3>2. p + Close(f) - 1 = p + 2 + 4 * m
        BY ONLY <1>p, <1>2, <1>c, <3>1
      <3>3. t[p + Close(f) - 1] = ")"
        BY <1>1 DEF Layout
      <3> QED
        BY <3>2, <3>3
    <2> QED
      BY <2>1, <2>2
  <1> HIDE DEF u
  <1>6. 0 \in T
    <2>1. Least(0) = 0
      BY <1>2
    <2>2. p + 2 + 4 * 0 = p + 2
      BY ONLY <1>p
    <2>3. State(0) = FirstParam(p + 2)
      BY ONLY <2>2 DEF FirstParam
    <2> HIDE DEF State, Least
    <2>4. u[0] = State(Least(0))
      BY ONLY <1>u, <2>1, <2>3
    <2> QED
      BY <2>4
  <1>7. ASSUME NEW k \in Nat, k \in T PROVE k + 1 \in T
    <2>1. u[k + 1] = NextParam(t, u[k])
      BY <1>u DEF ParamAfter
    <2>2. CASE k < m
      <3> DEFINE at == p + 2 + 4 * k
                 i == k + 1
      <3>1. at \in Nat /\ at >= 1 /\ at + 3 <= Len(t)
        BY ONLY <1>p, <1>2, <1>3, <2>2, k \in Nat
      <3>2. i \in 1 .. m
        BY <1>2, <2>2
      <3>3. f.params[i][1] \notin Punct /\ f.params[i][2] \notin Punct
        BY <3>2 DEF FnOK, m
      <3>4. /\ t[p + 4 * i - 2] = f.params[i][1] /\ t[p + 4 * i - 1] = " "
            /\ t[p + 4 * i] = f.params[i][2] /\ t[p + 4 * i + 1] = " "
        BY <1>1, <3>2 DEF Layout, m
      <3>5. at = p + 4 * i - 2 /\ at + 1 = p + 4 * i - 1 /\ at + 2 = p + 4 * i /\ at + 3 = p + 4 * i + 1
        BY <1>1
      <3>6. t[at] \notin Punct /\ t[at + 1] = " " /\ t[at + 2] \notin Punct /\ t[at + 3] = " "
        BY ONLY <3>3, <3>4, <3>5
      <3>7. at + 4 = p + 2 + 4 * (k + 1) /\ u[k] = [at |-> at, n |-> k] /\ Least(k + 1) = k + 1
        BY ONLY <1>p, <1>2, <1>7, <2>2
      <3> HIDE DEF at
      <3>8. NextParam(t, [at |-> at, n |-> k]) = [at |-> at + 4, n |-> k + 1]
        BY ONLY <1>1, <3>1, <3>6, ParamStep, k \in Nat
      <3>9. u[k + 1] = State(k + 1)
        BY <2>1, <3>7, <3>8
      <3>10. Least(k + 1) = k + 1
        BY <3>7
      <3> HIDE DEF Least, State
      <3>11. u[k + 1] = State(Least(k + 1))
        BY ONLY <3>9, <3>10
      <3> QED
        BY ONLY <3>11, k \in Nat
    <2>3. CASE ~(k < m)
      <3> DEFINE at == p + 2 + 4 * m
      <3>0. at \in Nat /\ at >= 1 /\ at <= Len(t)
        BY ONLY <1>p, <1>2, <1>3
      <3>1. at \in Nat /\ at >= 1 /\ at <= Len(t) /\ t[at] \in {")", " "}
        BY ONLY <1>5, <3>0
      <3>2. u[k] = [at |-> at, n |-> m] /\ Least(k + 1) = m
        BY <1>2, <1>7, <2>3
      <3> HIDE DEF at, m
      <3>3. NextParam(t, [at |-> at, n |-> m]) = [at |-> at, n |-> m]
        BY ONLY <1>1, <1>2, <3>1, ParamStop
      <3>4. u[k + 1] = [at |-> at, n |-> m]
        BY <2>1, <3>2, <3>3
      <3> QED
        BY <3>2, <3>4 DEF at
    <2> QED
      BY <1>2, <2>2, <2>3
  <1>8. Nat \subseteq T
    <2> HIDE DEF T
    <2> QED
      BY <1>6, <1>7, AllNats
  <1>9. MaxParams \in T /\ Least(MaxParams) = m
    BY <1>2, <1>4, <1>8 DEF MaxParams
  <1> QED
    <2>1. p + 2 + 4 * m \in 1 .. Len(t)
      BY ONLY <1>p, <1>2, <1>3
    <2>2. u[MaxParams] = State(m)
      BY <1>9
    <2> QED
      BY ONLY <1>5, <2>1, <2>2 DEF u, m

\* What the parser keeps of an entry.
EntryOf(f) == [name |-> <<f.name>>, params |-> Len(f.params), addr |-> f.addr]

\* What is where in a part of a text.
LEMMA SubSeqAt ==
  ASSUME NEW t, IsSeq(t), NEW i \in Nat, NEW j \in Nat, i >= 1, i <= j + 1, j <= Len(t)
  PROVE  /\ IsSeq(SubSeq(t, i, j)) /\ Len(SubSeq(t, i, j)) = j + 1 - i
         /\ \A k \in 1 .. j + 1 - i : SubSeq(t, i, j)[k] = t[i - 1 + k]
  <1>1. PICK S : t \in Seq(S)
    BY DEF IsSeq
  <1>2. SubSeq(t, i, j) \in Seq(S)
    BY <1>1
  <1>3. IsSeq(SubSeq(t, i, j))
    BY ONLY <1>2 DEF IsSeq
  <1>4. Len(SubSeq(t, i, j)) = j + 1 - i
    BY <1>1
  <1>5. \A k \in 1 .. j + 1 - i : SubSeq(t, i, j)[k] = t[i - 1 + k]
    BY <1>1
  <1> QED
    BY ONLY <1>3, <1>4, <1>5

\* One entry.
LEMMA EntryRead ==
  ASSUME NEW t, NEW p, NEW f, NEW es, FnOK(f), IsAt(t, p, f)
  PROVE  NextEntry(t, [over |-> FALSE, at |-> p, entries |-> es])
           = [over |-> FALSE, at |-> p + EntryLen(f), entries |-> Append(es, EntryOf(f))]
  <1> DEFINE m == Len(f.params)
             b == Blank(f)
             D == Fromu(f.addr)
             d == Len(D)
             o == "("
             c == ")"
             q == "="
             w == " "
             l == "\n"
             eq == p + 3 + 4 * m + b
             nl == p + 4 + 4 * m + b + d
  <1>1. IsSeq(t) /\ Layout(t, p, f)
    BY DEF IsAt
  <1>p. p \in Nat /\ p >= 1 /\ p + EntryLen(f) - 1 <= Len(t)
    BY DEF IsAt
  <1>2. m \in Nat /\ d \in Nat /\ b \in {0, 1} /\ Len(t) \in Nat
    BY <1>1, EntryLayout, SeqLen DEF Blank
  <1>3. D \in Seq(DigitChars) /\ Stou(D) = f.addr
    BY FromuOK, StouFromu DEF FnOK
  <1>4. /\ UserParams(t, p + 2)[MaxParams] = [at |-> p + 2 + 4 * m, n |-> m]
        /\ p + 2 + 4 * m \in 1 .. Len(t) /\ t[p + 2 + 4 * m] \in {")", " "}
    BY ParamsRead
  <1>5. f.name \notin Punct
    BY DEF FnOK
  <1>6. /\ t[p] = f.name /\ t[p + 1] = o
        /\ f.params = <<>> => t[p + 2] = w
        /\ t[p + Close(f) - 1] = c /\ t[p + Close(f)] = q
        /\ \A j \in 1 .. d : t[p + Close(f) + j] = D[j]
        /\ t[p + EntryLen(f) - 1] = l
    BY <1>1 DEF Layout
  <1>7. t[p] # o /\ c # q /\ w # q
    BY <1>5, <1>6, PunctOK
  <1>8. \A j \in 1 .. d : D[j] # l
    <2>1. \A j \in 1 .. d : D[j] \in DigitChars
      BY ONLY <1>3
    <2>2. l \in Punct
      BY PunctOK
    <2> QED
      BY ONLY <2>1, <2>2, DigitCharsOK
  <1>9. m = 0 => f.params = <<>>
    BY SeqLen DEF FnOK
  <1>10. b = IF f.params = <<>> THEN 1 ELSE 0
    BY DEF Blank
  <1> HIDE DEF m, b, d, o, c, q, w, l
  <1>11. Close(f) = 3 + 4 * m + b /\ EntryLen(f) = 5 + 4 * m + b + d
    <2>1. Close(f) = 3 + 4 * m + b /\ EntryLen(f) = Close(f) + 2 + d
      BY DEF Close, EntryLen, m, b, d
    <2> QED
      BY ONLY <1>2, <2>1
  <1>12. /\ eq = p + Close(f) /\ nl = p + EntryLen(f) - 1 /\ eq \in Nat /\ nl \in Nat
         /\ nl = eq + 1 + d /\ nl <= Len(t)
         /\ eq <= Len(t) /\ eq >= p + 3
    BY ONLY <1>2, <1>p, <1>11
  <1>13. Next1(t, p, o) = p + 1
    <2> DEFINE i == p + 1
    <2>0. t[i] = o
      BY ONLY <1>6
    <2>1. p \in Nat /\ i \in Nat /\ p <= i /\ i <= Len(t) /\ Len(t) \in Nat
      BY ONLY <1>2, <1>p, <1>12
    <2>2. \A j \in p .. i - 1 : t[j] # o
      BY ONLY <1>7, <1>p
    <2> HIDE DEF i
    <2>3. Next1(t, p, o) = i
      BY ONLY <2>0, <2>1, <2>2, FirstPlace
    <2> QED
      BY <2>3 DEF i
  <1>14. Next1(t, p + 2 + 4 * m, q) = eq
    <2> DEFINE i == p + 2 + 4 * m
    <2>0. t[eq] = q
      <3>1. eq = p + Close(f)
        BY <1>12
      <3> HIDE DEF eq
      <3> QED
        BY ONLY <1>6, <3>1
    <2>1. i \in Nat /\ eq \in Nat /\ i <= eq /\ eq <= Len(t) /\ Len(t) \in Nat
      BY ONLY <1>2, <1>p, <1>12
    <2>2. ASSUME NEW j \in i .. eq - 1 PROVE t[j] # q
      <3>1. t[p + Close(f) - 1] # q /\ (f.params = <<>> => t[p + 2] # q)
        BY ONLY <1>6, <1>7
      <3>2. CASE b = 0
        <4>1. j = p + Close(f) - 1
          BY ONLY <1>2, <1>p, <1>11, <3>2, j \in i .. eq - 1
        <4> QED
          BY ONLY <3>1, <4>1
      <3>3. CASE b = 1
        <4>1. f.params = <<>>
          BY ONLY <1>10, <3>3
        <4>2. m = 0
          BY <4>1 DEF m
        <4>3. j = p + Close(f) - 1 \/ j = p + 2
          BY ONLY <1>2, <1>p, <1>11, <3>3, <4>2, j \in i .. eq - 1
        <4> QED
          BY ONLY <3>1, <4>1, <4>3
      <3> QED
        BY ONLY <1>2, <3>2, <3>3
    <2> HIDE DEF i, eq
    <2>3. Next1(t, i, q) = eq
      BY ONLY <2>0, <2>1, <2>2, FirstPlace
    <2> QED
      BY <2>3 DEF i
  <1>15. Next1(t, eq + 1, l) = nl
    <2> DEFINE i == eq + 1
    <2>0. t[nl] = l
      <3>1. nl = p + EntryLen(f) - 1
        BY <1>12
      <3> HIDE DEF nl
      <3> QED
        BY ONLY <1>6, <3>1
    <2>1. i \in Nat /\ nl \in Nat /\ i <= nl /\ nl <= Len(t) /\ Len(t) \in Nat
      BY ONLY <1>2, <1>12
    <2> HIDE DEF eq, nl
    <2>2. ASSUME NEW j \in i .. nl - 1 PROVE t[j] # l
      <3> DEFINE k == j - eq
      <3>1. k \in 1 .. d /\ j = p + Close(f) + k
        BY ONLY <1>2, <1>12, j \in i .. nl - 1
      <3> HIDE DEF k
      <3>2. t[j] = D[k]
        BY ONLY <1>6, <3>1
      <3> QED
        BY ONLY <1>8, <3>1, <3>2
    <2> HIDE DEF i
    <2>3. Next1(t, i, l) = nl
      BY ONLY <2>0, <2>1, <2>2, FirstPlace
    <2> QED
      BY <2>3 DEF i
  <1> HIDE DEF eq, nl
  <1>16. SubSeq(t, p, p) = <<f.name>>
    <2> DEFINE s == SubSeq(t, p, p)
    <2>1. IsSeq(t) /\ p \in Nat /\ p >= 1 /\ p <= p + 1 /\ p <= Len(t)
      BY ONLY <1>1, <1>p, <1>2, <1>12
    <2>2. IsSeq(s) /\ Len(s) = p + 1 - p /\ \A k \in 1 .. p + 1 - p : s[k] = t[p - 1 + k]
      BY ONLY <2>1, SubSeqAt
    <2> HIDE DEF s
    <2> DEFINE x == f.name
               r == <<x>>
    <2>3. IsSeq(r) /\ Len(r) = 1 /\ r[1] = x
      BY ONLY IsSeqOne
    <2>4. t[p] = x
      BY <1>6
    <2> HIDE DEF x, r
    <2>5. Len(s) = 1 /\ s[1] = x
      BY ONLY <2>1, <2>2, <2>4
    <2>8. \A k \in 1 .. 1 : s[k] = r[k]
      BY ONLY <2>3, <2>5
    <2>6. IsSeq(s) /\ IsSeq(r) /\ Len(s) = Len(r) /\ \A k \in 1 .. Len(s) : s[k] = r[k]
      BY ONLY <2>2, <2>3, <2>5, <2>8
    <2>7. s = r
      BY ONLY <2>6, SameSeq
    <2> QED
      BY <2>7 DEF s, r, x
  <1>17. SubSeq(t, eq + 1, nl - 1) = D
    <2> DEFINE i == eq + 1
               j == nl - 1
               s == SubSeq(t, i, j)
    <2>1. IsSeq(t) /\ i \in Nat /\ j \in Nat /\ i >= 1 /\ i <= j + 1 /\ j <= Len(t) /\ j + 1 - i = d
      BY ONLY <1>1, <1>2, <1>12
    <2> HIDE DEF i, j
    <2>2. IsSeq(s) /\ Len(s) = j + 1 - i /\ \A k \in 1 .. j + 1 - i : s[k] = t[i - 1 + k]
      BY ONLY <2>1, SubSeqAt
    <2> HIDE DEF s
    <2>3. IsSeq(D) /\ Len(D) = d
      BY ONLY <1>3 DEF IsSeq, d
    <2> HIDE DEF D
    <2>4. ASSUME NEW k \in 1 .. d PROVE s[k] = D[k]
      <3>1. i - 1 + k = p + Close(f) + k
        BY ONLY <1>2, <1>12, k \in 1 .. d DEF i
      <3> QED
        BY ONLY <1>6, <2>1, <2>2, <3>1, k \in 1 .. d
    <2>5. IsSeq(s) /\ IsSeq(D) /\ Len(s) = Len(D) /\ \A k \in 1 .. Len(s) : s[k] = D[k]
      BY ONLY <2>1, <2>2, <2>3, <2>4
    <2>6. s = D
      BY ONLY <2>5, SameSeq
    <2> QED
      BY <2>6 DEF s, i, j
  <1> DEFINE s == [over |-> FALSE, at |-> p, entries |-> es]
             ps == UserParams(t, p + 2)[MaxParams]
  <1>18. /\ s.over = FALSE /\ s.at = p /\ s.entries = es /\ ~(p > Len(t)) /\ p + 1 # 0
         /\ (p + 1) + 1 = p + 2 /\ (p + 1) - 1 = p
    BY ONLY <1>p, <1>12, <1>2
  <1>19. ParamsEnd(t, ps) /\ ps.at = p + 2 + 4 * m /\ ps.n = m
    <2> DEFINE at == p + 2 + 4 * m
    <2>1. ps = [at |-> at, n |-> m] /\ at \in 1 .. Len(t) /\ t[at] \in {")", " "}
      BY <1>4
    <2> HIDE DEF at, ps
    <2>2. ps.at = at /\ ps.n = m
      BY ONLY <2>1
    <2>3. ParamsEnd(t, ps)
      BY ONLY <2>1, <2>2 DEF ParamsEnd
    <2> QED
      BY <2>2, <2>3 DEF at
  <1>20. eq # 0 /\ nl # 0 /\ nl + 1 = p + EntryLen(f)
    BY ONLY <1>12, <1>p, <1>2, <1>11
  <1> HIDE DEF s, ps, D
  <1>21. NextEntry(t, s)
         = [over |-> FALSE, at |-> nl + 1,
            entries |-> Append(es, [name |-> SubSeq(t, p, p), params |-> m, addr |-> Stou(D)])]
    BY ONLY <1>13, <1>14, <1>15, <1>17, <1>18, <1>19, <1>20 DEF NextEntry, o, q, l, ps
  <1> QED
    BY ONLY <1>3, <1>16, <1>20, <1>21 DEF EntryOf, s, m

\* An entry is laid out wherever it stands.
LEMMA LayoutAt ==
  ASSUME NEW f, FnOK(f), NEW t, NEW p \in Nat, \A j \in 1 .. EntryLen(f) : t[p + j] = Entry(f)[j]
  PROVE  Layout(t, p + 1, f) /\ EntryLen(f) \in Nat /\ EntryLen(f) >= 1
  <1> DEFINE e == Entry(f)
             m == Len(f.params)
             b == Blank(f)
             D == Fromu(f.addr)
             d == Len(D)
             L == EntryLen(f)
             C == Close(f)
             o == "("
             c == ")"
             q == "="
             w == " "
             l == "\n"
  <1>1. Layout(e, 1, f) /\ m \in Nat /\ d \in Nat /\ d >= 1
    BY EntryLayout
  <1>2. b \in {0, 1} /\ (f.params = <<>> => m = 0 /\ b = 1)
    BY DEF Blank
  <1>3. /\ e[1] = f.name /\ e[1 + 1] = o
        /\ \A k \in 1 .. m :
          /\ e[1 + 4 * k - 2] = f.params[k][1] /\ e[1 + 4 * k - 1] = w
          /\ e[1 + 4 * k] = f.params[k][2] /\ e[1 + 4 * k + 1] = w
        /\ f.params = <<>> => e[1 + 2] = w
        /\ e[1 + C - 1] = c /\ e[1 + C] = q
        /\ \A j \in 1 .. d : e[1 + C + j] = D[j]
        /\ e[1 + L - 1] = l
    BY <1>1 DEF Layout
  <1>p. p \in Nat
    OBVIOUS
  <1>4. \A j \in 1 .. L : t[p + j] = e[j]
    OBVIOUS
  <1> HIDE DEF e, m, b, D, d, o, c, q, w, l
  <1>5. C = 3 + 4 * m + b /\ L = 5 + 4 * m + b + d
    <2>1. C = 3 + 4 * m + b /\ L = C + 2 + d
      BY DEF Close, EntryLen, m, b, d, D
    <2> QED
      BY ONLY <1>1, <1>2, <2>1
  <1> HIDE DEF L, C
  <1>6. \A i \in 1 .. L : t[p + i] = e[i] /\ p + i \in Nat
    BY ONLY <1>4, <1>p
  <1>7. t[p + 1] = f.name /\ t[p + 1 + 1] = o
    <2>1. 1 \in 1 .. L /\ 2 \in 1 .. L /\ p + 1 + 1 = p + 2 /\ 1 + 1 = 2
      BY ONLY <1>1, <1>2, <1>5, <1>p
    <2> QED
      BY ONLY <1>3, <1>6, <2>1
  <1>8. ASSUME NEW k \in 1 .. m
        PROVE  /\ t[p + 1 + 4 * k - 2] = f.params[k][1] /\ t[p + 1 + 4 * k - 1] = w
               /\ t[p + 1 + 4 * k] = f.params[k][2] /\ t[p + 1 + 4 * k + 1] = w
    <2>1. /\ 1 + 4 * k - 2 \in 1 .. L /\ 1 + 4 * k - 1 \in 1 .. L
          /\ 1 + 4 * k \in 1 .. L /\ 1 + 4 * k + 1 \in 1 .. L
          /\ p + 1 + 4 * k - 2 = p + (1 + 4 * k - 2) /\ p + 1 + 4 * k - 1 = p + (1 + 4 * k - 1)
          /\ p + 1 + 4 * k = p + (1 + 4 * k) /\ p + 1 + 4 * k + 1 = p + (1 + 4 * k + 1)
      BY ONLY <1>1, <1>2, <1>5, <1>p, k \in 1 .. m
    <2>2. /\ e[1 + 4 * k - 2] = f.params[k][1] /\ e[1 + 4 * k - 1] = w
          /\ e[1 + 4 * k] = f.params[k][2] /\ e[1 + 4 * k + 1] = w
      BY <1>3
    <2>3. /\ t[p + (1 + 4 * k - 2)] = e[1 + 4 * k - 2] /\ t[p + (1 + 4 * k - 1)] = e[1 + 4 * k - 1]
          /\ t[p + (1 + 4 * k)] = e[1 + 4 * k] /\ t[p + (1 + 4 * k + 1)] = e[1 + 4 * k + 1]
      BY ONLY <1>6, <2>1
    <2> QED
      BY ONLY <2>1, <2>2, <2>3
  <1>9. f.params = <<>> => t[p + 1 + 2] = w
    <2>1. f.params = <<>> => 3 \in 1 .. L /\ p + 1 + 2 = p + 3 /\ 1 + 2 = 3
      BY ONLY <1>1, <1>2, <1>5, <1>p
    <2> QED
      BY ONLY <1>3, <1>6, <2>1
  <1>10. t[p + 1 + C - 1] = c /\ t[p + 1 + C] = q
    <2>1. /\ 1 + C - 1 \in 1 .. L /\ 1 + C \in 1 .. L /\ p + 1 + C - 1 = p + (1 + C - 1)
          /\ p + 1 + C = p + (1 + C)
      BY ONLY <1>1, <1>2, <1>5, <1>p
    <2> QED
      BY ONLY <1>3, <1>6, <2>1
  <1>11. ASSUME NEW j \in 1 .. d PROVE t[p + 1 + C + j] = D[j]
    <2>1. 1 + C + j \in 1 .. L /\ p + 1 + C + j = p + (1 + C + j)
      BY ONLY <1>1, <1>2, <1>5, <1>p, j \in 1 .. d
    <2>2. e[1 + C + j] = D[j]
      BY <1>3
    <2> QED
      BY ONLY <1>6, <2>1, <2>2
  <1>12. t[p + 1 + L - 1] = l
    <2>1. 1 + L - 1 \in 1 .. L /\ p + 1 + L - 1 = p + (1 + L - 1)
      BY ONLY <1>1, <1>2, <1>5, <1>p
    <2> QED
      BY ONLY <1>3, <1>6, <2>1
  <1>13. L \in Nat /\ L >= 1
    BY ONLY <1>1, <1>2, <1>5
  <1>14. Layout(t, p + 1, f)
    BY ONLY <1>7, <1>8, <1>9, <1>10, <1>11, <1>12 DEF Layout, o, c, q, w, l, m, d, D, L, C
  <1> QED
    BY <1>13, <1>14 DEF L

-----------------------------------------------------------------------------
\* The whole file.

AllFnOK(fs) == IsSeq(fs) /\ \A i \in 1 .. Len(fs) : FnOK(fs[i])
Text(fs) == FlattenSeq([i \in DOMAIN fs |-> Entry(fs[i])])
Kept(fs, k) == [i \in 1 .. k |-> EntryOf(fs[i])]

\* Where the entries are.
Places(fs, t, n, off) ==
    /\ off \in [0 .. n -> Nat]
    /\ off[0] = 0 /\ off[n] = Len(t)
    /\ \A k \in 1 .. n :
          off[k] = off[k - 1] + EntryLen(fs[k]) /\ EntryLen(fs[k]) >= 1 /\ EntryLen(fs[k]) \in Nat
    /\ \A k \in 1 .. n : IsAt(t, off[k - 1] + 1, fs[k])

\* The entries stand one behind the other.
LEMMA TextAt ==
  ASSUME NEW fs, AllFnOK(fs)
  PROVE  IsSeq(Text(fs)) /\ \E off : Places(fs, Text(fs), Len(fs), off)
  <1> DEFINE n == Len(fs)
             ss == [i \in DOMAIN fs |-> Entry(fs[i])]
             t == FlattenSeq(ss)
  <1>1. IsSeq(fs) /\ \A i \in 1 .. n : FnOK(fs[i])
    BY DEF AllFnOK
  <1>2. n \in Nat /\ DOMAIN fs = 1 .. n
    BY <1>1, SeqLen
  <1>3. \A i \in 1 .. n : IsSeq(Entry(fs[i])) /\ Len(Entry(fs[i])) = EntryLen(fs[i])
    BY <1>1, EntryLayout
  <1>4. /\ ss \in Seq({Entry(fs[i]) : i \in 1 .. n}) /\ Len(ss) = n
        /\ \A k \in 1 .. n : ss[k] = Entry(fs[k])
    BY <1>2
  <1> HIDE DEF ss, n
  <1>5. IsSeq(ss) /\ \A k \in 1 .. Len(ss) : IsSeq(ss[k])
    <2>1. IsSeq(ss)
      BY ONLY <1>4 DEF IsSeq
    <2> QED
      BY <1>3, <1>4, <2>1
  <1>6. /\ IsSeq(t)
        /\ \E off \in [0 .. Len(ss) -> Nat] :
               /\ off[0] = 0 /\ off[Len(ss)] = Len(t)
               /\ \A k \in 1 .. Len(ss) :
                     /\ off[k] = off[k - 1] + Len(ss[k])
                     /\ \A j \in 1 .. Len(ss[k]) : t[off[k - 1] + j] = ss[k][j]
    BY ONLY <1>5, PlacesOf
  <1> HIDE DEF t
  <1>7. PICK off \in [0 .. n -> Nat] :
               /\ off[0] = 0 /\ off[n] = Len(t)
               /\ \A k \in 1 .. n :
                     /\ off[k] = off[k - 1] + Len(ss[k])
                     /\ \A j \in 1 .. Len(ss[k]) : t[off[k - 1] + j] = ss[k][j]
    BY ONLY <1>4, <1>6
  <1>8. ASSUME NEW k \in 1 .. n
        PROVE  /\ off[k] = off[k - 1] + EntryLen(fs[k]) /\ off[k - 1] \in Nat /\ off[k] \in Nat
               /\ EntryLen(fs[k]) \in Nat /\ EntryLen(fs[k]) >= 1 /\ Layout(t, off[k - 1] + 1, fs[k])
    <2>1. k - 1 \in 0 .. n /\ k \in 0 .. n
      BY <1>2
    <2>2. off[k - 1] \in Nat /\ off[k] \in Nat
      BY ONLY <1>7, <2>1, off \in [0 .. n -> Nat]
    <2> DEFINE f == fs[k]
               p == off[k - 1]
    <2>3. ss[k] = Entry(f) /\ Len(ss[k]) = EntryLen(f) /\ FnOK(f) /\ p \in Nat
      BY <1>1, <1>3, <1>4, <2>2
    <2>4. off[k] = p + Len(ss[k]) /\ \A j \in 1 .. Len(ss[k]) : t[p + j] = ss[k][j]
      BY <1>7
    <2> HIDE DEF f, p
    <2>5. \A j \in 1 .. EntryLen(f) : t[p + j] = Entry(f)[j]
      BY ONLY <2>3, <2>4
    <2>6. Layout(t, p + 1, f) /\ EntryLen(f) \in Nat /\ EntryLen(f) >= 1
      BY ONLY <2>3, <2>5, LayoutAt
    <2> QED
      BY ONLY <2>2, <2>3, <2>4, <2>6 DEF f, p
  \* The places are in order.
  <1> DEFINE T == {k \in Nat : \A i \in 0 .. n : i + k <= n => off[i] <= off[i + k]}
  <1>9. ASSUME NEW i \in 0 .. n PROVE off[i] \in Nat
    BY off \in [0 .. n -> Nat]
  <1>10. 0 \in T
    BY <1>9
  <1>11. ASSUME NEW k \in Nat, k \in T PROVE k + 1 \in T
    <2> SUFFICES ASSUME NEW i \in 0 .. n, i + (k + 1) <= n PROVE off[i] <= off[i + (k + 1)]
      OBVIOUS
    <2> DEFINE j == i + (k + 1)
    <2>1. j \in 1 .. n /\ j - 1 = i + k /\ i + k <= n /\ i + k \in 0 .. n
      BY <1>2
    <2>2. off[i] <= off[i + k]
      BY <1>11, <2>1
    <2> HIDE DEF j
    <2>3. off[j] = off[j - 1] + EntryLen(fs[j]) /\ EntryLen(fs[j]) \in Nat
      BY <1>8, <2>1
    <2>4. off[i + k] <= off[j]
      BY <1>9, <2>1, <2>3
    <2>5. off[i] \in Nat /\ off[i + k] \in Nat /\ off[j] \in Nat
      BY <1>8, <1>9, <2>1
    <2>6. off[i] <= off[j]
      BY ONLY <2>2, <2>4, <2>5
    <2> QED
      BY <2>6 DEF j
  <1>12. Nat \subseteq T
    <2> HIDE DEF T
    <2> QED
      BY <1>10, <1>11, AllNats
  <1>13. ASSUME NEW k \in 1 .. n PROVE off[k] <= Len(t)
    <2> DEFINE j == n - k
    <2>1. j \in Nat /\ k + j = n /\ k \in 0 .. n
      BY <1>2
    <2>2. \A i \in 0 .. n : i + j <= n => off[i] <= off[i + j]
      BY <1>12, <2>1
    <2> HIDE DEF j
    <2>3. k + j <= n
      BY <1>2, <2>1
    <2>4. off[k] <= off[k + j]
      BY ONLY <2>1, <2>2, <2>3
    <2> QED
      BY <1>7, <2>1, <2>4
  <1>14. ASSUME NEW k \in 1 .. n PROVE IsAt(t, off[k - 1] + 1, fs[k])
    <2> DEFINE p == off[k - 1]
               L == EntryLen(fs[k])
    <2>1. off[k] = p + L /\ p \in Nat /\ L \in Nat /\ Layout(t, p + 1, fs[k]) /\ off[k] <= Len(t)
      BY <1>8, <1>13
    <2>2. p + 1 \in Nat /\ p + 1 >= 1 /\ p + 1 + L - 1 = off[k]
      BY ONLY <2>1
    <2>3. p + 1 + L - 1 <= Len(t)
      BY ONLY <2>1, <2>2
    <2> QED
      BY <1>6, <2>1, <2>2, <2>3 DEF IsAt
  <1>15. Places(fs, t, n, off)
    BY <1>7, <1>8, <1>14 DEF Places
  <1> QED
    BY <1>6, <1>15 DEF Text, t, ss, n

\* The entries kept so far, and one more.
LEMMA KeptOK ==
  ASSUME NEW fs, NEW k \in Nat
  PROVE  /\ IsSeq(Kept(fs, k)) /\ Len(Kept(fs, k)) = k
         /\ \A i \in 1 .. k : Kept(fs, k)[i] = EntryOf(fs[i])
         /\ Append(Kept(fs, k), EntryOf(fs[k + 1])) = Kept(fs, k + 1)
         /\ Kept(fs, 0) = <<>>
  <1>1. \A j \in Nat : /\ IsSeq(Kept(fs, j)) /\ Len(Kept(fs, j)) = j
                       /\ \A i \in 1 .. j : Kept(fs, j)[i] = EntryOf(fs[i])
    <2> SUFFICES ASSUME NEW j \in Nat
                 PROVE  /\ IsSeq(Kept(fs, j)) /\ Len(Kept(fs, j)) = j
                        /\ \A i \in 1 .. j : Kept(fs, j)[i] = EntryOf(fs[i])
      OBVIOUS
    <2>1. /\ Kept(fs, j) \in Seq({EntryOf(fs[i]) : i \in 1 .. j}) /\ Len(Kept(fs, j)) = j
          /\ \A i \in 1 .. j : Kept(fs, j)[i] = EntryOf(fs[i])
      BY DEF Kept
    <2>2. IsSeq(Kept(fs, j))
      BY ONLY <2>1 DEF IsSeq
    <2> QED
      BY ONLY <2>1, <2>2
  <1>2. Kept(fs, 0) = <<>>
    <2>1. IsSeq(Kept(fs, 0)) /\ Len(Kept(fs, 0)) = 0
      BY <1>1
    <2> QED
      BY ONLY <2>1, SeqLen
  <1> DEFINE a == Kept(fs, k)
             b == Kept(fs, k + 1)
             x == EntryOf(fs[k + 1])
             c == Append(a, x)
  <1>3. IsSeq(a) /\ Len(a) = k /\ \A i \in 1 .. k : a[i] = EntryOf(fs[i])
    BY <1>1
  <1>4. IsSeq(b) /\ Len(b) = k + 1 /\ \A i \in 1 .. k + 1 : b[i] = EntryOf(fs[i])
    BY <1>1
  <1>5. b[k + 1] = x
    BY <1>4
  <1> HIDE DEF a, b, x
  <1>6. /\ IsSeq(c) /\ Len(c) = Len(a) + 1 /\ (\A i \in 1 .. Len(a) : c[i] = a[i]) /\ c[Len(a) + 1] = x
    BY ONLY <1>3, AppendAt
  <1> HIDE DEF c
  <1>7. ASSUME NEW i \in 1 .. k + 1 PROVE c[i] = b[i]
    <2>1. CASE i = k + 1
      BY ONLY <1>3, <1>5, <1>6, <2>1
    <2>2. CASE i # k + 1
      <3>1. i \in 1 .. k /\ i \in 1 .. k + 1
        BY <2>2
      <3> QED
        BY ONLY <1>3, <1>4, <1>6, <3>1
    <2> QED
      BY <2>1, <2>2
  <1>8. IsSeq(c) /\ IsSeq(b) /\ Len(c) = Len(b) /\ \A i \in 1 .. Len(c) : c[i] = b[i]
    BY ONLY <1>3, <1>4, <1>6, <1>7
  <1>9. c = b
    BY ONLY <1>8, SameSeq
  <1> QED
    BY ONLY <1>2, <1>3, <1>9 DEF a, b, c, x

\* Every iteration reads an entry until the text is at its end.
LEMMA EntriesRead ==
  ASSUME NEW fs, AllFnOK(fs), NEW t, NEW n, n = Len(fs), NEW off, IsSeq(t),
         Places(fs, t, n, off), NEW N \in Nat, N >= n
  PROVE  UserEntries(t)[N] = [over |-> FALSE, at |-> Len(t) + 1, entries |-> Kept(fs, n)]
  <1> DEFINE u == UserEntries(t)
             State(k) == [over |-> FALSE, at |-> off[k] + 1, entries |-> Kept(fs, k)]
             Least(k) == IF k <= n THEN k ELSE n
             T == {k \in Nat : u[k] = State(Least(k))}
  <1>1. /\ off \in [0 .. n -> Nat]
        /\ off[0] = 0 /\ off[n] = Len(t)
        /\ \A k \in 1 .. n :
              off[k] = off[k - 1] + EntryLen(fs[k]) /\ EntryLen(fs[k]) >= 1 /\ EntryLen(fs[k]) \in Nat
        /\ \A k \in 1 .. n : IsAt(t, off[k - 1] + 1, fs[k])
    BY DEF Places
  <1>2. n \in Nat /\ Len(t) \in Nat
    BY SeqLen DEF AllFnOK
  <1>3. \A i \in 1 .. n : FnOK(fs[i])
    BY DEF AllFnOK
  <1>u. u[0] = FirstEntry /\ \A k \in Nat : u[k + 1] = EntryAfter(t, k + 1, u[k])
    BY UserEntriesDef
  <1> HIDE DEF u
  <1>4. 0 \in T
    <2>1. Least(0) = 0
      BY <1>2
    <2>2. Kept(fs, 0) = <<>>
      BY KeptOK
    <2>3. State(0) = FirstEntry
      <3> DEFINE none == Kept(fs, 0)
      <3>1. off[0] + 1 = 1
        BY ONLY <1>1
      <3>2. FirstEntry = [over |-> FALSE, at |-> 1, entries |-> none]
        BY <2>2 DEF FirstEntry
      <3> HIDE DEF none
      <3>3. [over |-> FALSE, at |-> off[0] + 1, entries |-> none] = FirstEntry
        BY ONLY <3>1, <3>2
      <3> QED
        BY <3>3 DEF none
    <2> HIDE DEF State, Least
    <2> QED
      BY <1>u, <2>1, <2>3
  <1>5. ASSUME NEW k \in Nat, k \in T PROVE k + 1 \in T
    <2>1. u[k + 1] = NextEntry(t, u[k]) /\ u[k] = State(Least(k))
      BY <1>u, <1>5 DEF EntryAfter
    <2>2. CASE k < n
      <3> DEFINE f == fs[k + 1]
                 p == off[k] + 1
                 es == Kept(fs, k)
      <3>1. k + 1 \in 1 .. n /\ (k + 1) - 1 = k /\ Least(k) = k /\ Least(k + 1) = k + 1 /\ k \in 0 .. n
        BY <1>2, <2>2
      <3>2. FnOK(f) /\ IsAt(t, p, f) /\ off[k + 1] = off[k] + EntryLen(f) /\ EntryLen(f) \in Nat
        BY <1>1, <1>3, <3>1
      <3>3. off[k] \in Nat
        BY <1>1, <3>1
      <3>4. Append(es, EntryOf(f)) = Kept(fs, k + 1)
        BY KeptOK
      <3>5. p + EntryLen(f) = off[k + 1] + 1
        BY ONLY <3>2, <3>3
      <3>6. u[k] = [over |-> FALSE, at |-> p, entries |-> es]
        BY <2>1, <3>1
      <3> HIDE DEF f, p, es
      <3>7. NextEntry(t, [over |-> FALSE, at |-> p, entries |-> es])
              = [over |-> FALSE, at |-> p + EntryLen(f), entries |-> Append(es, EntryOf(f))]
        BY ONLY <3>2, EntryRead
      <3>8. u[k + 1] = State(k + 1)
        BY ONLY <2>1, <3>4, <3>5, <3>6, <3>7
      <3>9. Least(k + 1) = k + 1
        BY <3>1
      <3> HIDE DEF State, Least
      <3>10. u[k + 1] = State(Least(k + 1))
        BY ONLY <3>8, <3>9
      <3> QED
        BY ONLY <3>10, k \in Nat
    <2>3. CASE ~(k < n)
      <3>1. Least(k) = n /\ Least(k + 1) = n
        BY <1>2, <2>3
      <3> DEFINE s == State(n)
      <3>2. s.at = Len(t) + 1 /\ s.over = FALSE
        BY <1>1
      <3>3. s.at > Len(t)
        BY ONLY <1>2, <3>2
      <3> HIDE DEF s
      <3>4. NextEntry(t, s) = s
        BY ONLY <3>3 DEF NextEntry
      <3> HIDE DEF State, Least
      <3>5. u[k + 1] = State(Least(k + 1))
        BY ONLY <2>1, <3>1, <3>4 DEF s
      <3> QED
        BY ONLY <3>5, k \in Nat
    <2> QED
      BY <1>2, <2>2, <2>3
  <1>6. Nat \subseteq T
    <2> HIDE DEF T
    <2> QED
      BY <1>4, <1>5, AllNats
  <1>7. u[N] = State(Least(N)) /\ Least(N) = n
    BY <1>2, <1>6
  <1>8. u[N] = State(n)
    <2> HIDE DEF State, Least
    <2> QED
      BY ONLY <1>7
  <1> QED
    BY ONLY <1>1, <1>8 DEF u

\* Every entry has a newline, so there are iterations enough.
LEMMA NewlinesEnough ==
  ASSUME NEW fs, AllFnOK(fs), NEW t, NEW n, n = Len(fs), NEW off, IsSeq(t), Places(fs, t, n, off)
  PROVE  /\ Cardinality({i \in DOMAIN t : t[i] = "\n"}) \in Nat
         /\ Cardinality({i \in DOMAIN t : t[i] = "\n"}) >= n
  <1> DEFINE l == "\n"
             S == {i \in DOMAIN t : t[i] = l}
             g == [k \in 1 .. n |-> off[k]]
  <1>1. /\ off \in [0 .. n -> Nat]
        /\ \A k \in 1 .. n :
              off[k] = off[k - 1] + EntryLen(fs[k]) /\ EntryLen(fs[k]) >= 1 /\ EntryLen(fs[k]) \in Nat
        /\ \A k \in 1 .. n : IsAt(t, off[k - 1] + 1, fs[k])
    BY DEF Places
  <1>2. n \in Nat /\ Len(t) \in Nat /\ DOMAIN t = 1 .. Len(t)
    BY SeqLen DEF AllFnOK
  <1>3. IsFiniteSet(1 .. Len(t)) /\ S \in SUBSET (1 .. Len(t))
    BY <1>2, FS_Interval
  <1>4. IsFiniteSet(S)
    <2> HIDE DEF S
    <2> QED
      BY ONLY <1>3, FS_Subset
  <1>5. IsFiniteSet(1 .. n) /\ Cardinality(1 .. n) = n
    <2>1. 1 \in Int /\ n \in Int
      BY <1>2
    <2>2. IsFiniteSet(1 .. n) /\ Cardinality(1 .. n) = IF 1 > n THEN 0 ELSE n - 1 + 1
      BY ONLY <2>1, FS_Interval
    <2> QED
      BY ONLY <1>2, <2>2
  <1>6. ASSUME NEW k \in 1 .. n
        PROVE  off[k] \in Nat /\ off[k - 1] \in Nat /\ off[k - 1] < off[k] /\ off[k] \in S
    <2>1. k \in 0 .. n /\ k - 1 \in 0 .. n
      BY <1>2
    <2>2. off[k] \in Nat /\ off[k - 1] \in Nat
      BY <1>1, <2>1
    <2> DEFINE f == fs[k]
               p == off[k - 1] + 1
    <2>3. IsAt(t, p, f) /\ off[k] = off[k - 1] + EntryLen(f) /\ EntryLen(f) >= 1 /\ EntryLen(f) \in Nat
      BY <1>1
    <2>4. p + EntryLen(f) - 1 <= Len(t) /\ t[p + EntryLen(f) - 1] = l
      BY <2>3 DEF IsAt, Layout
    <2>5. p + EntryLen(f) - 1 = off[k] /\ off[k] >= 1 /\ off[k - 1] < off[k]
      BY ONLY <2>2, <2>3
    <2> HIDE DEF p, f, l
    <2>6. off[k] \in 1 .. Len(t)
      BY ONLY <1>2, <2>2, <2>4, <2>5
    <2>7. t[off[k]] = l
      BY ONLY <2>4, <2>5
    <2> QED
      BY <1>2, <2>2, <2>5, <2>6, <2>7
  <1> HIDE DEF S
  \* The places are in order, so they differ.
  <1> DEFINE T == {j \in Nat : \A i \in 0 .. n : i + (j + 1) <= n => off[i] < off[i + (j + 1)]}
  <1>7. 0 \in T
    <2> SUFFICES ASSUME NEW i \in 0 .. n, i + (0 + 1) <= n PROVE off[i] < off[i + (0 + 1)]
      OBVIOUS
    <2>1. i + 1 \in 1 .. n /\ (i + 1) - 1 = i /\ i + (0 + 1) = i + 1
      BY <1>2
    <2> QED
      BY <1>6, <2>1
  <1>8. ASSUME NEW j \in Nat, j \in T PROVE j + 1 \in T
    <2> SUFFICES ASSUME NEW i \in 0 .. n, i + ((j + 1) + 1) <= n PROVE off[i] < off[i + ((j + 1) + 1)]
      OBVIOUS
    <2> DEFINE a == i + (j + 1)
               b == i + ((j + 1) + 1)
    <2>1. b \in 1 .. n /\ b - 1 = a /\ a <= n /\ a \in 0 .. n
      BY <1>2
    <2>2. off[i] < off[a]
      BY <1>8, <2>1
    <2> HIDE DEF a, b
    <2>3. off[a] < off[b]
      BY <1>6, <2>1
    <2>4. off[i] \in Nat /\ off[a] \in Nat /\ off[b] \in Nat
      BY <1>1, <1>6, <2>1
    <2>5. off[i] < off[b]
      BY ONLY <2>2, <2>3, <2>4
    <2> QED
      BY <2>5 DEF b
  <1>9. Nat \subseteq T
    <2> HIDE DEF T
    <2> QED
      BY <1>7, <1>8, AllNats
  <1>10. ASSUME NEW x \in 1 .. n, NEW y \in 1 .. n, x < y PROVE off[x] < off[y]
    <2> DEFINE j == y - x - 1
    <2>1. j \in Nat /\ x \in 0 .. n /\ x + (j + 1) = y /\ x + (j + 1) <= n
      BY <1>2, <1>10
    <2>2. j \in T
      BY ONLY <1>9, <2>1
    <2> HIDE DEF j
    <2>3. \A i \in 0 .. n : i + (j + 1) <= n => off[i] < off[i + (j + 1)]
      BY ONLY <2>2
    <2>4. off[x] < off[x + (j + 1)]
      BY ONLY <2>1, <2>3
    <2> QED
      BY ONLY <2>1, <2>4
  <1>11. g \in [1 .. n -> S] /\ \A x, y \in 1 .. n : g[x] = g[y] => x = y
    <2>1. g \in [1 .. n -> S]
      BY <1>6
    <2>2. ASSUME NEW x \in 1 .. n, NEW y \in 1 .. n, g[x] = g[y] PROVE x = y
      <3>1. off[x] = off[y] /\ off[x] \in Nat /\ off[y] \in Nat
        BY <1>6, <2>2
      <3>2. ~(x < y) /\ ~(y < x)
        <4>1. ~(off[x] < off[y]) /\ ~(off[y] < off[x])
          BY ONLY <3>1
        <4> QED
          BY <1>10, <4>1
      <3> QED
        BY <3>2
    <2> QED
      BY <2>1, <2>2
  <1> HIDE DEF g
  <1>12. g \in Injection(1 .. n, S)
    BY ONLY <1>11 DEF Injection, IsInjective
  <1>13. Cardinality(1 .. n) <= Cardinality(S)
    BY ONLY <1>4, <1>12, FS_Injection
  <1>14. Cardinality(S) \in Nat
    BY ONLY <1>4, FS_CardinalityType
  <1>15. Cardinality(S) >= n
    BY ONLY <1>2, <1>5, <1>13, <1>14
  <1> QED
    BY <1>14, <1>15 DEF S, l

\* parseRap reads back what the kernel wrote.
LEMMA TextRead ==
  ASSUME NEW fs, AllFnOK(fs)
  PROVE  ParseRap(Text(fs)) = Parsed(Kept(fs, Len(fs)))
  <1> DEFINE t == Text(fs)
             n == Len(fs)
             N == Cardinality({i \in DOMAIN t : t[i] = "\n"}) + 1
  <1>1. IsSeq(t) /\ \E off : Places(fs, t, n, off)
    BY TextAt
  <1>2. PICK off : Places(fs, t, n, off)
    BY <1>1
  <1>3. n \in Nat
    BY SeqLen DEF AllFnOK
  <1> HIDE DEF t, n
  <1>4. AllFnOK(fs) /\ n = Len(fs) /\ IsSeq(t) /\ Places(fs, t, n, off)
    BY <1>1, <1>2 DEF n
  <1>5. N \in Nat /\ N >= n
    <2>1. /\ Cardinality({i \in DOMAIN t : t[i] = "\n"}) \in Nat
          /\ Cardinality({i \in DOMAIN t : t[i] = "\n"}) >= n
      BY ONLY <1>4, NewlinesEnough
    <2> DEFINE c == Cardinality({i \in DOMAIN t : t[i] = "\n"})
    <2>2. c \in Nat /\ c >= n
      BY <2>1
    <2> HIDE DEF c
    <2>3. c + 1 \in Nat /\ c + 1 >= n
      BY ONLY <1>3, <2>2
    <2> QED
      BY <2>3 DEF c
  <1>6. UserEntries(t)[N] = [over |-> FALSE, at |-> Len(t) + 1, entries |-> Kept(fs, n)]
    <2> HIDE DEF N
    <2> QED
      BY ONLY <1>4, <1>5, EntriesRead
  <1> DEFINE s == UserEntries(t)[N]
  <1>7. s.over = FALSE /\ s.entries = Kept(fs, n)
    BY ONLY <1>6
  <1> HIDE DEF s
  <1>8. ParseRap(t) = IF s.over THEN Overrun ELSE Parsed(s.entries)
    BY DEF ParseRap, s
  <1>9. ParseRap(t) = Parsed(Kept(fs, n))
    BY ONLY <1>7, <1>8
  <1> QED
    BY <1>9 DEF t, n

\* The entry is the only one with the name.
IsOnly(fs, n, i, func) == \A j \in 1 .. n : fs[j].name = func <=> j = i

\* Where an address is found.
LEMMA AddrOf ==
  ASSUME NEW fs, NEW n \in Nat, NEW func
  PROVE  /\ \A i \in 1 .. n :
               IsOnly(fs, n, i, func) => GetRapAddr(Parsed(Kept(fs, n)), func) = fs[i].addr
         /\ (\A i \in 1 .. n : fs[i].name # func) => GetRapAddr(Parsed(Kept(fs, n)), func) = 0
  <1> DEFINE es == Kept(fs, n)
             I == {i \in 1 .. Len(es) : es[i].name = <<func>>}
             r == Parsed(es)
             sel == SelectInSeq(es, LAMBDA e : e.name = <<func>>)
  <1>1. Len(es) = n /\ \A i \in 1 .. n : es[i] = EntryOf(fs[i])
    BY KeptOK
  <1>2. r.entries = es
    BY DEF Parsed
  <1>3. \A x : <<x>> = <<func>> <=> x = func
    OBVIOUS
  <1>4. \A i \in 1 .. n : es[i].name = <<fs[i].name>> /\ es[i].addr = fs[i].addr
    BY <1>1 DEF EntryOf
  <1> HIDE DEF es
  <1>5. sel = IF I # {} THEN Min(I) ELSE 0
    BY DEF SelectInSeq
  <1>6. GetRapAddr(r, func) = IF sel = 0 THEN 0 ELSE es[sel].addr
    BY <1>2 DEF GetRapAddr
  <1> HIDE DEF r, sel
  <1>7. I = {i \in 1 .. n : fs[i].name = func}
    BY <1>1, <1>3, <1>4
  <1> HIDE DEF I
  <1>8. ASSUME NEW i \in 1 .. n, IsOnly(fs, n, i, func)
        PROVE  GetRapAddr(r, func) = fs[i].addr
    <2>1. i \in I /\ \A j \in I : j = i
      BY <1>7, <1>8 DEF IsOnly
    <2>2. I \subseteq Nat /\ I # {}
      BY <1>7, <2>1
    <2>3. Min(I) \in I
      BY ONLY <2>2, LeastOf
    <2>5. Min(I) = i
      BY ONLY <2>1, <2>3
    <2>4. sel = i /\ i # 0
      BY <1>5, <2>2, <2>5
    <2> QED
      BY <1>4, <1>6, <2>4
  <1>9. ASSUME \A i \in 1 .. n : fs[i].name # func PROVE GetRapAddr(r, func) = 0
    <2>1. I = {}
      BY <1>7, <1>9
    <2> QED
      BY <1>5, <1>6, <2>1
  <1> QED
    BY ONLY <1>8, <1>9 DEF r, es

-----------------------------------------------------------------------------
\* The kernel's table.

Fn(a, name, params) == [name |-> name, params |-> params, addr |-> a[name]]
NoParams == <<>>
PutPixelParams == <<<<"u32", "argb">>, <<"u32", "x">>, <<"u32", "y">>>>
LoadParams == <<<<"str", "fp">>, <<"str", "procname">>, <<"u8", "privilege">>>>
ProcParams == <<<<"ptr", "proc">>>>
ParamLists == {NoParams, PutPixelParams, LoadParams, ProcParams}

Names == <<"putPixel", "getScreenWidth", "getFbPhysAddr", "getScreenHeight",
           "getFbSizeBytes", "getFbPitch", "loadProcess", "runProcess",
           "getProcessList", "procCtxtSwitch", "getpid">>
Lists == <<PutPixelParams, NoParams, NoParams, NoParams, NoParams, NoParams,
           LoadParams, ProcParams, NoParams, ProcParams, NoParams>>

\* The table as names and parameter lists.
LEMMA TableIs ==
  ASSUME NEW a
  PROVE  RapFunctions(a) = <<Fn(a, Names[1], Lists[1]), Fn(a, Names[2], Lists[2]),
                             Fn(a, Names[3], Lists[3]), Fn(a, Names[4], Lists[4]),
                             Fn(a, Names[5], Lists[5]), Fn(a, Names[6], Lists[6]),
                             Fn(a, Names[7], Lists[7]), Fn(a, Names[8], Lists[8]),
                             Fn(a, Names[9], Lists[9]), Fn(a, Names[10], Lists[10]),
                             Fn(a, Names[11], Lists[11])>>
  BY DEF RapFunctions, Names, Lists, Fn, NoParams, PutPixelParams, LoadParams, ProcParams

\* A sequence of eleven.
LEMMA ElevenSeq ==
  ASSUME NEW a, NEW b, NEW c, NEW d, NEW e, NEW f, NEW g, NEW h, NEW i, NEW j, NEW k,
         NEW s, s = <<a, b, c, d, e, f, g, h, i, j, k>>
  PROVE  /\ IsSeq(s) /\ Len(s) = 11 /\ s[1] = a /\ s[2] = b /\ s[3] = c /\ s[4] = d
         /\ s[5] = e /\ s[6] = f /\ s[7] = g /\ s[8] = h /\ s[9] = i /\ s[10] = j /\ s[11] = k
  <1>1. s \in Seq({a, b, c, d, e, f, g, h, i, j, k})
    OBVIOUS
  <1>2. IsSeq(s)
    BY ONLY <1>1 DEF IsSeq
  <1> QED
    BY <1>2

\* The functions by their places in the table.
LEMMA Table ==
  ASSUME NEW a
  PROVE  /\ IsSeq(RapFunctions(a)) /\ Len(RapFunctions(a)) = 11
         /\ \A i \in 1 .. 11 : RapFunctions(a)[i] = Fn(a, Names[i], Lists[i])
  <1> DEFINE s == RapFunctions(a)
             F(i) == Fn(a, Names[i], Lists[i])
  <1> HIDE DEF F
  <1>1. s = <<F(1), F(2), F(3), F(4), F(5), F(6), F(7), F(8), F(9), F(10), F(11)>>
    BY TableIs DEF F
  <1> HIDE DEF s
  <1>2. /\ IsSeq(s) /\ Len(s) = 11 /\ s[1] = F(1) /\ s[2] = F(2) /\ s[3] = F(3)
        /\ s[4] = F(4) /\ s[5] = F(5) /\ s[6] = F(6) /\ s[7] = F(7) /\ s[8] = F(8)
        /\ s[9] = F(9) /\ s[10] = F(10) /\ s[11] = F(11)
    BY ONLY <1>1, ElevenSeq
  <1>3. \A i \in 1 .. 11 : s[i] = F(i)
    <2> SUFFICES ASSUME NEW i \in 1 .. 11 PROVE s[i] = F(i)
      OBVIOUS
    <2>1. i = 1 \/ i = 2 \/ i = 3 \/ i = 4 \/ i = 5 \/ i = 6
          \/ i = 7 \/ i = 8 \/ i = 9 \/ i = 10 \/ i = 11
      OBVIOUS
    <2> QED
      BY <1>2, <2>1
  <1> QED
    BY <1>2, <1>3 DEF s, F

\* The names are words and differ; so are the parameters.
LEMMA NamesOK ==
  /\ \A i \in 1 .. 11 : Names[i] \notin Punct /\ Names[i] # "put"
  /\ \A i, j \in 1 .. 11 : Names[i] = Names[j] => i = j
  <1> DEFINE D == {"putPixel", "getScreenWidth", "getFbPhysAddr", "getScreenHeight",
                   "getFbSizeBytes", "getFbPitch", "loadProcess", "runProcess",
                   "getProcessList", "procCtxtSwitch", "getpid"}
             put == "put"
  <1>3. \A i \in 1 .. 11 : Names[i] \in D
    BY DEF Names
  <1>4. D \cap Punct = {}
    BY DEF Punct
  <1>5. put \notin D
    OBVIOUS
  <1>1. \A i \in 1 .. 11 : Names[i] \notin Punct /\ Names[i] # put
    <2> HIDE DEF D, put
    <2> QED
      BY ONLY <1>3, <1>4, <1>5
  <1>2. \A i, j \in 1 .. 11 : Names[i] = Names[j] => i = j
    BY DEF Names
  <1> QED
    BY <1>1, <1>2

WordPairs(ps) ==
    /\ IsSeq(ps) /\ Len(ps) <= 3
    /\ \A k \in 1 .. Len(ps) : ps[k][1] \notin Punct /\ ps[k][2] \notin Punct

\* Parameter lists of words: with one parameter, and with three.
LEMMA OneParam ==
  ASSUME NEW x, NEW y, x \notin Punct, y \notin Punct
  PROVE  WordPairs(<<<<x, y>>>>)
  <1> DEFINE p == <<x, y>>
             s == <<p>>
  <1>1. p[1] = x /\ p[2] = y
    OBVIOUS
  <1> HIDE DEF p
  <1>2. IsSeq(s) /\ Len(s) = 1 /\ s[1] = p
    BY ONLY IsSeqOne
  <1> HIDE DEF s
  <1>3. ASSUME NEW k \in 1 .. Len(s) PROVE s[k][1] = x /\ s[k][2] = y
    <2>1. k = 1
      BY <1>2
    <2> QED
      BY ONLY <1>1, <1>2, <2>1
  <1>4. WordPairs(s)
    BY <1>2, <1>3 DEF WordPairs
  <1> QED
    BY <1>4 DEF s, p

LEMMA ThreeParams ==
  ASSUME NEW x, NEW y, NEW u, NEW v, NEW z, NEW w,
         x \notin Punct, y \notin Punct, u \notin Punct, v \notin Punct, z \notin Punct, w \notin Punct
  PROVE  WordPairs(<<<<x, y>>, <<u, v>>, <<z, w>>>>)
  <1> DEFINE p == <<x, y>>
             q == <<u, v>>
             r == <<z, w>>
             s == <<p, q, r>>
  <1>1. p[1] = x /\ p[2] = y /\ q[1] = u /\ q[2] = v /\ r[1] = z /\ r[2] = w
    OBVIOUS
  <1> HIDE DEF p, q, r
  <1>2. s \in Seq({p, q, r}) /\ Len(s) = 3 /\ s[1] = p /\ s[2] = q /\ s[3] = r
    OBVIOUS
  <1> HIDE DEF s
  <1>3. IsSeq(s)
    BY ONLY <1>2 DEF IsSeq
  <1>4. ASSUME NEW k \in 1 .. Len(s) PROVE s[k][1] \notin Punct /\ s[k][2] \notin Punct
    <2>1. k = 1 \/ k = 2 \/ k = 3
      BY <1>2
    <2>2. s[k] = p \/ s[k] = q \/ s[k] = r
      BY ONLY <1>2, <2>1
    <2> QED
      BY <1>1, <2>2
  <1>5. Len(s) <= 3
    BY ONLY <1>2
  <1>6. WordPairs(s)
    BY <1>3, <1>4, <1>5 DEF WordPairs
  <1> QED
    BY <1>6 DEF s, p, q, r

\* The parameter lists of the table.
LEMMA ListsOK == \A i \in 1 .. 11 : WordPairs(Lists[i])
  <1>1. WordPairs(NoParams)
    BY DEF WordPairs, NoParams, IsSeq
  <1>2. WordPairs(PutPixelParams)
    <2>1. "u32" \notin Punct /\ "argb" \notin Punct /\ "x" \notin Punct /\ "y" \notin Punct
      BY DEF Punct
    <2> QED
      BY <2>1, ThreeParams DEF PutPixelParams
  <1>3. WordPairs(LoadParams)
    <2>1. /\ "str" \notin Punct /\ "fp" \notin Punct /\ "procname" \notin Punct
          /\ "u8" \notin Punct /\ "privilege" \notin Punct
      BY DEF Punct
    <2> QED
      BY <2>1, ThreeParams DEF LoadParams
  <1>4. WordPairs(ProcParams)
    <2>1. "ptr" \notin Punct /\ "proc" \notin Punct
      BY DEF Punct
    <2> QED
      BY <2>1, OneParam DEF ProcParams
  <1>5. \A i \in 1 .. 11 : Lists[i] \in ParamLists
    BY DEF Lists, ParamLists
  <1> QED
    BY ONLY <1>1, <1>2, <1>3, <1>4, <1>5 DEF ParamLists

\* The table is one that the parser can read.
LEMMA FunctionsOK ==
  ASSUME NEW a \in Layouts
  PROVE  /\ AllFnOK(RapFunctions(a)) /\ Len(RapFunctions(a)) = 11
         /\ \A i \in 1 .. 11 :
               RapFunctions(a)[i].name = Names[i] /\ RapFunctions(a)[i].addr = a[Names[i]]
         /\ \A i \in 1 .. 11 : EntryLen(RapFunctions(a)[i]) <= 28
         /\ DOMAIN a = {Names[i] : i \in 1 .. 11}
  <1> DEFINE fs == RapFunctions(a)
  <1>1. IsSeq(fs) /\ Len(fs) = 11 /\ \A i \in 1 .. 11 : fs[i] = Fn(a, Names[i], Lists[i])
    BY Table
  <1>2. /\ DOMAIN a = {fs[i].name : i \in DOMAIN fs}
        /\ \A f \in DOMAIN a : a[f] \in Nat /\ Len(Fromu(a[f])) <= 10
    BY LayoutsOK
  <1> HIDE DEF fs
  <1>3. \A i \in 1 .. 11 : fs[i].name = Names[i] /\ fs[i].params = Lists[i] /\ fs[i].addr = a[Names[i]]
    BY <1>1 DEF Fn
  <1>4. DOMAIN fs = 1 .. 11
    BY ONLY <1>1, SeqLen
  <1>5. DOMAIN a = {Names[i] : i \in 1 .. 11}
    <2>1. {fs[i].name : i \in 1 .. 11} = {Names[i] : i \in 1 .. 11}
      BY ONLY <1>3
    <2> QED
      BY ONLY <1>2, <1>4, <2>1
  <1>6. ASSUME NEW i \in 1 .. 11 PROVE FnOK(fs[i]) /\ EntryLen(fs[i]) <= 28
    <2> DEFINE f == fs[i]
               ps == Lists[i]
               m == Len(ps)
               b == Blank(f)
               d == Len(Fromu(f.addr))
    <2>1. f.name = Names[i] /\ f.params = ps /\ f.addr = a[Names[i]]
      BY <1>3
    <2>2. Names[i] \notin Punct /\ Names[i] \in DOMAIN a
      BY <1>5, NamesOK
    <2>3. f.addr \in Nat /\ d <= 10
      BY <1>2, <2>1, <2>2
    <2>4. IsSeq(ps) /\ m <= 3 /\ \A k \in 1 .. m : ps[k][1] \notin Punct /\ ps[k][2] \notin Punct
      BY ListsOK DEF WordPairs
    <2>5. m \in Nat
      BY <2>4, SeqLen
    <2>6. f.name \notin Punct
      BY <2>1, <2>2
    <2> HIDE DEF f, ps
    <2>7. m <= MaxParams
      BY ONLY <2>4, <2>5 DEF MaxParams
    <2>8. FnOK(f)
      BY ONLY <2>1, <2>3, <2>4, <2>6, <2>7 DEF FnOK
    <2>9. b \in {0, 1} /\ d \in Nat
      BY <2>8, EntryLayout DEF Blank
    <2> HIDE DEF b, d
    <2>10. EntryLen(f) = 3 + 4 * m + b + 2 + d
      BY <2>1 DEF EntryLen, Close, b, d
    <2> HIDE DEF m
    <2>11. EntryLen(f) <= 28
      <3>1. m \in Nat /\ m <= 3
        BY <2>4, <2>5
      <3>2. d \in Nat /\ d <= 10 /\ b \in {0, 1}
        BY <2>3, <2>9
      <3>3. 3 + 4 * m + b + 2 + d <= 28
        BY ONLY <3>1, <3>2
      <3> QED
        BY ONLY <2>10, <3>3
    <2> QED
      BY <2>8, <2>11 DEF f
  <1>7. AllFnOK(fs)
    BY <1>1, <1>6 DEF AllFnOK
  <1> QED
    BY <1>1, <1>3, <1>5, <1>6, <1>7 DEF fs

\* The file is far smaller than the buffer, which read thus fills with all of it.
LEMMA ReadsAll ==
  ASSUME NEW a \in Layouts
  PROVE  RapRead(RapFunctions(a), MEM_DEF_ALLOCSIZE) = Text(RapFunctions(a))
  <1> DEFINE fs == RapFunctions(a)
             t == Text(fs)
             L == Len(t)
  <1>1. AllFnOK(fs) /\ Len(fs) = 11 /\ \A i \in 1 .. 11 : EntryLen(fs[i]) <= 28
    BY FunctionsOK
  <1> HIDE DEF fs
  <1>2. IsSeq(t) /\ \E off : Places(fs, t, Len(fs), off)
    BY ONLY <1>1, TextAt
  <1>3. PICK off : Places(fs, t, 11, off)
    BY <1>1, <1>2
  <1> HIDE DEF t
  <1>4. /\ off \in [0 .. 11 -> Nat] /\ off[0] = 0 /\ off[11] = L
        /\ \A k \in 1 .. 11 : off[k] = off[k - 1] + EntryLen(fs[k]) /\ EntryLen(fs[k]) \in Nat
    BY <1>3 DEF Places
  <1>5. \A k \in 1 .. 11 : off[k - 1] \in Nat /\ off[k] \in Nat /\ off[k] <= off[k - 1] + 28
    <2> SUFFICES ASSUME NEW k \in 1 .. 11
                 PROVE  off[k - 1] \in Nat /\ off[k] \in Nat /\ off[k] <= off[k - 1] + 28
      OBVIOUS
    <2>1. k \in 0 .. 11 /\ k - 1 \in 0 .. 11
      OBVIOUS
    <2>2. off[k] \in Nat /\ off[k - 1] \in Nat
      BY ONLY <1>4, <2>1
    <2>3. off[k] = off[k - 1] + EntryLen(fs[k]) /\ EntryLen(fs[k]) \in Nat /\ EntryLen(fs[k]) <= 28
      BY <1>1, <1>4
    <2> QED
      BY ONLY <2>2, <2>3
  <1> DEFINE T == {k \in Nat : k <= 11 => off[k] <= 28 * k}
  <1>6. 0 \in T
    BY <1>4
  <1>7. ASSUME NEW k \in Nat, k \in T PROVE k + 1 \in T
    <2> SUFFICES ASSUME k + 1 <= 11 PROVE off[k + 1] <= 28 * (k + 1)
      OBVIOUS
    <2>1. k + 1 \in 1 .. 11 /\ (k + 1) - 1 = k
      OBVIOUS
    <2>2. off[k] \in Nat /\ off[k + 1] \in Nat /\ off[k + 1] <= off[k] + 28
      BY <1>5, <2>1
    <2>3. off[k] <= 28 * k
      BY <1>7
    <2> QED
      BY <2>2, <2>3
  <1>8. Nat \subseteq T
    <2> HIDE DEF T
    <2> QED
      BY <1>6, <1>7, AllNats
  <1>9. off[11] <= 28 * 11
    BY <1>8
  <1>10. L \in Nat /\ L <= 308
    <2>1. L \in Nat
      BY <1>2, SeqLen
    <2> QED
      BY <1>4, <1>9, <2>1
  <1> HIDE DEF L
  <1>11. Min({MEM_DEF_ALLOCSIZE, L}) = L
    <2> DEFINE S == {MEM_DEF_ALLOCSIZE, L}
    <2>1. S \subseteq Nat /\ S # {} /\ L \in S /\ L < 65536
      BY <1>10 DEF MEM_DEF_ALLOCSIZE
    <2>2. Min(S) \in S /\ \A y \in S : Min(S) <= y
      BY <2>1, LeastOf
    <2>3. Min(S) = 65536 \/ Min(S) = L
      BY <2>2 DEF MEM_DEF_ALLOCSIZE
    <2>4. Min(S) <= L
      BY <2>1, <2>2
    <2> HIDE DEF S
    <2>5. Min(S) = L
      BY ONLY <1>10, <2>1, <2>3, <2>4
    <2> QED
      BY <2>5 DEF S
  <1>12. SubSeq(t, 1, L) = t
    <2> DEFINE s == SubSeq(t, 1, L)
    <2>1. IsSeq(t) /\ 1 \in Nat /\ L \in Nat /\ 1 >= 1 /\ 1 <= L + 1 /\ L <= Len(t)
      BY <1>2, <1>10 DEF L
    <2>2. IsSeq(s) /\ Len(s) = L + 1 - 1 /\ \A k \in 1 .. L + 1 - 1 : s[k] = t[1 - 1 + k]
      BY ONLY <2>1, SubSeqAt
    <2> HIDE DEF s
    <2>3. Len(s) = L /\ \A k \in 1 .. L : s[k] = t[k]
      BY ONLY <2>2, <1>10
    <2>4. IsSeq(s) /\ IsSeq(t) /\ Len(s) = Len(t) /\ \A k \in 1 .. Len(s) : s[k] = t[k]
      BY ONLY <2>1, <2>2, <2>3 DEF L
    <2>5. s = t
      BY ONLY <2>4, SameSeq
    <2> QED
      BY <2>5 DEF s
  <1>13. RapRead(fs, MEM_DEF_ALLOCSIZE) = SubSeq(t, 1, Min({MEM_DEF_ALLOCSIZE, L}))
    BY DEF RapRead, Text, t, L, Entry
  <1>14. RapRead(fs, MEM_DEF_ALLOCSIZE) = t
    BY ONLY <1>11, <1>12, <1>13
  <1> QED
    BY <1>14 DEF t, fs

\* What _start knows of func.rap.
RapInv ==
    /\ addrs \in Layouts
    /\ rap \in {NotRead, Parsed(Kept(RapFunctions(addrs), 11))}

\* Before parseRap nothing is read.
LEMMA RapInitOK == RapInit => RapInv
  BY DEF RapInit, RapInv

\* parseRap reads the table.
LEMMA RapStepOK == RapInv /\ [ReadFuncRap]_rapVars => RapInv'
  <1> SUFFICES ASSUME RapInv, ReadFuncRap PROVE RapInv'
    BY DEF RapInv, rapVars
  <1>1. addrs \in Layouts /\ addrs' = addrs
    BY DEF RapInv, ReadFuncRap
  <1> DEFINE fs == RapFunctions(addrs)
  <1>2. RapRead(fs, MEM_DEF_ALLOCSIZE) = Text(fs) /\ AllFnOK(fs) /\ Len(fs) = 11
    BY <1>1, ReadsAll, FunctionsOK
  <1>3. rap' = ParseRap(RapRead(fs, MEM_DEF_ALLOCSIZE))
    BY DEF ReadFuncRap
  <1> HIDE DEF fs
  <1>4. ParseRap(Text(fs)) = Parsed(Kept(fs, Len(fs)))
    BY ONLY <1>2, TextRead
  <1>5. rap' = Parsed(Kept(fs, 11))
    BY ONLY <1>2, <1>3, <1>4
  <1> QED
    BY <1>1, <1>5 DEF RapInv, fs

\* The table names each function once.
LEMMA RapInvAddresses == RapInv => RapAddresses
  <1> SUFFICES ASSUME RapInv, rap # NotRead
               PROVE  /\ ~rap.over
                      /\ \A f \in DOMAIN addrs : GetRapAddr(rap, f) = addrs[f]
                      /\ GetRapAddr(rap, "put") = 0
    BY DEF RapAddresses
  <1> DEFINE fs == RapFunctions(addrs)
             put == "put"
  <1>1. rap = Parsed(Kept(fs, 11)) /\ addrs \in Layouts
    BY DEF RapInv
  <1>2. /\ \A i \in 1 .. 11 : fs[i].name = Names[i] /\ fs[i].addr = addrs[Names[i]]
        /\ DOMAIN addrs = {Names[i] : i \in 1 .. 11}
    BY <1>1, FunctionsOK
  <1>3. ~rap.over
    BY <1>1 DEF Parsed
  <1>4. /\ \A i \in 1 .. 11 : Names[i] # put
        /\ \A i, j \in 1 .. 11 : Names[i] = Names[j] => i = j
    BY NamesOK
  <1> HIDE DEF fs, put
  <1>5. ASSUME NEW f \in DOMAIN addrs PROVE GetRapAddr(rap, f) = addrs[f]
    <2>1. PICK i \in 1 .. 11 : Names[i] = f
      BY <1>2
    <2>2. IsOnly(fs, 11, i, f)
      BY <1>2, <1>4, <2>1 DEF IsOnly
    <2>3. 11 \in Nat
      OBVIOUS
    <2>4. GetRapAddr(Parsed(Kept(fs, 11)), f) = fs[i].addr
      BY ONLY <2>2, <2>3, AddrOf, i \in 1 .. 11
    <2> QED
      BY <1>1, <1>2, <2>1, <2>4
  <1>6. GetRapAddr(rap, put) = 0
    <2>1. \A i \in 1 .. 11 : fs[i].name # put
      BY <1>2, <1>4
    <2>2. 11 \in Nat
      OBVIOUS
    <2>3. GetRapAddr(Parsed(Kept(fs, 11)), put) = 0
      BY ONLY <2>1, <2>2, AddrOf
    <2> QED
      BY <1>1, <2>3
  <1> QED
    BY <1>3, <1>5, <1>6 DEF put

\* Whatever addresses the kernel's functions have: after parseRap has read what
\* the kernel wrote to func.rap, getRapAddr returns the address of each of them,
\* and none for "put", which is only the beginning of one of their names.
THEOREM AddressesAreFound == RapSpec => []RapAddresses
  <1>1. RapInit => RapInv
    BY RapInitOK
  <1>2. RapInv /\ [ReadFuncRap]_rapVars => RapInv'
    BY RapStepOK
  <1>3. RapInv => RapAddresses
    BY RapInvAddresses
  <1> QED
    BY <1>1, <1>2, <1>3, PTL DEF RapSpec
==============================================================================
