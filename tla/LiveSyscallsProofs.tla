------------------------- MODULE LiveSyscallsProofs -------------------------
(***************************************************************************)
(* Proofs about LiveSyscalls: whatever the drivers register and however    *)
(* often, a live system call reaches the function registered last for its  *)
(* number, and only a call within a call loses its way back.               *)
(***************************************************************************)
EXTENDS LiveSyscalls, SequenceTheorems, TLAPS

Mappable == KRN_SYSC_END_SPEC .. SIZESPEC - 1
Fns == Functions \cup {"tinyStub"}
Entries == [k : Mappable, v : Fns]

\* A Map with at most one entry for a key.
MapOK(map) ==
    /\ map \in Seq(Entries)
    /\ \A i, j \in 1 .. Len(map) : map[i].k = map[j].k => i = j
\* The Map and the history agree.
Agrees(map, reg) ==
    /\ reg = [n \in DOMAIN reg |-> reg[n]]
    /\ \A i \in 1 .. Len(map) : map[i].k \in DOMAIN reg /\ map[i].v = reg[map[i].k]
    /\ \A n \in DOMAIN reg : \E i \in 1 .. Len(map) : map[i].k = n

LiveTypes ==
    /\ frames \in Seq(Nat \cup {NoFunction})
    /\ live.calls \in Nat /\ live.nested \in BOOLEAN

\* Without nesting one call is handled at most, and the stack holds its caller.
OneFrame ==
    phase \in {"calls", "up"} /\ ~live.nested =>
        Len(frames) = 0 \/ (Len(frames) = 1 /\ saved = 0)

\* Init makes no call before its end.
NotStarted ==
    phase \notin {"calls", "up", "panic", "lost"} => live.calls = 0 /\ frames = <<>> /\ ~live.nested

\* The inductive invariant.
LiveInv ==
    /\ MapOK(syscLayerMapping) /\ Agrees(syscLayerMapping, registered)
    /\ LiveTypes /\ OneFrame /\ NotStarted /\ LiveDispatch

-----------------------------------------------------------------------------
\* Map.

\* The index of a key is that of its one entry (Map::operator[]).
LEMMA IndexOfEntry ==
    ASSUME NEW map, MapOK(map), NEW i \in 1 .. Len(map)
    PROVE  IndexIn(map, map[i].k) = i
<1> DEFINE I == {j \in 1 .. Len(map) : map[j].k = map[i].k}
<1>1. I = {i}
  BY DEF MapOK
<1>2. IndexIn(map, map[i].k) = IF I # {} THEN Min(I) ELSE 0
  BY DEF IndexIn, SelectInSeq
<1>3. Min({i}) = i
  BY DEF Min
<1> QED BY <1>1, <1>2, <1>3

\* A key without entry has index 0, which exists takes for "not there".
LEMMA IndexOfNone ==
    ASSUME NEW map, NEW k, \A i \in 1 .. Len(map) : map[i].k # k
    PROVE  IndexIn(map, k) = 0
BY DEF IndexIn, SelectInSeq

\* rmkey removes the one entry of a key and leaves the others in their order.
LEMMA RmkeyRemoves ==
    ASSUME NEW map, MapOK(map), NEW k
    PROVE  /\ MapOK(Rmkey(map, k))
           /\ \A i \in 1 .. Len(Rmkey(map, k)) :
                 Rmkey(map, k)[i].k # k /\ \E j \in 1 .. Len(map) : Rmkey(map, k)[i] = map[j]
           /\ \A j \in 1 .. Len(map) :
                 map[j].k # k => \E i \in 1 .. Len(Rmkey(map, k)) : Rmkey(map, k)[i] = map[j]
<1> USE DEF MapOK
<1>1. CASE \A i \in 1 .. Len(map) : map[i].k # k
  <2>1. Rmkey(map, k) = map
    BY <1>1, IndexOfNone DEF Rmkey
  <2> QED BY <1>1, <2>1
<1>2. CASE \E i \in 1 .. Len(map) : map[i].k = k
  <2>p. PICK p \in 1 .. Len(map) : map[p].k = k
    BY <1>2
  <2> DEFINE r == Rmkey(map, k)
             at(i) == IF i < p THEN i ELSE i + 1
  <2>0. map \in Seq(Entries) /\ Len(map) \in Nat
    OBVIOUS
  <2>1. r = SubSeq(map, 1, p - 1) \o SubSeq(map, p + 1, Len(map))
    <3>1. IndexIn(map, k) = p
      BY <2>p, IndexOfEntry
    <3>2. p # 0
      BY <2>0
    <3> QED BY <3>1, <3>2 DEF Rmkey, RemoveAt
  <2>2. /\ r \in Seq(Entries) /\ Len(r) = Len(map) - 1
        /\ \A i \in 1 .. Len(r) : r[i] = map[at(i)]
    <3> HIDE DEF r, MapOK
    <3>1. /\ SubSeq(map, 1, p - 1) \in Seq(Entries) /\ Len(SubSeq(map, 1, p - 1)) = p - 1
          /\ \A i \in 1 .. p - 1 : SubSeq(map, 1, p - 1)[i] = map[i]
      BY <2>0
    <3>2. /\ SubSeq(map, p + 1, Len(map)) \in Seq(Entries) /\ Len(SubSeq(map, p + 1, Len(map))) = Len(map) - p
          /\ \A i \in 1 .. Len(map) - p : SubSeq(map, p + 1, Len(map))[i] = map[p + i]
      BY <2>0
    <3> DEFINE s == SubSeq(map, 1, p - 1)
               t == SubSeq(map, p + 1, Len(map))
    <3> HIDE DEF s, t
    <3>3. /\ r \in Seq(Entries) /\ Len(r) = Len(s) + Len(t)
          /\ \A i \in 1 .. Len(s) + Len(t) : r[i] = IF i <= Len(s) THEN s[i] ELSE t[i - Len(s)]
      BY <2>1, <3>1, <3>2, ConcatProperties DEF s, t
    <3>4. Len(r) = Len(map) - 1
      <4>1. Len(s) = p - 1 /\ Len(t) = Len(map) - p
        BY <3>1, <3>2 DEF s, t
      <4> QED BY <2>0, <3>3, <4>1
    <3>5. ASSUME NEW i \in 1 .. Len(r) PROVE r[i] = map[at(i)]
      <4>1. CASE i < p
        BY <4>1, <2>0, <3>1, <3>3, <3>4 DEF s
      <4>2. CASE ~(i < p)
        <5>1. Len(s) = p - 1 /\ i \in 1 .. Len(s) + Len(t)
          BY <3>1, <3>3 DEF s
        <5>2. r[i] = t[i - (p - 1)]
          BY <4>2, <5>1, <3>3, <2>0
        <5>3. i - (p - 1) \in 1 .. Len(map) - p /\ p + (i - (p - 1)) = i + 1
          BY <4>2, <3>4, <2>0
        <5> QED BY <4>2, <5>2, <5>3, <3>2 DEF t
      <4> QED BY <4>1, <4>2
    <3> QED BY <3>3, <3>4, <3>5
  <2> HIDE DEF r
  <2>3. \A i \in 1 .. Len(r) : at(i) \in 1 .. Len(map) /\ at(i) # p
    BY <2>0, <2>2
  <2>4. MapOK(r)
    <3>1. ASSUME NEW i \in 1 .. Len(r), NEW j \in 1 .. Len(r), r[i].k = r[j].k PROVE i = j
      <4>1. at(i) = at(j)
        BY <3>1, <2>2, <2>3
      <4> QED BY <4>1, <2>0, <2>2
    <3> QED BY <2>2, <3>1
  <2>5. \A i \in 1 .. Len(r) : r[i].k # k /\ \E j \in 1 .. Len(map) : r[i] = map[j]
    BY <2>p, <2>2, <2>3
  <2>6. ASSUME NEW j \in 1 .. Len(map), map[j].k # k PROVE \E i \in 1 .. Len(r) : r[i] = map[j]
    <3>1. j # p
      BY <2>p, <2>6
    <3>2. CASE j < p
      <4>1. j \in 1 .. Len(r) /\ at(j) = j
        BY <3>2, <2>0, <2>2
      <4> QED BY <4>1, <2>2
    <3>3. CASE j > p
      <4>1. j - 1 \in 1 .. Len(r) /\ at(j - 1) = j
        BY <3>3, <2>0, <2>2
      <4> QED BY <4>1, <2>2
    <3> QED BY <3>1, <3>2, <3>3, <2>0
  <2> QED BY <2>4, <2>5, <2>6 DEF r
<1> QED BY <1>1, <1>2

\* REG_SYSCALL: the Map follows the history of registrations, and a number
\* outside the range changes neither.
LEMMA RegSyscallAgrees ==
    ASSUME NEW map, NEW reg, MapOK(map), Agrees(map, reg), NEW n \in Nat, NEW f \in Fns
    PROVE  LET m == RegSyscall(map, n, f)
               r == IF n \in Mappable THEN [x \in {n} \cup DOMAIN reg |-> IF x = n THEN f ELSE reg[x]] ELSE reg
           IN  MapOK(m) /\ Agrees(m, r)
<1>1. CASE n \notin Mappable
  <2>1. RegSyscall(map, n, f) = map
    BY <1>1 DEF RegSyscall, Mappable, SIZESPEC, KRN_SYSC_END_SPEC
  <2> QED BY <1>1, <2>1
<1>2. CASE n \in Mappable
  <2> DEFINE rm == Rmkey(map, n)
             m == Append(rm, [k |-> n, v |-> f])
             r == [x \in {n} \cup DOMAIN reg |-> IF x = n THEN f ELSE reg[x]]
  <2>1. RegSyscall(map, n, f) = m
    BY <1>2 DEF RegSyscall, Insert, Mappable, SIZESPEC, KRN_SYSC_END_SPEC
  <2>2. /\ MapOK(rm)
        /\ \A i \in 1 .. Len(rm) : rm[i].k # n /\ \E j \in 1 .. Len(map) : rm[i] = map[j]
        /\ \A j \in 1 .. Len(map) : map[j].k # n => \E i \in 1 .. Len(rm) : rm[i] = map[j]
    BY RmkeyRemoves
  <2> HIDE DEF rm
  <2>3. r = [x \in {n} \cup DOMAIN reg |-> IF x = n THEN f ELSE reg[x]]
    OBVIOUS
  <2>4. [k |-> n, v |-> f] \in Entries
    BY <1>2 DEF Entries
  <2>5. /\ m \in Seq(Entries) /\ Len(m) = Len(rm) + 1 /\ Len(rm) \in Nat
        /\ \A i \in 1 .. Len(rm) : m[i] = rm[i]
        /\ m[Len(m)] = [k |-> n, v |-> f]
    BY <2>2, <2>4 DEF MapOK
  <2> HIDE DEF m, r
  <2>6. \A i \in 1 .. Len(m) : i \in 1 .. Len(rm) \/ i = Len(m)
    BY <2>5
  <2>7. MapOK(m)
    <3>1. ASSUME NEW i \in 1 .. Len(m), NEW j \in 1 .. Len(m), m[i].k = m[j].k PROVE i = j
      <4>1. \A x \in 1 .. Len(rm) : m[x].k # n
        BY <2>2, <2>5
      <4>2. m[Len(m)].k = n
        BY <2>5
      <4>3. CASE i \in 1 .. Len(rm) /\ j \in 1 .. Len(rm)
        BY <4>3, <3>1, <2>2, <2>5 DEF MapOK
      <4> QED BY <4>1, <4>2, <4>3, <3>1, <2>6
    <3> QED BY <2>5, <3>1 DEF MapOK
  <2>8. DOMAIN r = {n} \cup DOMAIN reg /\ r[n] = f /\ \A x \in DOMAIN reg : x # n => r[x] = reg[x]
    BY <2>3
  <2>9. \A i \in 1 .. Len(m) : m[i].k \in DOMAIN r /\ m[i].v = r[m[i].k]
    <3> TAKE i \in 1 .. Len(m)
    <3>1. CASE i \in 1 .. Len(rm)
      <4>1. PICK j \in 1 .. Len(map) : rm[i] = map[j]
        BY <3>1, <2>2
      <4>2. map[j].k \in DOMAIN reg /\ map[j].v = reg[map[j].k] /\ map[j].k # n
        BY <4>1, <3>1, <2>2 DEF Agrees
      <4> QED BY <3>1, <4>1, <4>2, <2>5, <2>8
    <3>2. CASE i = Len(m)
      BY <3>2, <2>5, <2>8
    <3> QED BY <3>1, <3>2, <2>6
  <2>10. \A x \in DOMAIN r : \E i \in 1 .. Len(m) : m[i].k = x
    <3> TAKE x \in DOMAIN r
    <3>1. CASE x = n
      <4>1. Len(m) \in 1 .. Len(m)
        BY <2>5
      <4> QED BY <4>1, <3>1, <2>5
    <3>2. CASE x # n
      <4>1. PICK j \in 1 .. Len(map) : map[j].k = x
        BY <3>2, <2>8 DEF Agrees
      <4>2. PICK i \in 1 .. Len(rm) : rm[i] = map[j]
        BY <4>1, <3>2, <2>2
      <4>3. i \in 1 .. Len(m) /\ m[i].k = x
        BY <4>1, <4>2, <2>5
      <4> QED BY <4>3
    <3> QED BY <3>1, <3>2
  <2>11. r = [x \in DOMAIN r |-> r[x]]
    BY <2>3
  <2>12. Agrees(m, r)
    BY <2>9, <2>10, <2>11 DEF Agrees
  <2> QED BY <1>2, <2>1, <2>7, <2>12 DEF r
<1> QED BY <1>1, <1>2

-----------------------------------------------------------------------------
\* The steps.

\* A call by anybody: what it runs is what is registered, and it is alone on the
\* stack unless it is nested.
LEMMA CallPreserves ==
    ASSUME LiveInv, NEW n \in Nat, NEW a \in Nat, NEW f, n = REG_SYSCALL => f \in Fns,
           phase \in {"calls", "up"}, LiveSyscall(n, a, f)
    PROVE  LiveInv'
<1> DEFINE known == Exists(syscLayerMapping, n)
           fn == syscLayerMapping[IndexIn(syscLayerMapping, n)].v
           here == Len(frames)
           kernel == n \in {REG_SYSCALL, ALLOC, FREE}
<1>1. MapOK(syscLayerMapping)' /\ Agrees(syscLayerMapping, registered)'
  <2>1. CASE n = REG_SYSCALL
    <3>1. f \in Fns /\ MapOK(syscLayerMapping) /\ Agrees(syscLayerMapping, registered)
      BY <2>1 DEF LiveInv
    <3>2. /\ MapOK(RegSyscall(syscLayerMapping, a, f))
          /\ Agrees(RegSyscall(syscLayerMapping, a, f),
                    IF a \in Mappable THEN Registered(a, f) ELSE registered)
      BY <3>1, RegSyscallAgrees DEF Registered
    <3>3. /\ syscLayerMapping' = RegSyscall(syscLayerMapping, a, f)
          /\ registered' = IF a \in Mappable THEN Registered(a, f) ELSE registered
      BY <2>1 DEF LiveSyscall, Mappable
    <3>4. MapOK(syscLayerMapping') /\ Agrees(syscLayerMapping', registered')
      BY <3>2, <3>3
    <3> QED BY <3>4
  <2>2. CASE n # REG_SYSCALL
    BY <2>2 DEF LiveInv, LiveSyscall
  <2> QED BY <2>1, <2>2
<1>2. /\ known <=> n \in DOMAIN registered
      /\ known => fn = registered[n]
  <2>1. CASE \E i \in 1 .. Len(syscLayerMapping) : syscLayerMapping[i].k = n
    <3>1. PICK i \in 1 .. Len(syscLayerMapping) : syscLayerMapping[i].k = n
      BY <2>1
    <3>2. IndexIn(syscLayerMapping, n) = i
      BY <3>1, IndexOfEntry DEF LiveInv
    <3>3. n \in DOMAIN registered /\ syscLayerMapping[i].v = registered[n] /\ i # 0
      BY <3>1 DEF LiveInv, Agrees
    <3> QED BY <3>2, <3>3 DEF Exists
  <2>2. CASE \A i \in 1 .. Len(syscLayerMapping) : syscLayerMapping[i].k # n
    <3>1. ~known
      BY <2>2, IndexOfNone DEF Exists
    <3>2. n \notin DOMAIN registered
      BY <2>2 DEF LiveInv, Agrees
    <3> QED BY <3>1, <3>2
  <2> QED BY <2>1, <2>2
<1> HIDE DEF known, fn
<1>3. /\ saved' = here /\ frames' = Append(frames, IF kernel THEN NoFunction ELSE n)
      /\ live' = [calls |-> live.calls + 1, nested |-> live.nested \/ here > 0,
                  fn |-> IF known THEN fn ELSE NoFunction,
                  expected |-> IF n \in DOMAIN registered THEN registered[n] ELSE NoFunction]
      /\ phase' = IF ~kernel /\ ~known THEN "panic" ELSE phase
  BY DEF LiveSyscall, known, fn
<1>4. /\ frames \in Seq(Nat \cup {NoFunction}) /\ here \in Nat
      /\ live.calls \in Nat /\ live.nested \in BOOLEAN
  BY DEF LiveInv, LiveTypes
<1>5. frames' \in Seq(Nat \cup {NoFunction}) /\ Len(frames') = here + 1
  BY <1>3, <1>4
<1>6. LiveTypes'
  BY <1>3, <1>4, <1>5 DEF LiveTypes
<1>7. OneFrame'
  <2>1. ~live'.nested => here = 0
    <3>1. live'.nested = (live.nested \/ here > 0)
      BY <1>3
    <3>2. ~live'.nested => ~(here > 0)
      BY <3>1
    <3> QED BY <3>2, <1>4
  <2>2. CASE here = 0
    BY <2>2, <1>3, <1>5 DEF OneFrame
  <2>3. CASE live'.nested
    BY <2>3 DEF OneFrame
  <2> QED BY <2>1, <2>2, <2>3
<1>8. NotStarted'
  BY <1>3 DEF NotStarted
<1>9. LiveDispatch'
  BY <1>2, <1>3 DEF LiveDispatch
<1> QED BY <1>1, <1>6, <1>7, <1>8, <1>9 DEF LiveInv

\* One frame less.
LEMMA FrontShorter ==
    ASSUME NEW S, NEW s \in Seq(S), s # <<>>
    PROVE  Front(s) \in Seq(S) /\ Len(Front(s)) = Len(s) - 1
<1>1. Len(s) \in Nat /\ Len(s) # 0
  OBVIOUS
<1>2. \A i \in 1 .. Len(s) - 1 : s[i] \in S
  BY <1>1
<1> DEFINE n == Len(s) - 1
<1>3. n \in Nat
  <2>1. \A k \in Nat : k # 0 => k - 1 \in Nat
    OBVIOUS
  <2> QED BY <1>1, <2>1
<1> HIDE DEF n
<1>4. SubSeq(s, 1, n) \in Seq(S) /\ Len(SubSeq(s, 1, n)) = IF 1 <= n THEN n - 1 + 1 ELSE 0
  BY <1>2, <1>3, SubSeqProperties DEF n
<1>5. SubSeq(s, 1, n) \in Seq(S) /\ Len(SubSeq(s, 1, n)) = n
  BY <1>3, <1>4
<1> QED BY <1>5 DEF Front, n

\* The return of the stub: only a nested call leaves a word at the top of the
\* stack that is not the caller's.
LEMMA ReturnPreserves ==
    ASSUME LiveInv, LiveReturn
    PROVE  LiveInv'
<1>1. MapOK(syscLayerMapping)' /\ Agrees(syscLayerMapping, registered)' /\ live' = live /\ saved' = saved
  BY DEF LiveInv, LiveReturn
<1>2. live.calls \in Nat /\ live.nested \in BOOLEAN
  BY DEF LiveInv, LiveTypes
<1>3. frames \in Seq(Nat \cup {NoFunction}) /\ frames # <<>>
  BY DEF LiveInv, LiveTypes, LiveReturn
<1>4. CASE saved = Len(frames) - 1
  <2>1. frames' = Front(frames) /\ phase' \in {"calls", "up"} /\ phase \in {"calls", "up"}
    BY <1>4 DEF LiveReturn
  <2>2. frames' \in Seq(Nat \cup {NoFunction}) /\ Len(frames') = Len(frames) - 1
    BY <1>3, <2>1, FrontShorter
  <2>3. LiveTypes'
    BY <1>1, <1>2, <2>2 DEF LiveTypes
  <2>4. OneFrame'
    BY <1>1, <1>3, <2>1, <2>2 DEF LiveInv, OneFrame
  <2>5. NotStarted' /\ LiveDispatch'
    BY <1>1, <2>1 DEF LiveInv, NotStarted, LiveDispatch
  <2> QED BY <1>1, <2>3, <2>4, <2>5 DEF LiveInv
<1>5. CASE saved # Len(frames) - 1
  <2>1. phase' = "lost" /\ frames' = frames /\ phase \in {"calls", "up"}
    BY <1>5 DEF LiveReturn
  <2>2. live.nested
    <3>1. ~live.nested => Len(frames) = 0 \/ (Len(frames) = 1 /\ saved = 0)
      BY <2>1 DEF LiveInv, OneFrame
    <3>2. ~(Len(frames) = 0 \/ (Len(frames) = 1 /\ saved = 0))
      <4>1. Len(frames) # 0
        BY <1>3
      <4>2. Len(frames) = 1 => saved # 0
        BY <1>5
      <4> QED BY <4>1, <4>2
    <3> QED BY <3>1, <3>2
  <2> QED BY <1>1, <1>2, <1>3, <2>1, <2>2 DEF LiveInv, LiveTypes, OneFrame, NotStarted, LiveDispatch
<1> QED BY <1>4, <1>5

\* LiveInv holds in every state: for any drivers, any numbers they call and
\* register (REG_SYSCALL of liveSyscHandlr) and any number of calls.
THEOREM LiveInvariant == LiveSpec => []LiveInv
<1>1. LiveInit /\ phase \notin {"calls", "up", "panic", "lost"} => LiveInv
  <2> SUFFICES ASSUME LiveInit, phase \notin {"calls", "up", "panic", "lost"} PROVE LiveInv
    OBVIOUS
  <2>1. MapOK(syscLayerMapping)
    BY DEF LiveInit, MapOK
  <2>2. Agrees(syscLayerMapping, registered)
    BY DEF LiveInit, Agrees
  <2>3. LiveTypes /\ OneFrame /\ NotStarted /\ LiveDispatch
    BY DEF LiveInit, LiveTypes, OneFrame, NotStarted, LiveDispatch
  <2> QED BY <2>1, <2>2, <2>3 DEF LiveInv
<1>2. LiveInv /\ [LiveNext \/ Starting]_<<phase, liveVars>> => LiveInv'
  <2> SUFFICES ASSUME LiveInv, [LiveNext \/ Starting]_<<phase, liveVars>> PROVE LiveInv'
    OBVIOUS
  <2>1. CASE InitCalls
    BY <2>1, CallPreserves DEF InitCalls, REG_SYSCALL, Fns
  <2>2. CASE DriverCalls
    <3>1. PICK n \in LiveNumbers, a \in LiveNumbers, f \in Functions : LiveSyscall(n, a, f)
      BY <2>2 DEF DriverCalls
    <3>2. phase = "up" /\ n \in Nat /\ a \in Nat /\ f \in Fns
      BY <2>2, LiveAssumption DEF DriverCalls, Fns
    <3> QED BY <3>1, <3>2, CallPreserves
  <2>3. CASE LiveReturn
    BY <2>3, ReturnPreserves
  <2>4. CASE Starting
    BY <2>4 DEF Starting, liveVars, LiveInv, MapOK, Agrees, LiveTypes, OneFrame, NotStarted, LiveDispatch
  <2>5. CASE UNCHANGED <<phase, liveVars>>
    BY <2>5 DEF liveVars, LiveInv, MapOK, Agrees, LiveTypes, OneFrame, NotStarted, LiveDispatch
  <2> QED BY <2>1, <2>2, <2>3, <2>4, <2>5 DEF LiveNext
<1> QED BY <1>1, <1>2, PTL DEF LiveSpec

\* The stub and liveSyscHandlr dispatch as LiveDispatch says: a call runs what was
\* registered last for its number, only a nested one loses its way back, and only
\* a number nobody registered is a panic.
THEOREM LiveCallsDispatched == LiveSpec => []LiveDispatch
<1>1. LiveInv => LiveDispatch
  BY DEF LiveInv
<1> QED BY <1>1, LiveInvariant, PTL
=============================================================================
