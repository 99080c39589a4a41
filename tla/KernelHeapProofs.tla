--------------------------- MODULE KernelHeapProofs ---------------------------
(***************************************************************************)
(* Proofs about KernelHeap, for every heap, header size and set of         *)
(* requests that HeapAssumption allows.                                    *)
(***************************************************************************)
EXTENDS KernelHeap, TLAPS

\* Within the assumption, the Word arithmetic of alloc's bound check does not
\* wrap: a block is appended only if it ends inside the heap.
LEMMA RoomIsReal ==
    ASSUME NEW next \in Nat, next <= HeapEnd,
           NEW bytes \in RequestSizes, HasRoom(next, bytes)
    PROVE  next + HeaderSize + bytes <= HeapEnd
<1>1. bytes \in Nat /\ HeapEnd + HeaderSize + bytes < Word
  BY HeapAssumption
<1>2. /\ next + HeaderSize + bytes \in Nat
      /\ next + HeaderSize + bytes < Word
  BY <1>1, HeapAssumption
<1>3. (next + HeaderSize + bytes) % Word = next + HeaderSize + bytes
  BY <1>2, HeapAssumption
<1>. QED
  BY <1>3 DEF HasRoom

\* The header free() writes to, for a pointer a caller got from alloc.
LEMMA HeaderOfPayload ==
    ASSUME NEW b \in HeapBlock, EndOf(b) <= HeapEnd
    PROVE  (Payload(b) - HeaderSize) % Word = b.addr
<1>1. b.addr \in Nat /\ b.size \in Nat
  BY DEF HeapBlock
<1>2. b.addr < Word
  BY <1>1, HeapAssumption DEF EndOf
<1>3. Payload(b) - HeaderSize = b.addr
  BY <1>1, HeapAssumption DEF Payload
<1>. QED
  BY <1>1, <1>2, <1>3, HeapAssumption

\* The header free() writes to, for a null pointer, lies behind the heap.
LEMMA HeaderOfNull == (NullPtr - HeaderSize) % Word > HeapEnd
<1>1. /\ 0 - HeaderSize = (-1) * Word + (Word - HeaderSize)
      /\ Word - HeaderSize > HeapEnd
      /\ Word - HeaderSize \in 0 .. Word - 1
  BY HeapAssumption
<1>2. (0 - HeaderSize) % Word = Word - HeaderSize
  BY <1>1, HeapAssumption
<1>. QED
  BY <1>1, <1>2 DEF NullPtr

-----------------------------------------------------------------------------
\* The invariant, action by action.

\* The list KernelAllocator::init leaves, the super block alone, is well-formed.
LEMMA HeapInit == Init => HeapInv
<1> SUFFICES ASSUME Init PROVE HeapInv
  OBVIOUS
<1> DEFINE sb == [addr |-> HeapStart, size |-> 0, inUse |-> TRUE]
<1>1. sb \in HeapBlock /\ sb.addr = HeapStart /\ sb.size = 0 /\ sb.inUse
  BY HeapAssumption DEF HeapBlock
<1>2. /\ chain = <<sb>> /\ held = {}
      /\ chain \in Seq(HeapBlock) /\ Len(chain) = 1 /\ chain[1] = sb
  BY <1>1 DEF Init
<1> HIDE DEF sb
<1>3. TypeOK
  BY <1>2 DEF TypeOK
<1>4. BlocksOrdered
  BY <1>1, <1>2, HeapAssumption DEF BlocksOrdered, EndOf
<1>5. UseMatchesHolders /\ OneHolder
  BY <1>1, <1>2 DEF UseMatchesHolders, OneHolder
<1>. QED
  BY <1>3, <1>4, <1>5 DEF HeapInv

\* What TypeOK says of each block of the list.
LEMMA ChainTyped ==
    ASSUME TypeOK
    PROVE  /\ Len(chain) \in Nat
           /\ \A j \in 1 .. Len(chain) :
                 /\ chain[j] \in HeapBlock
                 /\ chain[j].addr \in Nat
                 /\ chain[j].size \in Nat
                 /\ chain[j].inUse \in BOOLEAN
<1>1. \A j \in 1 .. Len(chain) : chain[j] \in HeapBlock
  BY DEF TypeOK
<1>2. \A b \in HeapBlock : b.addr \in Nat /\ b.size \in Nat /\ b.inUse \in BOOLEAN
  BY DEF HeapBlock
<1>. QED
  BY <1>1, <1>2 DEF TypeOK

\* The place of a block is known by its payload pointer.
LEMMA PayloadInjective ==
    ASSUME TypeOK, BlocksOrdered
    PROVE  \A i, j \in 1 .. Len(chain) :
               Payload(chain[i]) = Payload(chain[j]) => i = j
<1> SUFFICES ASSUME NEW i \in 1 .. Len(chain), NEW j \in 1 .. Len(chain),
                    Payload(chain[i]) = Payload(chain[j])
             PROVE  i = j
  OBVIOUS
<1>1. /\ chain[i].addr \in Nat /\ chain[i].size \in Nat
      /\ chain[j].addr \in Nat /\ chain[j].size \in Nat
      /\ Len(chain) \in Nat
  BY ChainTyped
<1>2. CASE i < j
  <2>1. chain[i].addr + HeaderSize + chain[i].size <= chain[j].addr
    BY <1>2 DEF BlocksOrdered, EndOf
  <2>. QED
    BY <1>1, <2>1, HeapAssumption DEF Payload
<1>3. CASE j < i
  <2>1. chain[j].addr + HeaderSize + chain[j].size <= chain[i].addr
    BY <1>3 DEF BlocksOrdered, EndOf
  <2>. QED
    BY <1>1, <2>1, HeapAssumption DEF Payload
<1>. QED
  BY <1>1, <1>2, <1>3

\* What becomes of a list in which some blocks change only their inUse.
LEMMA MarkBlocks ==
    ASSUME TypeOK,
           NEW mark \in [1 .. Len(chain) -> BOOLEAN],
           chain' = [i \in DOMAIN chain |-> [chain[i] EXCEPT !.inUse = mark[i]]]
    PROVE  /\ chain' \in Seq(HeapBlock)
           /\ Len(chain') = Len(chain)
           /\ \A i \in 1 .. Len(chain) :
                 /\ chain'[i].addr = chain[i].addr
                 /\ chain'[i].size = chain[i].size
                 /\ chain'[i].inUse = mark[i]
<1>1. /\ Len(chain) \in Nat /\ DOMAIN chain = 1 .. Len(chain)
      /\ \A i \in 1 .. Len(chain) : chain[i] \in HeapBlock
  BY ChainTyped DEF TypeOK
<1>2. ASSUME NEW b \in HeapBlock, NEW m \in BOOLEAN
      PROVE  /\ [b EXCEPT !.inUse = m] \in HeapBlock
             /\ [b EXCEPT !.inUse = m].addr = b.addr
             /\ [b EXCEPT !.inUse = m].size = b.size
             /\ [b EXCEPT !.inUse = m].inUse = m
  BY DEF HeapBlock
<1>3. \A i \in 1 .. Len(chain) : chain'[i] = [chain[i] EXCEPT !.inUse = mark[i]]
  BY <1>1
<1>4. \A i \in 1 .. Len(chain) :
         /\ chain'[i] \in HeapBlock
         /\ chain'[i].addr = chain[i].addr
         /\ chain'[i].size = chain[i].size
         /\ chain'[i].inUse = mark[i]
  <2>1. TAKE i \in 1 .. Len(chain)
  <2>2. chain[i] \in HeapBlock /\ mark[i] \in BOOLEAN
    BY <1>1
  <2>. QED
    BY <1>2, <1>3, <2>2
<1>5. chain' \in [1 .. Len(chain) -> HeapBlock]
  BY <1>1, <1>4
<1>6. chain' \in Seq(HeapBlock) /\ Len(chain') = Len(chain)
  BY <1>1, <1>5
<1>. QED
  BY <1>4, <1>6

\* Marking block i in use changes nothing else of the list.
LEMMA MarkOne ==
    ASSUME TypeOK, NEW i \in 1 .. Len(chain),
           chain' = [chain EXCEPT ![i].inUse = TRUE]
    PROVE  /\ chain' \in Seq(HeapBlock) /\ Len(chain') = Len(chain)
           /\ \A j \in 1 .. Len(chain) :
                 /\ chain'[j].addr = chain[j].addr
                 /\ chain'[j].size = chain[j].size
                 /\ j # i => chain'[j].inUse = chain[j].inUse
           /\ chain'[i].inUse
<1>1. /\ Len(chain) \in Nat /\ DOMAIN chain = 1 .. Len(chain)
      /\ \A j \in 1 .. Len(chain) :
            chain[j] \in HeapBlock /\ chain[j].inUse \in BOOLEAN
  BY ChainTyped DEF TypeOK
<1> DEFINE mark == [j \in 1 .. Len(chain) |-> IF j = i THEN TRUE ELSE chain[j].inUse]
<1>2. mark \in [1 .. Len(chain) -> BOOLEAN]
  BY <1>1
<1>3. \A b \in HeapBlock : b = [b EXCEPT !.inUse = b.inUse]
  BY DEF HeapBlock
<1>4. chain' = [j \in DOMAIN chain |-> [chain[j] EXCEPT !.inUse = mark[j]]]
  BY <1>1, <1>3
<1> HIDE DEF mark
<1>5. /\ chain' \in Seq(HeapBlock) /\ Len(chain') = Len(chain)
      /\ \A j \in 1 .. Len(chain) :
            /\ chain'[j].addr = chain[j].addr
            /\ chain'[j].size = chain[j].size
            /\ chain'[j].inUse = mark[j]
  BY <1>2, <1>4, MarkBlocks
<1>. QED
  BY <1>5 DEF mark

\* alloc handing out a freed block keeps the invariant: the block had no holder.
LEMMA ReusePreserves ==
    ASSUME HeapInv, NEW bytes \in RequestSizes, AllocReuse(bytes)
    PROVE  HeapInv'
<1>1. PICK i \in 1 .. Len(chain) :
         /\ Fits(chain[i], bytes)
         /\ chain' = [chain EXCEPT ![i].inUse = TRUE]
         /\ held' = held \cup {<<Payload(chain[i]), bytes>>}
  BY DEF AllocReuse, FirstFit
<1>2. /\ TypeOK /\ held \subseteq Nat \X RequestSizes
      /\ Len(chain) \in Nat /\ DOMAIN chain = 1 .. Len(chain)
      /\ \A j \in 1 .. Len(chain) :
            /\ chain[j] \in HeapBlock /\ chain[j].addr \in Nat
            /\ chain[j].size \in Nat /\ chain[j].inUse \in BOOLEAN
  BY ChainTyped DEF HeapInv, TypeOK
<1>3. /\ chain' \in Seq(HeapBlock) /\ Len(chain') = Len(chain)
      /\ \A j \in 1 .. Len(chain) :
            /\ chain'[j].addr = chain[j].addr
            /\ chain'[j].size = chain[j].size
            /\ j # i => chain'[j].inUse = chain[j].inUse
      /\ chain'[i].inUse
  BY <1>1, <1>2, MarkOne
<1>4. ~chain[i].inUse /\ chain[i].size >= bytes /\ i # 1
  BY <1>1, <1>2 DEF Fits, HeapInv, UseMatchesHolders
<1>5. Payload(chain[i]) \in Nat
  BY <1>2, HeapAssumption DEF Payload
<1>6. TypeOK'
  BY <1>1, <1>2, <1>3, <1>5 DEF TypeOK
<1>7. BlocksOrdered'
  BY <1>3 DEF BlocksOrdered, EndOf, HeapInv
<1>8. \A h \in held : h[1] # Payload(chain[i])
  <2>1. SUFFICES ASSUME NEW h \in held, h[1] = Payload(chain[i]) PROVE FALSE
    OBVIOUS
  <2>2. PICK j \in 2 .. Len(chain) : h[1] = Payload(chain[j]) /\ chain[j].inUse
    BY DEF HeapInv, UseMatchesHolders
  <2>3. j = i
    <3>1. j \in 1 .. Len(chain) /\ Payload(chain[i]) = Payload(chain[j])
      BY <2>1, <2>2, <1>2
    <3>. QED
      BY <3>1, PayloadInjective DEF HeapInv
  <2>. QED
    BY <2>2, <2>3, <1>4
<1>9. UseMatchesHolders'
  <2>1. ASSUME NEW h \in held'
        PROVE  \E j \in 2 .. Len(chain') :
                  /\ h[1] = Payload(chain'[j]) /\ chain'[j].inUse
                  /\ h[2] <= chain'[j].size
    <3>1. CASE h \in held
      <4>1. PICK j \in 2 .. Len(chain) :
               /\ h[1] = Payload(chain[j]) /\ chain[j].inUse
               /\ h[2] <= chain[j].size
        BY <3>1 DEF HeapInv, UseMatchesHolders
      <4>. QED
        BY <4>1, <1>3, <1>4 DEF Payload
    <3>2. CASE h = <<Payload(chain[i]), bytes>>
      BY <3>2, <1>2, <1>3, <1>4 DEF Payload
    <3>. QED
      BY <1>1, <2>1, <3>1, <3>2
  <2>2. ASSUME NEW j \in 2 .. Len(chain'), chain'[j].inUse
        PROVE  \E h \in held' : h[1] = Payload(chain'[j])
    <3>1. CASE j = i
      <4>1. /\ <<Payload(chain[i]), bytes>> \in held'
            /\ <<Payload(chain[i]), bytes>>[1] = Payload(chain[i])
        BY <1>1
      <4>2. Payload(chain'[j]) = Payload(chain[i])
        BY <3>1, <1>3 DEF Payload
      <4>. QED
        BY <4>1, <4>2
    <3>2. CASE j # i
      BY <3>2, <2>2, <1>1, <1>3 DEF Payload, HeapInv, UseMatchesHolders
    <3>. QED
      BY <3>1, <3>2
  <2>3. chain'[1].inUse
    BY <1>3, <1>4, <1>2 DEF HeapInv, UseMatchesHolders, BlocksOrdered
  <2>. QED
    BY <2>1, <2>2, <2>3 DEF UseMatchesHolders
<1>10. OneHolder'
  BY <1>1, <1>8 DEF OneHolder, HeapInv
<1>. QED
  BY <1>6, <1>7, <1>9, <1>10 DEF HeapInv

\* alloc appending a block keeps the invariant: the block begins where the last
\* one ends, and ends inside the heap.
LEMMA AppendPreserves ==
    ASSUME HeapInv, NEW bytes \in RequestSizes, AllocAppend(bytes)
    PROVE  HeapInv'
<1> DEFINE n == Len(chain)
           nb == [addr |-> EndOf(Last), size |-> bytes, inUse |-> TRUE]
<1>1. /\ chain \in Seq(HeapBlock) /\ held \subseteq Nat \X RequestSizes
      /\ n \in Nat /\ n >= 1
      /\ \A j \in 1 .. n :
            /\ chain[j] \in HeapBlock /\ chain[j].addr \in Nat
            /\ chain[j].size \in Nat /\ chain[j].inUse \in BOOLEAN
  BY ChainTyped DEF HeapInv, TypeOK, BlocksOrdered
<1>2. EndOf(Last) \in Nat /\ EndOf(Last) <= HeapEnd /\ bytes \in Nat
  BY <1>1, HeapAssumption DEF Last, EndOf, HeapInv, BlocksOrdered
<1>3. EndOf(Last) + HeaderSize + bytes <= HeapEnd
  BY <1>2, RoomIsReal DEF AllocAppend
<1>4. /\ nb \in HeapBlock /\ nb.addr = EndOf(Last)
      /\ nb.size = bytes /\ nb.inUse
  BY <1>2 DEF HeapBlock
<1>5. /\ chain' = Append(chain, nb)
      /\ held' = held \cup {<<Payload(nb), bytes>>}
  BY <1>4 DEF AllocAppend, Payload
<1> HIDE DEF nb
<1>6. /\ chain' \in Seq(HeapBlock) /\ Len(chain') = n + 1
      /\ chain'[n + 1] = nb
      /\ \A j \in 1 .. n : chain'[j] = chain[j]
  BY <1>1, <1>4, <1>5
<1>7. \A j \in 1 .. n : EndOf(chain[j]) <= nb.addr
  <2>1. ASSUME NEW j \in 1 .. n PROVE EndOf(chain[j]) <= nb.addr
    <3>1. CASE j = n
      BY <3>1, <1>1, <1>2, <1>4 DEF Last
    <3>2. CASE j # n
      <4>1. EndOf(chain[j]) <= chain[n].addr
        BY <3>2, <1>1 DEF HeapInv, BlocksOrdered
      <4>2. nb.addr = chain[n].addr + HeaderSize + chain[n].size
        BY <1>4 DEF Last, EndOf
      <4>3. EndOf(chain[j]) \in Nat
        BY <1>1, HeapAssumption DEF EndOf
      <4>. QED
        BY <4>1, <4>2, <4>3, <1>1, HeapAssumption
    <3>. QED
      BY <3>1, <3>2
  <2>. QED
    BY <2>1
<1>8. TypeOK'
  <2>1. Payload(nb) \in Nat
    BY <1>2, <1>4, HeapAssumption DEF Payload
  <2>. QED
    BY <2>1, <1>1, <1>5, <1>6 DEF TypeOK
<1>9. BlocksOrdered'
  <2>1. EndOf(nb) <= HeapEnd
    BY <1>3, <1>4 DEF EndOf
  <2>2. Len(chain') >= 1 /\ chain'[1].addr = HeapStart
    BY <1>1, <1>6 DEF HeapInv, BlocksOrdered
  <2>3. ASSUME NEW i \in 1 .. n + 1, NEW j \in 1 .. n + 1, i < j
        PROVE  EndOf(chain'[i]) <= chain'[j].addr
    <3>1. CASE j = n + 1
      BY <3>1, <2>3, <1>1, <1>6, <1>7
    <3>2. CASE j # n + 1
      BY <3>2, <2>3, <1>1, <1>6 DEF HeapInv, BlocksOrdered
    <3>. QED
      BY <3>1, <3>2
  <2>4. \A i \in 1 .. n + 1 : EndOf(chain'[i]) <= HeapEnd
    BY <2>1, <1>1, <1>6 DEF HeapInv, BlocksOrdered
  <2>. QED
    BY <2>2, <2>3, <2>4, <1>6 DEF BlocksOrdered, EndOf
<1>10. \A h \in held : h[1] # Payload(nb)
  <2>1. SUFFICES ASSUME NEW h \in held PROVE h[1] # Payload(nb)
    OBVIOUS
  <2>2. PICK j \in 2 .. n : h[1] = Payload(chain[j])
    BY DEF HeapInv, UseMatchesHolders
  <2>3. chain[j].addr + HeaderSize + chain[j].size <= nb.addr
    BY <2>2, <1>1, <1>7 DEF EndOf
  <2>4. chain[j].addr \in Nat /\ chain[j].size \in Nat /\ nb.addr \in Nat
    BY <2>2, <1>1, <1>2, <1>4
  <2>5. HeaderSize \in Nat /\ HeaderSize > 0
    BY HeapAssumption
  <2>6. chain[j].addr < nb.addr
    BY <2>3, <2>4, <2>5
  <2>7. Payload(chain[j]) # Payload(nb)
    BY <2>4, <2>5, <2>6 DEF Payload
  <2>. QED
    BY <2>2, <2>7
<1>11. UseMatchesHolders'
  <2>1. ASSUME NEW h \in held'
        PROVE  \E j \in 2 .. Len(chain') :
                  /\ h[1] = Payload(chain'[j]) /\ chain'[j].inUse
                  /\ h[2] <= chain'[j].size
    <3>1. CASE h \in held
      <4>1. PICK j \in 2 .. n :
               /\ h[1] = Payload(chain[j]) /\ chain[j].inUse
               /\ h[2] <= chain[j].size
        BY <3>1 DEF HeapInv, UseMatchesHolders
      <4>. QED
        BY <4>1, <1>1, <1>6
    <3>2. CASE h = <<Payload(nb), bytes>>
      BY <3>2, <1>1, <1>2, <1>4, <1>6
    <3>. QED
      BY <1>5, <2>1, <3>1, <3>2
  <2>2. ASSUME NEW j \in 2 .. Len(chain'), chain'[j].inUse
        PROVE  \E h \in held' : h[1] = Payload(chain'[j])
    <3>1. CASE j = n + 1
      <4>1. /\ <<Payload(nb), bytes>> \in held'
            /\ <<Payload(nb), bytes>>[1] = Payload(nb)
        BY <1>5
      <4>. QED
        BY <3>1, <4>1, <1>6
    <3>2. CASE j # n + 1
      BY <3>2, <2>2, <1>1, <1>5, <1>6 DEF HeapInv, UseMatchesHolders
    <3>. QED
      BY <3>1, <3>2
  <2>3. chain'[1].inUse
    BY <1>1, <1>6 DEF HeapInv, UseMatchesHolders
  <2>. QED
    BY <2>1, <2>2, <2>3 DEF UseMatchesHolders, Payload
<1>12. OneHolder'
  BY <1>5, <1>10 DEF OneHolder, HeapInv
<1>. QED
  BY <1>8, <1>9, <1>11, <1>12 DEF HeapInv

\* Freeing the payload of block k clears that block's inUse and no other.
LEMMA FreeBlock ==
    ASSUME HeapInv, NEW k \in 2 .. Len(chain), chain[k].inUse,
           NEW ptr, ptr = Payload(chain[k]), Free(ptr)
    PROVE  HeapInv'
<1>1. /\ TypeOK /\ BlocksOrdered /\ held \subseteq Nat \X RequestSizes
      /\ Len(chain) \in Nat /\ DOMAIN chain = 1 .. Len(chain)
      /\ k \in 1 .. Len(chain) /\ k # 1
      /\ \A j \in 1 .. Len(chain) :
            /\ chain[j] \in HeapBlock /\ chain[j].addr \in Nat
            /\ chain[j].size \in Nat /\ chain[j].inUse \in BOOLEAN
  BY ChainTyped DEF HeapInv, TypeOK
<1>2. (ptr - HeaderSize) % Word = chain[k].addr
  BY <1>1, HeaderOfPayload DEF BlocksOrdered
<1>3. \A i \in 1 .. Len(chain) : chain[i].addr = chain[k].addr <=> i = k
  <2>1. SUFFICES ASSUME NEW i \in 1 .. Len(chain), chain[i].addr = chain[k].addr
                 PROVE  i = k
    OBVIOUS
  <2>2. Payload(chain[i]) = Payload(chain[k])
    BY <2>1 DEF Payload
  <2>. QED
    BY <1>1, <2>2, PayloadInjective
<1>4. /\ chain' \in Seq(HeapBlock) /\ Len(chain') = Len(chain)
      /\ \A j \in 1 .. Len(chain) :
            /\ chain'[j].addr = chain[j].addr
            /\ chain'[j].size = chain[j].size
            /\ j # k => chain'[j].inUse = chain[j].inUse
      /\ ~chain'[k].inUse
  <2> DEFINE mark == [j \in 1 .. Len(chain) |-> IF j = k THEN FALSE ELSE chain[j].inUse]
  <2>1. mark \in [1 .. Len(chain) -> BOOLEAN]
    BY <1>1
  <2>2. \A b \in HeapBlock : b = [b EXCEPT !.inUse = b.inUse]
    BY DEF HeapBlock
  <2>3. chain' = [j \in DOMAIN chain |->
                     IF chain[j].addr = chain[k].addr
                     THEN [chain[j] EXCEPT !.inUse = FALSE]
                     ELSE chain[j]]
    BY <1>2 DEF Free
  <2>4. chain' = [j \in DOMAIN chain |-> [chain[j] EXCEPT !.inUse = mark[j]]]
    <3>1. ASSUME NEW j \in DOMAIN chain
          PROVE  (IF chain[j].addr = chain[k].addr
                  THEN [chain[j] EXCEPT !.inUse = FALSE]
                  ELSE chain[j]) = [chain[j] EXCEPT !.inUse = mark[j]]
      <4>1. CASE j = k
        BY <1>1, <1>3, <4>1
      <4>2. CASE j # k
        <5>1. mark[j] = chain[j].inUse /\ chain[j] \in HeapBlock
          BY <1>1, <4>2
        <5>. QED
          BY <1>1, <1>3, <2>2, <4>2, <5>1
      <4>. QED
        BY <4>1, <4>2
    <3>. QED
      BY <2>3, <3>1
  <2> HIDE DEF mark
  <2>5. /\ chain' \in Seq(HeapBlock) /\ Len(chain') = Len(chain)
        /\ \A j \in 1 .. Len(chain) :
              /\ chain'[j].addr = chain[j].addr
              /\ chain'[j].size = chain[j].size
              /\ chain'[j].inUse = mark[j]
    BY <1>1, <2>1, <2>4, MarkBlocks
  <2>. QED
    BY <1>1, <2>5 DEF mark
<1>5. held' = {h \in held : h[1] # ptr}
  BY DEF Free
<1>6. TypeOK'
  BY <1>1, <1>4, <1>5 DEF TypeOK
<1>7. BlocksOrdered'
  <2>1. \A j \in 1 .. Len(chain) : EndOf(chain'[j]) = EndOf(chain[j])
    BY <1>4 DEF EndOf
  <2>2. /\ Len(chain') >= 1
        /\ chain'[1].addr = HeapStart
        /\ \A i, j \in 1 .. Len(chain') : i < j => EndOf(chain'[i]) <= chain'[j].addr
        /\ \A i \in 1 .. Len(chain') : EndOf(chain'[i]) <= HeapEnd
    BY <1>1, <1>4, <2>1 DEF BlocksOrdered
  <2>. QED
    BY <2>2 DEF BlocksOrdered, EndOf
<1>8. UseMatchesHolders'
  <2>1. ASSUME NEW h \in held'
        PROVE  \E j \in 2 .. Len(chain') :
                  /\ h[1] = Payload(chain'[j]) /\ chain'[j].inUse
                  /\ h[2] <= chain'[j].size
    <3>1. PICK j \in 2 .. Len(chain) :
             /\ h[1] = Payload(chain[j]) /\ chain[j].inUse
             /\ h[2] <= chain[j].size
      BY <1>5 DEF HeapInv, UseMatchesHolders
    <3>2. j # k
      BY <1>5, <3>1
    <3>. QED
      BY <1>4, <3>1, <3>2, <1>1 DEF Payload
  <2>2. ASSUME NEW j \in 2 .. Len(chain'), chain'[j].inUse
        PROVE  \E h \in held' : h[1] = Payload(chain'[j])
    <3>1. j # k /\ j \in 2 .. Len(chain) /\ j \in 1 .. Len(chain) /\ chain[j].inUse
      BY <1>1, <1>4, <2>2
    <3>2. PICK h \in held : h[1] = Payload(chain[j])
      BY <3>1 DEF HeapInv, UseMatchesHolders
    <3>3. h[1] # ptr
      BY <1>1, <3>1, <3>2, PayloadInjective
    <3>. QED
      BY <1>4, <1>5, <3>1, <3>2, <3>3 DEF Payload
  <2>3. chain'[1].inUse
    BY <1>1, <1>4 DEF HeapInv, UseMatchesHolders, BlocksOrdered
  <2>. QED
    BY <2>1, <2>2, <2>3 DEF UseMatchesHolders, Payload
<1>9. OneHolder'
  BY <1>5 DEF OneHolder, HeapInv
<1>. QED
  BY <1>6, <1>7, <1>8, <1>9 DEF HeapInv

\* Freeing a null pointer leaves the heap as it was.
LEMMA FreeNullChangesNothing ==
    ASSUME HeapInv, Free(NullPtr)
    PROVE  UNCHANGED vars
<1>1. /\ chain \in Seq(HeapBlock) /\ DOMAIN chain = 1 .. Len(chain)
      /\ \A j \in 1 .. Len(chain) : chain[j].addr \in Nat /\ chain[j].size \in Nat
  BY ChainTyped DEF HeapInv, TypeOK
<1>2. \A j \in 1 .. Len(chain) : chain[j].addr # (NullPtr - HeaderSize) % Word
  <2>1. TAKE j \in 1 .. Len(chain)
  <2>2. EndOf(chain[j]) <= HeapEnd
    BY DEF HeapInv, BlocksOrdered
  <2>3. chain[j].addr <= HeapEnd
    BY <1>1, <2>2, HeapAssumption DEF EndOf
  <2>. QED
    BY <1>1, <2>3, HeaderOfNull, HeapAssumption
<1>3. chain' = chain
  <2>1. chain' = [j \in DOMAIN chain |-> chain[j]]
    BY <1>1, <1>2 DEF Free
  <2>. QED
    BY <1>1, <2>1
<1>4. \A h \in held : h[1] # NullPtr
  <2>1. TAKE h \in held
  <2>2. PICK j \in 2 .. Len(chain) : h[1] = Payload(chain[j])
    BY DEF HeapInv, UseMatchesHolders
  <2>3. chain[j].addr \in Nat
    BY <1>1, <2>2
  <2>4. Payload(chain[j]) # 0
    BY <2>3, HeapAssumption DEF Payload
  <2>. QED
    BY <2>2, <2>4 DEF NullPtr
<1>5. held' = held
  BY <1>4 DEF Free
<1>. QED
  BY <1>3, <1>5 DEF vars

\* Every step keeps the invariant.
LEMMA HeapStep == HeapInv /\ [Next]_vars => HeapInv'
<1> SUFFICES ASSUME HeapInv, [Next]_vars PROVE HeapInv'
  OBVIOUS
<1>1. ASSUME NEW bytes \in RequestSizes, AllocReuse(bytes) PROVE HeapInv'
  BY <1>1, ReusePreserves
<1>2. ASSUME NEW bytes \in RequestSizes, AllocAppend(bytes) PROVE HeapInv'
  BY <1>2, AppendPreserves
<1>3. CASE UNCHANGED vars
  BY <1>3 DEF vars, HeapInv, TypeOK, BlocksOrdered, UseMatchesHolders, OneHolder,
              Payload, EndOf
<1>4. ASSUME NEW h \in held, Free(h[1]) PROVE HeapInv'
  <2>1. PICK k \in 2 .. Len(chain) : h[1] = Payload(chain[k]) /\ chain[k].inUse
    BY DEF HeapInv, UseMatchesHolders
  <2>. QED
    BY <1>4, <2>1, FreeBlock
<1>5. CASE Free(NullPtr)
  BY <1>5, <1>3, FreeNullChangesNothing
<1>6. ASSUME NEW bytes \in RequestSizes, AllocFail(bytes) PROVE HeapInv'
  BY <1>6, <1>3 DEF AllocFail
<1>. QED
  BY <1>1, <1>2, <1>3, <1>4, <1>5, <1>6 DEF Next, Alloc

-----------------------------------------------------------------------------

\* The heap invariant holds for ever, whatever the callers ask for and free:
\* types, the layout of the list and the agreement of inUse with the holders.
THEOREM HeapInvariant == Spec => []HeapInv
BY HeapInit, HeapStep, PTL DEF Spec

\* Types, for every behaviour of the allocator and its callers.
THEOREM HeapTypes == Spec => []TypeOK
<1>1. HeapInv => TypeOK
  BY DEF HeapInv
<1>. QED
  BY <1>1, HeapInvariant, PTL

\* The blocks of the list lie behind each other, inside the heap, in every
\* state: no payload reaches a header.
THEOREM HeapLayout == Spec => []BlocksOrdered
<1>1. HeapInv => BlocksOrdered
  BY DEF HeapInv
<1>. QED
  BY <1>1, HeapInvariant, PTL

\* inUse and the callers agree in every state: nothing a caller holds can be
\* handed out again, and nothing is lost inside the heap.
THEOREM HeapUseMatchesHolders == Spec => []UseMatchesHolders
<1>1. HeapInv => UseMatchesHolders
  BY DEF HeapInv
<1>. QED
  BY <1>1, HeapInvariant, PTL

\* The arithmetic of two blocks: n bytes of the payload of the first, which has
\* size bytes, end before the payload of the second.
LEMMA BlockBeforeBlock ==
    ASSUME NEW a \in Nat, NEW hdr \in Nat, NEW size \in Nat, NEW b \in Nat,
           NEW n \in Nat, n <= size, a + hdr + size <= b
    PROVE  (a + hdr) + n <= b + hdr
OBVIOUS

\* What two holders own is apart, as the layout of the list implies.
LEMMA HeldApart ==
    ASSUME HeapInv, NEW g \in held, NEW h \in held, g # h
    PROVE  /\ g[1] \in Nat /\ g[2] \in Nat /\ h[1] \in Nat /\ h[2] \in Nat
           /\ g[1] # h[1]
           /\ g[1] + g[2] <= h[1] \/ h[1] + h[2] <= g[1]
<1>1. /\ TypeOK /\ BlocksOrdered
      /\ Len(chain) \in Nat
      /\ \A j \in 1 .. Len(chain) : chain[j].addr \in Nat /\ chain[j].size \in Nat
  BY ChainTyped DEF HeapInv
<1>2. g[1] \in Nat /\ g[2] \in Nat /\ h[1] \in Nat /\ h[2] \in Nat
  BY HeapAssumption DEF HeapInv, TypeOK
<1>3. g[1] # h[1]
  BY DEF HeapInv, OneHolder
<1>4. PICK i \in 2 .. Len(chain) : g[1] = Payload(chain[i]) /\ g[2] <= chain[i].size
  BY DEF HeapInv, UseMatchesHolders
<1>5. PICK j \in 2 .. Len(chain) : h[1] = Payload(chain[j]) /\ h[2] <= chain[j].size
  BY DEF HeapInv, UseMatchesHolders
<1>6. /\ i \in 1 .. Len(chain) /\ j \in 1 .. Len(chain) /\ i # j
      /\ chain[i].addr \in Nat /\ chain[i].size \in Nat
      /\ chain[j].addr \in Nat /\ chain[j].size \in Nat
      /\ HeaderSize \in Nat
  BY <1>1, <1>3, <1>4, <1>5, HeapAssumption
<1>7. CASE i < j
  <2>1. chain[i].addr + HeaderSize + chain[i].size <= chain[j].addr
    BY <1>1, <1>6, <1>7 DEF BlocksOrdered, EndOf
  <2>2. g[1] = chain[i].addr + HeaderSize /\ h[1] = chain[j].addr + HeaderSize
    BY <1>4, <1>5 DEF Payload
  <2>3. g[2] <= chain[i].size
    BY <1>4
  <2>4. (chain[i].addr + HeaderSize) + g[2] <= chain[j].addr + HeaderSize
    BY <1>2, <1>6, <2>1, <2>3, BlockBeforeBlock
  <2>. QED
    BY <1>2, <1>3, <2>2, <2>4
<1>8. CASE j < i
  <2>1. chain[j].addr + HeaderSize + chain[j].size <= chain[i].addr
    BY <1>1, <1>6, <1>8 DEF BlocksOrdered, EndOf
  <2>2. g[1] = chain[i].addr + HeaderSize /\ h[1] = chain[j].addr + HeaderSize
    BY <1>4, <1>5 DEF Payload
  <2>3. h[2] <= chain[j].size
    BY <1>5
  <2>4. (chain[j].addr + HeaderSize) + h[2] <= chain[i].addr + HeaderSize
    BY <1>2, <1>6, <2>1, <2>3, BlockBeforeBlock
  <2>. QED
    BY <1>2, <1>3, <2>2, <2>4
<1>. QED
  BY <1>6, <1>7, <1>8

\* The invariant makes the regions held disjoint.
LEMMA InvImpliesDisjoint == HeapInv => HeldDisjoint
BY HeldApart DEF HeldDisjoint

\* Two allocations alive at the same time never share a byte or a pointer.
THEOREM HeapDisjoint == Spec => []HeldDisjoint
BY InvImpliesDisjoint, HeapInvariant, PTL

\* Blocks are where they were and as large as they were after every step.
THEOREM HeapPersists == Spec => BlocksPersist
<1>1. HeapInv /\ [Next]_vars => [BlocksStay]_vars
  <2> SUFFICES ASSUME HeapInv, Next PROVE BlocksStay \/ UNCHANGED vars
    OBVIOUS
  <2>1. /\ chain \in Seq(HeapBlock) /\ Len(chain) \in Nat
        /\ DOMAIN chain = 1 .. Len(chain)
        /\ \A j \in 1 .. Len(chain) : chain[j] \in HeapBlock
    BY ChainTyped DEF HeapInv, TypeOK
  <2>2. \A b \in HeapBlock, m \in BOOLEAN :
           /\ [b EXCEPT !.inUse = m] \in HeapBlock
           /\ [b EXCEPT !.inUse = m].addr = b.addr
           /\ [b EXCEPT !.inUse = m].size = b.size
    BY DEF HeapBlock
  <2>3. ASSUME NEW bytes \in RequestSizes, AllocReuse(bytes) PROVE BlocksStay
    <3>1. PICK i \in 1 .. Len(chain) : chain' = [chain EXCEPT ![i].inUse = TRUE]
      BY <2>3 DEF AllocReuse
    <3>. QED
      BY <2>1, <3>1, MarkOne DEF BlocksStay, HeapInv
  <2>4. ASSUME NEW bytes \in RequestSizes, AllocAppend(bytes) PROVE BlocksStay
    <3>1. PICK nb : chain' = Append(chain, nb)
      BY <2>4 DEF AllocAppend
    <3>2. Len(chain') = Len(chain) + 1 /\ \A j \in 1 .. Len(chain) : chain'[j] = chain[j]
      BY <2>1, <3>1
    <3>. QED
      BY <2>1, <3>2 DEF BlocksStay
  <2>5. ASSUME NEW ptr, Free(ptr) PROVE BlocksStay
    <3>1. chain' = [j \in DOMAIN chain |->
                       IF chain[j].addr = (ptr - HeaderSize) % Word
                       THEN [chain[j] EXCEPT !.inUse = FALSE]
                       ELSE chain[j]]
      BY <2>5 DEF Free
    <3>2. ASSUME NEW j \in 1 .. Len(chain)
          PROVE  /\ chain'[j] \in HeapBlock
                 /\ chain'[j].addr = chain[j].addr
                 /\ chain'[j].size = chain[j].size
      <4>1. \/ chain'[j] = [chain[j] EXCEPT !.inUse = FALSE]
            \/ chain'[j] = chain[j]
        BY <2>1, <3>1
      <4>. QED
        BY <2>1, <2>2, <4>1
    <3>3. chain' \in [1 .. Len(chain) -> HeapBlock]
      BY <2>1, <3>1, <3>2
    <3>4. Len(chain') = Len(chain)
      BY <2>1, <3>3
    <3>. QED
      BY <2>1, <3>2, <3>4 DEF BlocksStay
  <2>. QED
    BY <2>3, <2>4, <2>5 DEF Next, Alloc, AllocFail
<1>. QED
  BY <1>1, HeapInvariant, PTL DEF Spec, BlocksPersist

-----------------------------------------------------------------------------
\* KernelAllocator implements AbstractHeap.

\* Everything a caller holds lies inside the heap.
HeldInHeap ==
    \A h \in held :
        /\ h[1] \in HeapStart .. HeapEnd
        /\ h[1] + h[2] <= HeapEnd

\* What a caller holds lies between heapStart and heapEnd.
LEMMA InvImpliesInHeap == HeapInv => HeldInHeap
<1> SUFFICES ASSUME HeapInv, NEW h \in held
             PROVE  h[1] \in HeapStart .. HeapEnd /\ h[1] + h[2] <= HeapEnd
  BY DEF HeldInHeap
<1>1. /\ TypeOK /\ BlocksOrdered /\ Len(chain) \in Nat /\ Len(chain) >= 1
      /\ \A j \in 1 .. Len(chain) : chain[j].addr \in Nat /\ chain[j].size \in Nat
  BY ChainTyped DEF HeapInv, BlocksOrdered
<1>2. h[1] \in Nat /\ h[2] \in Nat
  BY HeapAssumption DEF HeapInv, TypeOK
<1>3. PICK j \in 2 .. Len(chain) : h[1] = Payload(chain[j]) /\ h[2] <= chain[j].size
  BY DEF HeapInv, UseMatchesHolders
<1>4. /\ j \in 1 .. Len(chain) /\ 1 \in 1 .. Len(chain) /\ 1 < j
      /\ chain[j].addr \in Nat /\ chain[j].size \in Nat /\ chain[1].size \in Nat
  BY <1>1, <1>3
<1>5. /\ HeapStart + HeaderSize + chain[1].size <= chain[j].addr
      /\ chain[j].addr + HeaderSize + chain[j].size <= HeapEnd
  BY <1>1, <1>4 DEF BlocksOrdered, EndOf
<1>6. HeapStart \in Nat /\ HeaderSize \in Nat /\ HeapEnd \in Nat
  BY HeapAssumption
<1>7. /\ chain[j].addr + HeaderSize \in HeapStart .. HeapEnd
      /\ (chain[j].addr + HeaderSize) + h[2] <= HeapEnd
  <2>1. PICK a \in Nat, size \in Nat, n \in Nat, first \in Nat :
           a = chain[j].addr /\ size = chain[j].size /\ n = h[2] /\ first = chain[1].size
    BY <1>2, <1>4
  <2>2. n <= size /\ HeapStart + HeaderSize + first <= a /\ a + HeaderSize + size <= HeapEnd
    BY <1>3, <1>5, <2>1
  <2>3. a + HeaderSize \in HeapStart .. HeapEnd /\ (a + HeaderSize) + n <= HeapEnd
    BY <1>6, <2>2
  <2>. QED
    BY <2>1, <2>3
<1>. QED
  BY <1>3, <1>7 DEF Payload

\* A call of alloc that succeeds is a step of the abstract heap.
LEMMA AllocRefines ==
    ASSUME HeapInv', HeldInHeap', HeldDisjoint', NEW bytes \in RequestSizes,
           NEW ptr, held' = held \cup {<<ptr, bytes>>}
    PROVE  [Abstract!Next]_held
<1>1. CASE <<ptr, bytes>> \in held
  BY <1>1
<1>2. CASE <<ptr, bytes>> \notin held
  <2> DEFINE r == <<ptr, bytes>>
  <2>1. r \in held' /\ r[1] = ptr /\ r[2] = bytes
    OBVIOUS
  <2>2. ptr \in HeapStart .. HeapEnd /\ ptr + bytes <= HeapEnd
    BY <2>1 DEF HeldInHeap
  <2>3. \A s \in held : Abstract!Apart(r, s)
    <3>1. TAKE s \in held
    <3>2. s \in held' /\ s # r
      BY <1>2
    <3>. QED
      BY <2>1, <3>2 DEF HeldDisjoint, Abstract!Apart
  <2>4. Abstract!Alloc(bytes)
    BY <2>2, <2>3 DEF Abstract!Alloc
  <2>. QED
    BY <2>4 DEF Abstract!Next
<1>. QED
  BY <1>1, <1>2

\* Every behaviour of the allocator and its callers is, on the regions held,
\* a behaviour of the abstract heap.
THEOREM HeapRefinement == Spec => ImplementsAbstractHeap
<1>1. Init => Abstract!Init
  BY DEF Init, Abstract!Init
<1>2. HeapInv /\ HeapInv' /\ HeldInHeap' /\ HeldDisjoint' /\ [Next]_vars
         => [Abstract!Next]_held
  <2> SUFFICES ASSUME HeapInv, HeapInv', HeldInHeap', HeldDisjoint', [Next]_vars
               PROVE  [Abstract!Next]_held
    OBVIOUS
  <2>1. ASSUME NEW bytes \in RequestSizes, AllocReuse(bytes) PROVE [Abstract!Next]_held
    <3>1. PICK i \in 1 .. Len(chain) : held' = held \cup {<<Payload(chain[i]), bytes>>}
      BY <2>1 DEF AllocReuse
    <3>. QED
      BY <3>1, AllocRefines
  <2>2. ASSUME NEW bytes \in RequestSizes, AllocAppend(bytes) PROVE [Abstract!Next]_held
    <3>1. held' = held \cup {<<EndOf(Last) + HeaderSize, bytes>>}
      BY <2>2 DEF AllocAppend
    <3>. QED
      BY <3>1, AllocRefines
  <2>3. ASSUME NEW h \in held, Free(h[1]) PROVE [Abstract!Next]_held
    <3>1. held' = held \ {h}
      BY <2>3 DEF Free, HeapInv, OneHolder
    <3>. QED
      BY <3>1 DEF Abstract!Next, Abstract!Free
  <2>4. CASE UNCHANGED vars
    BY <2>4 DEF vars
  <2>5. CASE Free(NullPtr)
    BY <2>4, <2>5, FreeNullChangesNothing
  <2>6. ASSUME NEW bytes \in RequestSizes, AllocFail(bytes) PROVE [Abstract!Next]_held
    BY <2>4, <2>6 DEF AllocFail
  <2>. QED
    BY <2>1, <2>2, <2>3, <2>4, <2>5, <2>6 DEF Next, Alloc
<1>. QED
  BY <1>1, <1>2, HeapInvariant, InvImpliesInHeap, InvImpliesDisjoint, PTL
     DEF Spec, ImplementsAbstractHeap, Abstract!Spec
=============================================================================
