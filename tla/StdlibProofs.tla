---------------------------- MODULE StdlibProofs ----------------------------
(***************************************************************************)
(* Proofs about Heap and Libc, the two specifications of src/src/stdlib.   *)
(* Heap, for every HeapSize, HeaderSize and SizeMod and every set of       *)
(* requests whose sizes do not wrap around (NoWrap): the blocks tile the   *)
(* array, no block in use is free, malloc refuses only what does not fit,  *)
(* and Heap implements Allocator.  Libc, for every memory and all sound    *)
(* callers: the routines of string.c move, find and cut what they should,  *)
(* printf shows what sprintf stores, and numbers read back.                *)
(***************************************************************************)
EXTENDS Heap, Libc, WellFoundedInduction, SequenceTheorems, FiniteSetTheorems,
        TLAPS

-----------------------------------------------------------------------------
(* The heap. *)

HeapInv == TypeOK /\ Tiling /\ LiveBlocks /\ WalkInv

\* ALIGN4 rounds a request up to the next multiple of 4, that of 0 included,
\* for which the subtraction wraps around and the addition wraps back.
LEMMA Align4Bounds ==
  ASSUME NEW n \in 0 .. SizeMod - 4
  PROVE  Align4(n) \in n .. n + 3
<1>1. SizeMod \in Nat /\ SizeMod % 4 = 0 BY HeapAssumption
<1>2. CASE n = 0
  <2>1. (n - 1) % SizeMod = SizeMod - 1 BY <1>1, <1>2, SMT
  <2>2. ((SizeMod - 1) \div 4) * 4 + 4 = SizeMod BY <1>1, SMT
  <2>3. SizeMod % SizeMod = 0 BY <1>1, SMT
  <2> QED BY <1>2, <2>1, <2>2, <2>3 DEF Align4
<1>3. CASE n > 0
  <2>1. (n - 1) % SizeMod = n - 1 BY <1>1, <1>3, SMT
  <2> DEFINE rounded == ((n - 1) \div 4) * 4 + 4
  <2>2. rounded \in n .. n + 3 BY <1>3, SMT
  <2>3. rounded < SizeMod BY <1>1, <1>3, SMT
  <2>4. rounded % SizeMod = rounded BY <1>1, <1>3, <2>2, <2>3, SMT
  <2> QED BY <2>1, <2>2, <2>4 DEF Align4
<1> QED BY <1>2, <1>3

\* What malloc computes from its argument.
LEMMA SizeBounds ==
  ASSUME NoWrap, NEW n \in Requests
  PROVE  /\ (Align4(n) + HeaderSize) % SizeMod
               \in n + HeaderSize .. n + HeaderSize + 3
         /\ (Align4(n) + HeaderSize) % SizeMod \in 0 .. SizeMod - 1
<1>1. n \in 0 .. SizeMod - 4 BY HeapAssumption DEF NoWrap
<1>2. Align4(n) \in n .. n + 3 BY <1>1, Align4Bounds
<1>3. Align4(n) + HeaderSize \in 0 .. SizeMod - 1
  BY <1>1, <1>2, HeapAssumption DEF NoWrap
<1>4. (Align4(n) + HeaderSize) % SizeMod = Align4(n) + HeaderSize
  BY <1>3, HeapAssumption, SMT
<1> QED BY <1>2, <1>3, <1>4, HeapAssumption

\* The empty heap of the static initialisers.
LEMMA HeapInit == Init => HeapInv
  BY HeapAssumption
     DEF Init, HeapInv, TypeOK, Tiling, LiveBlocks, WalkInv, Blocks, Null

-----------------------------------------------------------------------------
(* One lemma per action. *)

\* The call of malloc computes a size that leaves room for what was asked.
LEMMA MallocKeepsInv ==
  ASSUME NoWrap, HeapInv, NEW n \in Requests, Malloc(n)
  PROVE  HeapInv'
<1> USE DEF HeapInv, Malloc, list
<1>1. /\ size' \in n + HeaderSize .. n + HeaderSize + 3
      /\ size' \in 0 .. SizeMod - 1
  BY SizeBounds
<1>2. TypeOK' BY <1>1 DEF TypeOK, Blocks
<1>3. Tiling' BY DEF Tiling, Blocks
<1>4. LiveBlocks' BY DEF LiveBlocks, Blocks
<1>5. WalkInv'
  <2>1. asked' = n /\ curr' = free_list /\ prev' = Null /\ Blocks' = Blocks BY DEF Blocks
  <2>2. /\ curr' # Null => curr' \in Blocks
        /\ curr' = Null => Blocks = {}
        /\ curr' # Null => curr' = 0
    BY <2>1 DEF Tiling, Null
  <2>3. \A b \in Blocks : ~ (b < 0) BY HeapAssumption DEF TypeOK
  <2>4. \A b \in Blocks' : curr' = Null \/ b < curr' => ~ Fits(b)' BY <2>1, <2>2, <2>3
  <2> HIDE DEF HeapInv, Malloc
  <2> QED BY <1>1, <2>1, <2>2, <2>4 DEF WalkInv
<1> QED BY <1>2, <1>3, <1>4, <1>5

\* malloc hands out a free block that is large enough: nobody else holds it.
LEMMA ReuseKeepsInv ==
  ASSUME HeapInv, Reuse
  PROVE  HeapInv'
<1> USE DEF HeapInv, Reuse, Answer, MarkFree, Header
<1>1. /\ curr \in Blocks /\ headers[curr].free /\ headers[curr].size >= size
      /\ asked \in Requests /\ size >= asked + HeaderSize
      /\ Blocks' = Blocks
  BY HeapAssumption DEF WalkInv, Fits, TypeOK, Blocks
<1>2. \A b \in Blocks :
        /\ headers'[b].size = headers[b].size
        /\ headers'[b].next = headers[b].next
        /\ headers'[b].free = IF b = curr THEN FALSE ELSE headers[b].free
  BY <1>1 DEF TypeOK, Blocks
<1>3. TypeOK' BY <1>1, HeapAssumption DEF TypeOK, Blocks
<1>4. Tiling' BY <1>1, <1>2 DEF Tiling
<1>5. LiveBlocks'
  <2>1. \A r \in live : r.ptr # curr + HeaderSize
    BY <1>1, HeapAssumption DEF LiveBlocks, TypeOK
  <2> DEFINE new == [ptr |-> curr + HeaderSize, len |-> asked]
  <2>2. live' = live \cup {new} OBVIOUS
  <2>3. \A r \in live' : /\ r.ptr - HeaderSize \in Blocks
                         /\ ~ headers'[r.ptr - HeaderSize].free
                         /\ HeaderSize + r.len
                              <= headers'[r.ptr - HeaderSize].size
    <3> TAKE r \in live'
    <3>1. CASE r = new
      <4>1. r.ptr - HeaderSize = curr /\ r.len = asked
        BY <3>1, <1>1, HeapAssumption DEF TypeOK
      <4> QED BY <4>1, <1>1, <1>2, HeapAssumption DEF TypeOK
    <3>2. CASE r \in live
      BY <3>2, <1>1, <1>2, HeapAssumption DEF LiveBlocks
    <3> QED BY <2>2, <3>1, <3>2
  <2>4. \A r, s \in live' : r.ptr = s.ptr => r = s
    BY <2>1, <2>2 DEF LiveBlocks
  <2>5. \A b \in Blocks :
          ~ headers'[b].free => \E r \in live' : r.ptr = b + HeaderSize
    <3>1. new \in live' /\ new.ptr = curr + HeaderSize OBVIOUS
    <3>2. \A b \in Blocks : ~ headers[b].free =>
            \E r \in live' : r.ptr = b + HeaderSize
      BY DEF LiveBlocks
    <3> QED BY <1>2, <3>1, <3>2
  <2> QED BY <1>1, <2>3, <2>4, <2>5 DEF LiveBlocks
<1>6. WalkInv' BY DEF WalkInv
<1> QED BY <1>3, <1>4, <1>5, <1>6

\* A block left behind by the walk does not fit, and the list leads on.
LEMMA WalkOnKeepsInv ==
  ASSUME HeapInv, WalkOn
  PROVE  HeapInv'
<1> USE DEF HeapInv, WalkOn, list
<1>1. curr \in Blocks /\ Blocks' = Blocks
  BY DEF WalkInv, Blocks
<1>2. TypeOK' BY <1>1 DEF TypeOK, Blocks
<1>3. Tiling' BY DEF Tiling, Blocks
<1>4. LiveBlocks' BY DEF LiveBlocks, Blocks
<1>5. WalkInv'
  <2> DEFINE end == curr + headers[curr].size
  <2>1. curr' \in Blocks \cup {Null} /\ prev' \in Blocks
    BY <1>1 DEF Tiling
  <2>2. \A b \in Blocks : curr' = Null \/ b < curr' => b <= curr
    BY <1>1, HeapAssumption DEF Tiling, TypeOK, Null
  <2>3. \A b \in Blocks : b <= curr => ~ Fits(b)
    BY <1>1 DEF WalkInv, TypeOK
  <2>4. curr' = Null => prev' + headers[prev'].size = heap_used
    <3>1. end # heap_used => end \in Blocks /\ headers[curr].next = end
      BY <1>1 DEF Tiling
    <3>2. \A b \in Blocks : b # Null
      BY HeapAssumption DEF TypeOK, Null
    <3> QED BY <3>1, <3>2
  <2> QED BY <1>1, <2>1, <2>2, <2>3, <2>4, HeapAssumption
          DEF WalkInv, Fits, Null, TypeOK
<1> QED BY <1>2, <1>3, <1>4, <1>5

\* A refusal changes nothing.
LEMMA OutOfMemoryKeepsInv ==
  ASSUME HeapInv, OutOfMemory
  PROVE  HeapInv'
  BY DEF HeapInv, OutOfMemory, list, TypeOK, Tiling, LiveBlocks, WalkInv, Blocks

\* A new block starts where the last one ends and ends in the array.
LEMMA CarveKeepsInv ==
  ASSUME NoWrap, HeapInv, Carve
  PROVE  HeapInv'
<1> USE DEF HeapInv, Carve, Link, Linked, Answer, Header
<1>1. /\ asked \in Requests /\ asked \in Nat
      /\ size \in asked + HeaderSize .. asked + HeaderSize + 3
      /\ heap_used \in 0 .. HeapSize
  BY HeapAssumption DEF WalkInv, TypeOK, Tiling
<1>2. heap_used' = heap_used + size /\ heap_used + size <= HeapSize
  <2>1. heap_used + size \in 0 .. SizeMod - 1
    BY <1>1, HeapAssumption DEF NoWrap
  <2>2. (heap_used + size) % SizeMod = heap_used + size
    BY <2>1, HeapAssumption, SMT
  <2> QED BY <2>1, <2>2, HeapAssumption DEF OutOfRoom
<1>3. /\ Blocks' = Blocks \cup {heap_used}
      /\ heap_used \notin Blocks
      /\ \A b \in Blocks : b < heap_used
  <2>1. Blocks' = Blocks \cup {heap_used} BY DEF Blocks
  <2>2. \A b \in Blocks :
          /\ b \in Nat /\ headers[b].size \in Nat
          /\ headers[b].size >= HeaderSize
          /\ b + headers[b].size <= heap_used
    BY HeapAssumption DEF Tiling, TypeOK
  <2>3. \A b \in Blocks : b < heap_used BY <1>1, <2>2, HeapAssumption
  <2> QED BY <1>1, <2>1, <2>3
<1>4. /\ headers'[heap_used] = Header(size, FALSE, Null)
      /\ \A b \in Blocks :
           /\ headers'[b].size = headers[b].size
           /\ headers'[b].free = headers[b].free
           /\ headers'[b].next = IF b = prev THEN heap_used
                                 ELSE headers[b].next
  BY <1>3 DEF TypeOK
<1>5. IF Blocks = {} THEN prev = Null
      ELSE prev \in Blocks /\ prev + headers[prev].size = heap_used
  BY DEF WalkInv
<1>6. TypeOK'
  <2>1. headers' \in [Blocks' -> [size : 0 .. SizeMod - 1, free : BOOLEAN,
                                  next : {Null} \cup 0 .. HeapSize]]
    BY <1>1, <1>3, <1>4, HeapAssumption DEF TypeOK, Blocks
  <2>2. live' \subseteq [ptr : 0 .. HeapSize + HeaderSize, len : Requests]
    BY <1>1, HeapAssumption DEF TypeOK
  <2> QED BY <1>1, <1>2, <1>3, <2>1, <2>2, HeapAssumption DEF TypeOK
<1>7. Tiling'
  <2>1. free_list' = 0 /\ 0 \in Blocks' /\ heap_used' <= HeapSize
    BY <1>2, <1>3, <1>5, HeapAssumption DEF Tiling, TypeOK, Null
  <2> SUFFICES ASSUME NEW b \in Blocks'
               PROVE  LET end == b + headers'[b].size
                      IN  /\ headers'[b].size >= HeaderSize
                          /\ IF end = heap_used' THEN headers'[b].next = Null
                             ELSE end \in Blocks' /\ headers'[b].next = end
                          /\ \A c \in Blocks' : b < c => end <= c
                          /\ end <= heap_used'
    BY <2>1 DEF Tiling
  <2> DEFINE end == b + headers'[b].size
  <2>2. CASE b = heap_used
    <3>1. headers'[b].size = size /\ headers'[b].next = Null
      BY <2>2, <1>4
    <3>2. end = heap_used' BY <2>2, <3>1, <1>2
    <3>3. \A c \in Blocks' : ~ b < c
      <4>1. \A c \in Blocks : c \in Int /\ c < heap_used
        BY <1>3 DEF TypeOK
      <4>2. heap_used \in Int BY <1>1
      <4> QED BY <2>2, <1>3, <4>1, <4>2
    <3> QED BY <3>1, <3>2, <3>3, <1>1, <1>2, HeapAssumption
  <2>3. CASE b \in Blocks
    <3>1. /\ headers'[b].size = headers[b].size
          /\ headers[b].size >= HeaderSize /\ end <= heap_used
          /\ \A c \in Blocks : b < c => end <= c
      BY <2>3, <1>4 DEF Tiling
    <3>2. end # heap_used' /\ end <= heap_used'
      BY <3>1, <1>1, <1>2, <2>3, HeapAssumption DEF TypeOK
    <3>3. \A c \in Blocks' : b < c => end <= c
      BY <3>1, <1>3
    <3>4. CASE b = prev
      BY <3>1, <3>2, <3>3, <3>4, <1>3, <1>4, <1>5, <2>3
    <3>5. CASE b # prev
      <4>1. end # heap_used
        <5> SUFFICES ASSUME end = heap_used PROVE FALSE OBVIOUS
        <5>1. prev \in Blocks /\ prev + headers[prev].size = heap_used
          BY <1>5, <2>3
        <5>2. ~ b < prev
          <6>1. b < prev => heap_used <= prev BY <5>1, <3>1
          <6> QED BY <6>1, <5>1, <1>1, <1>3 DEF TypeOK
        <5>3. ~ prev < b
          <6>1. prev < b => heap_used <= b BY <5>1, <2>3 DEF Tiling
          <6> QED BY <6>1, <1>1, <1>3, <2>3 DEF TypeOK
        <5>4. prev \in Int /\ b \in Int BY <5>1, <2>3 DEF TypeOK
        <5> QED BY <5>2, <5>3, <5>4, <3>5
      <4>2. end \in Blocks /\ headers[b].next = end
        BY <4>1, <3>1, <2>3 DEF Tiling
      <4> QED BY <4>2, <3>1, <3>2, <3>3, <3>5, <1>3, <1>4, <2>3
    <3> QED BY <3>4, <3>5
  <2> QED BY <2>2, <2>3, <1>3
<1>8. LiveBlocks'
  <2> DEFINE new == [ptr |-> heap_used + HeaderSize, len |-> asked]
  <2>1. live' = live \cup {new} OBVIOUS
  <2>2. \A r \in live : /\ r.ptr - HeaderSize \in Blocks /\ r.ptr # new.ptr
                        /\ ~ headers'[r.ptr - HeaderSize].free
                        /\ HeaderSize + r.len
                             <= headers'[r.ptr - HeaderSize].size
    BY <1>1, <1>3, <1>4, HeapAssumption DEF LiveBlocks, TypeOK
  <2>3. /\ new.ptr - HeaderSize = heap_used
        /\ ~ headers'[heap_used].free
        /\ HeaderSize + new.len <= headers'[heap_used].size
    BY <1>1, <1>4, HeapAssumption
  <2>4. \A r, s \in live' : r.ptr = s.ptr => r = s
    BY <2>1, <2>2 DEF LiveBlocks
  <2>5. \A b \in Blocks' :
          ~ headers'[b].free => \E r \in live' : r.ptr = b + HeaderSize
    <3>1. new \in live' /\ new.ptr = heap_used + HeaderSize OBVIOUS
    <3>2. \A b \in Blocks : ~ headers[b].free =>
            \E r \in live' : r.ptr = b + HeaderSize
      BY DEF LiveBlocks
    <3> QED BY <1>3, <1>4, <3>1, <3>2
  <2> HIDE DEF new
  <2> QED BY <1>3, <2>1, <2>2, <2>3, <2>4, <2>5 DEF LiveBlocks
<1>9. WalkInv' BY DEF WalkInv
<1> QED BY <1>6, <1>7, <1>8, <1>9

\* free marks the block of the region that is given back, and no other.
LEMMA FreeKeepsInv ==
  ASSUME HeapInv, NEW region \in live, Free(region)
  PROVE  HeapInv'
<1> USE DEF HeapInv, Free, frame, MarkFree, Header
<1> DEFINE block == region.ptr - HeaderSize
<1>1. block \in Blocks /\ Blocks' = Blocks
  BY DEF LiveBlocks, TypeOK, Blocks
<1>2. \A b \in Blocks :
        /\ headers'[b].size = headers[b].size
        /\ headers'[b].next = headers[b].next
        /\ headers'[b].free = IF b = block THEN TRUE ELSE headers[b].free
  BY <1>1 DEF TypeOK, Blocks
<1>3. TypeOK' BY <1>1 DEF TypeOK, Blocks
<1>4. Tiling' BY <1>1, <1>2 DEF Tiling
<1>5. LiveBlocks'
  BY <1>1, <1>2, HeapAssumption DEF LiveBlocks, TypeOK
<1>6. WalkInv' BY DEF WalkInv
<1> QED BY <1>3, <1>4, <1>5, <1>6

-----------------------------------------------------------------------------

\* Every step of malloc and free keeps the invariant.
LEMMA HeapStep ==
  ASSUME NoWrap, HeapInv, [Next]_vars
  PROVE  HeapInv'
<1>1. ASSUME NEW n \in Requests, Malloc(n) PROVE HeapInv'
  BY <1>1, MallocKeepsInv
<1>2. CASE Reuse BY <1>2, ReuseKeepsInv
<1>3. CASE WalkOn BY <1>3, WalkOnKeepsInv
<1>4. CASE OutOfMemory BY <1>4, OutOfMemoryKeepsInv
<1>5. CASE Carve BY <1>5, CarveKeepsInv
<1>6. ASSUME NEW region \in live, Free(region) PROVE HeapInv'
  BY <1>6, FreeKeepsInv
<1>7. CASE UNCHANGED vars
  BY <1>7 DEF vars, list, frame, HeapInv, TypeOK, Tiling, LiveBlocks, WalkInv,
              Blocks, Fits
<1> QED BY <1>1, <1>2, <1>3, <1>4, <1>5, <1>6, <1>7 DEF Next

\* The blocks always tile the array and a block in use is never free, for
\* callers whose requests do not wrap around (stdlib.c:15-51).
THEOREM HeapIsTiled ==
  ASSUME NoWrap
  PROVE  Spec => [](TypeOK /\ Tiling /\ LiveBlocks /\ WalkInv)
<1>1. Init => HeapInv BY HeapInit
<1>2. HeapInv /\ [Next]_vars => HeapInv' BY HeapStep
<1>3. HeapInv => TypeOK /\ Tiling /\ LiveBlocks /\ WalkInv BY DEF HeapInv
<1> QED BY <1>1, <1>2, <1>3, PTL DEF Spec

\* The headers and the variables of the walk keep their ranges: every block and
\* every pointer of the list lies in the array, and curr is read and next is
\* written at blocks only (stdlib.c:15-47).
THEOREM HeapType ==
  ASSUME NoWrap
  PROVE  Spec => []TypeOK
<1> QED BY HeapIsTiled, PTL

\* A region that a caller holds is the inside of a block of its own that is not
\* marked free, so that malloc cannot hand it out again (stdlib.c:20-27).
THEOREM HeldRegionsAreLiveBlocks ==
  ASSUME NoWrap
  PROVE  Spec => []LiveBlocks
<1> QED BY HeapIsTiled, PTL

\* The block of a region that a caller holds.
LEMMA HeldBlock ==
  ASSUME HeapInv, NEW b \in Int, NEW n,
         [ptr |-> b + HeaderSize, len |-> n] \in live
  PROVE  b \in Blocks /\ ~ headers[b].free
<1> DEFINE r == [ptr |-> b + HeaderSize, len |-> n]
<1>1. r.ptr - HeaderSize = b BY HeapAssumption
<1>2. \A q \in live :
        q.ptr - HeaderSize \in Blocks /\ ~ headers[q.ptr - HeaderSize].free
  BY DEF HeapInv, LiveBlocks
<1>3. r.ptr - HeaderSize \in Blocks /\ ~ headers[r.ptr - HeaderSize].free
  BY <1>2
<1> HIDE DEF r
<1> QED BY <1>1, <1>3

\* malloc answers NULL only when no free block of the list is large enough
\* and the rest of the array is too small (stdlib.c:20-32).
THEOREM RefusalsAreJustified ==
  ASSUME NoWrap
  PROVE  Spec => RefusalIsJustified
<1> DEFINE justified ==
      Refused => /\ \A b \in Blocks : ~ Fits(b)
                 /\ HeapSize - heap_used < asked + HeaderSize + 3
<1>1. Init => HeapInv BY HeapInit
<1>2. HeapInv /\ [Next]_vars => HeapInv' BY HeapStep
<1>3. HeapInv /\ [Next]_vars => [justified]_vars
  <2> SUFFICES ASSUME HeapInv, [Next]_vars, Refused
               PROVE  /\ \A b \in Blocks : ~ Fits(b)
                      /\ HeapSize - heap_used < asked + HeaderSize + 3
    OBVIOUS
  <2>1. ~ Reuse
    <3> SUFFICES ASSUME Reuse PROVE FALSE OBVIOUS
    <3>1. headers[curr].free /\ curr \in Int
      BY DEF Reuse, Fits, HeapInv, TypeOK
    <3>2. [ptr |-> curr + HeaderSize, len |-> asked] \in live
      BY DEF Reuse, Answer, Refused
    <3> QED BY <3>1, <3>2, HeldBlock
  <2>2. ~ Carve
    <3> SUFFICES ASSUME Carve PROVE FALSE OBVIOUS
    <3>1. heap_used \in Int BY HeapAssumption DEF HeapInv, TypeOK
    <3>2. [ptr |-> heap_used + HeaderSize, len |-> asked] \in live
      BY DEF Carve, Answer, Refused
    <3>3. heap_used \in Blocks BY <3>1, <3>2, HeldBlock
    <3>4. /\ headers[heap_used].size \in Nat
          /\ headers[heap_used].size >= HeaderSize
          /\ heap_used + headers[heap_used].size <= heap_used
      BY <3>3, HeapAssumption DEF HeapInv, Tiling, TypeOK
    <3> QED BY <3>1, <3>4, HeapAssumption
  <2>3. OutOfMemory
    BY <2>1, <2>2 DEF Refused, Next, Malloc, WalkOn, Free, vars, frame
  <2>4. /\ asked \in Nat /\ heap_used \in 0 .. HeapSize
        /\ size \in asked + HeaderSize .. asked + HeaderSize + 3
        /\ asked + HeaderSize + HeapSize + 3 < SizeMod
    BY <2>3, HeapAssumption
       DEF OutOfMemory, HeapInv, WalkInv, TypeOK, Tiling, NoWrap
  <2>5. (heap_used + size) % SizeMod = heap_used + size
    BY <2>4, HeapAssumption, SMT
  <2>6. heap_used + size > HeapSize BY <2>3, <2>5 DEF OutOfMemory, OutOfRoom
  <2>7. HeapSize - heap_used < asked + HeaderSize + 3
    BY <2>4, <2>6, HeapAssumption
  <2> QED BY <2>3, <2>7 DEF OutOfMemory, HeapInv, WalkInv
<1> QED BY <1>1, <1>2, <1>3, PTL DEF Spec, RefusalIsJustified

-----------------------------------------------------------------------------
(* The refinement. *)

\* A block that is not in use, or a new one, holds no region of a caller.
LEMMA AnswerIsAllocation ==
  ASSUME HeapInv', NEW b \in Int, at = "walk", asked \in Requests,
         Answer(b), [ptr |-> b + HeaderSize, len |-> asked] \notin live
  PROVE  \E p \in 0 .. HeapSize : Memory!Allocate(p, asked)
<1> DEFINE p == b + HeaderSize
           new == [ptr |-> p, len |-> asked]
<1>1. live' = live \cup {new} BY DEF Answer
<1>2. \A r \in live' :
        /\ (r.ptr - HeaderSize) \in Blocks'
        /\ HeaderSize + r.len <= headers'[r.ptr - HeaderSize].size
        /\ r.len \in Nat /\ r.ptr \in Int
  <2>1. \A r \in live' : r \in [ptr : 0 .. HeapSize + HeaderSize, len : Requests]
    BY DEF HeapInv, TypeOK
  <2>2. \A r \in live' : r.len \in Nat /\ r.ptr \in Int
    <3>1. \A r \in live' : r.len \in Requests /\ r.ptr \in 0 .. HeapSize + HeaderSize
      BY <2>1
    <3>2. \A n \in Requests : n \in Nat BY HeapAssumption
    <3>3. \A n \in 0 .. HeapSize + HeaderSize : n \in Int OBVIOUS
    <3> QED BY <3>1, <3>2, <3>3
  <2> QED BY <2>2 DEF HeapInv, LiveBlocks
<1>3. /\ b \in Blocks' /\ HeaderSize + asked <= headers'[b].size
      /\ asked \in Nat
  <2>1. p - HeaderSize = b BY HeapAssumption
  <2> QED BY <1>1, <1>2, <2>1
<1>4. p + asked <= HeapSize /\ p \in 0 .. HeapSize
  <2>1. b + headers'[b].size <= heap_used' /\ heap_used' <= HeapSize
    BY <1>3 DEF HeapInv, Tiling
  <2>2. b \in Nat /\ headers'[b].size \in Nat /\ heap_used' \in Nat
    BY <1>3, HeapAssumption DEF HeapInv, TypeOK
  <2> QED BY <1>3, <2>1, <2>2, HeapAssumption
<1>5. \A r \in live : Memory!Apart(new, r)
  <2> TAKE r \in live
  <2> DEFINE c == r.ptr - HeaderSize
  <2>1. c \in Blocks' BY <1>1, <1>2
  <2>2. c # b
    <3> SUFFICES ASSUME c = b PROVE FALSE OBVIOUS
    <3>1. r.ptr = new.ptr BY <1>1, <1>2, HeapAssumption
    <3>2. r = new BY <1>1, <3>1 DEF HeapInv, LiveBlocks
    <3> QED BY <3>2
  <2>3. HeaderSize + r.len <= headers'[c].size /\ r.len \in Nat
    BY <1>1, <1>2
  <2>4. TypeOK' /\ Tiling' BY DEF HeapInv
  <2>5. /\ b \in Nat /\ c \in Nat
        /\ headers'[b].size \in Nat /\ headers'[c].size \in Nat
    <3>1. \A d \in Blocks' : d \in Nat /\ headers'[d].size \in Nat
      BY <2>4, HeapAssumption DEF TypeOK
    <3> QED BY <3>1, <1>3, <2>1
  <2>6. /\ b < c => b + headers'[b].size <= c
        /\ c < b => c + headers'[c].size <= b
    BY <1>3, <2>1, <2>4 DEF Tiling
  <2>7. r.ptr = c + HeaderSize BY <1>1, <1>2, HeapAssumption
  <2> QED BY <1>3, <2>2, <2>3, <2>5, <2>6, <2>7, HeapAssumption
          DEF Memory!Apart
<1> QED BY <1>1, <1>4, <1>5 DEF Memory!Allocate

\* malloc and free implement the allocator: regions never overlap, and only
\* free takes one back.
THEOREM HeapImplementsAllocator ==
  ASSUME NoWrap
  PROVE  Spec => ImplementsAllocator
<1>1. Init => HeapInv BY HeapInit
<1>2. HeapInv /\ [Next]_vars => HeapInv' BY HeapStep
<1>3. Init => Memory!Init BY DEF Init, Memory!Init
<1>4. HeapInv /\ HeapInv' /\ [Next]_vars => [Memory!Next]_live
  <2> SUFFICES ASSUME HeapInv, HeapInv', Next, live' # live
               PROVE  Memory!Next
    BY DEF vars
  <2>1. CASE Reuse
    <3>1. /\ at = "walk" /\ Answer(curr) /\ curr \in Int
          /\ asked \in Requests
      BY <2>1 DEF Reuse, HeapInv, TypeOK, WalkInv
    <3>2. [ptr |-> curr + HeaderSize, len |-> asked] \notin live
      BY <3>1 DEF Answer
    <3> QED BY <3>1, <3>2, AnswerIsAllocation DEF Memory!Next
  <2>2. CASE Carve
    <3>1. /\ at = "walk" /\ Answer(heap_used) /\ heap_used \in Int
          /\ asked \in Requests
      BY <2>2, HeapAssumption DEF Carve, HeapInv, TypeOK, WalkInv
    <3>2. [ptr |-> heap_used + HeaderSize, len |-> asked] \notin live
      BY <3>1 DEF Answer
    <3> QED BY <3>1, <3>2, AnswerIsAllocation DEF Memory!Next
  <2>3. ASSUME NEW region \in live, Free(region) PROVE Memory!Next
    BY <2>3 DEF Free, Memory!Next, Memory!Release
  <2> QED BY <2>1, <2>2, <2>3
          DEF Next, Malloc, WalkOn, OutOfMemory, list
<1> QED BY <1>1, <1>2, <1>3, <1>4, PTL
        DEF Spec, ImplementsAllocator, Memory!Spec

-----------------------------------------------------------------------------
(* Least numbers.  What a recursive function computes is proved without an *)
(* induction rule: of the numbers for which it fails there is a least one. *)

\* The order of the numbers, as a set of pairs.
Below == {p \in Nat \X Nat : p[1] < p[2]}

\* A set of numbers that is not empty has a least one.
LEMMA Least ==
  ASSUME NEW T, T \subseteq Nat, T # {}
  PROVE  \E x \in T : \A y \in T : x <= y
<1>1. IsWellFoundedOn(Below, Nat) BY NatLessThanWellFounded DEF OpToRel, Below
<1>2. PICK x \in T : \A y \in T : ~ (<<y, x>> \in Below) BY <1>1, WFMin
<1>3. ASSUME NEW y \in T, ~ (x <= y) PROVE FALSE
  <2>1. y < x /\ x \in Nat /\ y \in Nat BY <1>3
  <2>2. <<y, x>> \in Below BY <2>1 DEF Below
  <2> QED BY <1>2, <2>2
<1> QED BY <1>3

-----------------------------------------------------------------------------
(* Copies, byte after byte. *)

\* The contents of memory.
Memories == [Address -> Nat]

\* The memory m with the bytes lo .. hi - 1 of the source moved to their places.
Moved(m, d, s, lo, hi) ==
  [a \in Address |-> IF a \in d + lo .. d + hi - 1 THEN m[s + a - d] ELSE m[a]]

\* Moving bytes within memory leaves a memory.
LEMMA MovedType ==
  ASSUME NEW m \in Memories, NEW d \in Address, NEW s \in Address,
         NEW lo \in Nat, NEW hi \in Nat, s + hi <= MemSize
  PROVE  Moved(m, d, s, lo, hi) \in Memories
BY StringsAssumption DEF Moved, Memories, Address

\* A turn of the upward loop moves one byte more, as long as the bytes still to
\* be read are not those already written.
LEMMA MovedUp ==
  ASSUME NEW m \in Memories, NEW d \in Address, NEW s \in Address, NEW i \in Nat,
         i > 0, d + i <= MemSize, s + i <= MemSize,
         d <= s \/ d >= s + i
  PROVE  LET w == Moved(m, d, s, 0, i - 1)
         IN  [w EXCEPT ![d + i - 1] = w[s + i - 1]] = Moved(m, d, s, 0, i)
<1> DEFINE w == Moved(m, d, s, 0, i - 1)
           u == [w EXCEPT ![d + i - 1] = w[s + i - 1]]
           v == Moved(m, d, s, 0, i)
<1>1. w \in Memories
  <2>1. i - 1 \in Nat /\ s + (i - 1) <= MemSize BY StringsAssumption DEF Address
  <2> QED BY <2>1, MovedType
<1>2. v \in Memories BY MovedType
<1>3. d + i - 1 \in Address /\ s + i - 1 \in Address BY StringsAssumption DEF Address
<1>4. w[s + i - 1] = m[s + i - 1] BY <1>3, StringsAssumption DEF Moved, Address
<1>5. u \in Memories BY <1>1, <1>3 DEF Memories
<1>6. ASSUME NEW a \in Address PROVE u[a] = v[a]
  <2>1. u[a] = IF a = d + i - 1 THEN m[s + i - 1] ELSE w[a] BY <1>1, <1>4 DEF Memories
  <2>2. w[a] = IF a \in d + 0 .. d + (i - 1) - 1 THEN m[s + a - d] ELSE m[a] BY DEF Moved
  <2>3. v[a] = IF a \in d + 0 .. d + i - 1 THEN m[s + a - d] ELSE m[a] BY DEF Moved
  <2> HIDE DEF u, v, w
  <2>4. CASE a = d + i - 1
    <3>1. s + a - d = s + i - 1 BY <2>4 DEF Address
    <3>2. a \in d + 0 .. d + i - 1 BY <2>4, StringsAssumption DEF Address
    <3> QED BY <2>1, <2>3, <2>4, <3>1, <3>2
  <2>5. CASE a # d + i - 1
    <3>1. a \in d + 0 .. d + i - 1 <=> a \in d + 0 .. d + (i - 1) - 1
      BY <2>5, StringsAssumption DEF Address
    <3> QED BY <2>1, <2>2, <2>3, <2>5, <3>1
  <2> QED BY <2>4, <2>5
<1> HIDE DEF u, v
<1>7. u = v BY <1>2, <1>5, <1>6 DEF Memories
<1> QED BY <1>7 DEF u, v

\* So does a turn of the downward loop, with the bytes behind already moved.
LEMMA MovedDown ==
  ASSUME NEW m \in Memories, NEW d \in Address, NEW s \in Address, NEW n \in Nat,
         NEW i \in 0 .. n - 1, d + n <= MemSize, s + n <= MemSize, d >= s
  PROVE  LET w == Moved(m, d, s, i + 1, n)
         IN  [w EXCEPT ![d + i] = w[s + i]] = Moved(m, d, s, i, n)
<1> DEFINE w == Moved(m, d, s, i + 1, n)
           u == [w EXCEPT ![d + i] = w[s + i]]
           v == Moved(m, d, s, i, n)
<1>1. w \in Memories BY MovedType, i + 1 \in Nat
<1>2. v \in Memories BY MovedType, i \in Nat
<1>3. d + i \in Address /\ s + i \in Address BY StringsAssumption DEF Address
<1>4. w[s + i] = m[s + i] BY <1>3, StringsAssumption DEF Moved, Address
<1>5. u \in Memories BY <1>1, <1>3 DEF Memories
<1>6. ASSUME NEW a \in Address PROVE u[a] = v[a]
  <2>1. u[a] = IF a = d + i THEN m[s + i] ELSE w[a] BY <1>1, <1>4 DEF Memories
  <2>2. w[a] = IF a \in d + (i + 1) .. d + n - 1 THEN m[s + a - d] ELSE m[a] BY DEF Moved
  <2>3. v[a] = IF a \in d + i .. d + n - 1 THEN m[s + a - d] ELSE m[a] BY DEF Moved
  <2> HIDE DEF u, v, w
  <2>4. CASE a = d + i
    <3>1. s + a - d = s + i BY <2>4 DEF Address
    <3>2. a \in d + i .. d + n - 1 BY <2>4, StringsAssumption DEF Address
    <3> QED BY <2>1, <2>3, <2>4, <3>1, <3>2
  <2>5. CASE a # d + i
    <3>1. a \in d + i .. d + n - 1 <=> a \in d + (i + 1) .. d + n - 1
      BY <2>5, StringsAssumption DEF Address
    <3> QED BY <2>1, <2>2, <2>3, <2>5, <3>1
  <2> QED BY <2>4, <2>5
<1> HIDE DEF u, v
<1>7. u = v BY <1>2, <1>5, <1>6 DEF Memories
<1> QED BY <1>7 DEF u, v

\* The upward loop moves the whole range at once if it does not run into its
\* own source (string.c, memcpy and memmove).
LEMMA CopyUpMoves ==
  ASSUME NEW m \in Memories, NEW d \in Address, NEW s \in Address, NEW n \in Nat,
         d + n <= MemSize, s + n <= MemSize, d <= s \/ d >= s + n
  PROVE  CopyUp(m, d, s, n) = Moved(m, d, s, 0, n)
<1> DEFINE w == [i \in 0 .. n |-> Moved(m, d, s, 0, i)]
           after == CHOOSE f : f = [i \in 0 .. n |->
                      IF i = 0 THEN m
                      ELSE [f[i - 1] EXCEPT ![d + i - 1] = f[i - 1][s + i - 1]]]
<1>1. Moved(m, d, s, 0, 0) = m
  <2>1. Moved(m, d, s, 0, 0) \in Memories BY MovedType, StringsAssumption DEF Address
  <2>2. \A a \in Address : Moved(m, d, s, 0, 0)[a] = m[a] BY StringsAssumption DEF Moved, Address
  <2> QED BY <2>1, <2>2 DEF Memories
<1>2. w = [i \in 0 .. n |-> IF i = 0 THEN m
                      ELSE [w[i - 1] EXCEPT ![d + i - 1] = w[i - 1][s + i - 1]]]
  <2>1. ASSUME NEW i \in 0 .. n, i # 0
        PROVE  Moved(m, d, s, 0, i) = [w[i - 1] EXCEPT ![d + i - 1] = w[i - 1][s + i - 1]]
    <3>1. i \in Nat /\ i > 0 /\ d + i <= MemSize /\ s + i <= MemSize /\ (d <= s \/ d >= s + i)
      BY <2>1, StringsAssumption DEF Address
    <3>2. w[i - 1] = Moved(m, d, s, 0, i - 1) BY <2>1, <3>1
    <3> HIDE DEF w
    <3> QED BY <3>1, <3>2, MovedUp
  <2> QED BY <1>1, <2>1
<1>3. after = [i \in 0 .. n |-> IF i = 0 THEN m
                 ELSE [after[i - 1] EXCEPT ![d + i - 1] = after[i - 1][s + i - 1]]]
  <2> HIDE DEF w
  <2> QED BY <1>2
<1> HIDE DEF after
<1>4. ASSUME NEW j \in 0 .. n, after[j] # w[j] PROVE FALSE
  <2> DEFINE Bad == {i \in 0 .. n : after[i] # w[i]}
  <2>1. PICK x \in Bad : \A y \in Bad : x <= y
    <3>1. Bad \subseteq Nat /\ Bad # {} BY <1>4
    <3> HIDE DEF Bad
    <3> QED BY <3>1, Least
  <2>2. x # 0 BY <1>1, <1>3, <2>1
  <2>3. x - 1 \in 0 .. n /\ x \in 0 .. n BY <2>1, <2>2
  <2>4. after[x - 1] = w[x - 1] BY <2>1, <2>3
  <2>5. after[x] = [after[x - 1] EXCEPT ![d + x - 1] = after[x - 1][s + x - 1]]
    BY <1>3, <2>2, <2>3
  <2>6. w[x] = [w[x - 1] EXCEPT ![d + x - 1] = w[x - 1][s + x - 1]]
    <3> HIDE DEF w
    <3> QED BY <1>2, <2>2, <2>3
  <2> QED BY <2>1, <2>4, <2>5, <2>6
<1>5. CopyUp(m, d, s, n) = after[n] BY DEF CopyUp, after
<1> QED BY <1>4, <1>5

\* The downward loop moves the whole range at once if the destination lies
\* behind the source (string.c, memmove).
LEMMA CopyDownMoves ==
  ASSUME NEW m \in Memories, NEW d \in Address, NEW s \in Address, NEW n \in Nat,
         d + n <= MemSize, s + n <= MemSize, d >= s
  PROVE  CopyDown(m, d, s, n) = Moved(m, d, s, 0, n)
<1> DEFINE w == [i \in 0 .. n |-> Moved(m, d, s, i, n)]
           after == CHOOSE f : f = [i \in 0 .. n |->
                      IF i = n THEN m ELSE [f[i + 1] EXCEPT ![d + i] = f[i + 1][s + i]]]
<1>1. Moved(m, d, s, n, n) = m
  <2>1. Moved(m, d, s, n, n) \in Memories BY MovedType
  <2>2. \A a \in Address : Moved(m, d, s, n, n)[a] = m[a] BY StringsAssumption DEF Moved, Address
  <2> QED BY <2>1, <2>2 DEF Memories
<1>2. w = [i \in 0 .. n |->
             IF i = n THEN m ELSE [w[i + 1] EXCEPT ![d + i] = w[i + 1][s + i]]]
  <2>1. ASSUME NEW i \in 0 .. n, i # n
        PROVE  Moved(m, d, s, i, n) = [w[i + 1] EXCEPT ![d + i] = w[i + 1][s + i]]
    <3>1. i \in 0 .. n - 1 BY <2>1
    <3>2. w[i + 1] = Moved(m, d, s, i + 1, n) BY <3>1
    <3> HIDE DEF w
    <3> QED BY <3>1, <3>2, MovedDown
  <2> QED BY <1>1, <2>1
<1>3. after = [i \in 0 .. n |->
                 IF i = n THEN m ELSE [after[i + 1] EXCEPT ![d + i] = after[i + 1][s + i]]]
  <2> HIDE DEF w
  <2> QED BY <1>2
<1> HIDE DEF after
<1>4. ASSUME NEW j \in 0 .. n, after[j] # w[j] PROVE FALSE
  <2> DEFINE Bad == {k \in 0 .. n : after[n - k] # w[n - k]}
  <2>1. PICK x \in Bad : \A y \in Bad : x <= y
    <3>1. n - j \in 0 .. n /\ n - (n - j) = j OBVIOUS
    <3>2. n - j \in Bad BY <1>4, <3>1
    <3>3. Bad \subseteq 0 .. n OBVIOUS
    <3> HIDE DEF Bad
    <3>4. Bad \subseteq Nat /\ Bad # {} BY <3>2, <3>3
    <3> QED BY <3>4, Least
  <2> DEFINE i == n - x
  <2>2. x \in 0 .. n /\ i \in 0 .. n BY <2>1
  <2>3. i # n
    <3>1. after[n] = m /\ w[n] = m BY <1>1, <1>3
    <3> QED BY <2>1, <3>1
  <2>4. i + 1 \in 0 .. n /\ x - 1 \in 0 .. n /\ i + 1 = n - (x - 1) BY <2>2, <2>3
  <2>5. after[i + 1] = w[i + 1]
    <3>1. ~ (x <= x - 1) BY <2>2
    <3>2. x - 1 \notin Bad
      <4> HIDE DEF Bad
      <4> QED BY <2>1, <3>1
    <3>3. after[n - (x - 1)] = w[n - (x - 1)]
      <4> HIDE DEF w
      <4> QED BY <2>4, <3>2
    <3> QED BY <2>4, <3>3
  <2> HIDE DEF i
  <2>6. after[i] = [after[i + 1] EXCEPT ![d + i] = after[i + 1][s + i]]
    BY <1>3, <2>2, <2>3
  <2>7. w[i] = [w[i + 1] EXCEPT ![d + i] = w[i + 1][s + i]]
    <3> HIDE DEF w
    <3> QED BY <1>2, <2>2, <2>3
  <2>8. after[i] = w[i] BY <2>5, <2>6, <2>7
  <2> QED BY <2>1, <2>8 DEF i
<1>5. CopyDown(m, d, s, n) = after[0] BY DEF CopyDown, after
<1> QED BY <1>4, <1>5

\* memmove takes, for every pair of ranges, a direction in which the loop is
\* safe.
LEMMA MemmoveMoves ==
  ASSUME NEW m \in Memories, NEW d \in Address, NEW s \in Address, NEW n \in Nat,
         d + n <= MemSize, s + n <= MemSize
  PROVE  memmove(m, d, s, n) = Moved(m, d, s, 0, n)
<1>1. CASE d = s \/ n = 0
  <2>1. Moved(m, d, s, 0, n) \in Memories BY MovedType
  <2>2. \A a \in Address : Moved(m, d, s, 0, n)[a] = m[a]
    BY <1>1, StringsAssumption DEF Moved, Address
  <2>3. Moved(m, d, s, 0, n) = m BY <2>1, <2>2 DEF Memories
  <2> QED BY <1>1, <2>3 DEF memmove
<1>2. CASE ~ (d = s \/ n = 0) /\ (d < s \/ d >= s + n)
  <2>1. d <= s \/ d >= s + n BY <1>2, StringsAssumption DEF Address
  <2>2. CopyUp(m, d, s, n) = Moved(m, d, s, 0, n) BY <2>1, CopyUpMoves
  <2> QED BY <1>2, <2>2 DEF memmove
<1>3. CASE ~ (d = s \/ n = 0) /\ ~ (d < s \/ d >= s + n)
  <2>1. d >= s BY <1>3, StringsAssumption DEF Address
  <2>2. CopyDown(m, d, s, n) = Moved(m, d, s, 0, n) BY <2>1, CopyDownMoves
  <2> QED BY <1>3, <2>2 DEF memmove
<1> QED BY <1>1, <1>2, <1>3

-----------------------------------------------------------------------------
(* Strings. *)

\* The length of a string is that of the bytes in front of its first zero.
LEMMA StrlenIs ==
  ASSUME NEW m \in Memories, NEW s, IsString(m, s)
  PROVE  /\ strlen(m, s) \in Nat /\ s + strlen(m, s) \in Address
         /\ m[s + strlen(m, s)] = 0
         /\ \A k \in 0 .. strlen(m, s) - 1 : m[s + k] # 0
<1> DEFINE Ends == {k \in 0 .. MemSize - 1 - s : m[s + k] = 0}
           Is(n) == n \in 0 .. MemSize /\ m[s + n] = 0 /\ \A k \in 0 .. n - 1 : m[s + k] # 0
<1>1. s \in Address /\ s \in Nat BY DEF IsString, Address
<1>2. Ends \subseteq Nat /\ Ends # {}
  <2>1. PICK e \in s .. MemSize - 1 : m[e] = 0 BY DEF IsString
  <2>2. e - s \in 0 .. MemSize - 1 - s /\ s + (e - s) = e BY <1>1, <2>1, StringsAssumption
  <2> QED BY <2>1, <2>2
<1>3. PICK x \in Ends : \A y \in Ends : x <= y
  <2> HIDE DEF Ends
  <2> QED BY <1>2, Least
<1>4. x \in 0 .. MemSize /\ x <= MemSize - 1 - s BY <1>1, <1>3, StringsAssumption
<1>5. ASSUME NEW k \in 0 .. x - 1 PROVE m[s + k] # 0
  <2>1. k \in 0 .. MemSize - 1 - s /\ ~ (x <= k) BY <1>1, <1>4, StringsAssumption
  <2> QED BY <1>3, <2>1
<1>6. Is(x) BY <1>3, <1>4, <1>5
<1>7. strlen(m, s) = CHOOSE n \in 0 .. MemSize : m[s + n] = 0 /\ \A k \in 0 .. n - 1 : m[s + k] # 0
  BY DEF strlen
<1>8. Is(strlen(m, s)) BY <1>6, <1>7
<1> HIDE DEF Ends
<1> DEFINE len == strlen(m, s)
<1>9. len \in Nat /\ m[s + len] = 0 /\ \A k \in 0 .. len - 1 : m[s + k] # 0 BY <1>8
<1> HIDE DEF len
<1>10. len <= x
  <2>1. CASE x < len
    <3>1. x \in 0 .. len - 1 BY <1>4, <1>9, <2>1
    <3> QED BY <1>6, <1>9, <3>1
  <2> QED BY <1>4, <1>9, <2>1
<1>11. s + len \in Address BY <1>1, <1>4, <1>9, <1>10, StringsAssumption DEF Address
<1> QED BY <1>9, <1>11 DEF len

\* strncpy writes n bytes: the string as far as it goes, then zeros.
LEMMA StrncpyPads ==
  ASSUME NEW m \in Memories, NEW d \in Address, NEW s, NEW n \in Nat,
         IsString(m, s), d + n <= MemSize, Disjoint(d, s, n)
  PROVE  strncpy(m, d, s, n) =
           [a \in Address |->
              IF a \notin d .. d + n - 1 THEN m[a]
              ELSE IF \E e \in s .. s + a - d : m[e] = 0 THEN 0
              ELSE m[s + a - d]]
<1> DEFINE l == strlen(m, s)
           len == IF l < n THEN l ELSE n
<1>1. /\ l \in Nat /\ s + l \in Address /\ m[s + l] = 0
      /\ \A k \in 0 .. l - 1 : m[s + k] # 0
  BY StrlenIs
<1>2. s \in Address BY DEF IsString
<1> HIDE DEF l
<1>3. len \in Nat /\ len <= n /\ len <= l BY <1>1
<1>4. CopyUp(m, d, s, len) = Moved(m, d, s, 0, len)
  <2> HIDE DEF len
  <2>1. d + len <= MemSize /\ s + len <= MemSize /\ (d <= s \/ d >= s + len)
    BY <1>1, <1>2, <1>3, StringsAssumption DEF Disjoint, Address
  <2> QED BY <1>2, <1>3, <2>1, CopyUpMoves
<1>5. strncpy(m, d, s, n) = memset(Moved(m, d, s, 0, len), d + len, 0, n - len)
  BY <1>4 DEF strncpy, l
<1>6. strncpy(m, d, s, n) =
        [a \in Address |-> IF a \in d + len .. d + len + (n - len) - 1 THEN 0
                           ELSE IF a \in d + 0 .. d + len - 1 THEN m[s + a - d] ELSE m[a]]
  <2> HIDE DEF len
  <2> QED BY <1>5 DEF memset, Moved
<1>7. ASSUME NEW a \in Address
      PROVE  (IF a \in d + len .. d + len + (n - len) - 1 THEN 0
                ELSE IF a \in d + 0 .. d + len - 1 THEN m[s + a - d] ELSE m[a])
             = IF a \notin d .. d + n - 1 THEN m[a]
               ELSE IF \E e \in s .. s + a - d : m[e] = 0 THEN 0
               ELSE m[s + a - d]
  <2>1. CASE a \notin d .. d + n - 1
    BY <1>3, <2>1, StringsAssumption DEF Address
  <2>2. CASE a \in d .. d + len - 1
    <3>1. ASSUME NEW e \in s .. s + a - d PROVE m[e] # 0
      <4>1. e - s \in 0 .. l - 1 /\ s + (e - s) = e
        BY <1>1, <1>2, <1>3, <2>2, StringsAssumption DEF Address
      <4> QED BY <1>1, <4>1
    <3> QED BY <1>3, <2>2, <3>1, StringsAssumption DEF Address
  <2>3. CASE a \in d + len .. d + n - 1
    <3>1. len = l BY <1>1, <1>3, <2>3, StringsAssumption DEF Address
    <3>2. s + l \in s .. s + a - d BY <1>1, <1>2, <2>3, <3>1, StringsAssumption DEF Address
    <3>3. \E e \in s .. s + a - d : m[e] = 0 BY <1>1, <3>2
    <3> QED BY <1>3, <2>3, <3>3, StringsAssumption DEF Address
  <2> QED BY <1>3, <2>1, <2>2, <2>3, StringsAssumption DEF Address
<1> HIDE DEF len
<1> QED BY <1>6, <1>7

\* The first place at which two strings differ, or stop, is the only one that
\* the definition may mean.
LEMMA CommonIs ==
  ASSUME NEW m, NEW p, NEW q, NEW n \in Nat, NEW stops
  PROVE  LET k == Common(m, p, q, n, stops)
         IN  /\ k \in 0 .. n
             /\ k = n \/ m[p + k] # m[q + k] \/ m[p + k] \in stops
             /\ \A j \in 0 .. k - 1 : m[p + j] = m[q + j] /\ m[p + j] \notin stops
<1> DEFINE Halts == {k \in 0 .. n : k = n \/ m[p + k] # m[q + k] \/ m[p + k] \in stops}
           Is(k) == /\ k = n \/ m[p + k] # m[q + k] \/ m[p + k] \in stops
                    /\ \A j \in 0 .. k - 1 : m[p + j] = m[q + j] /\ m[p + j] \notin stops
<1>1. PICK x \in Halts : \A y \in Halts : x <= y
  <2>1. n \in Halts OBVIOUS
  <2>2. Halts \subseteq Nat OBVIOUS
  <2> HIDE DEF Halts
  <2> QED BY <2>1, <2>2, Least
<1>2. x \in 0 .. n BY <1>1
<1>3. ASSUME NEW j \in 0 .. x - 1 PROVE m[p + j] = m[q + j] /\ m[p + j] \notin stops
  <2>1. j \in 0 .. n /\ ~ (x <= j) BY <1>2
  <2> QED BY <1>1, <2>1
<1>4. Is(x) BY <1>1, <1>3
<1>5. Common(m, p, q, n, stops) = CHOOSE k \in 0 .. n : Is(k) BY DEF Common
<1> HIDE DEF Is
<1>6. Common(m, p, q, n, stops) \in 0 .. n /\ Is(Common(m, p, q, n, stops))
  BY <1>2, <1>4, <1>5
<1> QED BY <1>6 DEF Is

\* The first of the hits in a string, if it has one.
LEMMA FirstInIs ==
  ASSUME NEW m \in Memories, NEW s, NEW hits, IsString(m, s)
  PROVE  LET found == hits \cap Within(m, s)
             r == FirstIn(m, s, hits)
         IN  IF found = {} THEN r = NULL
             ELSE r \in found /\ r # NULL /\ \A b \in found : r <= b
<1> DEFINE found == hits \cap Within(m, s)
           r == FirstIn(m, s, hits)
<1>1. found \subseteq Nat
  BY StrlenIs, StringsAssumption DEF IsString, Address, Within
<1>2. CASE found = {} BY <1>2 DEF FirstIn
<1>3. CASE found # {}
  <2>1. r = CHOOSE a \in found : \A b \in found : a <= b BY <1>3 DEF FirstIn
  <2> HIDE DEF found, r
  <2>2. \E a \in found : \A b \in found : a <= b BY <1>1, <1>3, Least
  <2>3. r \in found /\ \A b \in found : r <= b BY <2>1, <2>2
  <2>4. r # NULL BY <1>1, <2>3 DEF NULL
  <2> QED BY <1>3, <2>3, <2>4 DEF found, r
<1> QED BY <1>2, <1>3

\* The needle lies at a: in the haystack or at its end.
LEMMA Matches ==
  ASSUME NEW m \in Memories, NEW h, NEW n, IsString(m, h), IsString(m, n),
         NEW a \in h .. h + strlen(m, h)
  PROVE  LET l == strlen(m, n)
             Same == \A j \in 0 .. l - 1 : m[a + j] = m[n + j]
         IN  /\ strncmp(m, a, n, l) = 0 <=> Same
             /\ m[n + Common(m, a, n, MemSize, End)] = 0 <=> Same
<1> DEFINE l == strlen(m, n)
           e == h + strlen(m, h)
           Same == \A j \in 0 .. l - 1 : m[a + j] = m[n + j]
<1>1. /\ l \in Nat /\ n + l \in Address /\ m[n + l] = 0
      /\ \A k \in 0 .. l - 1 : m[n + k] # 0
  BY StrlenIs
<1>2. e \in Address /\ m[e] = 0 BY StrlenIs
<1>3. n \in Address /\ h \in Address BY DEF IsString
<1>4. a \in h .. e OBVIOUS
<1> HIDE DEF l, e
<1>5. strncmp(m, a, n, l) = 0 <=> Same
  <2> DEFINE k == Common(m, a, n, l, End)
  <2>1. /\ k \in 0 .. l
        /\ k = l \/ m[a + k] # m[n + k] \/ m[a + k] \in End
        /\ \A j \in 0 .. k - 1 : m[a + j] = m[n + j] /\ m[a + j] \notin End
    BY <1>1, CommonIs
  <2>2. strncmp(m, a, n, l) = IF k = l THEN 0 ELSE m[a + k] - m[n + k] BY DEF strncmp
  <2> HIDE DEF k
  <2>3. CASE k = l BY <2>1, <2>2, <2>3
  <2>4. CASE k # l
    <3>1. k \in 0 .. l - 1 BY <1>1, <2>1, <2>4
    <3>2. m[n + k] # 0 BY <1>1, <3>1
    <3>3. m[a + k] # m[n + k] BY <2>1, <2>4, <3>2 DEF End
    <3>4. a + k <= e
      <4>1. CASE e < a + k
        <5>1. e - a \in 0 .. k - 1 /\ a + (e - a) = e
          BY <1>2, <1>3, <1>4, <2>1, <4>1, StringsAssumption DEF Address
        <5>2. m[e] \notin End BY <2>1, <5>1
        <5> QED BY <1>2, <5>2 DEF End
      <4> QED BY <1>2, <1>3, <1>4, <3>1, <4>1, StringsAssumption DEF Address
    <3>5. a + k \in Address /\ n + k \in Address
      BY <1>1, <1>2, <1>3, <1>4, <3>1, <3>4, StringsAssumption DEF Address
    <3>6. m[a + k] \in Nat /\ m[n + k] \in Nat BY <3>5 DEF Memories
    <3>7. m[a + k] - m[n + k] # 0 BY <3>3, <3>6
    <3> QED BY <2>2, <2>4, <3>1, <3>3, <3>7
  <2> QED BY <2>3, <2>4
<1>6. m[n + Common(m, a, n, MemSize, End)] = 0 <=> Same
  <2> DEFINE k == Common(m, a, n, MemSize, End)
  <2>1. /\ k \in 0 .. MemSize
        /\ k = MemSize \/ m[a + k] # m[n + k] \/ m[a + k] \in End
        /\ \A j \in 0 .. k - 1 : m[a + j] = m[n + j] /\ m[a + j] \notin End
    BY CommonIs, StringsAssumption
  <2> HIDE DEF k
  <2>2. l < MemSize BY <1>1, <1>3, StringsAssumption DEF Address
  <2>3. ASSUME m[n + k] = 0 PROVE Same
    <3>1. ~ (k \in 0 .. l - 1) BY <1>1, <2>3
    <3>2. 0 .. l - 1 \subseteq 0 .. k - 1 BY <1>1, <2>1, <3>1, StringsAssumption
    <3> QED BY <2>1, <3>2
  <2>4. ASSUME Same PROVE m[n + k] = 0
    <3>1. CASE k < l
      <4>1. k \in 0 .. l - 1 BY <1>1, <2>1, <3>1, StringsAssumption
      <4>2. m[a + k] = m[n + k] /\ m[n + k] # 0 BY <1>1, <2>4, <4>1
      <4>3. k # MemSize BY <2>2, <3>1, <1>1, StringsAssumption
      <4> QED BY <2>1, <4>2, <4>3 DEF End
    <3>2. CASE l < k
      <4>1. l \in 0 .. k - 1 BY <1>1, <2>1, <3>2, StringsAssumption
      <4> QED BY <1>1, <2>1, <4>1 DEF End
    <3>3. CASE k = l BY <1>1, <3>3
    <3> QED BY <1>1, <2>1, <3>1, <3>2, <3>3, StringsAssumption
  <2> HIDE DEF Same
  <2> QED BY <2>3, <2>4 DEF k
<1> QED BY <1>5, <1>6 DEF l

\* strstr finds the first place at which strncmp sees no difference between the
\* needle and the haystack, and the null pointer if there is none.
LEMMA StrstrFinds ==
  ASSUME NEW m \in Memories, NEW h, NEW n, IsString(m, h), IsString(m, n)
  PROVE  LET At(a) == strncmp(m, a, n, strlen(m, n)) = 0
             r == strstr(m, h, n)
         IN  IF r = NULL THEN \A a \in h .. h + strlen(m, h) : ~ At(a)
             ELSE At(r) /\ \A a \in h .. r - 1 : ~ At(a)
<1> DEFINE l == strlen(m, n)
           e == h + strlen(m, h)
           r == strstr(m, h, n)
           Same(a) == \A j \in 0 .. l - 1 : m[a + j] = m[n + j]
           At(a) == strncmp(m, a, n, l) = 0
           hits == {a \in Within(m, h) : m[n + Common(m, a, n, MemSize, End)] = 0}
<1>1. /\ l \in Nat /\ n + l \in Address /\ m[n + l] = 0
      /\ \A k \in 0 .. l - 1 : m[n + k] # 0
  BY StrlenIs
<1>2. e \in Address /\ m[e] = 0 /\ strlen(m, h) \in Nat BY StrlenIs
<1>3. n \in Address /\ h \in Address BY DEF IsString
<1>4. \A a \in h .. e : /\ At(a) <=> Same(a)
                        /\ m[n + Common(m, a, n, MemSize, End)] = 0 <=> Same(a)
  BY Matches
<1>5. Within(m, h) = h .. e - 1
  BY <1>2, <1>3, StringsAssumption DEF Within, Address
<1>6. h .. e - 1 \subseteq h .. e /\ h \in h .. e
  BY <1>2, <1>3, StringsAssumption DEF Address
<1>7. hits = {a \in h .. e - 1 : At(a)} BY <1>4, <1>5, <1>6
<1>8. h # NULL BY <1>3, StringsAssumption DEF NULL, Address
<1>9. CASE m[n] = 0
  <2>1. r = h BY <1>9 DEF strstr
  <2>2. l = 0
    <3>1. CASE l > 0
      <4>1. 0 \in 0 .. l - 1 /\ n + 0 = n
        BY <1>1, <1>3, <3>1, StringsAssumption DEF Address
      <4> QED BY <1>1, <1>9, <4>1
    <3> QED BY <1>1, <3>1
  <2>3. At(h) BY <1>4, <1>6, <2>2
  <2>4. h .. r - 1 = {} BY <1>3, <2>1, StringsAssumption DEF Address
  <2> HIDE DEF r, At, e, l
  <2>5. r # NULL /\ At(r) BY <1>8, <2>1, <2>3
  <2>6. \A a \in h .. r - 1 : ~ At(a) BY <2>4
  <2> QED BY <2>5, <2>6 DEF r, At, e, l
<1>10. CASE m[n] # 0
  <2> DEFINE found == hits \cap Within(m, h)
  <2>1. r = FirstIn(m, h, hits) BY <1>10 DEF strstr
  <2>2. found = {a \in h .. e - 1 : At(a)} BY <1>5, <1>7
  <2>3. IF found = {} THEN r = NULL ELSE r \in found /\ r # NULL /\ \A b \in found : r <= b
    BY <2>1, FirstInIs
  <2>4. ~ At(e)
    <3>1. l # 0 BY <1>1, <1>3, <1>10, StringsAssumption DEF Address
    <3>2. 0 \in 0 .. l - 1 /\ e + 0 = e /\ n + 0 = n
      BY <1>1, <1>2, <1>3, <3>1, StringsAssumption DEF Address
    <3>3. e \in h .. e BY <1>2, <1>3, StringsAssumption DEF Address
    <3>4. ~ Same(e) BY <1>2, <1>10, <3>2
    <3> QED BY <1>4, <3>3, <3>4
  <2> HIDE DEF hits, found, At, r, l
  <2>5. CASE found = {}
    <3>1. r = NULL BY <2>3, <2>5
    <3>2. ASSUME NEW a \in h .. e PROVE ~ At(a)
      <4>1. a \in h .. e - 1 \/ a = e BY <1>2, <1>3, StringsAssumption DEF Address
      <4> QED BY <2>2, <2>4, <2>5, <4>1
    <3> QED BY <3>1, <3>2 DEF At, l, r
  <2>6. CASE found # {}
    <3>1. r \in h .. e - 1 /\ At(r) /\ r # NULL /\ \A b \in found : r <= b
      BY <2>2, <2>3, <2>6
    <3>2. ASSUME NEW a \in h .. r - 1 PROVE ~ At(a)
      <4>1. a \in h .. e - 1 /\ ~ (r <= a)
        BY <1>2, <1>3, <3>1, StringsAssumption DEF Address
      <4> QED BY <2>2, <3>1, <4>1
    <3> QED BY <3>1, <3>2 DEF At, l, r
  <2> QED BY <2>5, <2>6
<1> QED BY <1>9, <1>10

-----------------------------------------------------------------------------
(* strtok. *)

\* The length of a string is the only number with a zero there and none before.
LEMMA StrlenUnique ==
  ASSUME NEW m \in Memories, NEW s, NEW e, IsString(m, s), e \in s .. MemSize - 1,
         m[e] = 0, \A a \in s .. e - 1 : m[a] # 0
  PROVE  s + strlen(m, s) = e
<1> DEFINE l == strlen(m, s)
<1>1. /\ l \in Nat /\ s + l \in Address /\ m[s + l] = 0
      /\ \A k \in 0 .. l - 1 : m[s + k] # 0
  BY StrlenIs
<1>2. s \in Address BY DEF IsString
<1> HIDE DEF l
<1>3. CASE s + l < e
  <2>1. s + l \in s .. e - 1 BY <1>1, <1>2, <1>3, StringsAssumption DEF Address
  <2> QED BY <1>1, <2>1
<1>4. CASE e < s + l
  <2>1. e - s \in 0 .. l - 1 /\ s + (e - s) = e
    BY <1>1, <1>2, <1>4, StringsAssumption DEF Address
  <2> QED BY <1>1, <2>1
<1>5. s + l = e BY <1>1, <1>2, <1>3, <1>4, StringsAssumption DEF Address
<1> QED BY <1>5 DEF l

\* A text has an end, and no zero before it.
LEMMA EndIs ==
  ASSUME NEW t, t.mem \in Memories, IsString(t.mem, t.base)
  PROVE  /\ EndOfText(t) \in t.base .. MemSize - 1
         /\ t.mem[EndOfText(t)] = 0
         /\ \A a \in t.base .. EndOfText(t) - 1 : t.mem[a] # 0
<1> DEFINE l == strlen(t.mem, t.base)
           Is(e) == t.mem[e] = 0 /\ \A a \in t.base .. e - 1 : t.mem[a] # 0
<1>1. /\ l \in Nat /\ t.base + l \in Address /\ t.mem[t.base + l] = 0
      /\ \A k \in 0 .. l - 1 : t.mem[t.base + k] # 0
  BY StrlenIs
<1>2. t.base \in Address BY DEF IsString
<1> HIDE DEF l
<1>3. t.base + l \in t.base .. MemSize - 1 BY <1>1, <1>2, StringsAssumption DEF Address
<1> DEFINE x == t.base + l
<1>4. ASSUME NEW a \in t.base .. x - 1 PROVE t.mem[a] # 0
  <2>1. a - t.base \in 0 .. l - 1 /\ t.base + (a - t.base) = a
    BY <1>1, <1>2, StringsAssumption DEF Address
  <2> QED BY <1>1, <2>1
<1>5. t.mem[x] = 0 BY <1>1
<1> HIDE DEF x
<1>6. Is(x) BY <1>4, <1>5
<1>7. EndOfText(t) = CHOOSE e \in t.base .. MemSize - 1 : Is(e) BY DEF EndOfText
<1> HIDE DEF Is
<1>8. EndOfText(t) \in t.base .. MemSize - 1 /\ Is(EndOfText(t)) BY <1>3, <1>6, <1>7 DEF x
<1> QED BY <1>8 DEF Is

\* The bytes strtok takes for delimiters are those of the string of delimiters.
LEMMA DelimsAre ==
  ASSUME mem \in Memories, NEW delim, IsString(mem, delim), NEW a \in Address
  PROVE  strchr(mem, delim, mem[a]) # NULL <=> mem[a] \in DelimsAt(delim)
<1> DEFINE l == strlen(mem, delim)
           hits == {b \in Address : mem[b] = mem[a]}
           before == {b \in delim .. MemSize - 1 : \A e \in delim .. b : mem[e] # 0}
<1>1. /\ l \in Nat /\ delim + l \in Address /\ mem[delim + l] = 0
      /\ \A k \in 0 .. l - 1 : mem[delim + k] # 0
  BY StrlenIs
<1>2. delim \in Address BY DEF IsString
<1>3. Within(mem, delim) = delim .. delim + l - 1 BY DEF Within
<1> HIDE DEF l
<1>4. ASSUME NEW b \in delim .. delim + l - 1 PROVE b \in before /\ b \in Address
  <2>1. b \in delim .. MemSize - 1 /\ b \in Address
    BY <1>1, <1>2, StringsAssumption DEF Address
  <2>2. ASSUME NEW e \in delim .. b PROVE mem[e] # 0
    <3>1. e - delim \in 0 .. l - 1 /\ delim + (e - delim) = e
      BY <1>1, <1>2, StringsAssumption DEF Address
    <3> QED BY <1>1, <3>1
  <2> QED BY <2>1, <2>2
<1>5. ASSUME NEW b \in before PROVE b \in delim .. delim + l - 1
  <2>1. b \in delim .. MemSize - 1 /\ \A e \in delim .. b : mem[e] # 0 OBVIOUS
  <2>2. CASE b >= delim + l
    <3>1. delim + l \in delim .. b BY <1>1, <1>2, <2>1, <2>2, StringsAssumption DEF Address
    <3> QED BY <1>1, <2>1, <3>1
  <2> QED BY <1>1, <1>2, <2>1, <2>2, StringsAssumption DEF Address
<1>6. DelimsAt(delim) = {mem[b] : b \in before} BY DEF DelimsAt
<1>7. hits \cap Within(mem, delim) # {} <=> strchr(mem, delim, mem[a]) # NULL
  BY FirstInIs DEF strchr
<1> HIDE DEF before
<1> QED BY <1>3, <1>4, <1>5, <1>6, <1>7

(***************************************************************************)
(* What is known of a text while strtok cuts it: from "at" on the memory   *)
(* still holds the text, and the next token is looked for there, or the    *)
(* text is at its end and the static variable is null.                     *)
(***************************************************************************)
\* The texts strtok is given, and how far they have been cut.
Texts == [base : Address, mem : Memories, at : Address]
Follows(t, m, from) ==
  /\ t \in Texts /\ IsString(t.mem, t.base)
  /\ t.at \in t.base .. EndOfText(t)
  /\ \A a \in t.at .. EndOfText(t) : m[a] = t.mem[a]
  /\ from = t.at \/ (from = NULL /\ t.at = EndOfText(t))

\* A call of strtok that follows a text returns its next token and follows it
\* on, though it writes a zero into memory at the end of the token.
LEMMA TokenCut ==
  ASSUME mem \in Memories, NEW delim, IsString(mem, delim), NEW static, NEW str, NEW t,
         Follows(t, mem, IF str # NULL THEN str ELSE static)
  PROVE  LET r == strtok(mem, static, str, delim)
             token == TokenOf(t, DelimsAt(delim))
         IN  /\ r.ret = token.ret
             /\ r.mem \in Memories
             /\ Follows([t EXCEPT !.at = token.at], r.mem, r.next)
<1> DEFINE from == IF str # NULL THEN str ELSE static
           delims == {a \in Address : strchr(mem, delim, mem[a]) # NULL}
           ds == DelimsAt(delim)
           e == EndOfText(t)
           r == strtok(mem, static, str, delim)
           token == TokenOf(t, ds)
           body == {a \in t.at .. e - 1 : t.mem[a] \notin ds}
           Good == /\ r.ret = token.ret /\ r.mem \in Memories
                   /\ Follows([t EXCEPT !.at = token.at], r.mem, r.next)
<1> SUFFICES Good OBVIOUS
<1> HIDE DEF Good
<1>1. /\ t \in Texts /\ IsString(t.mem, t.base) /\ t.at \in t.base .. e
      /\ \A a \in t.at .. e : mem[a] = t.mem[a]
      /\ from = t.at \/ (from = NULL /\ t.at = e)
  BY DEF Follows
<1>2. t.base \in Address /\ t.mem \in Memories /\ t.at \in Address BY <1>1 DEF Texts
<1>3. /\ e \in t.base .. MemSize - 1 /\ t.mem[e] = 0
      /\ \A a \in t.base .. e - 1 : t.mem[a] # 0
  BY <1>1, <1>2, EndIs
<1>4. e \in Address BY <1>2, <1>3, StringsAssumption DEF Address
<1>5. delims = {a \in Address : mem[a] \in ds} BY DelimsAre
<1>6. ASSUME NEW now \in t.base .. e,
             \A a \in now .. e : r.mem[a] = t.mem[a],
             r.next = now \/ (r.next = NULL /\ now = e)
      PROVE  Follows([t EXCEPT !.at = now], r.mem, r.next)
  <2> DEFINE u == [t EXCEPT !.at = now]
  <2>1. now \in Address BY <1>2, <1>4, StringsAssumption DEF Address
  <2>2. u \in Texts /\ u.base = t.base /\ u.mem = t.mem /\ u.at = now
    BY <1>1, <2>1 DEF Texts
  <2>3. EndOfText(u) = e BY <2>2 DEF EndOfText
  <2> HIDE DEF u, r, e
  <2>4. Follows(u, r.mem, r.next) BY <1>1, <1>6, <2>2, <2>3 DEF Follows
  <2> QED BY <2>4 DEF u
<1>7. t.at .. e - 1 \subseteq Nat
  BY <1>2, <1>4, StringsAssumption DEF Address
<1>8. body = {} => token.ret = NULL /\ token.at = e
  BY DEF TokenOf
<1>9. CASE from = NULL
  <2>1. t.at = e BY <1>1, <1>2, <1>9, StringsAssumption DEF NULL, Address
  <2>2. body = {} BY <1>2, <1>4, <2>1, StringsAssumption DEF Address
  <2>3. r.ret = NULL /\ r.next = NULL /\ r.mem = mem BY <1>9 DEF strtok
  <2>4. e \in t.base .. e /\ \A a \in e .. e : r.mem[a] = t.mem[a]
    BY <1>1, <1>2, <1>4, <2>1, <2>3, StringsAssumption DEF Address
  <2>5. Follows([t EXCEPT !.at = e], r.mem, r.next)
    <3> HIDE DEF r, e
    <3> QED BY <1>6, <2>3, <2>4
  <2> HIDE DEF r, token, e, ds
  <2> QED BY <1>8, <2>2, <2>3, <2>5 DEF Good
<1>10. CASE from # NULL
  <2> DEFINE start == FirstIn(mem, from, Address \ delims)
  <2>1. from = t.at BY <1>1, <1>10
  <2>2. IsString(mem, from)
    <3>1. mem[e] = 0 /\ e \in from .. MemSize - 1
      BY <1>1, <1>2, <1>3, <1>4, <2>1, StringsAssumption DEF Address
    <3> QED BY <1>2, <2>1, <3>1 DEF IsString
  <2>3. from + strlen(mem, from) = e
    <3>1. e \in from .. MemSize - 1 /\ mem[e] = 0
      BY <1>1, <1>2, <1>3, <1>4, <2>1, StringsAssumption DEF Address
    <3>2. ASSUME NEW a \in from .. e - 1 PROVE mem[a] # 0
      <4>1. a \in t.at .. e /\ a \in t.base .. e - 1
        BY <1>1, <1>2, <1>4, <2>1, StringsAssumption DEF Address
      <4> QED BY <1>1, <1>3, <4>1
    <3> HIDE DEF from, e
    <3> QED BY <2>2, <3>1, <3>2, StrlenUnique
  <2>4. Within(mem, from) = t.at .. e - 1
    <3>1. strlen(mem, from) \in Nat /\ from \in Nat
      BY <1>2, <2>1, <2>2, StrlenIs DEF Address
    <3> HIDE DEF from, e
    <3> QED BY <2>1, <2>3, <3>1 DEF Within
  <2>5. (Address \ delims) \cap Within(mem, from) = body
    <3>1. ASSUME NEW a \in t.at .. e - 1
          PROVE  a \in Address /\ mem[a] = t.mem[a]
      <4>1. a \in t.at .. e /\ a \in Address
        BY <1>2, <1>4, StringsAssumption DEF Address
      <4> QED BY <1>1, <4>1
    <3> HIDE DEF delims, ds, e, from
    <3> QED BY <1>5, <2>4, <3>1
  <2>6. IF body = {} THEN start = NULL
        ELSE start \in body /\ start # NULL /\ \A b \in body : start <= b
    <3> HIDE DEF delims, body, from
    <3> QED BY <2>2, <2>5, FirstInIs
  <2>7. CASE body = {}
    <3>1. start = NULL BY <2>6, <2>7
    <3>2. r.ret = NULL /\ r.next = e /\ r.mem = mem
      BY <1>10, <2>3, <3>1 DEF strtok
    <3>3. e \in t.base .. e /\ \A a \in e .. e : r.mem[a] = t.mem[a]
      BY <1>1, <1>2, <1>4, <3>2, StringsAssumption DEF Address
    <3>4. Follows([t EXCEPT !.at = e], r.mem, r.next)
      <4> HIDE DEF r, e
      <4> QED BY <1>6, <3>2, <3>3
    <3> HIDE DEF r, token, e, ds
    <3> QED BY <1>8, <2>7, <3>2, <3>4 DEF Good
  <2>8. CASE body # {}
    <3> DEFINE first == CHOOSE a \in body : \A b \in body : a <= b
               stops == {a \in first .. e : a = e \/ t.mem[a] \in ds}
               stop == CHOOSE a \in stops : \A b \in stops : a <= b
               end == FirstIn(mem, start, delims)
               cuts == {a \in start .. e - 1 : t.mem[a] \in ds}
    <3>1. start \in body /\ start # NULL /\ \A b \in body : start <= b BY <2>6, <2>8
    <3>2. body \subseteq Nat BY <1>7
    <3>3. first = start
      <4> HIDE DEF body, start
      <4>1. first \in body /\ \A b \in body : first <= b BY <3>1
      <4>2. first <= start /\ start <= first BY <3>1, <4>1
      <4>3. first \in Nat /\ start \in Nat BY <3>1, <3>2, <4>1
      <4> HIDE DEF first
      <4> QED BY <4>2, <4>3
    <3>4. token.ret = first /\ token.at = IF stop = e THEN stop ELSE stop + 1
      BY <2>8 DEF TokenOf
    <3>5. start \in t.at .. e - 1 BY <3>1
    <3>6. r.ret = start /\ r.next = (IF end = NULL THEN NULL ELSE end + 1)
          /\ r.mem = (IF end = NULL THEN mem ELSE [mem EXCEPT ![end] = 0])
      BY <1>10, <3>1 DEF strtok, Cut
    <3> HIDE DEF r, token, body, first, from
    <3>7. start \in Nat /\ e \in Nat /\ start < e /\ start \in Address
      BY <1>2, <1>4, <3>5, StringsAssumption DEF Address
    <3> HIDE DEF start
    <3>8. mem[e] = 0 /\ e \in start .. MemSize - 1
      BY <1>1, <1>2, <1>3, <1>4, <3>7, StringsAssumption DEF Address
    <3>9. IsString(mem, start) BY <3>7, <3>8 DEF IsString
    <3>10. start + strlen(mem, start) = e
      <4>1. ASSUME NEW a \in start .. e - 1 PROVE mem[a] # 0
        <5>1. a \in t.at .. e /\ a \in t.base .. e - 1
          BY <1>1, <1>2, <1>4, <3>5, <3>7, StringsAssumption DEF Address
        <5> QED BY <1>1, <1>3, <5>1
      <4> HIDE DEF e
      <4> QED BY <3>8, <3>9, <4>1, StrlenUnique
    <3>11. delims \cap Within(mem, start) = cuts
      <4>1. Within(mem, start) = start .. e - 1
        <5>1. strlen(mem, start) \in Nat BY <3>9, StrlenIs
        <5> HIDE DEF e
        <5> QED BY <3>7, <3>10, <5>1 DEF Within
      <4>2. ASSUME NEW a \in start .. e - 1
            PROVE  a \in Address /\ mem[a] = t.mem[a]
        <5>1. a \in t.at .. e /\ a \in Address
          BY <1>2, <1>4, <3>5, <3>7, StringsAssumption DEF Address
        <5> QED BY <1>1, <5>1
      <4> HIDE DEF delims, ds, e
      <4> QED BY <1>5, <4>1, <4>2
    <3>12. IF cuts = {} THEN end = NULL
           ELSE end \in cuts /\ end # NULL /\ \A b \in cuts : end <= b
      <4> HIDE DEF delims, cuts
      <4> QED BY <3>9, <3>11, FirstInIs
    <3> HIDE DEF end
    <3>13. stop \in stops /\ \A b \in stops : stop <= b
      <4>1. e \in stops /\ stops \subseteq Nat BY <3>3, <3>7
      <4> HIDE DEF stops
      <4> QED BY <4>1, Least
    <3> HIDE DEF stop
    <3>14. stop = (IF cuts = {} THEN e ELSE end)
      <4>1. stops = cuts \cup {e}
        BY <1>2, <1>4, <3>3, <3>7, StringsAssumption DEF Address
      <4>2. cuts \subseteq 0 .. e - 1 BY <3>7
      <4> HIDE DEF stops, cuts, e
      <4>3. CASE cuts = {} BY <3>13, <4>1, <4>3
      <4>4. CASE cuts # {}
        <5>1. end \in 0 .. e - 1 /\ end \in stops BY <3>12, <4>1, <4>2, <4>4
        <5>2. stop <= end /\ stop \in Nat BY <3>7, <3>13, <4>1, <4>2, <5>1
        <5>3. stop \in cuts BY <3>7, <3>13, <4>1, <5>1, <5>2
        <5> QED BY <3>12, <4>4, <5>1, <5>2, <5>3
      <4> QED BY <4>3, <4>4
    <3>15. CASE cuts = {}
      <4>1. r.next = NULL /\ r.mem = mem /\ token.at = e
        BY <3>4, <3>6, <3>12, <3>14, <3>15
      <4>2. e \in t.base .. e /\ \A a \in e .. e : r.mem[a] = t.mem[a]
        BY <1>1, <1>2, <1>4, <3>5, <4>1, StringsAssumption DEF Address
      <4>3. Follows([t EXCEPT !.at = e], r.mem, r.next)
        <5> HIDE DEF e
        <5> QED BY <1>6, <4>1, <4>2
      <4> HIDE DEF e
      <4> QED BY <3>3, <3>4, <3>6, <4>1, <4>3 DEF Good
    <3>16. CASE cuts # {}
      <4>1. end \in start .. e - 1 /\ end # NULL BY <3>12, <3>16
      <4>2. stop = end /\ stop # e BY <3>7, <3>14, <3>16, <4>1
      <4>3. r.next = end + 1 /\ r.mem = [mem EXCEPT ![end] = 0] /\ token.at = end + 1
        BY <3>4, <3>6, <4>1, <4>2
      <4>4. end + 1 \in t.base .. e
        BY <1>1, <1>2, <1>4, <3>5, <3>7, <4>1, StringsAssumption DEF Address
      <4>5. ASSUME NEW a \in end + 1 .. e PROVE r.mem[a] = t.mem[a]
        <5>1. a \in t.at .. e /\ a # end /\ a \in Address
          BY <1>2, <1>4, <3>5, <3>7, <4>1, StringsAssumption DEF Address
        <5> QED BY <1>1, <4>3, <5>1 DEF Memories
      <4>6. Follows([t EXCEPT !.at = end + 1], r.mem, r.next)
        <5> HIDE DEF e
        <5> QED BY <1>6, <4>3, <4>4, <4>5
      <4>7. r.mem \in Memories
        <5> HIDE DEF e, r
        <5>1. [mem EXCEPT ![end] = 0] \in Memories BY DEF Memories
        <5> QED BY <4>3, <5>1
      <4> HIDE DEF e
      <4> QED BY <3>3, <3>4, <3>6, <4>3, <4>6, <4>7 DEF Good
    <3> QED BY <3>15, <3>16
  <2> QED BY <2>7, <2>8
<1> QED BY <1>9, <1>10

-----------------------------------------------------------------------------
(* The invariant. *)

\* A call has been begun and not yet run.
Called == call # Idle /\ call # Done
\* What is called is sound, and the static variable of strtok follows the text
\* whose tokens have been asked for last.
LibcInv ==
  /\ client \in Clients /\ mem \in Memories
  /\ Called => call \in client.calls /\ Sound(call)
  /\ text.base # NULL => Follows(text, mem, next)

\* Every routine that writes leaves a memory.
LEMMA WriteType ==
  ASSUME LibcInv, Write
  PROVE  mem' \in Memories
<1> DEFINE d == call[2]  s == call[3]  n == call[4]
<1>1. call[1] \in {"memmove", "memcpy", "memset", "strcpy", "strncpy"} BY DEF Write, Routine
<1>2. Called BY <1>1 DEF Called, Idle, Done
<1>3. mem \in Memories /\ Sound(call) /\ InMemory(call)
  BY <1>2, LibcAssumption DEF LibcInv
<1>4. CASE call[1] = "memmove"
  <2>1. mem' = memmove(mem, d, s, n) BY <1>4 DEF Write
  <2>2. d \in Address /\ s \in Address /\ n \in Nat /\ d + n <= MemSize /\ s + n <= MemSize
    BY <1>3, <1>4 DEF InMemory
  <2> HIDE DEF d, s, n
  <2> QED BY <1>3, <2>1, <2>2, MemmoveMoves, MovedType
<1>5. CASE call[1] = "memcpy"
  <2>1. mem' = CopyUp(mem, d, s, n) BY <1>5 DEF Write, memcpy
  <2>2. d \in Address /\ s \in Address /\ n \in Nat /\ d + n <= MemSize /\ s + n <= MemSize
    BY <1>3, <1>5 DEF InMemory
  <2>3. d + n <= s \/ s + n <= d BY <1>3, <1>5 DEF Sound, Disjoint
  <2> HIDE DEF d, s, n
  <2>4. d <= s \/ d >= s + n BY <2>2, <2>3, StringsAssumption DEF Address
  <2> QED BY <1>3, <2>1, <2>2, <2>4, CopyUpMoves, MovedType
<1>6. CASE call[1] = "memset"
  <2>1. mem' = memset(mem, d, s, n) BY <1>6 DEF Write
  <2>2. s \in Nat BY <1>3, <1>6 DEF InMemory
  <2> HIDE DEF d, s, n
  <2> QED BY <1>3, <2>1, <2>2 DEF memset, Memories
<1>7. CASE call[1] = "strcpy"
  <2> DEFINE l == strlen(mem, s) + 1
  <2>1. mem' = CopyUp(mem, d, s, l) BY <1>7 DEF Write, strcpy
  <2>2. d \in Address /\ s \in Address BY <1>3, <1>7 DEF InMemory
  <2>3. IsString(mem, s) /\ d + l <= MemSize /\ (d + l <= s \/ s + l <= d)
    BY <1>3, <1>7 DEF Sound, Disjoint
  <2>4. l \in Nat /\ s + l <= MemSize
    <3>1. strlen(mem, s) \in Nat /\ s + strlen(mem, s) \in Address
      BY <1>3, <2>3, StrlenIs
    <3> QED BY <2>2, <3>1, StringsAssumption DEF Address
  <2> HIDE DEF d, s, l
  <2>5. d <= s \/ d >= s + l BY <2>2, <2>3, <2>4, StringsAssumption DEF Address
  <2> QED BY <1>3, <2>1, <2>2, <2>3, <2>4, <2>5, CopyUpMoves, MovedType
<1>8. CASE call[1] = "strncpy"
  <2>1. mem' = strncpy(mem, d, s, n) BY <1>8 DEF Write
  <2>2. d \in Address /\ n \in Nat /\ d + n <= MemSize BY <1>3, <1>8 DEF InMemory
  <2>3. IsString(mem, s) /\ Disjoint(d, s, n) BY <1>3, <1>8 DEF Sound
  <2> HIDE DEF d, s, n
  <2>4. ASSUME NEW a \in Address, a \in d .. d + n - 1, ~ (\E e \in s .. s + a - d : mem[e] = 0)
        PROVE  mem[s + a - d] \in Nat
    <3> DEFINE l == strlen(mem, s)
    <3>1. l \in Nat /\ s + l \in Address /\ mem[s + l] = 0 /\ s \in Address
      BY <1>3, <2>3, StrlenIs DEF IsString
    <3> HIDE DEF l
    <3>2. ~ (s + l \in s .. s + a - d) BY <2>4, <3>1
    <3>3. s + a - d \in Address BY <2>2, <2>4, <3>1, <3>2, StringsAssumption DEF Address
    <3> QED BY <1>3, <3>3 DEF Memories
  <2>5. mem' = [a \in Address |->
              IF a \notin d .. d + n - 1 THEN mem[a]
              ELSE IF \E e \in s .. s + a - d : mem[e] = 0 THEN 0
              ELSE mem[s + a - d]]
    BY <1>3, <2>1, <2>2, <2>3, StrncpyPads
  <2> QED BY <1>3, <2>4, <2>5 DEF Memories
<1> QED BY <1>1, <1>4, <1>5, <1>6, <1>7, <1>8

\* What Tokenize does to the text it is asked for.
LEMMA TokenizeFollows ==
  ASSUME LibcInv, Tokenize
  PROVE  /\ mem' \in Memories
         /\ Asked.base # NULL =>
              /\ ret' = TokenOf(Asked, DelimsAt(call[3])).ret
              /\ Follows(text', mem', next')
<1> DEFINE str == call[2]
           delim == call[3]
           from == IF str # NULL THEN str ELSE next
           r == strtok(mem, next, str, delim)
<1>1. call[1] = "strtok" BY DEF Tokenize, Routine
<1>2. Called BY <1>1 DEF Called, Idle, Done
<1>3. mem \in Memories /\ Sound(call) /\ InMemory(call)
  BY <1>2, LibcAssumption DEF LibcInv
<1>4. /\ str # NULL => IsString(mem, str)
      /\ IsString(mem, delim)
      /\ str \in Address \cup {NULL}
  BY <1>1, <1>3 DEF Sound, InMemory
<1>5. mem' = r.mem /\ next' = r.next /\ ret' = r.ret BY DEF Tokenize
<1>6. CASE Asked.base # NULL
  <2>1. Follows(Asked, mem, from)
    <3>1. CASE str # NULL
      <4> DEFINE t == [base |-> str, mem |-> mem, at |-> str]
      <4>1. Asked = t BY <3>1 DEF Asked
      <4>2. t \in Texts BY <1>3, <1>4, <3>1 DEF Texts
      <4>3. t.base = str /\ t.mem = mem /\ t.at = str OBVIOUS
      <4> HIDE DEF t
      <4>4. EndOfText(t) \in str .. MemSize - 1 BY <1>3, <1>4, <3>1, <4>3, EndIs
      <4>5. str \in str .. EndOfText(t)
        BY <1>4, <3>1, <4>4, StringsAssumption DEF Address, NULL
      <4>6. Follows(t, mem, from) BY <1>4, <3>1, <4>2, <4>3, <4>5 DEF Follows
      <4> QED BY <4>1, <4>6
    <3>2. CASE str = NULL
      <4>1. Asked = text /\ from = next BY <3>2 DEF Asked
      <4> QED BY <1>6, <4>1 DEF LibcInv
    <3> QED BY <3>1, <3>2
  <2> DEFINE token == TokenOf(Asked, DelimsAt(delim))
  <2>2. /\ r.ret = token.ret /\ r.mem \in Memories
        /\ Follows([Asked EXCEPT !.at = token.at], r.mem, r.next)
    BY <1>3, <1>4, <2>1, TokenCut
  <2>3. text' = [Asked EXCEPT !.at = token.at] BY <1>6 DEF Tokenize
  <2> QED BY <1>5, <2>2, <2>3
<1>7. CASE Asked.base = NULL
  <2>1. str = NULL BY <1>7 DEF Asked
  <2>2. CASE next = NULL
    <3>1. r.mem = mem BY <2>1, <2>2 DEF strtok
    <3> QED BY <1>3, <1>5, <1>7, <3>1
  <2>3. CASE next # NULL
    <3>1. r.mem = mem \/ \E e : r.mem = [mem EXCEPT ![e] = 0]
      BY DEF strtok, Cut
    <3>2. \A e : [mem EXCEPT ![e] = 0] \in Memories BY <1>3 DEF Memories
    <3> HIDE DEF r
    <3> QED BY <1>3, <1>5, <1>7, <3>1, <3>2
  <2> QED BY <2>2, <2>3
<1> QED BY <1>6, <1>7

\* Every call runs with arguments that a caller may pass, in a memory of bytes,
\* and what strtok keeps from one call to the next is where the next token of
\* the untouched rest of the text is looked for (string.c, strtok).
THEOREM LibcInvariant == LibcSpec => []LibcInv
<1>1. LibcInit => LibcInv
  BY LibcAssumption DEF LibcInit, LibcInv, Called, NoText, Memories
<1>2. LibcInv /\ [LibcNext]_libcVars => LibcInv'
  <2> SUFFICES ASSUME LibcInv, [LibcNext]_libcVars PROVE LibcInv' OBVIOUS
  <2>1. client' \in Clients
    BY DEF LibcInv, LibcNext, Begin, Write, Look, Format, Tokenize, Routine, libcVars
  <2>2. CASE Begin
    <3>1. /\ client' = client /\ mem' = mem /\ next' = next /\ text' = text
          /\ call' \in client.calls /\ Sound(call')
      BY <2>2 DEF Begin
    <3>2. Sound(call)' BY <3>1 DEF Sound
    <3>3. text.base # NULL => Follows(text, mem, next)' BY <3>1 DEF LibcInv
    <3> QED BY <2>1, <3>1, <3>2, <3>3 DEF LibcInv
  <2>3. ASSUME Write \/ Look \/ Format \/ Tokenize PROVE ~ Called'
    BY <2>3 DEF Write, Look, Format, Tokenize, Routine, Called
  <2>4. CASE Write
    <3>1. mem' \in Memories BY <2>4, WriteType
    <3>2. text'.base = NULL BY <2>4 DEF Write, NoText
    <3> QED BY <2>1, <2>3, <2>4, <3>1, <3>2 DEF LibcInv
  <2>5. CASE Look \/ Format
    <3>1. mem' = mem /\ next' = next /\ text' = text BY <2>5 DEF Look, Format
    <3>2. text.base # NULL => Follows(text, mem, next)' BY <3>1 DEF LibcInv
    <3> QED BY <2>1, <2>3, <2>5, <3>1, <3>2 DEF LibcInv
  <2>6. CASE Tokenize
    <3>1. mem' \in Memories /\ (Asked.base # NULL => Follows(text', mem', next'))
      BY <2>6, TokenizeFollows
    <3>2. Asked.base = NULL => text'.base = NULL BY <2>6 DEF Tokenize, NoText
    <3>3. text'.base # NULL => Follows(text', mem', next') BY <3>1, <3>2
    <3> QED BY <2>1, <2>3, <2>6, <3>1, <3>3 DEF LibcInv
  <2>7. CASE UNCHANGED libcVars
    <3>1. /\ client' = client /\ mem' = mem /\ next' = next /\ text' = text /\ call' = call
      BY <2>7 DEF libcVars
    <3>2. Sound(call)' <=> Sound(call) BY <3>1 DEF Sound
    <3> QED BY <2>1, <3>1, <3>2 DEF LibcInv, Called
  <2> QED BY <2>2, <2>4, <2>5, <2>6, <2>7 DEF LibcNext
<1> QED BY <1>1, <1>2, PTL DEF LibcSpec

-----------------------------------------------------------------------------
(* The properties. *)

\* memmove moves its bytes as if through a buffer, for every overlap, and
\* strncpy leaves exactly n bytes, in memories of every size (string.c, memmove
\* and strncpy).
THEOREM BytesAreMoved == LibcSpec => BytesMoved
<1> DEFINE d == call[2]  s == call[3]  n == call[4]
           A == /\ Ran({"memmove"}) =>
                     mem' = [a \in Address |->
                               IF a \in d .. d + n - 1 THEN mem[s + a - d] ELSE mem[a]]
                /\ Ran({"strncpy"}) =>
                     mem' = [a \in Address |->
                               IF a \notin d .. d + n - 1 THEN mem[a]
                               ELSE IF \E e \in s .. s + a - d : mem[e] = 0 THEN 0
                               ELSE mem[s + a - d]]
<1>1. LibcInv /\ [LibcNext]_libcVars => [A]_libcVars
  <2> SUFFICES ASSUME LibcInv, LibcNext PROVE A OBVIOUS
  <2>1. ASSUME Ran({"memmove", "strncpy"})
        PROVE  /\ Write /\ mem \in Memories /\ Sound(call) /\ InMemory(call)
    <3>1. Write
      BY <2>1 DEF Ran, LibcNext, Begin, Look, Format, Tokenize, Routine, Idle
    <3>2. Called BY <2>1 DEF Ran, Called, Idle, Done
    <3> QED BY <3>1, <3>2, LibcAssumption DEF LibcInv
  <2>2. CASE call[1] = "memmove"
    <3>1. mem' = memmove(mem, d, s, n) BY <2>1, <2>2 DEF Write, Ran
    <3>2. d \in Address /\ s \in Address /\ n \in Nat /\ d + n <= MemSize /\ s + n <= MemSize
      BY <2>1, <2>2 DEF InMemory, Ran
    <3>3. mem \in Memories BY <2>1, <2>2 DEF Ran
    <3>4. ~ Ran({"strncpy"}) BY <2>2 DEF Ran
    <3> HIDE DEF d, s, n
    <3>5. mem' = [a \in Address |-> IF a \in d + 0 .. d + n - 1 THEN mem[s + a - d] ELSE mem[a]]
      BY <3>1, <3>2, <3>3, MemmoveMoves DEF Moved
    <3>6. d + 0 = d BY <3>2 DEF Address
    <3> QED BY <3>4, <3>5, <3>6
  <2>3. CASE call[1] = "strncpy"
    <3>1. mem' = strncpy(mem, d, s, n) BY <2>1, <2>3 DEF Write, Ran
    <3>2. d \in Address /\ n \in Nat /\ d + n <= MemSize
      BY <2>1, <2>3 DEF InMemory, Ran
    <3>3. mem \in Memories BY <2>1, <2>3 DEF Ran
    <3>4. IsString(mem, s) /\ Disjoint(d, s, n) BY <2>1, <2>3 DEF Sound, Ran
    <3>5. ~ Ran({"memmove"}) BY <2>3 DEF Ran
    <3> HIDE DEF d, s, n
    <3> QED BY <3>1, <3>2, <3>3, <3>4, <3>5, StrncpyPads
  <2>4. CASE call[1] \notin {"memmove", "strncpy"} BY <2>4 DEF Ran
  <2> QED BY <2>2, <2>3, <2>4
<1>2. [][A]_libcVars => BytesMoved BY PTL DEF BytesMoved
<1> HIDE DEF A
<1> QED BY <1>1, <1>2, LibcInvariant, PTL DEF LibcSpec

\* strstr returns the first place where strncmp knows the needle, for all
\* strings (string.c, strstr, strncmp and strlen).
THEOREM SearchesDoAgree == LibcSpec => SearchesAgree
<1> DEFINE A == Ran({"strstr"}) =>
                  LET h == call[2]
                      n == call[3]
                      At(a) == strncmp(mem, a, n, strlen(mem, n)) = 0
                  IN  IF ret' = NULL THEN \A a \in h .. h + strlen(mem, h) : ~ At(a)
                      ELSE At(ret') /\ \A a \in h .. ret' - 1 : ~ At(a)
<1>1. LibcInv /\ [LibcNext]_libcVars => [A]_libcVars
  <2> SUFFICES ASSUME LibcInv, LibcNext, Ran({"strstr"}) PROVE A OBVIOUS
  <2>1. Look BY DEF Ran, LibcNext, Begin, Write, Format, Tokenize, Routine, Idle
  <2>2. Called BY DEF Ran, Called, Idle, Done
  <2>3. mem \in Memories /\ Sound(call) BY <2>2 DEF LibcInv
  <2>4. IsString(mem, call[2]) /\ IsString(mem, call[3]) BY <2>3 DEF Sound, Ran
  <2>5. ret' = strstr(mem, call[2], call[3]) BY <2>1 DEF Look, Ran
  <2> QED BY <2>3, <2>4, <2>5, StrstrFinds
<1>2. [][A]_libcVars => SearchesAgree BY PTL DEF SearchesAgree
<1> HIDE DEF A
<1> QED BY <1>1, <1>2, LibcInvariant, PTL DEF LibcSpec

\* Successive calls of strtok return the tokens of the text as it was before
\* the first of them, whatever delimiters each is given (string.c, strtok).
THEOREM TokensAreOfText == LibcSpec => TokensOfText
<1> DEFINE A == Ran({"strtok"}) /\ Asked.base # NULL =>
                  ret' = TokenOf(Asked, DelimsAt(call[3])).ret
<1>1. LibcInv /\ [LibcNext]_libcVars => [A]_libcVars
  <2> SUFFICES ASSUME LibcInv, LibcNext, Ran({"strtok"}) PROVE A OBVIOUS
  <2>1. Tokenize BY DEF Ran, LibcNext, Begin, Write, Format, Look, Routine, Idle
  <2> QED BY <2>1, TokenizeFollows
<1>2. [][A]_libcVars => TokensOfText BY PTL DEF TokensOfText
<1> HIDE DEF A
<1> QED BY <1>1, <1>2, LibcInvariant, PTL DEF LibcSpec

-----------------------------------------------------------------------------
(* Sequences, and functions each of whose values is computed from the one  *)
(* before it.                                                              *)

\* A function on 1 .. n is a sequence of its values.
LEMMA FunctionIsSeq ==
  ASSUME NEW X, NEW n \in Nat, NEW f \in [1 .. n -> X]
  PROVE  f \in Seq(X) /\ Len(f) = n
<1>1. f \in Seq(X) BY SeqDef
<1>2. DOMAIN f = 1 .. Len(f) /\ Len(f) \in Nat BY <1>1
<1>3. 1 .. Len(f) = 1 .. n BY <1>2
<1>4. Len(f) = n
  <2>1. CASE Len(f) < n
    <3>1. n \in 1 .. n BY <1>2, <2>1
    <3> QED BY <1>2, <1>3, <2>1, <3>1
  <2>2. CASE n < Len(f)
    <3>1. Len(f) \in 1 .. Len(f) BY <1>2, <2>2
    <3> QED BY <1>2, <1>3, <2>2, <3>1
  <2> QED BY <1>2, <2>1, <2>2
<1> QED BY <1>1, <1>4

\* What the elements of s \o t are.
Joined(s, t, X) ==
  /\ s \o t \in Seq(X) /\ Len(s \o t) = Len(s) + Len(t)
  /\ \A k \in 1 .. Len(s) : (s \o t)[k] = s[k]
  /\ \A k \in 1 .. Len(t) : (s \o t)[Len(s) + k] = t[k]
\* The concatenation of two sequences has the elements of both.
LEMMA ConcatIs ==
  ASSUME NEW X, NEW s \in Seq(X), NEW t \in Seq(X)
  PROVE  Joined(s, t, X)
<1>1. s \o t \in Seq(X) /\ Len(s \o t) = Len(s) + Len(t) BY ConcatProperties
<1>2. \A k \in 1 .. Len(s) + Len(t) :
         (s \o t)[k] = IF k <= Len(s) THEN s[k] ELSE t[k - Len(s)]
  BY ConcatProperties
<1>3. Len(s) \in Nat /\ Len(t) \in Nat OBVIOUS
<1>4. ASSUME NEW k \in 1 .. Len(s) PROVE (s \o t)[k] = s[k]
  <2>1. k \in 1 .. Len(s) + Len(t) /\ k <= Len(s) BY <1>3
  <2> QED BY <1>2, <2>1
<1>5. ASSUME NEW k \in 1 .. Len(t) PROVE (s \o t)[Len(s) + k] = t[k]
  <2>1. /\ Len(s) + k \in 1 .. Len(s) + Len(t) /\ ~ (Len(s) + k <= Len(s))
        /\ Len(s) + k - Len(s) = k
    BY <1>3
  <2> QED BY <1>2, <2>1
<1> QED BY <1>1, <1>4, <1>5 DEF Joined

\* The value at 0 is a, the one at k is what F makes of k and the one before.
Steps(n, A) == [(1 .. n) \X A -> A]
Computed(f, n, a, F) == f[0] = a /\ \A k \in 1 .. n : f[k] = F[<<k, f[k - 1]>>]
\* There is such a function.
LEMMA Recursion ==
  ASSUME NEW n \in Nat, NEW A, NEW a \in A, NEW F \in Steps(n, A)
  PROVE  \E f \in [0 .. n -> A] : Computed(f, n, a, F)
<1> DEFINE Good(k) == \E f \in [0 .. k -> A] : Computed(f, k, a, F)
           Bad == {k \in 0 .. n : ~ Good(k)}
<1>1. Good(0)
  <2> DEFINE f == [i \in 0 .. 0 |-> a]
  <2>1. f \in [0 .. 0 -> A] /\ f[0] = a OBVIOUS
  <2> HIDE DEF f
  <2>2. Computed(f, 0, a, F) BY <2>1 DEF Computed
  <2> QED BY <2>1, <2>2
<1>2. ASSUME NEW k \in 0 .. n - 1, Good(k) PROVE Good(k + 1)
  <2>1. PICK f \in [0 .. k -> A] : Computed(f, k, a, F) BY <1>2
  <2> DEFINE x == F[<<k + 1, f[k]>>]
             g == [i \in 0 .. k + 1 |-> IF i = k + 1 THEN x ELSE f[i]]
  <2>2. x \in A
    <3>1. k + 1 \in 1 .. n /\ f[k] \in A OBVIOUS
    <3> QED BY <3>1 DEF Steps
  <2> HIDE DEF x
  <2>3. g \in [0 .. k + 1 -> A] BY <2>2
  <2>4. \A i \in 0 .. k : g[i] = f[i] OBVIOUS
  <2>5. g[k + 1] = x OBVIOUS
  <2> HIDE DEF g
  <2>6. g[0] = a BY <2>1, <2>4 DEF Computed
  <2>7. ASSUME NEW i \in 1 .. k + 1 PROVE g[i] = F[<<i, g[i - 1]>>]
    <3>1. CASE i = k + 1
      <4>1. i - 1 = k /\ k \in 0 .. k BY <3>1
      <4>2. g[i - 1] = f[k] BY <2>4, <4>1
      <4> QED BY <2>5, <3>1, <4>2 DEF x
    <3>2. CASE i # k + 1
      <4>1. i \in 1 .. k /\ i \in 0 .. k /\ i - 1 \in 0 .. k BY <3>2
      <4> QED BY <2>1, <2>4, <4>1 DEF Computed
    <3> QED BY <3>1, <3>2
  <2> QED BY <2>3, <2>6, <2>7 DEF Computed
<1>3. ASSUME Bad # {} PROVE FALSE
  <2>1. Bad \subseteq Nat OBVIOUS
  <2> HIDE DEF Good
  <2>2. PICK x \in Bad : \A y \in Bad : x <= y
    <3> HIDE DEF Bad
    <3> QED BY <1>3, <2>1, Least
  <2>3. x # 0 /\ x \in 0 .. n BY <1>1, <2>2
  <2>4. x - 1 \in 0 .. n - 1 /\ (x - 1) + 1 = x /\ x - 1 \in 0 .. n BY <2>3
  <2>5. Good(x - 1) BY <2>2, <2>4
  <2> QED BY <1>2, <2>2, <2>4, <2>5
<1>4. Good(n)
  <2> HIDE DEF Good
  <2>1. n \in 0 .. n OBVIOUS
  <2> QED BY <1>3, <2>1
<1> QED BY <1>4

\* And only one.
LEMMA OneRecursion ==
  ASSUME NEW n \in Nat, NEW f, NEW g, NEW a, NEW F, Computed(f, n, a, F), Computed(g, n, a, F)
  PROVE  \A k \in 0 .. n : f[k] = g[k]
<1> DEFINE Bad == {k \in 0 .. n : f[k] # g[k]}
<1>1. ASSUME Bad # {} PROVE FALSE
  <2>1. Bad \subseteq Nat OBVIOUS
  <2>2. PICK x \in Bad : \A y \in Bad : x <= y
    <3> HIDE DEF Bad
    <3> QED BY <1>1, <2>1, Least
  <2>3. x \in 0 .. n /\ f[x] # g[x] BY <2>2
  <2>4. x # 0 BY <2>3 DEF Computed
  <2>5. x \in 1 .. n /\ x - 1 \in 0 .. n /\ ~ (x <= x - 1) BY <2>3, <2>4
  <2>6. f[x - 1] = g[x - 1] BY <2>2, <2>5
  <2> QED BY <2>3, <2>5, <2>6 DEF Computed
<1> QED BY <1>1

-----------------------------------------------------------------------------
(* Numbers and their digits (stdio.c, itoa). *)

Numerals == {Digits[d] : d \in 1 .. 16}
Bases == {8, 10, 16}

\* The sixteen digits are different, and none is a blank, a sign or the end.
LEMMA DigitsApart ==
  /\ DOMAIN Digits = 1 .. 16
  /\ \A d, e \in 1 .. 16 : Digits[d] = Digits[e] => d = e
  /\ \A d \in 1 .. 16 : DigitValue(Digits[d]) = d - 1
  /\ \A c \in Numerals : c # " " /\ c # "-" /\ c # Nul /\ c # "%"
  /\ Digits[1] = "0"
<1> DEFINE S == {"0", "1", "2", "3", "4", "5", "6", "7", "8", "9",
                 "A", "B", "C", "D", "E", "F"}
<1>1. DOMAIN Digits = 1 .. 16 BY DEF Digits
<1>2. \A d, e \in 1 .. 16 : Digits[d] = Digits[e] => d = e BY DEF Digits
<1>3. ASSUME NEW d \in 1 .. 16 PROVE DigitValue(Digits[d]) = d - 1
  <2> HIDE DEF Digits
  <2>1. (CHOOSE e \in DOMAIN Digits : Digits[e] = Digits[d]) = d BY <1>1, <1>2
  <2> QED BY <2>1 DEF DigitValue
<1>4. \A d \in 1 .. 16 : Digits[d] \in S BY DEF Digits
<1>5. \A c \in S : c # " " /\ c # "-" /\ c # Nul /\ c # "%" BY Zenon DEF Nul
<1>6. Digits[1] = "0" BY DEF Digits
<1> QED BY <1>1, <1>2, <1>3, <1>4, <1>5, <1>6 DEF Numerals

\* The value of a numeral is computed digit by digit.
LEMMA ValueIs ==
  ASSUME NEW s \in Seq(Numerals), NEW base \in Nat,
         NEW F, F = [p \in (1 .. Len(s)) \X Nat |-> p[2] * base + DigitValue(s[p[1]])]
  PROVE  \E v \in [0 .. Len(s) -> Nat] : Computed(v, Len(s), 0, F) /\ Value(s, base) = v[Len(s)]
<1> DEFINE n == Len(s)
           Is(g) == g = [k \in 0 .. n |->
                           IF k = 0 THEN 0 ELSE g[k - 1] * base + DigitValue(s[k])]
           v == CHOOSE g : Is(g)
<1>1. n \in Nat OBVIOUS
<1>2. \A k \in 1 .. n : DigitValue(s[k]) \in Nat
  <2> SUFFICES ASSUME NEW k \in 1 .. n PROVE DigitValue(s[k]) \in Nat OBVIOUS
  <2>1. s[k] \in Numerals OBVIOUS
  <2>2. PICK d \in 1 .. 16 : s[k] = Digits[d] BY <2>1 DEF Numerals
  <2>3. DigitValue(s[k]) = d - 1 BY <2>2, DigitsApart
  <2> QED BY <2>3
<1>3. Value(s, base) = v[n] BY DEF Value
<1>4. F \in Steps(n, Nat)
  <2>1. \A p \in (1 .. n) \X Nat : p[2] * base + DigitValue(s[p[1]]) \in Nat BY <1>2
  <2> QED BY <2>1 DEF Steps
<1>5. \A k \in 1 .. n, x \in Nat : F[<<k, x>>] = x * base + DigitValue(s[k]) OBVIOUS
<1> HIDE DEF n
<1>6. PICK f \in [0 .. n -> Nat] : Computed(f, n, 0, F) BY <1>1, <1>4, Recursion
<1>7. Is(f)
  <2>1. ASSUME NEW k \in 1 .. n PROVE f[k] = f[k - 1] * base + DigitValue(s[k])
    <3>1. k - 1 \in 0 .. n BY <1>1
    <3>2. f[k] = F[<<k, f[k - 1]>>] BY <1>6 DEF Computed
    <3>3. f[k - 1] \in Nat BY <3>1
    <3> QED BY <1>5, <3>2, <3>3
  <2>2. \A k \in 0 .. n : k # 0 => k \in 1 .. n BY <1>1
  <2> QED BY <1>6, <2>1, <2>2 DEF Computed
<1> HIDE DEF Is
<1>8. Is(v) BY <1>7
<1> HIDE DEF v
<1>9. v = [k \in 0 .. n |-> IF k = 0 THEN 0 ELSE v[k - 1] * base + DigitValue(s[k])]
  BY <1>8 DEF Is
<1>10. v = f
  <2> DEFINE Bad == {k \in 0 .. n : v[k] # f[k]}
  <2>1. ASSUME Bad # {} PROVE FALSE
    <3>1. Bad \subseteq Nat BY <1>1
    <3>2. PICK x \in Bad : \A y \in Bad : x <= y
      <4> HIDE DEF Bad
      <4> QED BY <2>1, <3>1, Least
    <3>3. x \in 0 .. n /\ v[x] # f[x] BY <3>2
    <3>4. v[0] = 0 /\ f[0] = 0 BY <1>1, <1>6, <1>9 DEF Computed
    <3>5. x \in 1 .. n /\ x - 1 \in 0 .. n /\ ~ (x <= x - 1) BY <1>1, <3>3, <3>4
    <3>6. v[x - 1] = f[x - 1] BY <3>2, <3>5
    <3>7. v[x] = v[x - 1] * base + DigitValue(s[x]) BY <1>9, <3>5
    <3>8. f[x] = f[x - 1] * base + DigitValue(s[x]) BY <1>5, <1>6, <3>5 DEF Computed
    <3> QED BY <3>3, <3>6, <3>7, <3>8
  <2>2. \A k \in 0 .. n : v[k] = f[k] BY <2>1
  <2>3. v = [k \in 0 .. n |-> v[k]] BY <1>9
  <2>4. f = [k \in 0 .. n |-> f[k]] OBVIOUS
  <2> QED BY <2>2, <2>3, <2>4
<1> QED BY <1>3, <1>6, <1>10 DEF n

\* One digit more.
LEMMA ValueAppend ==
  ASSUME NEW s \in Seq(Numerals), NEW base \in Nat, NEW c \in Numerals
  PROVE  /\ Value(s, base) \in Nat
         /\ Value(Append(s, c), base) = Value(s, base) * base + DigitValue(c)
<1> DEFINE n == Len(s)  t == Append(s, c)
           F == [p \in (1 .. Len(s)) \X Nat |-> p[2] * base + DigitValue(s[p[1]])]
           G == [p \in (1 .. Len(t)) \X Nat |-> p[2] * base + DigitValue(t[p[1]])]
<1>1. /\ n \in Nat /\ t \in Seq(Numerals) /\ Len(t) = n + 1
      /\ \A k \in 1 .. n : t[k] = s[k]
      /\ t[n + 1] = c
  OBVIOUS
<1>2. PICK v \in [0 .. n -> Nat] : Computed(v, n, 0, F) /\ Value(s, base) = v[n]
  <2> HIDE DEF F
  <2>1. F = [p \in (1 .. Len(s)) \X Nat |-> p[2] * base + DigitValue(s[p[1]])] BY DEF F
  <2> QED BY <2>1, ValueIs
<1> HIDE DEF t
<1>3. PICK w \in [0 .. Len(t) -> Nat] : Computed(w, Len(t), 0, G) /\ Value(t, base) = w[Len(t)]
  <2> HIDE DEF G
  <2>1. G = [p \in (1 .. Len(t)) \X Nat |-> p[2] * base + DigitValue(t[p[1]])] BY DEF G
  <2> QED BY <1>1, <2>1, ValueIs
<1>4. /\ \A k \in 1 .. n, x \in Nat : F[<<k, x>>] = x * base + DigitValue(s[k])
      /\ \A k \in 1 .. n + 1, x \in Nat : G[<<k, x>>] = x * base + DigitValue(t[k])
  BY <1>1
<1> HIDE DEF F, G, n
<1>5. w \in [0 .. n + 1 -> Nat] /\ Computed(w, n + 1, 0, G) /\ Value(t, base) = w[n + 1]
  BY <1>1, <1>3
<1>6. Computed(w, n, 0, F)
  <2>1. w[0] = 0 BY <1>5 DEF Computed
  <2>2. ASSUME NEW k \in 1 .. n PROVE w[k] = F[<<k, w[k - 1]>>]
    <3>1. k \in 1 .. n + 1 /\ k - 1 \in 0 .. n + 1 BY <1>1
    <3>2. w[k] = G[<<k, w[k - 1]>>] /\ w[k - 1] \in Nat BY <1>5, <3>1 DEF Computed
    <3>3. w[k] = w[k - 1] * base + DigitValue(t[k]) BY <1>4, <3>1, <3>2
    <3>4. F[<<k, w[k - 1]>>] = w[k - 1] * base + DigitValue(s[k]) BY <1>4, <3>2
    <3>5. t[k] = s[k] BY <1>1
    <3> QED BY <3>3, <3>4, <3>5
  <2> QED BY <2>1, <2>2 DEF Computed
<1>7. w[n] = v[n]
  <2> DEFINE z == 0
  <2>1. n \in Nat /\ Computed(v, n, z, F) /\ Computed(w, n, z, F) BY <1>1, <1>2, <1>6
  <2> HIDE DEF z
  <2>2. \A k \in 0 .. n : w[k] = v[k] BY <2>1, OneRecursion, SMTT(40)
  <2> QED BY <2>1, <2>2
<1>8. w[n + 1] = v[n] * base + DigitValue(c)
  <2>1. n + 1 \in 1 .. n + 1 /\ (n + 1) - 1 = n /\ n \in 0 .. n BY <1>1
  <2>2. w[n + 1] = G[<<n + 1, w[n]>>] BY <1>5, <2>1 DEF Computed
  <2> QED BY <1>1, <1>2, <1>4, <1>7, <2>1, <2>2
<1> QED BY <1>1, <1>2, <1>5, <1>8 DEF t

\* No digits, no value.
LEMMA EmptyValue ==
  ASSUME NEW base \in Nat
  PROVE  Value(<< >>, base) = 0
<1> DEFINE F == [p \in (1 .. Len(<< >>)) \X Nat |-> p[2] * base + DigitValue(<< >>[p[1]])]
<1>1. << >> \in Seq(Numerals) /\ Len(<< >>) = 0 OBVIOUS
<1>2. \E v \in [0 .. Len(<< >>) -> Nat] :
         Computed(v, Len(<< >>), 0, F) /\ Value(<< >>, base) = v[Len(<< >>)]
  <2> DEFINE e == << >>
  <2>1. e \in Seq(Numerals) BY <1>1
  <2>2. F = [p \in (1 .. Len(e)) \X Nat |-> p[2] * base + DigitValue(e[p[1]])] OBVIOUS
  <2> HIDE DEF e, F
  <2>3. \E v \in [0 .. Len(e) -> Nat] : Computed(v, Len(e), 0, F) /\ Value(e, base) = v[Len(e)]
    BY <2>1, <2>2, ValueIs
  <2> QED BY <2>3 DEF e
<1> QED BY <1>1, <1>2 DEF Computed

\* A number is made of what is left without its last digit, and this digit.
LEMMA LastDigit ==
  ASSUME NEW m \in Nat \ {0}, NEW base \in Bases
  PROVE  /\ m \div base \in 0 .. m - 1 /\ m % base \in 0 .. base - 1 /\ base \in 1 .. 16
         /\ (m \div base) * base + (m % base) = m
<1>1. CASE base = 8 BY <1>1
<1>2. CASE base = 10 BY <1>2
<1>3. CASE base = 16 BY <1>3
<1> QED BY <1>1, <1>2, <1>3 DEF Bases

\* The digits of a number: digits of the base, of the value of the number.
NumeralOf(s, base, n) ==
  /\ s \in Seq(Numerals) /\ (n > 0 => Len(s) > 0)
  /\ \A k \in 1 .. Len(s) : \E d \in 1 .. base : Digits[d] = s[k]
  /\ Value(s, base) = n
\* DigitsOf finds them.
LEMMA DigitsAre ==
  ASSUME NEW n \in Nat, NEW base \in Bases
  PROVE  NumeralOf(DigitsOf(n, base), base, n)
<1> DEFINE Last1(m) == Digits[(m % base) + 1]
           Next1(f, m) == IF m = 0 THEN << >> ELSE Append(f[m \div base], Last1(m))
           Is(g) == g = [m \in 0 .. n |-> Next1(g, m)]
           Good(k) == \E f \in [0 .. k -> Seq(Numerals)] : \A m \in 0 .. k : f[m] = Next1(f, m)
           Bad == {k \in 0 .. n : ~ Good(k)}
           g == CHOOSE g : Is(g)
<1>1. base \in Nat /\ 1 .. base \subseteq 1 .. 16 BY DEF Bases
<1>2. DigitsOf(n, base) = g[n] BY DEF DigitsOf
<1>3. ASSUME NEW m \in 1 .. n
      PROVE  /\ m \div base \in 0 .. m - 1 /\ m % base \in 0 .. base - 1
             /\ (m \div base) * base + (m % base) = m
             /\ (m % base) + 1 \in 1 .. base /\ Last1(m) \in Numerals
             /\ DigitValue(Last1(m)) = m % base
  <2> DEFINE r == m % base
  <2>1. m \div base \in 0 .. m - 1 /\ r \in 0 .. base - 1 /\ (m \div base) * base + r = m
    BY LastDigit
  <2> HIDE DEF r
  <2>2. r + 1 \in 1 .. base /\ r + 1 \in 1 .. 16 /\ (r + 1) - 1 = r BY <1>1, <2>1
  <2>3. Digits[r + 1] \in Numerals /\ DigitValue(Digits[r + 1]) = r
    BY <2>2, DigitsApart DEF Numerals
  <2> QED BY <2>1, <2>2, <2>3 DEF r
<1> HIDE DEF Last1
<1>4. Good(0)
  <2> DEFINE f == [m \in 0 .. 0 |-> << >>]
  <2>1. f \in [0 .. 0 -> Seq(Numerals)] /\ \A m \in 0 .. 0 : f[m] = Next1(f, m) OBVIOUS
  <2> QED BY <2>1
<1>5. ASSUME NEW k \in 0 .. n - 1, Good(k) PROVE Good(k + 1)
  <2>1. PICK f \in [0 .. k -> Seq(Numerals)] : \A m \in 0 .. k : f[m] = Next1(f, m) BY <1>5
  <2> DEFINE h == [m \in 0 .. k + 1 |->
                     IF m = k + 1 THEN Append(f[(k + 1) \div base], Last1(k + 1)) ELSE f[m]]
  <2>2. k + 1 \in 1 .. n BY <1>5
  <2>3. (k + 1) \div base \in 0 .. k /\ Last1(k + 1) \in Numerals
    <3>1. (k + 1) - 1 = k OBVIOUS
    <3> QED BY <1>3, <2>2, <3>1
  <2> DEFINE x == Append(f[(k + 1) \div base], Last1(k + 1))
  <2>4. x \in Seq(Numerals) BY <2>3
  <2>5. h \in [0 .. k + 1 -> Seq(Numerals)]
    <3> HIDE DEF x
    <3>1. h = [m \in 0 .. k + 1 |-> IF m = k + 1 THEN x ELSE f[m]] BY DEF x
    <3>2. \A m \in 0 .. k + 1 : m # k + 1 => m \in 0 .. k OBVIOUS
    <3> HIDE DEF h
    <3> QED BY <2>4, <3>1, <3>2
  <2>6. h[k + 1] = x /\ \A m \in 0 .. k : h[m] = f[m]
    <3>1. \A m \in 0 .. k : m # k + 1 /\ m \in 0 .. k + 1 OBVIOUS
    <3>2. k + 1 \in 0 .. k + 1 OBVIOUS
    <3> QED BY <3>1, <3>2
  <2> HIDE DEF h, x
  <2>7. ASSUME NEW m \in 0 .. k + 1 PROVE h[m] = Next1(h, m)
    <3>1. CASE m = k + 1
      <4>1. h[(k + 1) \div base] = f[(k + 1) \div base] BY <2>3, <2>6
      <4>2. m # 0 BY <3>1
      <4> QED BY <2>6, <3>1, <4>1, <4>2 DEF x
    <3>2. CASE m # k + 1 /\ m # 0
      <4>1. m \in 0 .. k /\ m \in 1 .. n /\ 0 .. m - 1 \subseteq 0 .. k BY <1>5, <3>2
      <4>2. m \div base \in 0 .. k BY <1>3, <4>1
      <4>3. f[m] = Next1(f, m) BY <2>1, <4>1
      <4>4. h[m \div base] = f[m \div base] /\ h[m] = f[m] BY <2>6, <4>1, <4>2
      <4> QED BY <3>2, <4>3, <4>4
    <3>3. CASE m = 0
      <4>1. 0 \in 0 .. k OBVIOUS
      <4>2. h[0] = f[0] /\ f[0] = << >> BY <2>1, <2>6, <4>1
      <4> QED BY <3>3, <4>2
    <3> QED BY <3>1, <3>2, <3>3
  <2> QED BY <2>5, <2>7
<1>6. ASSUME Bad # {} PROVE FALSE
  <2>1. Bad \subseteq Nat OBVIOUS
  <2> HIDE DEF Good
  <2>2. PICK x \in Bad : \A y \in Bad : x <= y
    <3> HIDE DEF Bad
    <3> QED BY <1>6, <2>1, Least
  <2>3. x # 0 /\ x \in 0 .. n BY <1>4, <2>2
  <2>4. x - 1 \in 0 .. n - 1 /\ (x - 1) + 1 = x /\ x - 1 \in 0 .. n BY <2>3
  <2>5. Good(x - 1) BY <2>2, <2>4
  <2> QED BY <1>5, <2>2, <2>4, <2>5
<1>7. PICK f \in [0 .. n -> Seq(Numerals)] : \A m \in 0 .. n : f[m] = Next1(f, m)
  <2> HIDE DEF Good
  <2>1. n \in 0 .. n OBVIOUS
  <2>2. Good(n) BY <1>6, <2>1
  <2> QED BY <2>2 DEF Good
<1>8. Is(f)
  <2> HIDE DEF Next1
  <2> QED BY <1>7
<1>9. Is(g)
  <2> HIDE DEF Is
  <2> QED BY <1>8
<1> HIDE DEF g
<1>10. \A m \in 0 .. n : g[m] = Next1(g, m)
  <2>1. g = [m \in 0 .. n |-> Next1(g, m)] BY <1>9
  <2> HIDE DEF Next1
  <2> QED BY <2>1
<1> DEFINE Wrong == {m \in 0 .. n : ~ NumeralOf(g[m], base, m)}
<1>11. ASSUME Wrong # {} PROVE FALSE
  <2>1. Wrong \subseteq Nat OBVIOUS
  <2>2. PICK x \in Wrong : \A y \in Wrong : x <= y
    <3> HIDE DEF Wrong
    <3> QED BY <1>11, <2>1, Least
  <2>3. x \in 0 .. n /\ ~ NumeralOf(g[x], base, x) BY <2>2
  <2>4. CASE x = 0
    <3>1. g[x] = << >> BY <1>10, <2>3, <2>4
    <3>2. Value(<< >>, base) = 0 BY <1>1, EmptyValue
    <3> QED BY <2>3, <2>4, <3>1, <3>2 DEF NumeralOf
  <2>5. CASE x # 0
    <3> DEFINE q == x \div base  s == g[q]  c == Last1(x)
    <3>1. x \in 1 .. n BY <2>3, <2>5
    <3>2. q \in 0 .. x - 1 /\ c \in Numerals /\ DigitValue(c) = x % base
          /\ q * base + (x % base) = x /\ (x % base) + 1 \in 1 .. base
      BY <1>3, <3>1
    <3>3. g[x] = Append(s, c) BY <1>10, <2>5, <3>1
    <3>4. c = Digits[(x % base) + 1] BY DEF Last1
    <3> HIDE DEF q, c
    <3>5. q \in 0 .. n /\ ~ (x <= q) BY <3>1, <3>2
    <3>6. NumeralOf(s, base, q) BY <2>2, <3>5
    <3> HIDE DEF s
    <3>7. s \in Seq(Numerals) /\ Value(s, base) = q
          /\ \A k \in 1 .. Len(s) : \E d \in 1 .. base : Digits[d] = s[k]
      BY <3>6 DEF NumeralOf
    <3>8. Value(g[x], base) = x
      <4>1. Value(Append(s, c), base) = Value(s, base) * base + DigitValue(c)
        BY <1>1, <3>2, <3>7, ValueAppend
      <4> QED BY <3>2, <3>3, <3>7, <4>1
    <3>9. g[x] \in Seq(Numerals) /\ Len(g[x]) > 0 BY <3>2, <3>3, <3>7
    <3>10. ASSUME NEW k \in 1 .. Len(g[x]) PROVE \E d \in 1 .. base : Digits[d] = g[x][k]
      <4>1. CASE k \in 1 .. Len(s)
        <5>1. g[x][k] = s[k] BY <3>2, <3>3, <3>7, <4>1
        <5> QED BY <3>7, <4>1, <5>1
      <4>2. CASE k \notin 1 .. Len(s)
        <5>1. k = Len(s) + 1 BY <3>2, <3>3, <3>7, <4>2
        <5>2. g[x][k] = c BY <3>2, <3>3, <3>7, <5>1
        <5> QED BY <3>2, <3>4, <5>2
      <4> QED BY <4>1, <4>2
    <3> QED BY <2>3, <3>8, <3>9, <3>10 DEF NumeralOf
  <2> QED BY <2>4, <2>5
<1>12. NumeralOf(g[n], base, n)
  <2>1. n \in 0 .. n OBVIOUS
  <2> QED BY <1>11, <2>1
<1> QED BY <1>2, <1>12

\* What itoa makes of a word: a sign only in base 10, and the digits.
Written(t, word, base) ==
  IF base = 10 /\ AsInt(word) < 0
  THEN \E u : t = <<"-">> \o u /\ NumeralOf(u, 10, 0 - AsInt(word)) /\ Len(u) > 0
  ELSE NumeralOf(t, base, word) /\ Len(t) > 0 /\ (base = 10 => AsInt(word) = word)
\* It does, for every word.
LEMMA ItoaWrites ==
  ASSUME NEW word \in 0 .. WordMod - 1, NEW base \in Bases
  PROVE  Written(itoa(word, base), word, base)
<1>1. WordMod \in Nat /\ WordMod \div 2 \in 0 .. WordMod BY StdioAssumption
<1>2. \/ AsInt(word) = word /\ ~ (AsInt(word) < 0)
      \/ AsInt(word) < 0 /\ 0 - AsInt(word) \in Nat \ {0}
  BY <1>1 DEF AsInt
<1>3. CASE word = 0
  <2>1. itoa(word, base) = <<"0">> BY <1>3 DEF itoa
  <2>2. <<"0">> = Append(<< >>, "0") /\ << >> \in Seq(Numerals) OBVIOUS
  <2>3. "0" = Digits[1] /\ "0" \in Numerals /\ DigitValue("0") = 0
    <3>1. 1 \in 1 .. 16 /\ 1 - 1 = 0 OBVIOUS
    <3> QED BY <3>1, DigitsApart DEF Numerals
  <2>4. base \in Nat /\ 1 \in 1 .. base BY DEF Bases
  <2>5. Value(<<"0">>, base) = 0
    <3>1. Value(Append(<< >>, "0"), base) = Value(<< >>, base) * base + DigitValue("0")
      BY <2>2, <2>3, <2>4, ValueAppend
    <3>2. Value(<< >>, base) = 0 BY <2>4, EmptyValue
    <3>3. 0 * base + 0 = 0 BY <2>4
    <3> QED BY <2>2, <2>3, <3>1, <3>2, <3>3
  <2>6. NumeralOf(<<"0">>, base, 0)
    <3>1. <<"0">> \in Seq(Numerals) /\ Len(<<"0">>) = 1 BY <2>3
    <3>2. \A k \in 1 .. 1 : <<"0">>[k] = Digits[1] BY <2>3
    <3> QED BY <2>4, <2>5, <3>1, <3>2 DEF NumeralOf
  <2>7. 0 < WordMod \div 2 BY <1>1, <1>3, StdioAssumption
  <2>8. AsInt(word) = word BY <1>3, <2>7 DEF AsInt
  <2> QED BY <1>3, <2>1, <2>6, <2>8 DEF Written
<1>4. CASE word # 0 /\ base = 10 /\ AsInt(word) < 0
  <2> DEFINE m == 0 - AsInt(word)
  <2>1. m \in Nat \ {0} BY <1>2, <1>4
  <2>2. itoa(word, base) = <<"-">> \o DigitsOf(m, base) BY <1>4 DEF itoa
  <2> HIDE DEF m
  <2>3. NumeralOf(DigitsOf(m, base), base, m) BY <2>1, DigitsAre
  <2>4. Len(DigitsOf(m, base)) > 0 BY <2>1, <2>3 DEF NumeralOf
  <2> QED BY <1>4, <2>2, <2>3, <2>4 DEF Written, m
<1>5. CASE word # 0 /\ ~ (base = 10 /\ AsInt(word) < 0)
  <2>1. itoa(word, base) = DigitsOf(word, base) BY <1>5 DEF itoa
  <2>2. NumeralOf(DigitsOf(word, base), base, word) BY DigitsAre
  <2>3. Len(DigitsOf(word, base)) > 0 BY <1>5, <2>2 DEF NumeralOf
  <2> QED BY <1>2, <1>5, <2>1, <2>2, <2>3 DEF Written
<1> QED BY <1>3, <1>4, <1>5

\* A string with b blanks in front of it.
Justified(t, string, b, X) ==
  /\ t \in Seq(X \cup {" "}) /\ Len(t) = b + Len(string)
  /\ \A k \in 1 .. b : t[k] = " "
  /\ \A k \in 1 .. Len(string) : t[b + k] = string[k]
\* Justify puts as many as are missing.
LEMMA JustifyIs ==
  ASSUME NEW X, NEW string \in Seq(X), NEW width \in Nat
  PROVE  \E b \in Nat : /\ Justified(Justify(string, width), string, b, X)
                        /\ b + Len(string) >= width /\ (b > 0 => b + Len(string) = width)
<1> DEFINE b == IF width > Len(string) THEN width - Len(string) ELSE 0
           s == [i \in 1 .. b |-> " "]
           Y == X \cup {" "}
<1>1. Len(string) \in Nat OBVIOUS
<1>2. b \in Nat /\ b + Len(string) >= width /\ (b > 0 => b + Len(string) = width) BY <1>1
<1>3. Justify(string, width) = s \o string BY DEF Justify
<1> HIDE DEF b
<1>4. s \in [1 .. b -> Y] OBVIOUS
<1>5. \A k \in 1 .. b : s[k] = " " OBVIOUS
<1> HIDE DEF s
<1>6. string \in Seq(Y)
  <2>1. X \subseteq Y OBVIOUS
  <2> HIDE DEF Y
  <2> QED BY <2>1
<1>7. s \in Seq(Y) /\ Len(s) = b
  <2> HIDE DEF Y
  <2> QED BY <1>2, <1>4, FunctionIsSeq
<1>8. Joined(s, string, Y)
  <2> HIDE DEF Y
  <2> QED BY <1>6, <1>7, ConcatIs
<1>9. Justified(s \o string, string, b, X)
  BY <1>5, <1>7, <1>8 DEF Joined, Justified
<1> QED BY <1>2, <1>3, <1>9

-----------------------------------------------------------------------------
(* The items of a format (stdio.c, the loop of printf and sprintf). *)

\* The width of a directive is a number.
LEMMA WidthIs ==
  ASSUME NEW fmt, NEW i \in Nat, NEW j \in Nat, i < j,
         \A k \in i + 1 .. j - 1 : fmt[k] \in DecimalDigits
  PROVE  WidthAt(fmt, i, j) \in Nat
<1> DEFINE n == (j - 1) - i
           Is(g) == g = [k \in i .. j - 1 |->
                           IF k = i THEN 0 ELSE g[k - 1] * 10 + DigitValue(fmt[k])]
           F == [p \in (1 .. n) \X Nat |-> p[2] * 10 + DigitValue(fmt[i + p[1]])]
           v == CHOOSE g : Is(g)
<1>1. n \in Nat OBVIOUS
<1>2. ASSUME NEW k \in i + 1 .. j - 1 PROVE DigitValue(fmt[k]) \in Nat
  <2>1. fmt[k] \in DecimalDigits OBVIOUS
  <2>2. PICK d \in 1 .. 10 : fmt[k] = Digits[d] BY <2>1 DEF DecimalDigits
  <2>3. d \in 1 .. 16 OBVIOUS
  <2>4. DigitValue(fmt[k]) = d - 1 BY <2>2, <2>3, DigitsApart
  <2> QED BY <2>4
<1>3. F \in Steps(n, Nat)
  <2>1. ASSUME NEW p \in (1 .. n) \X Nat PROVE p[2] * 10 + DigitValue(fmt[i + p[1]]) \in Nat
    <3>1. i + p[1] \in i + 1 .. j - 1 OBVIOUS
    <3>2. DigitValue(fmt[i + p[1]]) \in Nat BY <1>2, <3>1
    <3> QED BY <3>2
  <2> QED BY <2>1 DEF Steps
<1>4. \A k \in 1 .. n, x \in Nat : F[<<k, x>>] = x * 10 + DigitValue(fmt[i + k]) OBVIOUS
<1> HIDE DEF F
<1>5. PICK f \in [0 .. n -> Nat] : Computed(f, n, 0, F) BY <1>1, <1>3, Recursion
<1> DEFINE h == [k \in i .. j - 1 |-> f[k - i]]
<1>6. Is(h)
  <2>1. ASSUME NEW k \in i .. j - 1
        PROVE  h[k] = IF k = i THEN 0 ELSE h[k - 1] * 10 + DigitValue(fmt[k])
    <3>1. CASE k = i
      <4>1. h[k] = f[0] BY <3>1
      <4> QED BY <1>5, <3>1, <4>1 DEF Computed
    <3>2. CASE k # i
      <4> DEFINE c == k - i
      <4>1. c \in 1 .. n /\ c - 1 \in 0 .. n /\ i + c = k /\ (k - 1) - i = c - 1
            /\ k - 1 \in i .. j - 1
        BY <3>2
      <4>2. h[k] = f[c] /\ h[k - 1] = f[c - 1] BY <4>1
      <4> HIDE DEF c, h
      <4>3. f[c] = F[<<c, f[c - 1]>>] BY <1>5, <4>1 DEF Computed
      <4>4. f[c - 1] \in Nat BY <1>5, <4>1
      <4>5. f[c] = f[c - 1] * 10 + DigitValue(fmt[k]) BY <1>4, <4>1, <4>3, <4>4
      <4> QED BY <3>2, <4>2, <4>5
    <3> QED BY <3>1, <3>2
  <2> QED BY <2>1
<1>7. WidthAt(fmt, i, j) = v[j - 1] BY DEF WidthAt
<1> HIDE DEF Is, h
<1>8. Is(v) BY <1>6
<1> HIDE DEF v
<1>9. v = [k \in i .. j - 1 |-> IF k = i THEN 0 ELSE v[k - 1] * 10 + DigitValue(fmt[k])]
  BY <1>8 DEF Is
<1> DEFINE Bad == {k \in i .. j - 1 : v[k] \notin Nat}
<1>10. ASSUME Bad # {} PROVE FALSE
  <2>1. Bad \subseteq Nat OBVIOUS
  <2>2. PICK x \in Bad : \A y \in Bad : x <= y
    <3> HIDE DEF Bad
    <3> QED BY <1>10, <2>1, Least
  <2>3. x \in i .. j - 1 /\ v[x] \notin Nat BY <2>2
  <2>4. x # i BY <1>9, <2>3
  <2>5. x \in i + 1 .. j - 1 /\ x - 1 \in i .. j - 1 /\ ~ (x <= x - 1) BY <2>3, <2>4
  <2>6. v[x - 1] \in Nat BY <2>2, <2>5
  <2>7. v[x] = v[x - 1] * 10 + DigitValue(fmt[x]) BY <1>9, <2>3, <2>4
  <2> QED BY <1>2, <2>3, <2>5, <2>6, <2>7
<1>11. j - 1 \in i .. j - 1 OBVIOUS
<1> QED BY <1>7, <1>10, <1>11

\* Behind a percent sign there is a letter: the end of the format, if nothing else.
LEMMA LetterIs ==
  ASSUME NEW fmt \in Seq(STRING), fmt # << >>, fmt[Len(fmt)] = Nul,
         NEW i \in 1 .. Len(fmt), fmt[i] = "%"
  PROVE  /\ LetterAt(fmt, i) \in i + 1 .. Len(fmt)
         /\ fmt[LetterAt(fmt, i)] \notin DecimalDigits
         /\ \A k \in i + 1 .. LetterAt(fmt, i) - 1 : fmt[k] \in DecimalDigits
<1> DEFINE T == {k \in i + 1 .. Len(fmt) : fmt[k] \notin DecimalDigits}
<1>1. Nul \notin DecimalDigits
  <2>1. DecimalDigits \subseteq Numerals BY DEF DecimalDigits, Numerals
  <2> QED BY <2>1, DigitsApart
<1>2. i # Len(fmt) BY DEF Nul
<1>3. Len(fmt) \in T BY <1>1, <1>2
<1>4. PICK x \in T : \A y \in T : x <= y
  <2>1. T \subseteq Nat /\ T # {} BY <1>3
  <2> HIDE DEF T
  <2> QED BY <2>1, Least
<1>5. x \in i + 1 .. Len(fmt) /\ fmt[x] \notin DecimalDigits BY <1>4
<1>6. \A k \in i + 1 .. x - 1 : fmt[k] \in DecimalDigits
  <2> SUFFICES ASSUME NEW k \in i + 1 .. x - 1, fmt[k] \notin DecimalDigits PROVE FALSE OBVIOUS
  <2>1. k \in i + 1 .. Len(fmt) /\ ~ (x <= k) BY <1>5
  <2>2. k \in T BY <2>1
  <2> QED BY <1>4, <2>1, <2>2
<1> QED BY <1>5, <1>6 DEF LetterAt
\* Where the loop is: the place in the format and the next argument; where it
\* ends, what it finds there, and where it goes on.
Points(fmt) == (1 .. Len(fmt) + 1) \X Nat
Halts(fmt, p) == p[1] > Len(fmt) \/ fmt[p[1]] = Nul
ItemAt(fmt, args, p) ==
  IF fmt[p[1]] # "%" THEN [kind |-> "text", ch |-> fmt[p[1]]]
  ELSE LET j == LetterAt(fmt, p[1])
       IN  [kind |-> "directive", ch |-> fmt[j], width |-> WidthAt(fmt, p[1], j),
            arg |-> IF fmt[j] \in Consuming THEN args[p[2]] ELSE Nul]
After(fmt, p) ==
  IF fmt[p[1]] # "%" THEN <<p[1] + 1, p[2]>>
  ELSE LET j == LetterAt(fmt, p[1])
       IN  <<j + 1, IF fmt[j] \in Consuming THEN p[2] + 1 ELSE p[2]>>
ItemsOf(args) ==
  [kind : {"text"}, ch : STRING] \cup
  [kind : {"directive"}, ch : STRING, width : Nat, arg : {args[n] : n \in Nat} \cup {Nul}]
Terminated(fmt) == fmt \in Seq(STRING) /\ fmt # << >> /\ fmt[Len(fmt)] = Nul

\* The loop goes forward, and finds an item at every point.
LEMMA LoopAdvances ==
  ASSUME NEW fmt, NEW args, Terminated(fmt), NEW p \in Points(fmt), ~ Halts(fmt, p)
  PROVE  /\ ItemAt(fmt, args, p) \in ItemsOf(args)
         /\ After(fmt, p) \in Points(fmt) /\ After(fmt, p)[1] > p[1]
<1>1. PICK i \in 1 .. Len(fmt) + 1, n \in Nat : p = <<i, n>> BY DEF Points
<1>2. i \in 1 .. Len(fmt) /\ fmt \in Seq(STRING) /\ fmt[i] \in STRING /\ Len(fmt) \in Nat
  BY <1>1 DEF Terminated, Halts
<1>3. CASE fmt[i] # "%"
  <2>1. ItemAt(fmt, args, p) = [kind |-> "text", ch |-> fmt[i]] BY <1>1, <1>3 DEF ItemAt
  <2>2. After(fmt, p) = <<i + 1, n>> BY <1>1, <1>3 DEF After
  <2> QED BY <1>1, <1>2, <2>1, <2>2 DEF ItemsOf, Points
<1>4. CASE fmt[i] = "%"
  <2> DEFINE j == LetterAt(fmt, i)
  <2>1. j \in i + 1 .. Len(fmt) /\ \A k \in i + 1 .. j - 1 : fmt[k] \in DecimalDigits
    BY <1>2, <1>4, LetterIs DEF Terminated
  <2> HIDE DEF j
  <2>2. WidthAt(fmt, i, j) \in Nat BY <1>2, <2>1, WidthIs
  <2>3. ItemAt(fmt, args, p) =
          [kind |-> "directive", ch |-> fmt[j], width |-> WidthAt(fmt, i, j),
           arg |-> IF fmt[j] \in Consuming THEN args[n] ELSE Nul]
    BY <1>1, <1>4 DEF ItemAt, j
  <2>4. After(fmt, p) = <<j + 1, IF fmt[j] \in Consuming THEN n + 1 ELSE n>>
    BY <1>1, <1>4 DEF After, j
  <2>5. fmt[j] \in STRING BY <1>2, <2>1
  <2>6. (IF fmt[j] \in Consuming THEN args[n] ELSE Nul) \in {args[m] : m \in Nat} \cup {Nul}
    OBVIOUS
  <2>7. ItemAt(fmt, args, p) \in ItemsOf(args) BY <2>2, <2>3, <2>5, <2>6 DEF ItemsOf
  <2>8. After(fmt, p) \in Points(fmt) /\ After(fmt, p)[1] > i BY <1>2, <2>1, <2>4 DEF Points
  <2> QED BY <1>1, <2>7, <2>8
<1> QED BY <1>3, <1>4

\* A function that lists the items from every point from a place on.
Lists(f, fmt, args, lo) ==
  \A p \in Points(fmt) :
    p[1] >= lo => f[p] = IF Halts(fmt, p) THEN << >>
                         ELSE << ItemAt(fmt, args, p) >> \o f[After(fmt, p)]
\* There is one, and every such function lists items.
LEMMA ListsExist ==
  ASSUME NEW fmt, NEW args, Terminated(fmt)
  PROVE  /\ \E f \in [Points(fmt) -> Seq(ItemsOf(args))] : Lists(f, fmt, args, 1)
         /\ \A f : Lists(f, fmt, args, 1) => \A p \in Points(fmt) : f[p] \in Seq(ItemsOf(args))
<1> DEFINE P == Points(fmt)  L == Len(fmt)  T == ItemsOf(args)
           Good(k) == \E f \in [P -> Seq(T)] : Lists(f, fmt, args, (L + 1) - k)
           Bad == {k \in 0 .. L : ~ Good(k)}
<1>1. L \in Nat \ {0} BY DEF Terminated
<1>2. \A p \in P : p[1] \in 1 .. L + 1 BY DEF Points
<1>3. \A p \in P : ~ Halts(fmt, p) =>
        /\ ItemAt(fmt, args, p) \in T /\ After(fmt, p) \in P /\ After(fmt, p)[1] > p[1]
  BY LoopAdvances
<1> HIDE DEF P, T
<1>4. \A p \in P, s \in Seq(T) : ~ Halts(fmt, p) => << ItemAt(fmt, args, p) >> \o s \in Seq(T)
  <2> SUFFICES ASSUME NEW p \in P, NEW s \in Seq(T), ~ Halts(fmt, p)
               PROVE  << ItemAt(fmt, args, p) >> \o s \in Seq(T)
    OBVIOUS
  <2>1. ItemAt(fmt, args, p) \in T BY <1>3
  <2>2. << ItemAt(fmt, args, p) >> \in Seq(T) BY <2>1
  <2> QED BY <2>2, ConcatProperties
<1>5. Good(0)
  <2> DEFINE f == [p \in P |-> << >>]
  <2>1. f \in [P -> Seq(T)] OBVIOUS
  <2>2. \A p \in P : p[1] >= (L + 1) - 0 => Halts(fmt, p) BY <1>1, <1>2 DEF Halts
  <2>3. Lists(f, fmt, args, (L + 1) - 0) BY <2>2 DEF Lists, P
  <2> QED BY <2>1, <2>3
<1>6. ASSUME NEW k \in 0 .. L - 1, Good(k) PROVE Good(k + 1)
  <2> DEFINE lo == (L + 1) - (k + 1)
  <2>1. lo \in 1 .. L /\ (L + 1) - k = lo + 1 BY <1>1
  <2> HIDE DEF lo
  <2>2. PICK f \in [P -> Seq(T)] : Lists(f, fmt, args, lo + 1) BY <1>6, <2>1
  <2> DEFINE g == [p \in P |-> IF p[1] # lo THEN f[p]
                               ELSE IF Halts(fmt, p) THEN << >>
                               ELSE << ItemAt(fmt, args, p) >> \o f[After(fmt, p)]]
  <2>3. g \in [P -> Seq(T)] BY <1>3, <1>4
  <2>4. \A p \in P : g[p] = IF p[1] # lo THEN f[p]
                            ELSE IF Halts(fmt, p) THEN << >>
                            ELSE << ItemAt(fmt, args, p) >> \o f[After(fmt, p)]
    OBVIOUS
  <2> HIDE DEF g
  <2>5. ASSUME NEW p \in P, p[1] >= lo
        PROVE  g[p] = IF Halts(fmt, p) THEN << >>
                      ELSE << ItemAt(fmt, args, p) >> \o g[After(fmt, p)]
    <3>1. CASE Halts(fmt, p)
      <4>1. p[1] = lo \/ p[1] >= lo + 1 BY <1>2, <2>1, <2>5
      <4>2. f[p] = << >> \/ p[1] = lo BY <2>2, <3>1, <4>1 DEF Lists, P
      <4> QED BY <2>4, <3>1, <4>2
    <3>2. CASE ~ Halts(fmt, p)
      <4> DEFINE q == After(fmt, p)
      <4>1. q \in P /\ q[1] > p[1] BY <1>3, <3>2
      <4> HIDE DEF q
      <4>2. q[1] # lo BY <1>2, <2>1, <2>5, <4>1
      <4>3. g[q] = f[q] BY <2>4, <4>1, <4>2
      <4>4. CASE p[1] = lo BY <2>4, <3>2, <4>3, <4>4 DEF q
      <4>5. CASE p[1] # lo
        <5>1. p[1] >= lo + 1 BY <1>2, <2>1, <2>5, <4>5
        <5>2. f[p] = << ItemAt(fmt, args, p) >> \o f[q] BY <2>2, <3>2, <5>1 DEF Lists, P, q
        <5>3. g[p] = f[p] BY <2>4, <4>5
        <5> QED BY <3>2, <4>3, <5>2, <5>3 DEF q
      <4> QED BY <4>4, <4>5
    <3> QED BY <3>1, <3>2
  <2>6. Lists(g, fmt, args, lo) BY <2>5 DEF Lists, P
  <2> QED BY <2>3, <2>6 DEF lo
<1>7. ASSUME Bad # {} PROVE FALSE
  <2>1. Bad \subseteq Nat OBVIOUS
  <2> HIDE DEF Good
  <2>2. PICK x \in Bad : \A y \in Bad : x <= y
    <3> HIDE DEF Bad
    <3> QED BY <1>7, <2>1, Least
  <2>3. x # 0 /\ x \in 0 .. L BY <1>5, <2>2
  <2>4. x - 1 \in 0 .. L - 1 /\ (x - 1) + 1 = x /\ x - 1 \in 0 .. L BY <1>1, <2>3
  <2>5. Good(x - 1) BY <2>2, <2>4
  <2> QED BY <1>6, <2>2, <2>4, <2>5
<1>8. \E f \in [P -> Seq(T)] : Lists(f, fmt, args, 1)
  <2> HIDE DEF Good
  <2>1. L \in 0 .. L /\ (L + 1) - L = 1 BY <1>1
  <2>2. Good(L) BY <1>7, <2>1
  <2> QED BY <2>1, <2>2 DEF Good
<1>9. ASSUME NEW f, Lists(f, fmt, args, 1), NEW p0 \in P PROVE f[p0] \in Seq(T)
  <2> DEFINE Wrong == {k \in 0 .. L : \E p \in P : p[1] = (L + 1) - k /\ f[p] \notin Seq(T)}
  <2>1. ASSUME Wrong # {} PROVE FALSE
    <3>1. Wrong \subseteq Nat OBVIOUS
    <3>2. PICK x \in Wrong : \A y \in Wrong : x <= y
      <4> HIDE DEF Wrong
      <4> QED BY <2>1, <3>1, Least
    <3>3. PICK p \in P : p[1] = (L + 1) - x /\ f[p] \notin Seq(T) BY <3>2
    <3>4. x \in 0 .. L BY <3>2
    <3>5. f[p] = IF Halts(fmt, p) THEN << >>
                 ELSE << ItemAt(fmt, args, p) >> \o f[After(fmt, p)]
      BY <1>2, <1>9 DEF Lists, P
    <3>6. ~ Halts(fmt, p) BY <3>3, <3>5
    <3> DEFINE q == After(fmt, p)  y == (L + 1) - q[1]
    <3>7. q \in P /\ q[1] > p[1] BY <1>3, <3>6
    <3>8. y \in 0 .. L /\ q[1] = (L + 1) - y /\ ~ (x <= y)
      <4> HIDE DEF q
      <4>1. q[1] \in 1 .. L + 1 BY <1>2, <3>7
      <4> QED BY <1>1, <3>3, <3>4, <3>7, <4>1
    <3> HIDE DEF q, y
    <3>9. y \notin Wrong
      <4> HIDE DEF Wrong
      <4> QED BY <3>2, <3>8
    <3>10. f[q] \in Seq(T) BY <3>7, <3>8, <3>9
    <3> QED BY <1>4, <3>3, <3>5, <3>6, <3>10 DEF q
  <2> DEFINE k == (L + 1) - p0[1]
  <2>2. k \in 0 .. L /\ p0[1] = (L + 1) - k
    <3>1. p0[1] \in 1 .. L + 1 BY <1>2, <1>9
    <3> QED BY <1>1, <3>1
  <2>3. k \notin Wrong
    <3> HIDE DEF Wrong
    <3> QED BY <2>1
  <2> HIDE DEF k
  <2> QED BY <1>9, <2>2, <2>3
<1> QED BY <1>8, <1>9 DEF P, T

\* Items is one of them, from the first point on.
LEMMA ItemsAre ==
  ASSUME NEW fmt, NEW args, Terminated(fmt)
  PROVE  \E f : /\ Lists(f, fmt, args, 1) /\ Items(fmt, args) = f[<<1, 1>>]
                /\ \A p \in Points(fmt) : f[p] \in Seq(ItemsOf(args))
                /\ <<1, 1>> \in Points(fmt)
<1> DEFINE Body(f, p) ==
             LET i == p[1]
                 n == p[2]
             IN  IF i > Len(fmt) \/ fmt[i] = Nul THEN << >>
                 ELSE IF fmt[i] # "%"
                 THEN << [kind |-> "text", ch |-> fmt[i]] >> \o f[<<i + 1, n>>]
                 ELSE LET j == LetterAt(fmt, i)
                          takes == fmt[j] \in Consuming
                      IN  << [kind |-> "directive", ch |-> fmt[j],
                              width |-> WidthAt(fmt, i, j),
                              arg |-> IF takes THEN args[n] ELSE Nul] >>
                          \o f[<<j + 1, IF takes THEN n + 1 ELSE n>>]
           Is(f) == f = [p \in (1 .. Len(fmt) + 1) \X Nat |-> Body(f, p)]
           g == CHOOSE f : Is(f)
<1>1. Items(fmt, args) = g[<<1, 1>>] BY DEF Items
<1>2. \A f, p : Body(f, p) = IF Halts(fmt, p) THEN << >>
                             ELSE << ItemAt(fmt, args, p) >> \o f[After(fmt, p)]
  <2> SUFFICES ASSUME NEW f, NEW p
               PROVE  Body(f, p) = IF Halts(fmt, p) THEN << >>
                                   ELSE << ItemAt(fmt, args, p) >> \o f[After(fmt, p)]
    OBVIOUS
  <2>1. CASE Halts(fmt, p) BY <2>1 DEF Halts
  <2>2. CASE ~ Halts(fmt, p) /\ fmt[p[1]] # "%" BY <2>2 DEF Halts, ItemAt, After
  <2>3. CASE ~ Halts(fmt, p) /\ fmt[p[1]] = "%" BY <2>3 DEF Halts, ItemAt, After
  <2> QED BY <2>1, <2>2, <2>3
<1> HIDE DEF Body
<1>3. \E f : Is(f)
  <2>1. PICK f \in [Points(fmt) -> Seq(ItemsOf(args))] : Lists(f, fmt, args, 1)
    BY ListsExist
  <2>2. \A p \in Points(fmt) : p[1] >= 1 BY DEF Points, Terminated
  <2>3. \A p \in Points(fmt) : f[p] = Body(f, p) BY <1>2, <2>1, <2>2 DEF Lists
  <2>4. f = [p \in Points(fmt) |-> f[p]] OBVIOUS
  <2>5. f = [p \in Points(fmt) |-> Body(f, p)] BY <2>3, <2>4
  <2> QED BY <2>5 DEF Points
<1> HIDE DEF Is
<1>4. Is(g) BY <1>3
<1> HIDE DEF g
<1>5. \A p \in Points(fmt) : g[p] = Body(g, p) BY <1>4 DEF Is, Points
<1>6. Lists(g, fmt, args, 1) BY <1>2, <1>5 DEF Lists
<1>7. <<1, 1>> \in Points(fmt)
  <2>1. Len(fmt) \in Nat BY DEF Terminated
  <2> QED BY <2>1 DEF Points
<1> QED BY <1>1, <1>6, <1>7, ListsExist
-----------------------------------------------------------------------------
(* What printf shows is what sprintf stores (stdio.c). *)

Chars == STRING \cup Numerals \cup {" ", "-", "0", "x", "%"}
Printed == {Shown(c) : c \in Chars} \cup {NewLine}
Agree(s, t) ==
  /\ s \in Seq(Printed) /\ t \in Seq(Chars) /\ Len(s) = Len(t)
  /\ \A k \in 1 .. Len(t) : Glyph(s[k]) = Plain(t[k])

\* A string on the screen agrees with the string, line ends obeyed or not.
LEMMA ScreenAgrees ==
  ASSUME NEW s \in Seq(Chars)
  PROVE  Agree(Show(s), s) /\ Agree(Put(s), s)
<1>1. DOMAIN s = 1 .. Len(s) /\ Len(s) \in Nat OBVIOUS
<1>2. \A k \in 1 .. Len(s) : s[k] \in Chars OBVIOUS
<1>3. \A c : Shown(c) # NewLine /\ Shown(c)[2] = c
  <2> SUFFICES ASSUME NEW c PROVE <<"put", c>> # <<"newline">> BY DEF Shown, NewLine
  <2>1. Len(<<"put", c>>) = 2 /\ Len(<<"newline">>) = 1 OBVIOUS
  <2> QED BY <2>1
<1>4. \A c : Glyph(Shown(c)) = Plain(c) BY <1>3 DEF Glyph, Plain
<1>5. \A c \in LineEnds : Glyph(NewLine) = Plain(c) BY DEF Glyph, Plain
<1>6. Show(s) \in [1 .. Len(s) -> Printed]
      /\ \A k \in 1 .. Len(s) : Glyph(Show(s)[k]) = Plain(s[k])
  <2>1. \A k \in 1 .. Len(s) :
           Show(s)[k] = IF s[k] \in LineEnds THEN NewLine ELSE Shown(s[k])
    BY <1>1 DEF Show
  <2>2. \A k \in 1 .. Len(s) : Show(s)[k] \in Printed BY <1>2, <2>1 DEF Printed
  <2>3. Show(s) = [k \in 1 .. Len(s) |-> Show(s)[k]] BY <1>1 DEF Show
  <2>4. \A k \in 1 .. Len(s) : Glyph(Show(s)[k]) = Plain(s[k]) BY <1>4, <1>5, <2>1
  <2> QED BY <2>2, <2>3, <2>4
<1>7. Put(s) \in [1 .. Len(s) -> Printed]
      /\ \A k \in 1 .. Len(s) : Glyph(Put(s)[k]) = Plain(s[k])
  <2>1. \A k \in 1 .. Len(s) : Put(s)[k] = Shown(s[k]) BY <1>1 DEF Put
  <2>2. \A k \in 1 .. Len(s) : Put(s)[k] \in Printed BY <1>2, <2>1 DEF Printed
  <2>3. Put(s) = [k \in 1 .. Len(s) |-> Put(s)[k]] BY <1>1 DEF Put
  <2>4. \A k \in 1 .. Len(s) : Glyph(Put(s)[k]) = Plain(s[k]) BY <1>4, <2>1
  <2> QED BY <2>2, <2>3, <2>4
<1> HIDE DEF Chars, Printed
<1>8. /\ Show(s) \in Seq(Printed) /\ Len(Show(s)) = Len(s)
      /\ Put(s) \in Seq(Printed) /\ Len(Put(s)) = Len(s)
  BY <1>1, <1>6, <1>7, FunctionIsSeq
<1> QED BY <1>6, <1>7, <1>8 DEF Agree

\* What itoa makes of a word is a string, and so are a word in its width and
\* a hexadecimal with its prefix.
LEMMA NumberIsString ==
  ASSUME NEW word \in 0 .. WordMod - 1, NEW base \in Bases
  PROVE  itoa(word, base) \in Seq(Chars) /\ <<"0", "x">> \o itoa(word, base) \in Seq(Chars)
<1>1. \A u \in Seq(Numerals) : u \in Seq(Chars)
  <2>1. Numerals \subseteq Chars BY DEF Chars
  <2> QED BY <2>1
<1>2. <<"-">> \in Seq(Chars) /\ <<"0", "x">> \in Seq(Chars) BY DEF Chars
<1>3. itoa(word, base) \in Seq(Chars)
  <2>1. Written(itoa(word, base), word, base) BY ItoaWrites
  <2>2. CASE base = 10 /\ AsInt(word) < 0
    <3>1. PICK u \in Seq(Numerals) : itoa(word, base) = <<"-">> \o u
      BY <2>1, <2>2 DEF Written, NumeralOf
    <3>2. u \in Seq(Chars) BY <1>1
    <3> QED BY <1>2, <3>1, <3>2, ConcatProperties
  <2>3. CASE ~ (base = 10 /\ AsInt(word) < 0)
    BY <1>1, <2>1, <2>3 DEF Written, NumeralOf
  <2> QED BY <2>2, <2>3
<1>4. <<"0", "x">> \o itoa(word, base) \in Seq(Chars) BY <1>2, <1>3, ConcatProperties
<1> QED BY <1>3, <1>4

\* A string in its width is a string.
LEMMA JustifiedIsString ==
  ASSUME NEW s \in Seq(Chars), NEW width \in Nat
  PROVE  Justify(s, width) \in Seq(Chars)
<1>1. Chars \cup {" "} = Chars BY DEF Chars
<1>2. \E b \in Nat : Justified(Justify(s, width), s, b, Chars) BY JustifyIs
<1> QED BY <1>1, <1>2 DEF Justified

\* An item whose argument is of the type its directive asks for.
ItemFits(it) ==
  /\ it.kind \in {"text", "directive"} /\ it.ch \in STRING
  /\ it.kind = "directive" =>
       /\ it.width \in Nat
       /\ it.ch \in Signed \cup Hexadecimal \cup {"o"} => it.arg \in 0 .. WordMod - 1
       /\ it.ch = "c" => it.arg \in STRING
       /\ it.ch = "s" => it.arg \in Seq(STRING)
\* The two copies of the loop do the same with it.
LEMMA ItemAgrees ==
  ASSUME NEW it, ItemFits(it)
  PROVE  Agree(PrintItem(it), StoreItem(it))
<1> DEFINE S == STRING
<1>0. S \subseteq Chars /\ "%" \in Chars BY DEF Chars
<1> HIDE DEF S
<1>1. \A c \in S : <<c>> \in Seq(Chars) /\ <<"%", c>> \in Seq(Chars) BY <1>0
<1>4. \A s \in Seq(S) : s \in Seq(Chars) BY <1>0
<1>2. CASE it.kind = "text"
  <2>1. PrintItem(it) = Show(<<it.ch>>) /\ StoreItem(it) = <<it.ch>>
    BY <1>2 DEF PrintItem, StoreItem
  <2> QED BY <1>1, <2>1, ScreenAgrees DEF ItemFits, S
<1>3. CASE it.kind # "text" /\ it.kind = "directive"
  <2>1. /\ it.width \in Nat /\ it.ch \in STRING
        /\ it.ch \in Signed \cup Hexadecimal \cup {"o"} => it.arg \in 0 .. WordMod - 1
        /\ it.ch = "c" => it.arg \in STRING
        /\ it.ch = "s" => it.arg \in Seq(STRING)
    BY <1>3 DEF ItemFits
  <2>2. 8 \in Bases /\ 10 \in Bases /\ 16 \in Bases BY DEF Bases
  <2>3. CASE it.ch = "c"
    <3>1. PrintItem(it) = Show(<<it.arg>>) /\ StoreItem(it) = <<it.arg>>
      BY <1>3, <2>3 DEF PrintItem, StoreItem, Signed, Hexadecimal
    <3> QED BY <1>1, <2>1, <2>3, <3>1, ScreenAgrees DEF S
  <2>4. CASE it.ch = "s"
    <3> DEFINE s == TextOf(it.arg)
    <3>1. PrintItem(it) = Show(Justify(s, it.width)) /\ StoreItem(it) = Justify(s, it.width)
      BY <1>3, <2>4 DEF PrintItem, StoreItem, Signed, Hexadecimal
    <3>2. s \in Seq(Chars)
      <4>1. it.arg \in Seq(Chars) BY <1>4, <2>1, <2>4 DEF S
      <4> QED BY <4>1 DEF TextOf
    <3> HIDE DEF s
    <3> QED BY <2>1, <3>1, <3>2, ScreenAgrees, JustifiedIsString
  <2>5. CASE it.ch \in Signed
    <3>1. /\ PrintItem(it) = Put(Justify(itoa(it.arg, 10), it.width))
          /\ StoreItem(it) = Justify(itoa(it.arg, 10), it.width)
      BY <1>3, <2>5 DEF PrintItem, StoreItem, Signed, Hexadecimal
    <3>2. itoa(it.arg, 10) \in Seq(Chars) BY <2>1, <2>2, <2>5, NumberIsString
    <3> QED BY <2>1, <3>1, <3>2, ScreenAgrees, JustifiedIsString
  <2>6. CASE it.ch \in Hexadecimal
    <3>1. /\ PrintItem(it) = Put(<<"0", "x">> \o itoa(it.arg, 16))
          /\ StoreItem(it) = <<"0", "x">> \o itoa(it.arg, 16)
      BY <1>3, <2>6 DEF PrintItem, StoreItem, Signed, Hexadecimal
    <3> QED BY <2>1, <2>2, <2>6, <3>1, NumberIsString, ScreenAgrees
  <2>7. CASE it.ch = "o"
    <3>1. PrintItem(it) = Put(itoa(it.arg, 8)) /\ StoreItem(it) = itoa(it.arg, 8)
      BY <1>3, <2>7 DEF PrintItem, StoreItem, Signed, Hexadecimal
    <3> QED BY <2>1, <2>2, <2>7, <3>1, NumberIsString, ScreenAgrees
  <2>8. CASE it.ch = "%"
    <3>1. PrintItem(it) = Put(<<"%">>) /\ StoreItem(it) = <<"%">>
      BY <1>3, <2>8 DEF PrintItem, StoreItem, Signed, Hexadecimal
    <3>2. <<"%">> \in Seq(Chars) BY DEF Chars
    <3> QED BY <3>1, <3>2, ScreenAgrees
  <2>9. CASE /\ it.ch # "c" /\ it.ch # "s" /\ it.ch # "o" /\ it.ch # "%"
             /\ it.ch \notin Signed /\ it.ch \notin Hexadecimal
    <3>1. PrintItem(it) = Put(<<"%", it.ch>>) /\ StoreItem(it) = <<"%", it.ch>>
      BY <1>3, <2>9 DEF PrintItem, StoreItem
    <3>2. <<"%", it.ch>> \in Seq(Chars) BY <1>1, <2>1 DEF S
    <3> QED BY <3>1, <3>2, ScreenAgrees
  <2> QED BY <2>3, <2>4, <2>5, <2>6, <2>7, <2>8, <2>9
<1> QED BY <1>2, <1>3 DEF ItemFits
\* The sequences of a sequence, one behind the other, up to each of them.
Flattening(f, seqs, X) ==
  /\ f \in [0 .. Len(seqs) -> Seq(X)] /\ f[0] = << >>
  /\ \A k \in 1 .. Len(seqs) : f[k] = f[k - 1] \o seqs[k]
  /\ FlattenSeq(seqs) = f[Len(seqs)]
\* There is a function of the parts made so far.
LEMMA Flattens ==
  ASSUME NEW X, NEW seqs \in Seq(Seq(X))
  PROVE  \E f : Flattening(f, seqs, X)
<1> DEFINE n == Len(seqs)
           Is(g) == g = [i \in 1 .. n |-> IF i = 1 THEN seqs[i] ELSE g[i - 1] \o seqs[i]]
           g == CHOOSE g : Is(g)
           F == [p \in (1 .. n) \X Seq(X) |-> p[2] \o seqs[p[1]]]
           e == << >>
<1>1. n \in Nat /\ \A k \in 1 .. n : seqs[k] \in Seq(X) OBVIOUS
<1>2. F \in Steps(n, Seq(X))
  <2>1. \A p \in (1 .. n) \X Seq(X) : p[2] \o seqs[p[1]] \in Seq(X)
    <3>1. ASSUME NEW k \in 1 .. n, NEW s \in Seq(X) PROVE s \o seqs[k] \in Seq(X)
      BY <1>1, ConcatProperties
    <3> QED BY <3>1
  <2> QED BY <2>1 DEF Steps
<1>3. \A k \in 1 .. n, s \in Seq(X) : F[<<k, s>>] = s \o seqs[k] OBVIOUS
<1>4. e \in Seq(X) /\ \A s \in Seq(X) : e \o s = s
  <2>1. e \in Seq(X) OBVIOUS
  <2> QED BY <2>1, ConcatEmptySeq
<1> HIDE DEF F, e
<1>5. PICK f \in [0 .. n -> Seq(X)] : Computed(f, n, e, F)
  <2> HIDE DEF n
  <2> QED BY <1>1, <1>2, <1>4, Recursion
<1>6. f[0] = e /\ \A k \in 1 .. n : f[k] = f[k - 1] \o seqs[k]
  <2>1. ASSUME NEW k \in 1 .. n PROVE f[k] = f[k - 1] \o seqs[k]
    <3>1. k - 1 \in 0 .. n BY <1>1
    <3>2. f[k - 1] \in Seq(X) BY <1>5, <3>1
    <3>3. f[k] = F[<<k, f[k - 1]>>] BY <1>5 DEF Computed
    <3> QED BY <1>3, <3>2, <3>3
  <2> QED BY <1>5, <2>1 DEF Computed
<1>7. FlattenSeq(seqs) = f[n]
  <2>1. CASE n = 0
    <3>1. FlattenSeq(seqs) = seqs BY <2>1 DEF FlattenSeq
    <3>2. seqs = << >> BY <2>1
    <3> QED BY <1>6, <2>1, <3>1, <3>2 DEF e
  <2>2. CASE n # 0
    <3> DEFINE h == [i \in 1 .. n |-> f[i]]
    <3>1. \A i \in 1 .. n : h[i] = IF i = 1 THEN seqs[i] ELSE h[i - 1] \o seqs[i]
      <4>1. ASSUME NEW i \in 1 .. n PROVE h[i] = IF i = 1 THEN seqs[i] ELSE h[i - 1] \o seqs[i]
        <5>1. CASE i = 1
          <6>1. i - 1 = 0 BY <5>1
          <6>2. f[i] = e \o seqs[i] BY <1>6, <6>1
          <6> QED BY <1>1, <1>4, <5>1, <6>2
        <5>2. CASE i # 1
          <6>1. i - 1 \in 1 .. n BY <1>1, <5>2
          <6> QED BY <1>6, <5>2, <6>1
        <5> QED BY <5>1, <5>2
      <4> QED BY <4>1
    <3>2. Is(h) BY <3>1
    <3> HIDE DEF Is, h
    <3>3. Is(g) BY <3>2
    <3> HIDE DEF g
    <3>4. \A i \in 1 .. n : g[i] = IF i = 1 THEN seqs[i] ELSE g[i - 1] \o seqs[i]
      <4>1. g = [i \in 1 .. n |-> IF i = 1 THEN seqs[i] ELSE g[i - 1] \o seqs[i]]
        BY <3>3 DEF Is
      <4> QED BY <4>1
    <3>5. \A i \in 1 .. n : h[i] = IF i = 1 THEN seqs[i] ELSE h[i - 1] \o seqs[i]
      BY <3>1
    <3> DEFINE Bad == {i \in 1 .. n : g[i] # h[i]}
    <3>6. ASSUME Bad # {} PROVE FALSE
      <4>1. Bad \subseteq Nat OBVIOUS
      <4>2. PICK x \in Bad : \A y \in Bad : x <= y
        <5> HIDE DEF Bad
        <5> QED BY <3>6, <4>1, Least
      <4>3. x \in 1 .. n /\ g[x] # h[x] BY <4>2
      <4>4. x # 1 BY <3>4, <3>5, <4>3
      <4>5. x - 1 \in 1 .. n /\ ~ (x <= x - 1) BY <1>1, <4>3, <4>4
      <4>6. g[x - 1] = h[x - 1] BY <4>2, <4>5
      <4> QED BY <3>4, <3>5, <4>3, <4>4, <4>6
    <3>7. g[n] = f[n]
      <4>1. n \in 1 .. n BY <1>1, <2>2
      <4> QED BY <3>6, <4>1 DEF h
    <3>8. FlattenSeq(seqs) = g[n] BY <2>2 DEF FlattenSeq, g, Is
    <3> QED BY <3>7, <3>8
  <2> QED BY <2>1, <2>2
<1> QED BY <1>5, <1>6, <1>7 DEF Flattening, e

\* Strings that agree one by one agree as a whole.
LEMMA WholeAgrees ==
  ASSUME NEW n \in Nat, NEW shown, NEW stored,
         shown = [k \in 1 .. n |-> shown[k]], stored = [k \in 1 .. n |-> stored[k]],
         \A k \in 1 .. n : Agree(shown[k], stored[k])
  PROVE  Agree(FlattenSeq(shown), FlattenSeq(stored))
<1>1. /\ \A k \in 1 .. n : shown[k] \in Seq(Printed)
      /\ \A k \in 1 .. n : stored[k] \in Seq(Chars)
  BY DEF Agree
<1> HIDE DEF Printed, Chars
<1>2. shown \in [1 .. n -> Seq(Printed)] /\ stored \in [1 .. n -> Seq(Chars)]
  BY <1>1
<1>3. /\ shown \in Seq(Seq(Printed)) /\ Len(shown) = n
      /\ stored \in Seq(Seq(Chars)) /\ Len(stored) = n
  BY <1>2, FunctionIsSeq
<1>4. PICK f : Flattening(f, shown, Printed) BY <1>3, Flattens
<1>5. PICK g : Flattening(g, stored, Chars) BY <1>3, Flattens
<1>6. /\ f[0] = << >> /\ FlattenSeq(shown) = f[n]
      /\ \A k \in 1 .. n : f[k] = f[k - 1] \o shown[k]
  BY <1>3, <1>4 DEF Flattening
<1>7. /\ g[0] = << >> /\ FlattenSeq(stored) = g[n]
      /\ \A k \in 1 .. n : g[k] = g[k - 1] \o stored[k]
  BY <1>3, <1>5 DEF Flattening
<1> DEFINE Bad == {k \in 0 .. n : ~ Agree(f[k], g[k])}
<1>8. ASSUME Bad # {} PROVE FALSE
  <2>1. Bad \subseteq Nat OBVIOUS
  <2>2. PICK x \in Bad : \A y \in Bad : x <= y
    <3> HIDE DEF Bad
    <3> QED BY <1>8, <2>1, Least
  <2>3. x \in 0 .. n /\ ~ Agree(f[x], g[x]) BY <2>2
  <2>4. x # 0
    <3>1. << >> \in Seq(Printed) /\ << >> \in Seq(Chars) /\ Len(<< >>) = 0 OBVIOUS
    <3>2. Agree(<< >>, << >>) BY <3>1 DEF Agree
    <3> QED BY <1>6, <1>7, <2>3, <3>2
  <2>5. x \in 1 .. n /\ x - 1 \in 0 .. n /\ ~ (x <= x - 1) BY <2>3, <2>4
  <2> DEFINE a == f[x - 1]  b == g[x - 1]  c == shown[x]  d == stored[x]
  <2>6. Agree(a, b) BY <2>2, <2>5
  <2>7. Agree(c, d) BY <2>5
  <2>8. f[x] = a \o c /\ g[x] = b \o d BY <1>6, <1>7, <2>5
  <2> HIDE DEF a, b, c, d, Bad
  <2>9. /\ a \in Seq(Printed) /\ b \in Seq(Chars) /\ Len(a) = Len(b) /\ Len(b) \in Nat
        /\ c \in Seq(Printed) /\ d \in Seq(Chars) /\ Len(c) = Len(d) /\ Len(d) \in Nat
        /\ \A k \in 1 .. Len(b) : Glyph(a[k]) = Plain(b[k])
        /\ \A k \in 1 .. Len(d) : Glyph(c[k]) = Plain(d[k])
    BY <2>6, <2>7 DEF Agree
  <2>10. Joined(a, c, Printed) /\ Joined(b, d, Chars) BY <2>9, ConcatIs
  <2>11. ASSUME NEW k \in 1 .. Len(b \o d)
         PROVE  Glyph((a \o c)[k]) = Plain((b \o d)[k])
    <3>1. k \in 1 .. Len(b) + Len(d) BY <2>10 DEF Joined
    <3>2. CASE k \in 1 .. Len(b)
      <4>1. (a \o c)[k] = a[k] /\ (b \o d)[k] = b[k] BY <2>9, <2>10, <3>2 DEF Joined
      <4> QED BY <2>9, <3>2, <4>1
    <3>3. CASE k \notin 1 .. Len(b)
      <4>1. PICK i \in 1 .. Len(d) : k = Len(b) + i
        <5>1. k - Len(b) \in 1 .. Len(d) /\ k = Len(b) + (k - Len(b)) BY <2>9, <3>1, <3>3
        <5> QED BY <5>1
      <4>2. (a \o c)[k] = c[i] /\ (b \o d)[k] = d[i] BY <2>9, <2>10, <4>1 DEF Joined
      <4> QED BY <2>9, <4>2
    <3> QED BY <3>2, <3>3
  <2>12. Agree(a \o c, b \o d) BY <2>9, <2>10, <2>11 DEF Agree, Joined
  <2> QED BY <2>3, <2>8, <2>12
<1>9. n \in 0 .. n OBVIOUS
<1> QED BY <1>6, <1>7, <1>8, <1>9

\* What a format that fits its arguments has for items.
LEMMA ItemsFit ==
  ASSUME NEW fmt, NEW args, FormatFits(fmt, args)
  PROVE  /\ Terminated(fmt) /\ Items(fmt, args) \in Seq(ItemsOf(args))
         /\ \A k \in 1 .. Len(Items(fmt, args)) : ItemFits(Items(fmt, args)[k])
<1>1. Terminated(fmt) BY DEF FormatFits, Terminated, Last
<1>2. Items(fmt, args) \in Seq(ItemsOf(args)) BY <1>1, ItemsAre
<1>3. ASSUME NEW k \in 1 .. Len(Items(fmt, args)) PROVE ItemFits(Items(fmt, args)[k])
  <2> DEFINE it == Items(fmt, args)[k]
  <2>1. it \in ItemsOf(args) /\ k \in DOMAIN Items(fmt, args) BY <1>2
  <2>2. it.kind = "directive" =>
          /\ it.ch \in Signed \cup Hexadecimal \cup {"o"} => it.arg \in 0 .. WordMod - 1
          /\ it.ch = "c" => it.arg \in STRING
          /\ it.ch = "s" => it.arg \in Seq(STRING)
    BY <2>1 DEF FormatFits
  <2> HIDE DEF it
  <2>3. it.kind \in {"text", "directive"} /\ it.ch \in STRING
        /\ (it.kind = "directive" => it.width \in Nat)
    BY <2>1 DEF ItemsOf
  <2> QED BY <2>2, <2>3 DEF ItemFits, it
<1> QED BY <1>1, <1>2, <1>3

\* printf and sprintf do the same with a format that fits its arguments.
LEMMA FormatAgrees ==
  ASSUME NEW fmt, NEW args, FormatFits(fmt, args)
  PROVE  Agree(printf(fmt, args), sprintf(fmt, args))
<1> DEFINE items == Items(fmt, args)  n == Len(items)
           shown == [k \in 1 .. n |-> PrintItem(items[k])]
           stored == [k \in 1 .. n |-> StoreItem(items[k])]
<1>1. /\ n \in Nat /\ DOMAIN items = 1 .. n
      /\ \A k \in 1 .. n : ItemFits(items[k])
  BY ItemsFit
<1>2. printf(fmt, args) = FlattenSeq(shown) /\ sprintf(fmt, args) = FlattenSeq(stored)
  BY <1>1 DEF printf, sprintf, Each
<1> HIDE DEF items, n
<1>3. \A k \in 1 .. n : Agree(shown[k], stored[k]) BY <1>1, ItemAgrees
<1>4. shown = [k \in 1 .. n |-> shown[k]] /\ stored = [k \in 1 .. n |-> stored[k]] OBVIOUS
<1> HIDE DEF shown, stored
<1> QED BY <1>1, <1>2, <1>3, <1>4, WholeAgrees

\* printf shows what sprintf stores, for every format and all arguments that
\* fit it (stdio.c, printf and sprintf).
THEOREM FormatsDoAgree == LibcSpec => FormatsAgree
<1> DEFINE A == Ran({"printf"}) =>
                  LET stored == sprintf(call[2], call[3])
                  IN  /\ Len(ret') = Len(stored)
                      /\ \A k \in DOMAIN stored : Glyph(ret'[k]) = Plain(stored[k])
<1>1. LibcInv /\ [LibcNext]_libcVars => [A]_libcVars
  <2> SUFFICES ASSUME LibcInv, LibcNext, Ran({"printf"}) PROVE A OBVIOUS
  <2>1. Format BY DEF Ran, LibcNext, Begin, Write, Look, Tokenize, Routine, Idle
  <2>2. Called BY DEF Ran, Called, Idle, Done
  <2>3. InMemory(call) BY <2>2, LibcAssumption DEF LibcInv
  <2>4. FormatFits(call[2], call[3]) BY <2>3 DEF InMemory, Ran
  <2>5. ret' = printf(call[2], call[3]) BY <2>1 DEF Format, Ran
  <2>6. Agree(printf(call[2], call[3]), sprintf(call[2], call[3])) BY <2>4, FormatAgrees
  <2> QED BY <2>5, <2>6 DEF Agree
<1>2. [][A]_libcVars => FormatsAgree BY PTL DEF FormatsAgree
<1> HIDE DEF A
<1> QED BY <1>1, <1>2, LibcInvariant, PTL DEF LibcSpec
-----------------------------------------------------------------------------
(* The numbers sprintf stores (stdio.c). *)

\* The part of a sequence behind its first b elements.
LEMMA Behind ==
  ASSUME NEW X, NEW s \in Seq(X), NEW r \in Seq(X), NEW b \in Nat, Len(r) = b + Len(s),
         \A k \in 1 .. Len(s) : r[b + k] = s[k]
  PROVE  SubSeq(r, b + 1, Len(r)) = s
<1> DEFINE m == b + 1  n == Len(r)  t == SubSeq(r, m, n)
<1>1. Len(s) \in Nat /\ n = b + Len(s) /\ m \in Int /\ n \in Int OBVIOUS
<1>2. \A i \in m .. n : r[i] \in X OBVIOUS
<1> HIDE DEF m, n
<1>3. /\ t \in Seq(X) /\ Len(t) = (IF m <= n THEN n - m + 1 ELSE 0)
      /\ \A i \in 1 .. n - m + 1 : t[i] = r[m + i - 1]
  BY <1>1, <1>2, SubSeqProperties
<1> HIDE DEF t
<1>4. Len(t) = Len(s) BY <1>1, <1>3 DEF m
<1>5. ASSUME NEW i \in 1 .. Len(t) PROVE t[i] = s[i]
  <2>1. i \in 1 .. n - m + 1 /\ m + i - 1 = b + i /\ i \in 1 .. Len(s)
    BY <1>1, <1>4 DEF m
  <2> QED BY <1>3, <2>1
<1>6. t = s BY <1>3, <1>4, <1>5, SeqEqual
<1> QED BY <1>6 DEF t, m, n

\* Copies of e in front of a sequence without any can be counted, and taken away.
LEMMA LeadIs ==
  ASSUME NEW e, NEW X, e \notin X, NEW s \in Seq(X), NEW b \in Nat,
         NEW r \in Seq(X \cup {e}), Len(r) = b + Len(s),
         \A k \in 1 .. b : r[k] = e,
         \A k \in 1 .. Len(s) : r[b + k] = s[k]
  PROVE  /\ Cardinality({k \in DOMAIN r : r[k] = e}) = b
         /\ SubSeq(r, b + 1, Len(r)) = s
<1> DEFINE Y == X \cup {e}
<1>1. s \in Seq(Y) /\ r \in Seq(Y) /\ Len(s) \in Nat
  <2>1. X \subseteq Y OBVIOUS
  <2>2. r \in Seq(Y) OBVIOUS
  <2> HIDE DEF Y
  <2> QED BY <2>1, <2>2
<1>2. \A k \in 1 .. Len(s) : s[k] # e OBVIOUS
<1> HIDE DEF Y
<1>3. SubSeq(r, b + 1, Len(r)) = s BY <1>1, Behind
<1>4. DOMAIN r = 1 .. b + Len(s) BY <1>1
<1>5. ASSUME NEW k \in 1 .. b + Len(s), k \notin 1 .. b PROVE r[k] # e
  <2>1. k - b \in 1 .. Len(s) /\ b + (k - b) = k BY <1>1, <1>5
  <2> QED BY <1>1, <1>2, <2>1
<1>6. {k \in DOMAIN r : r[k] = e} = 1 .. b
  <2>1. \A k \in 1 .. b : k \in 1 .. b + Len(s) BY <1>1
  <2> QED BY <1>1, <1>4, <1>5, <2>1
<1>7. Cardinality(1 .. b) = b
  <2>1. Cardinality(1 .. b) = IF 1 > b THEN 0 ELSE b - 1 + 1 BY FS_Interval
  <2> QED BY <2>1
<1> QED BY <1>3, <1>6, <1>7

\* The blanks that justify a string without blanks.
LEMMA BlanksAre ==
  ASSUME NEW X, " " \notin X, NEW s \in Seq(X), NEW b \in Nat, NEW r, Justified(r, s, b, X)
  PROVE  /\ Cardinality({k \in DOMAIN r : r[k] = " "}) = b
         /\ SubSeq(r, b + 1, Len(r)) = s
  BY LeadIs DEF Justified

\* Digits read back, of which there are some, and the first is no sign.
LEMMA NumeralReads ==
  ASSUME NEW u, NEW base \in Bases, NEW n, NumeralOf(u, base, n), Len(u) > 0
  PROVE  Reads(u, base, n) /\ u[1] # "-" /\ u \in Seq(Numerals)
<1>1. u \in Seq(Numerals) /\ DOMAIN u = 1 .. Len(u) /\ 1 \in 1 .. Len(u) /\ u # << >>
  BY DEF NumeralOf
<1>2. u[1] \in Numerals BY <1>1
<1>3. \A c \in Numerals : c # "-" BY DigitsApart
<1> QED BY <1>1, <1>2, <1>3 DEF NumeralOf, Reads

\* A format of one directive has one item.
LEMMA OneItem ==
  ASSUME NEW fmt, NEW args, FormatFits(fmt, args), NumberFormat(fmt)
  PROVE  LET letter == fmt[Len(fmt) - 1]
             width  == WidthAt(fmt, 1, Len(fmt) - 1)
         IN  /\ Items(fmt, args) = << [kind |-> "directive", ch |-> letter, width |-> width,
                                       arg |-> args[1]] >>
             /\ letter \in Signed \cup Hexadecimal \cup {"o"}
             /\ width \in Nat /\ args[1] \in 0 .. WordMod - 1
<1> DEFINE n == Len(fmt)  letter == fmt[n - 1]  width == WidthAt(fmt, 1, n - 1)
           it == [kind |-> "directive", ch |-> letter, width |-> width, arg |-> args[1]]
<1>1. /\ Terminated(fmt) /\ Items(fmt, args) \in Seq(ItemsOf(args))
      /\ \A k \in 1 .. Len(Items(fmt, args)) : ItemFits(Items(fmt, args)[k])
  BY ItemsFit
<1>2. /\ n \in Nat /\ n >= 3 /\ fmt[1] = "%" /\ fmt[n] = Nul
      /\ letter \in Signed \cup Hexadecimal \cup {"o"}
      /\ \A k \in 2 .. n - 2 : fmt[k] \in DecimalDigits
  BY <1>1 DEF Terminated, NumberFormat
<1>3. letter \notin DecimalDigits
  BY <1>2 DEF Signed, Hexadecimal, DecimalDigits, Digits
<1>4. LetterAt(fmt, 1) = n - 1
  <2> DEFINE j == LetterAt(fmt, 1)
  <2>1. /\ j \in 1 + 1 .. n /\ fmt[j] \notin DecimalDigits
        /\ \A k \in 1 + 1 .. j - 1 : fmt[k] \in DecimalDigits
    <3>1. 1 \in 1 .. Len(fmt) BY <1>2
    <3> QED BY <1>1, <1>2, <3>1, LetterIs DEF Terminated
  <2> HIDE DEF j, letter
  <2>2. ~ (j \in 2 .. n - 2) BY <1>2, <2>1
  <2>3. j # n
    <3> SUFFICES ASSUME j = n PROVE FALSE OBVIOUS
    <3>1. n - 1 \in 1 + 1 .. j - 1 BY <1>2
    <3> QED BY <1>3, <2>1, <3>1 DEF letter
  <2>4. j = n - 1 BY <1>2, <2>1, <2>2, <2>3
  <2> QED BY <2>4 DEF j
<1> DEFINE p == <<1, 1>>  q == <<n, 2>>
<1>5. ~ Halts(fmt, p) /\ Halts(fmt, q)
  BY <1>2 DEF Halts, Nul
<1>6. letter \in Consuming BY <1>2 DEF Consuming
<1>7. ItemAt(fmt, args, p) = it /\ After(fmt, p) = q
  <2>1. p[1] = 1 /\ p[2] = 1 /\ (n - 1) + 1 = n /\ 1 + 1 = 2 BY <1>2
  <2>2. ItemAt(fmt, args, p) = it BY <1>2, <1>4, <1>6, <2>1 DEF ItemAt
  <2>3. After(fmt, p) = <<(n - 1) + 1, 1 + 1>> BY <1>2, <1>4, <1>6, <2>1 DEF After
  <2> QED BY <2>1, <2>2, <2>3
<1>8. p \in Points(fmt) /\ q \in Points(fmt) BY <1>2 DEF Points
<1>9. PICK f : Lists(f, fmt, args, 1) /\ Items(fmt, args) = f[p] BY <1>1, ItemsAre
<1>10. f[q] = << >>
  <2>1. q[1] >= 1 BY <1>2
  <2> QED BY <1>5, <1>8, <1>9, <2>1 DEF Lists
<1>11. f[p] = << it >> \o << >>
  <2>1. p[1] >= 1 OBVIOUS
  <2>2. f[p] = << ItemAt(fmt, args, p) >> \o f[After(fmt, p)]
    BY <1>5, <1>8, <1>9, <2>1 DEF Lists
  <2> QED BY <1>7, <1>10, <2>2
<1> HIDE DEF it
<1>12. << it >> \o << >> = << it >>
  <2>1. << it >> \in Seq({it}) OBVIOUS
  <2> QED BY <2>1, ConcatEmptySeq
<1>13. Items(fmt, args) = << it >> BY <1>9, <1>11, <1>12
<1>14. ItemFits(it)
  <2>1. 1 \in 1 .. Len(<< it >>) /\ << it >>[1] = it OBVIOUS
  <2> QED BY <1>1, <1>13, <2>1
<1>15. width \in Nat /\ args[1] \in 0 .. WordMod - 1
  <2>1. it.kind = "directive" /\ it.ch = letter /\ it.width = width /\ it.arg = args[1]
    BY DEF it
  <2> QED BY <1>2, <1>14, <2>1 DEF ItemFits
<1> QED BY <1>2, <1>13, <1>15 DEF it

\* And sprintf stores what it stores for this item.
LEMMA OneStored ==
  ASSUME NEW fmt, NEW args, NEW it, Items(fmt, args) = << it >>, ItemFits(it)
  PROVE  sprintf(fmt, args) = StoreItem(it)
<1> DEFINE s == << StoreItem(it) >>
<1>1. StoreItem(it) \in Seq(Chars) BY ItemAgrees DEF Agree
<1>2. s \in Seq(Seq(Chars)) /\ Len(s) = 1 /\ s[1] = StoreItem(it) BY <1>1
<1>3. sprintf(fmt, args) = FlattenSeq(s)
  <2>1. DOMAIN << it >> = {1} /\ << it >>[1] = it OBVIOUS
  <2>2. [k \in DOMAIN << it >> |-> StoreItem(<< it >>[k])] = s BY <2>1
  <2> QED BY <2>2 DEF sprintf, Each
<1> HIDE DEF s
<1>4. PICK f : Flattening(f, s, Chars) BY <1>2, Flattens
<1>5. f[0] = << >> /\ f[1] = f[0] \o s[1] /\ FlattenSeq(s) = f[1]
  <2>1. 1 \in 1 .. 1 /\ 1 - 1 = 0 OBVIOUS
  <2>2. f[1] = f[1 - 1] \o s[1] BY <1>2, <1>4, <2>1 DEF Flattening
  <2> QED BY <1>2, <1>4, <2>1, <2>2 DEF Flattening
<1>6. FlattenSeq(s) = << >> \o StoreItem(it) BY <1>2, <1>5
<1> QED BY <1>1, <1>3, <1>6, ConcatEmptySeq
\* What sprintf stores for a number: blanks and a string, of which so much is
\* known that the number can be read.
LEMMA NumberStored ==
  ASSUME NEW fmt, NEW args, FormatFits(fmt, args), NumberFormat(fmt)
  PROVE  LET letter == fmt[Len(fmt) - 1]
             width  == WidthAt(fmt, 1, Len(fmt) - 1)
             r      == sprintf(fmt, args)
             word   == args[1]
         IN  /\ letter \in Signed \cup Hexadecimal \cup {"o"}
             /\ word \in 0 .. WordMod - 1 /\ width \in Nat
             /\ letter \in Signed => r = Justify(itoa(word, 10), width)
             /\ letter \in Hexadecimal => r = <<"0", "x">> \o itoa(word, 16)
             /\ letter = "o" => r = itoa(word, 8)
<1> DEFINE letter == fmt[Len(fmt) - 1]  width == WidthAt(fmt, 1, Len(fmt) - 1)
           r == sprintf(fmt, args)  word == args[1]
           it == [kind |-> "directive", ch |-> letter, width |-> width, arg |-> word]
<1>1. /\ Items(fmt, args) = << it >> /\ letter \in Signed \cup Hexadecimal \cup {"o"}
      /\ width \in Nat /\ word \in 0 .. WordMod - 1
  BY OneItem
<1>2. it.kind = "directive" /\ it.ch = letter /\ it.width = width /\ it.arg = word OBVIOUS
<1> HIDE DEF it
<1>3. ItemFits(it)
  <2>1. \A k \in 1 .. Len(Items(fmt, args)) : ItemFits(Items(fmt, args)[k]) BY ItemsFit
  <2>2. 1 \in 1 .. Len(<< it >>) /\ << it >>[1] = it OBVIOUS
  <2> QED BY <1>1, <2>1, <2>2
<1>4. r = StoreItem(it) BY <1>1, <1>3, OneStored
<1> HIDE DEF letter, width, r, word
<1>5. letter \in Signed => r = Justify(itoa(word, 10), width)
  <2> SUFFICES ASSUME letter \in Signed PROVE r = Justify(itoa(word, 10), width) OBVIOUS
  <2>1. letter # "c" /\ letter # "s" BY DEF Signed
  <2> QED BY <1>2, <1>4, <2>1 DEF StoreItem, Signed, Hexadecimal
<1>6. letter \in Hexadecimal => r = <<"0", "x">> \o itoa(word, 16)
  BY <1>2, <1>4 DEF StoreItem, Signed, Hexadecimal
<1>7. letter = "o" => r = itoa(word, 8)
  BY <1>2, <1>4 DEF StoreItem, Signed, Hexadecimal
<1> QED BY <1>1, <1>5, <1>6, <1>7 DEF letter, width, r, word

\* A numeral in base 10, its sign taken away if it has one.
LEMMA SignedReads ==
  ASSUME NEW word \in 0 .. WordMod - 1, NEW u, u = itoa(word, 10)
  PROVE  /\ u \in Seq(Numerals \cup {"-"})
         /\ IF u[1] = "-" THEN Reads(SubSeq(u, 2, Len(u)), 10, 0 - AsInt(word))
                          ELSE Reads(u, 10, AsInt(word))
<1> DEFINE X == Numerals \cup {"-"}
<1>1. 10 \in Bases BY DEF Bases
<1>2. Written(u, word, 10) BY <1>1, ItoaWrites
<1>3. \A v \in Seq(Numerals) : v \in Seq(X)
  <2>1. Numerals \subseteq X OBVIOUS
  <2> HIDE DEF X
  <2> QED BY <2>1
<1>4. CASE AsInt(word) < 0
  <2>1. PICK v : u = <<"-">> \o v /\ NumeralOf(v, 10, 0 - AsInt(word)) /\ Len(v) > 0
    BY <1>2, <1>4 DEF Written
  <2>2. Reads(v, 10, 0 - AsInt(word)) /\ v \in Seq(Numerals) BY <1>1, <2>1, NumeralReads
  <2> DEFINE sign == <<"-">>
  <2>3. sign \in Seq(X) /\ Len(sign) = 1 /\ sign[1] = "-" /\ v \in Seq(X) BY <1>3, <2>2
  <2> HIDE DEF X, sign
  <2>4. Joined(sign, v, X) BY <2>3, ConcatIs
  <2>5. /\ u \in Seq(X) /\ Len(u) = 1 + Len(v)
        /\ \A k \in 1 .. 1 : u[k] = sign[k]
        /\ \A k \in 1 .. Len(v) : u[1 + k] = v[k]
    BY <2>1, <2>3, <2>4 DEF Joined, sign
  <2>6. u[1] = "-" BY <2>3, <2>5
  <2>7. SubSeq(u, 1 + 1, Len(u)) = v BY <2>3, <2>5, Behind
  <2>8. SubSeq(u, 2, Len(u)) = v BY <2>7
  <2> QED BY <2>2, <2>5, <2>6, <2>8 DEF X
<1>5. CASE ~ (AsInt(word) < 0)
  <2>1. NumeralOf(u, 10, word) /\ Len(u) > 0 /\ AsInt(word) = word BY <1>2, <1>5 DEF Written
  <2>2. Reads(u, 10, word) /\ u[1] # "-" /\ u \in Seq(Numerals) BY <1>1, <2>1, NumeralReads
  <2> QED BY <1>3, <2>1, <2>2
<1> QED BY <1>4, <1>5

\* A numeral in another base, of the word itself.
LEMMA UnsignedReads ==
  ASSUME NEW word \in 0 .. WordMod - 1, NEW base \in Bases, base # 10
  PROVE  itoa(word, base) \in Seq(Numerals) /\ Reads(itoa(word, base), base, word)
<1>1. Written(itoa(word, base), word, base) BY ItoaWrites
<1>2. NumeralOf(itoa(word, base), base, word) /\ Len(itoa(word, base)) > 0
  BY <1>1 DEF Written
<1> QED BY <1>2, NumeralReads

\* A sequence without any e has none to take away.
LEMMA NoLead ==
  ASSUME NEW e, NEW X, e \notin X, NEW s \in Seq(X)
  PROVE  Cardinality({k \in DOMAIN s : s[k] = e}) = 0 /\ SubSeq(s, 1, Len(s)) = s
<1>1. \A k \in DOMAIN s : s[k] # e
  <2>1. \A k \in DOMAIN s : s[k] \in X OBVIOUS
  <2> QED BY <2>1
<1>2. {k \in DOMAIN s : s[k] = e} = {} BY <1>1
<1>3. SubSeq(s, 1, Len(s)) = s BY SubSeqFull
<1> QED BY <1>2, <1>3, FS_EmptySet

\* Nor has a string without blanks.
LEMMA NoBlanks ==
  ASSUME NEW X, " " \notin X, NEW s \in Seq(X)
  PROVE  Cardinality({k \in DOMAIN s : s[k] = " "}) = 0 /\ SubSeq(s, 1, Len(s)) = s
  BY NoLead

\* A number that sprintf has stored reads back, in its base and width, for every
\* word (stdio.c, itoa and sprintf).
THEOREM NumbersAreReadBack == LibcSpec => NumbersReadBack
<1> DEFINE letter == call[2][Len(call[2]) - 1]
           width  == WidthAt(call[2], 1, Len(call[2]) - 1)
           blanks == Cardinality({k \in DOMAIN ret' : ret'[k] = " "})
           number == SubSeq(ret', blanks + 1, Len(ret'))
           rest   == SubSeq(number, 2, Len(number))
           word   == call[3][1]
           ReadSigned == /\ IF number[1] = "-" THEN Reads(rest, 10, 0 - AsInt(word))
                                               ELSE Reads(number, 10, AsInt(word))
                         /\ Len(ret') >= width /\ (blanks > 0 => Len(ret') = width)
           ReadHexadecimal == /\ SubSeq(number, 1, 2) = <<"0", "x">>
                              /\ Reads(SubSeq(number, 3, Len(number)), 16, word)
                              /\ blanks = 0
           ReadOctal == Reads(number, 8, word) /\ blanks = 0
           A == Ran({"sprintf"}) /\ NumberFormat(call[2]) =>
                  CASE letter \in Signed -> ReadSigned
                    [] letter \in Hexadecimal -> ReadHexadecimal
                    [] letter = "o" -> ReadOctal
<1>1. LibcInv /\ [LibcNext]_libcVars => [A]_libcVars
  <2> SUFFICES ASSUME LibcInv, LibcNext, Ran({"sprintf"}), NumberFormat(call[2]) PROVE A
    OBVIOUS
  <2>1. Format BY DEF Ran, LibcNext, Begin, Write, Look, Tokenize, Routine, Idle
  <2>2. Called BY DEF Ran, Called, Idle, Done
  <2>3. InMemory(call) BY <2>2, LibcAssumption DEF LibcInv
  <2>4. FormatFits(call[2], call[3]) BY <2>3 DEF InMemory, Ran
  <2>5. ret' = sprintf(call[2], call[3])
    <3>1. call[1] = "sprintf" BY DEF Ran
    <3> QED BY <2>1, <3>1 DEF Format
  <2>6. /\ letter \in Signed \cup Hexadecimal \cup {"o"}
        /\ word \in 0 .. WordMod - 1 /\ width \in Nat
        /\ letter \in Signed => ret' = Justify(itoa(word, 10), width)
        /\ letter \in Hexadecimal => ret' = <<"0", "x">> \o itoa(word, 16)
        /\ letter = "o" => ret' = itoa(word, 8)
    BY <2>4, <2>5, NumberStored
  <2> HIDE DEF letter, width, word
  <2>7. /\ \A c \in Numerals : c # " "
        /\ "-" # " " /\ "0" # " " /\ "x" # " "
    <3>1. "-" # " " /\ "0" # " " /\ "x" # " " BY Zenon
    <3> QED BY <3>1, DigitsApart
  <2>8. ASSUME letter \in Signed PROVE ReadSigned
    <3> DEFINE u == itoa(word, 10)  X == Numerals \cup {"-"}
    <3>1. /\ u \in Seq(X)
          /\ IF u[1] = "-" THEN Reads(SubSeq(u, 2, Len(u)), 10, 0 - AsInt(word))
                           ELSE Reads(u, 10, AsInt(word))
      BY <2>6, SignedReads
    <3>2. " " \notin X BY <2>7
    <3>3. ret' = Justify(u, width) BY <2>6, <2>8
    <3> HIDE DEF u, X
    <3>4. PICK b \in Nat : /\ Justified(ret', u, b, X)
                           /\ b + Len(u) >= width /\ (b > 0 => b + Len(u) = width)
      BY <2>6, <3>1, <3>3, JustifyIs
    <3>5. blanks = b /\ SubSeq(ret', b + 1, Len(ret')) = u BY <3>1, <3>2, <3>4, BlanksAre
    <3> HIDE DEF blanks
    <3>6. number = u BY <3>5
    <3>7. Len(ret') = b + Len(u) BY <3>4 DEF Justified
    <3> QED BY <3>1, <3>4, <3>5, <3>6, <3>7
  <2>9. ASSUME letter \in Hexadecimal PROVE ReadHexadecimal
    <3> DEFINE u == itoa(word, 16)  X == Numerals \cup {"0", "x"}  p == <<"0", "x">>
    <3>1. u \in Seq(Numerals) /\ Reads(u, 16, word)
      <4>1. 16 \in Bases /\ 16 # 10 BY DEF Bases
      <4> QED BY <2>6, <4>1, UnsignedReads
    <3>2. " " \notin X BY <2>7
    <3>3. ret' = p \o u BY <2>6, <2>9
    <3>4. u \in Seq(X) /\ p \in Seq(X) /\ Len(p) = 2
      <4>1. Numerals \subseteq X OBVIOUS
      <4>2. p \in Seq(X) /\ Len(p) = 2 OBVIOUS
      <4> HIDE DEF u, X, p
      <4> QED BY <3>1, <4>1, <4>2
    <3> HIDE DEF u, X, p
    <3>5. Joined(p, u, X) BY <3>4, ConcatIs
    <3>6. /\ ret' \in Seq(X) /\ Len(ret') = 2 + Len(u)
          /\ \A k \in 1 .. 2 : ret'[k] = p[k]
          /\ \A k \in 1 .. Len(u) : ret'[2 + k] = u[k]
      BY <3>3, <3>4, <3>5 DEF Joined
    <3>7. blanks = 0 /\ SubSeq(ret', 1, Len(ret')) = ret' BY <3>2, <3>6, NoBlanks
    <3> HIDE DEF blanks
    <3>8. number = ret' BY <3>7
    <3> HIDE DEF number
    <3>9. SubSeq(ret', 3, Len(ret')) = u
      <4>1. SubSeq(ret', 2 + 1, Len(ret')) = u BY <3>4, <3>6, Behind
      <4> QED BY <4>1
    <3>10. SubSeq(ret', 1, 2) = p
      <4> DEFINE q == SubSeq(ret', 1, 2)
      <4>1. Len(u) \in Nat BY <3>4
      <4>2. \A i \in 1 .. 2 : ret'[i] \in X BY <3>6, <4>1
      <4>3. q \in Seq(X) /\ Len(q) = 2 /\ \A i \in 1 .. 2 : q[i] = ret'[1 + i - 1]
        BY <4>2, SubSeqProperties
      <4> HIDE DEF q
      <4>4. \A i \in 1 .. 2 : q[i] = p[i] BY <3>6, <4>3
      <4>5. q = p BY <3>4, <4>3, <4>4, SeqEqual
      <4> QED BY <4>5 DEF q
    <3>11. Reads(SubSeq(number, 3, Len(number)), 16, word) BY <3>1, <3>8, <3>9
    <3>12. SubSeq(number, 1, 2) = p BY <3>8, <3>10
    <3> QED BY <3>7, <3>11, <3>12 DEF p
  <2>10. ASSUME letter = "o" PROVE ReadOctal
    <3> DEFINE u == itoa(word, 8)
    <3>1. u \in Seq(Numerals) /\ Reads(u, 8, word)
      <4>1. 8 \in Bases /\ 8 # 10 BY DEF Bases
      <4> QED BY <2>6, <4>1, UnsignedReads
    <3>2. " " \notin Numerals BY <2>7
    <3>3. ret' = u BY <2>6, <2>10
    <3> HIDE DEF u
    <3>4. blanks = 0 /\ SubSeq(ret', 1, Len(ret')) = ret' BY <3>1, <3>2, <3>3, NoBlanks
    <3> HIDE DEF blanks
    <3>5. number = u BY <3>3, <3>4
    <3> HIDE DEF number
    <3> QED BY <3>1, <3>4, <3>5
  <2> HIDE DEF ReadSigned, ReadHexadecimal, ReadOctal
  <2>11. letter \in Signed => letter \notin Hexadecimal /\ letter # "o"
    BY DEF Signed, Hexadecimal
  <2>12. letter \in Hexadecimal => letter # "o" BY DEF Hexadecimal
  <2>13. CASE letter \in Signed BY <2>8, <2>11, <2>13
  <2>14. CASE letter \in Hexadecimal BY <2>9, <2>11, <2>12, <2>14
  <2>15. CASE letter = "o" BY <2>10, <2>11, <2>12, <2>15
  <2> QED BY <2>6, <2>13, <2>14, <2>15
<1>2. [][A]_libcVars => NumbersReadBack BY PTL DEF NumbersReadBack
<1> HIDE DEF A
<1> QED BY <1>1, <1>2, LibcInvariant, PTL DEF LibcSpec
=============================================================================
