-------------------------------- MODULE Heap --------------------------------
(***************************************************************************)
(* malloc and free of src/src/stdlib/stdlib.c: first fit over a linked     *)
(* list of blocks that are never split and never joined, in a static array *)
(* of HeapSize bytes.  A pointer is an offset into the array, and size_t   *)
(* arithmetic is modulo SizeMod.  Nothing interrupts malloc: the handlers  *)
(* of the kernel do not allocate.  Its walk over the list is one step per  *)
(* block, so that it might not end.                                        *)
(***************************************************************************)
EXTENDS Integers

CONSTANTS
  HeapSize,    \* HEAP_SIZE, 65536 in the code
  HeaderSize,  \* sizeof(BlockHeader), 12 in the code
  SizeMod,     \* number of values of a size_t, 2^32 in the code
  Requests     \* the sizes that callers ask for

ASSUME HeapAssumption ==
  /\ HeapSize \in Nat /\ HeaderSize \in Nat \ {0} /\ SizeMod \in Nat
  /\ HeaderSize <= HeapSize /\ HeapSize < SizeMod
  /\ SizeMod % 4 = 0
  /\ Requests \subseteq 0 .. SizeMod - 1

Null == -1

VARIABLES
  headers,    \* the BlockHeader at the start of each block
  free_list,  \* the first block
  heap_used,
  at,         \* "idle", or "walk" while malloc runs
  asked,      \* the argument of malloc
  size, curr, prev,  \* its variables
  live        \* history: the regions that callers hold, [ptr, len]

list == <<headers, free_list, heap_used>>
frame == <<at, asked, size, curr, prev>>
vars == <<list, frame, live>>

Blocks == DOMAIN headers

\* ALIGN4, with the unsigned subtraction and addition of the macro.
Align4(n) == ((((n - 1) % SizeMod) \div 4) * 4 + 4) % SizeMod

Init ==
  /\ headers = [b \in {} |-> 0] /\ free_list = Null /\ heap_used = 0
  /\ at = "idle" /\ asked = 0 /\ size = 0 /\ curr = Null /\ prev = Null
  /\ live = {}

\* The call of malloc, up to its loop.
Malloc(n) ==
  /\ at = "idle" /\ at' = "walk"
  /\ asked' = n
  /\ size' = (Align4(n) + HeaderSize) % SizeMod
  /\ curr' = free_list /\ prev' = Null
  /\ UNCHANGED <<list, live>>

Header(s, f, n) == [size |-> s, free |-> f, next |-> n]

\* The headers after block->free = f.
MarkFree(block, f) ==
  [b \in Blocks |-> IF b = block
                    THEN Header(headers[b].size, f, headers[b].next)
                    ELSE headers[b]]

\* return curr + 1
Answer(block) ==
  /\ at' = "idle"
  /\ live' = live \cup {[ptr |-> block + HeaderSize, len |-> asked]}

BugFits(block) == headers[block].free  \* wrong variant: any free block
Fits(block) == headers[block].free /\ headers[block].size >= size

\* Wrong variant: the block stays marked free.
BugReuse ==
  /\ at = "walk" /\ curr # Null /\ Fits(curr)
  /\ Answer(curr)
  /\ UNCHANGED <<list, asked, size, curr, prev>>

Reuse ==
  /\ at = "walk" /\ curr # Null /\ Fits(curr)
  /\ headers' = MarkFree(curr, FALSE)
  /\ Answer(curr)
  /\ UNCHANGED <<free_list, heap_used, asked, size, curr, prev>>

\* Wrong variant: prev is not kept up.
BugWalkOn ==
  /\ at = "walk" /\ curr # Null /\ ~ Fits(curr)
  /\ curr' = headers[curr].next
  /\ UNCHANGED <<list, at, asked, size, prev, live>>

WalkOn ==
  /\ at = "walk" /\ curr # Null /\ ~ Fits(curr)
  /\ prev' = curr /\ curr' = headers[curr].next
  /\ UNCHANGED <<list, at, asked, size, live>>

BugOutOfRoom == FALSE  \* wrong variant: no test
OutOfRoom == (heap_used + size) % SizeMod > HeapSize

\* Wrong variant: the room is tested before the list is walked.
BugOutOfMemory ==
  /\ at = "walk" /\ OutOfRoom
  /\ at' = "idle"
  /\ UNCHANGED <<list, asked, size, curr, prev, live>>

OutOfMemory ==
  /\ at = "walk" /\ curr = Null /\ OutOfRoom
  /\ at' = "idle"
  /\ UNCHANGED <<list, asked, size, curr, prev, live>>

\* The headers after the new block is linked in behind "last", its own next
\* pointer set to "next".
Linked(last, next) ==
  [b \in Blocks \cup {heap_used} |->
     IF b = heap_used THEN Header(size, FALSE, next)
     ELSE IF b = last THEN Header(headers[b].size, headers[b].free, heap_used)
                      ELSE headers[b]]

\* Wrong variants: prev->next is not set; block->next is set as if the new
\* block became the first of the list.
BugLink == Linked(Null, Null)
BugLinkFront == Linked(prev, free_list)
Link == Linked(prev, Null)

\* A new block at the end of the used part of the array, the last of the list.
Carve ==
  /\ at = "walk" /\ curr = Null /\ ~ OutOfRoom
  /\ headers' = Link
  /\ free_list' = IF prev = Null THEN heap_used ELSE free_list
  /\ heap_used' = (heap_used + size) % SizeMod
  /\ curr' = heap_used
  /\ Answer(heap_used)
  /\ UNCHANGED <<asked, size, prev>>

\* A caller gives back a region it holds.  The call with the null pointer
\* returns at once: it is a step in which nothing changes.
Free(region) ==
  /\ at = "idle"
  /\ headers' = MarkFree(region.ptr - HeaderSize, TRUE)
  /\ live' = live \ {region}
  /\ UNCHANGED <<free_list, heap_used, frame>>

Next ==
  \/ \E n \in Requests : Malloc(n)
  \/ Reuse \/ WalkOn \/ OutOfMemory \/ Carve
  \/ \E region \in live : Free(region)

\* A call of malloc runs on.
Fairness == WF_vars(Reuse \/ WalkOn \/ OutOfMemory \/ Carve)

Spec == Init /\ [][Next]_vars /\ Fairness

-----------------------------------------------------------------------------

TypeOK ==
  /\ Blocks \subseteq 0 .. HeapSize
  /\ headers \in [Blocks -> [size : 0 .. SizeMod - 1, free : BOOLEAN,
                             next : {Null} \cup 0 .. HeapSize]]
  /\ free_list \in {Null} \cup 0 .. HeapSize
  /\ heap_used \in 0 .. SizeMod - 1
  /\ at \in {"idle", "walk"}
  /\ asked \in Requests \cup {0} /\ size \in 0 .. SizeMod - 1
  /\ curr \in {Null} \cup 0 .. HeapSize
  /\ prev \in {Null} \cup 0 .. HeapSize
  /\ live \subseteq [ptr : 0 .. HeapSize + HeaderSize, len : Requests]

\* The blocks tile the used part of the array: no two overlap, each is
\* followed by the next of the list or by the unused part, and the list
\* misses none.  This is what free and the walk of malloc rely on.
Tiling ==
  /\ heap_used <= HeapSize
  /\ free_list = IF Blocks = {} THEN Null ELSE 0
  /\ IF Blocks = {} THEN heap_used = 0 ELSE 0 \in Blocks
  /\ \A b \in Blocks :
       LET end == b + headers[b].size
       IN  /\ headers[b].size >= HeaderSize
           /\ IF end = heap_used THEN headers[b].next = Null
              ELSE end \in Blocks /\ headers[b].next = end
           /\ \A c \in Blocks : b < c => end <= c
           /\ end <= heap_used

\* A region that a caller holds is the inside of a block that is not free,
\* and no two callers hold the same block: no free block is ever in use.
LiveBlocks ==
  /\ \A r \in live : LET b == r.ptr - HeaderSize
                     IN  /\ b \in Blocks /\ ~ headers[b].free
                         /\ HeaderSize + r.len <= headers[b].size
  /\ \A r, s \in live : r.ptr = s.ptr => r = s
  /\ \A b \in Blocks :
       ~ headers[b].free => \E r \in live : r.ptr = b + HeaderSize

\* The loop of malloc: size leaves room for the header and what was asked,
\* rounded up to a multiple of 4; every block behind curr has been found not to fit, and
\* when the list is at its end prev is its last block.
WalkInv ==
  at = "walk" =>
    /\ asked \in Requests
    /\ size \in asked + HeaderSize .. asked + HeaderSize + 3
    /\ curr # Null => curr \in Blocks
    /\ \A b \in Blocks : curr = Null \/ b < curr => ~ Fits(b)
    /\ curr = Null => IF Blocks = {} THEN prev = Null
                      ELSE prev \in Blocks /\ prev + headers[prev].size = heap_used

\* No request is so large that the arithmetic of malloc wraps around.
NoWrap == \A n \in Requests : HeapSize + HeaderSize + n + 3 < SizeMod

\* malloc and free implement the allocator.
Memory == INSTANCE Allocator
            WITH Arena <- HeapSize, Sizes <- Requests, regions <- live
ImplementsAllocator == Memory!Spec

\* malloc refuses a request only when the whole list holds no free block that
\* is large enough, and the rest of the array is too small.
Refused == at = "walk" /\ at' = "idle" /\ UNCHANGED live
RefusalIsJustified ==
  [][Refused => /\ \A b \in Blocks : ~ Fits(b)
                /\ HeapSize - heap_used < asked + HeaderSize + 3]_vars

\* Every call of malloc returns.
MallocReturns == at = "walk" ~> at = "idle"
=============================================================================
