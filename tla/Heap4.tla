------------------------------- MODULE Heap4 -------------------------------
(***************************************************************************)
(* The kernel's memory allocator (heap_4.c): a free list in order of       *)
(* address, first fit, neighbours merged on freeing.  blk holds the        *)
(* headers that are in use, by address: the size of the block, the next    *)
(* free block, and the bit that says it is allocated.  An allocation runs  *)
(* with the scheduler suspended and is one step; vPortFree clears the      *)
(* allocated bit before it suspends the scheduler, and the reset of the    *)
(* minimum loads and stores without any protection, so other tasks get in  *)
(* between.                                                                *)
(***************************************************************************)
EXTENDS Integers, FiniteSets, FiniteSetsExt

CONSTANTS Users,           \* the tasks that allocate
          HeapAt,          \* the address of ucHeap
          HeapSize,        \* configTOTAL_HEAP_SIZE
          Alignment,       \* portBYTE_ALIGNMENT
          StructSize,      \* xHeapStructSize
          SizeMax,         \* heapSIZE_MAX, 2^w - 1
          Sizes,           \* the sizes asked for
          MaxOwned         \* bound: the blocks held at a time

ASSUME HeapAssumption ==
    /\ {HeapAt, Alignment, StructSize} \subseteq Nat \ {0} /\ MaxOwned \in Nat
    /\ StructSize % Alignment = 0
    /\ SizeMax \in Nat /\ Sizes \subseteq 0 .. SizeMax
    /\ HeapSize \in 2 * StructSize + 2 * Alignment .. SizeMax \div 2

VARIABLES blk,       \* the headers, by address; xStart is at Start
          pxEnd,     \* Null until the first call of pvPortMalloc
          free,      \* xFreeBytesRemaining
          least,     \* xMinimumEverFreeBytesRemaining
          owned,     \* what the users hold: [at, size]
          freeing,   \* per user, the header it is about to put back, or Null
          loaded,    \* per user, the count a reset has loaded, or Null
          failed     \* an allocation that has just failed: the size asked
                     \* for and the largest free block there was

heapVars == <<blk, pxEnd, free, least, owned, freeing, loaded, failed>>

Null  == -1
Start == 0
NoFailure == [asked |-> 0, room |-> 0]

heapMINIMUM_BLOCK_SIZE == 2 * StructSize
heapADD_WILL_OVERFLOW(a, b) == a > SizeMax - b
heapMULTIPLY_WILL_OVERFLOW(a, b) == a > 0 /\ b > SizeMax \div a
heapBLOCK_SIZE_IS_VALID(n) == n <= SizeMax \div 2

Up(a)   == ((a + Alignment - 1) \div Alignment) * Alignment
Down(a) == (a \div Alignment) * Alignment

(* The size of the block for a request, 0 when it cannot be had.           *)
BlockSize(want) ==
    LET sum == want + StructSize
        pad == Up(sum) - sum
    IN  IF \/ want = 0
           \/ heapADD_WILL_OVERFLOW(want, StructSize)
           \/ heapADD_WILL_OVERFLOW(sum, pad)
        THEN 0 ELSE sum + pad

HeapInit ==
    /\ blk = [a \in {Start} |-> [size |-> 0, next |-> Null, used |-> FALSE]]
    /\ pxEnd = Null
    /\ free = 0
    /\ least = 0
    /\ owned = {}
    /\ freeing = [u \in Users |-> Null]
    /\ loaded = [u \in Users |-> Null]
    /\ failed = NoFailure

(* The user is not in the middle of a call.                                *)
BetweenCalls(u) == freeing[u] = Null /\ loaded[u] = Null

-----------------------------------------------------------------------------
(* The heap as one free block and the end marker.                          *)
FirstBlock == Up(HeapAt)
EndBlock   == Down(FirstBlock + (HeapSize - (FirstBlock - HeapAt)) - StructSize)

prvHeapInit ==
    [a \in {Start, FirstBlock, EndBlock} |->
        [size |-> IF a = FirstBlock THEN EndBlock - FirstBlock ELSE 0,
         next |-> CASE a = Start -> FirstBlock [] a = FirstBlock -> EndBlock
                    [] a = EndBlock -> Null,
         used |-> FALSE]]

(* From xStart along the free list, for as long as the next header is one  *)
(* of passed.                                                              *)
Iterate(b, passed) ==
    LET from[a \in DOMAIN b] == IF b[a].next \in passed THEN from[b[a].next] ELSE a
    IN  from[Start]

(* Mutant: a block of exactly the size is passed over.                     *)
FirstFit_strict(b, need) ==
    Iterate(b, {a \in DOMAIN b : b[a].size <= need /\ b[a].next # Null})

(* The header whose successor in the free list is the first fit, or pxEnd. *)
FirstFit(b, need) ==
    Iterate(b, {a \in DOMAIN b : b[a].size < need /\ b[a].next # Null})

(* Take the block after prev off the free list, splitting it if what is    *)
(* left over is more than a minimal block.                                 *)
Carve(b, prev, need) ==
    LET x     == b[prev].next
        rest  == x + need
        split == b[x].size - need > heapMINIMUM_BLOCK_SIZE
    IN  [a \in DOMAIN b \cup (IF split THEN {rest} ELSE {}) |->
            CASE a = x -> [size |-> IF split THEN need ELSE b[x].size,
                           next |-> Null, used |-> TRUE]
              [] a = prev -> [b[a] EXCEPT !.next = IF split THEN rest ELSE b[x].next]
              [] a = rest /\ split -> [size |-> b[x].size - need, next |-> b[x].next,
                                       used |-> FALSE]
              [] OTHER -> b[a]]

(* What vPortGetHeapStats finds on its walk along the free list.           *)
vPortGetHeapStats(b) ==
    LET walk[a \in DOMAIN b] == IF b[a].next = Null THEN {}
                                ELSE {a} \cup walk[b[a].next]
        found == walk[b[Start].next]
        sizes == {b[a].size : a \in found}
    IN  [blocks |-> found,
         largest |-> IF sizes = {} THEN 0 ELSE Max(sizes)]

(* One call of pvPortMalloc: the new headers, counts and the address got.  *)
pvPortMalloc(u, want) ==
    LET b0   == IF pxEnd = Null THEN prvHeapInit ELSE blk
        f0   == IF pxEnd = Null THEN EndBlock - FirstBlock ELSE free
        l0   == IF pxEnd = Null THEN EndBlock - FirstBlock ELSE least
        need == BlockSize(want)
        prev == FirstFit(b0, need)
        x    == b0[prev].next
        ok   == /\ heapBLOCK_SIZE_IS_VALID(need)
                /\ need > 0 /\ need <= f0
                /\ x # EndBlock
        b1   == Carve(b0, prev, need)
        f1   == f0 - b1[x].size
    IN  /\ Cardinality(owned) < MaxOwned
        /\ BetweenCalls(u)
        /\ pxEnd' = EndBlock
        /\ blk' = IF ok THEN b1 ELSE b0
        /\ free' = IF ok THEN f1 ELSE f0
        /\ least' = IF ok /\ f1 < l0 THEN f1 ELSE l0
        /\ owned' = IF ok THEN owned \cup {[at |-> x + StructSize, size |-> want]}
                    ELSE owned
        /\ failed' = IF ok THEN NoFailure
                     ELSE [asked |-> want, room |-> vPortGetHeapStats(b0).largest]
        /\ UNCHANGED <<freeing, loaded>>

Malloc(u) == \E n \in Sizes : pvPortMalloc(u, n)

(* The product is checked before it is formed; zeroing changes no header.  *)
pvPortCalloc(u) ==
    \E n, m \in Sizes :
        /\ ~heapMULTIPLY_WILL_OVERFLOW(n, m)
        /\ n > 1 /\ m > 1
        /\ pvPortMalloc(u, n * m)

-----------------------------------------------------------------------------
(* vPortFree clears the allocated bit ...                                  *)
vPortFree(u) ==
    /\ BetweenCalls(u)
    /\ \E o \in owned :
         LET x == o.at - StructSize
         IN  /\ blk[x].used /\ blk[x].next = Null
             /\ blk' = [blk EXCEPT ![x].used = FALSE]
             /\ owned' = owned \ {o}
             /\ freeing' = [freeing EXCEPT ![u] = x]
    /\ failed' = NoFailure
    /\ UNCHANGED <<pxEnd, free, least, loaded>>

(* Mutant: the block is not merged with its neighbours.                    *)
prvInsertBlockIntoFreeList_apart(b, x) ==
    LET p == Iterate(b, {a \in DOMAIN b : a < x})
    IN  [b EXCEPT ![p].next = x, ![x].next = b[p].next]

(* The block goes behind the last free one before it, merged with that     *)
(* and with the one behind if they touch.                                  *)
prvInsertBlockIntoFreeList(b, x) ==
    LET p  == Iterate(b, {a \in DOMAIN b : a < x})
        n  == b[p].next
        joined == p + b[p].size = x
        y  == IF joined THEN p ELSE x
        sy == IF joined THEN b[p].size + b[x].size ELSE b[x].size
        eats == y + sy = n /\ n # pxEnd
        hy == [size |-> IF eats THEN sy + b[n].size ELSE sy,
               next |-> IF eats THEN b[n].next ELSE n,
               used |-> FALSE]
        gone == (IF joined THEN {x} ELSE {}) \cup (IF eats THEN {n} ELSE {})
    IN  [a \in DOMAIN b \ gone |->
            CASE a = y -> hy
              [] a = p /\ a # y -> [b[a] EXCEPT !.next = y]
              [] OTHER -> b[a]]

(* ... and puts the block back with the scheduler suspended.               *)
FreeInsert(u) ==
    /\ freeing[u] # Null
    /\ free' = free + blk[freeing[u]].size
    /\ blk' = prvInsertBlockIntoFreeList(blk, freeing[u])
    /\ freeing' = [freeing EXCEPT ![u] = Null]
    /\ failed' = NoFailure
    /\ UNCHANGED <<pxEnd, least, owned, loaded>>

(* The reset of the minimum: the load of xFreeBytesRemaining ...           *)
xPortResetHeapMinimumEverFreeHeapSize(u) ==
    /\ BetweenCalls(u)
    /\ loaded' = [loaded EXCEPT ![u] = free]
    /\ failed' = NoFailure
    /\ UNCHANGED <<blk, pxEnd, free, least, owned, freeing>>

(* ... and the store of what was loaded.                                   *)
StoreMinimum(u) ==
    /\ loaded[u] # Null
    /\ least' = loaded[u]
    /\ loaded' = [loaded EXCEPT ![u] = Null]
    /\ failed' = NoFailure
    /\ UNCHANGED <<blk, pxEnd, free, owned, freeing>>

HeapNext ==
    \E u \in Users :
        \/ Malloc(u) \/ pvPortCalloc(u) \/ vPortFree(u) \/ FreeInsert(u)
        \/ xPortResetHeapMinimumEverFreeHeapSize(u) \/ StoreMinimum(u)

HeapSpec == HeapInit /\ [][HeapNext]_heapVars

-----------------------------------------------------------------------------
(* Properties *)

Limbo == {freeing[u] : u \in Users} \ {Null}

(* The headers tile the heap: each block ends where another begins, up to  *)
(* pxEnd, on aligned addresses; the free list holds exactly the blocks     *)
(* that are neither allocated nor on their way back, in order of address,  *)
(* and no two that touch (prvInsertBlockIntoFreeList, pvPortMalloc).       *)
(* xFreeBytesRemaining is the bytes on it, whichever free is half done.    *)
HeapCanonical ==
    LET blocks == DOMAIN blk \ {Start, pxEnd}
        listed == vPortGetHeapStats(blk).blocks
    IN  pxEnd # Null =>
          /\ \A a \in blocks : /\ a + blk[a].size \in blocks \cup {pxEnd}
                               /\ a % Alignment = 0
                               /\ blk[a].size >= StructSize + Alignment
          /\ FirstBlock \in blocks
          /\ \A a, c \in blocks : a < c => a + blk[a].size <= c
          /\ listed = {a \in blocks : ~blk[a].used} \ Limbo
          /\ \A a \in listed : /\ blk[a].next > a
                               /\ a + blk[a].size \notin listed
          /\ free = Cardinality(UNION {a .. a + blk[a].size - 1 : a \in listed})

(* What the users hold never overlaps, lies within ucHeap, and holds as    *)
(* many bytes as were asked for, short of the next header.                 *)
AllocationsDisjoint ==
    \A o \in owned :
        /\ o.at >= HeapAt /\ o.at + o.size <= HeapAt + HeapSize
        /\ o.at % Alignment = 0
        /\ \A a \in DOMAIN blk \ {Start} :
             a + StructSize <= o.at \/ o.at + o.size <= a
        /\ \A q \in owned \ {o} : o.at + o.size <= q.at \/ q.at + q.size <= o.at

(* The heap is sound: its blocks are in order and what is lent is apart,   *)
(* with any number of calls half done (pvPortMalloc, vPortFree).           *)
HeapSound == HeapCanonical /\ AllocationsDisjoint

(* portable.h of the minimum: the least amount of free memory there has    *)
(* been.  So it is never above what is free now                            *)
(* (xPortResetHeapMinimumEverFreeHeapSize does not keep this).             *)
MinimumIsMinimum == least <= free

(* An allocation fails only for a size of 0, a size too large to be padded *)
(* or represented, or want of one free block large enough.                 *)
FailsOnlyWhenFull ==
    failed.asked # 0 => Up(failed.asked + StructSize) > failed.room
=============================================================================
