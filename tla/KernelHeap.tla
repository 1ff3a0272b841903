----------------------------- MODULE KernelHeap -----------------------------
(* kmalloc and kfree (kern/mm/kmalloc.c): a ring of free blocks kept in      *)
(* address order, grown a page at a time, and whole pages for large          *)
(* requests, over the first-fit page manager.  Calls run with interrupts     *)
(* disabled where they touch the ring; no interrupt handler allocates, so    *)
(* one call runs at a time, a step for each block or page it obtains.        *)
(* Addresses count slob units; PAGE and SLOB_UNIT are in bytes.              *)
EXTENDS FirstFit

CONSTANTS UNIT,       \* SLOB_UNIT
          PAGE,       \* PAGE_SIZE
          BIGBLOCK,   \* sizeof(bigblock_t)
          Sizes,      \* what the kernel asks kmalloc for
          UserBlocks, \* sizes, in pages, of the blocks others take
          MaxHeld     \* bound: blocks given out at a time

UnitsPerPage == PAGE \div UNIT
SLOB_UNITS(size) == (size + UNIT - 1) \div UNIT
Small(size) == size < PAGE - UNIT

(* slob_alloc asserts size + SLOB_UNIT < PAGE_SIZE, with the header counted  *)
(* in size: requests of the last bytes below Small's bound would stop the    *)
(* kernel, and nothing asks for them; nor for no bytes at all.  find_order   *)
(* loses the odd bytes it halves away above two pages: the only request of   *)
(* that size is four whole pages (disk0's buffer in lab8).                   *)
ASSUME KernelHeapConstants ==
    /\ {UNIT, PAGE, BIGBLOCK} \subseteq Nat \ {0}
    /\ PAGE % UNIT = 0 /\ BIGBLOCK > UNIT /\ BIGBLOCK + UNIT < PAGE
    /\ Sizes \subseteq Nat \ {0}
    /\ \A size \in Sizes : /\ size <= 2 * PAGE \/ size = 4 * PAGE
                           /\ Small(size) => size + 2 * UNIT < PAGE
    /\ UserBlocks \subseteq Nat \ {0} /\ MaxHeld \in Nat

Arena == -2           \* the static block that starts the ring, below all pages

VARIABLES heap,       \* units and, of free blocks, next, for each block header
          slobfree,   \* where the next search starts
          bigblocks,  \* the list of big blocks
          held,       \* what kmalloc has given out: address in bytes and size
          taken,      \* pages that others hold
          call        \* the call that is running

heapVars == <<heap, slobfree, bigblocks>>
vars == <<pageVars, heapVars, held, taken, call>>

Idle   == [op |-> "idle"]
Halted == [op |-> "halted"]

IsFree(a) == heap[a].next # None
FreeBlocks == {a \in DOMAIN heap : IsFree(a)}
Addr(page) == page * UnitsPerPage

(* The ring from slobfree on; the last element is slobfree again. *)
Ring == LET walk[k \in 0..Cardinality(FreeBlocks)] ==
                IF k = 0 THEN slobfree ELSE heap[walk[k - 1]].next
        IN walk

-----------------------------------------------------------------------------
Init == /\ FirstFitInit
        /\ heap = [a \in {Arena} |-> [units |-> 1, next |-> Arena]]
        /\ slobfree = Arena
        /\ bigblocks = <<>>
        /\ held = {} /\ taken = {}
        /\ call = Idle

(* The first block of the ring behind which b belongs. *)
Spot(b) ==
    LET Behind(cur) == LET next == heap[cur].next
                       IN \/ b > cur /\ b < next
                          \/ cur >= next /\ (b > cur \/ b < next)
    IN Ring[Min({k \in DOMAIN Ring : Behind(Ring[k])})]

JoinsAbove(b, units, next) == b + units = next

(* slob_free *)
SlobFree(b, units) ==
    LET cur   == Spot(b)
        next  == heap[cur].next
        above == JoinsAbove(b, units, next)
        below == cur + heap[cur].units = b
        block == IF above THEN [units |-> units + heap[next].units, next |-> heap[next].next]
                          ELSE [units |-> units, next |-> next]
        kept  == DOMAIN heap \ IF above THEN {b, next} ELSE {b}
    IN /\ heap' = IF below
                  THEN [a \in kept |-> IF a = cur THEN [units |-> heap[cur].units + block.units,
                                                        next |-> block.next]
                                       ELSE heap[a]]
                  ELSE [a \in kept \union {b} |->
                          CASE a = b   -> block
                            [] a = cur -> [heap[cur] EXCEPT !.next = b]
                            [] OTHER   -> heap[a]]
       /\ slobfree' = cur

(* slob_alloc: the first block after slobfree with room enough is used whole *)
(* or split, and the search goes on from the block before it.                *)

\* variant: the search ends before it comes to the block it started from
FittingShort(units) == {k \in DOMAIN Ring :
    k \in 1..(Cardinality(FreeBlocks) - 1) /\ heap[Ring[k]].units >= units}
Fitting(units) == {k \in DOMAIN Ring : k > 0 /\ heap[Ring[k]].units >= units}

Cut(cur, prev, units) ==
    LET rest == cur + units
        exact == heap[cur].units = units
        next == IF exact THEN heap[cur].next ELSE rest
    IN heap' = [a \in DOMAIN heap \union (IF exact THEN {} ELSE {rest}) |->
                  CASE a = cur                -> [units |-> units, next |-> None]
                    [] a = prev               -> [heap[prev] EXCEPT !.next = next]
                    [] a = rest /\ ~exact     -> [units |-> heap[cur].units - units,
                                                  next |-> heap[cur].next]
                    [] OTHER                  -> heap[a]]

SlobTake(cur, units) ==
    LET k == Min(Fitting(units))
    IN /\ cur = Ring[k]
       /\ Cut(cur, Ring[k - 1], units)
       /\ slobfree' = Ring[k - 1]

-----------------------------------------------------------------------------
(* __kmalloc: a small request takes a block with a header, a large one a     *)
(* block for its bigblock_t first.                                           *)
Kmalloc(size) ==
    /\ call = Idle /\ Cardinality(held) < MaxHeld
    /\ call' = [op |-> IF Small(size) THEN "small" ELSE "big", size |-> size,
                units |-> SLOB_UNITS(IF Small(size) THEN size + UNIT ELSE BIGBLOCK)]
    /\ UNCHANGED <<pageVars, heapVars, held, taken>>

Searching == call.op \in {"small", "big"}

SmallReturn ==
    /\ call.op = "small" /\ Fitting(call.units) # {}
    /\ \E cur \in FreeBlocks :
          /\ SlobTake(cur, call.units)
          /\ held' = held \union {[at |-> (cur + 1) * UNIT, size |-> call.size]}
    /\ call' = Idle
    /\ UNCHANGED <<pageVars, bigblocks, taken>>

(* Nothing fits: the ring grows by a page and the search goes on; without a  *)
(* page swap_out stops the kernel.                                           *)
Grow ==
    /\ Searching /\ Fitting(call.units) = {}
    /\ AllocPages(1)
    /\ IF got'.at = None
       THEN call' = Halted /\ UNCHANGED <<heap, slobfree>>
       ELSE SlobFree(Addr(got'.at), UnitsPerPage) /\ UNCHANGED call
    /\ UNCHANGED <<bigblocks, held, taken>>

BigBlock ==
    /\ call.op = "big" /\ Fitting(call.units) # {}
    /\ \E cur \in FreeBlocks :
          /\ SlobTake(cur, call.units)
          /\ call' = [op |-> "pages", size |-> call.size, bb |-> cur]
    /\ UNCHANGED <<pageVars, bigblocks, held, taken>>

\* variant: an order too small from twice the page size on
OrderShort(size) == LET halves[s \in 0..size] == IF s <= 2 * PAGE THEN 0 ELSE 1 + halves[s \div 2]
                    IN halves[size]
\* find_order
Order(size) == LET halves[s \in 0..size] == IF s <= PAGE THEN 0 ELSE 1 + halves[s \div 2]
               IN halves[size]

\* variant: a refused request leaves its bigblock_t behind
GiveBackNothing(bb) == UNCHANGED <<heap, slobfree>>
GiveBack(bb) == SlobFree(bb, SLOB_UNITS(BIGBLOCK))

BigPages ==
    /\ call.op = "pages"
    /\ AllocPages(2 ^ Order(call.size))
    /\ \/ /\ got'.at # None
          /\ bigblocks' = <<[bb |-> call.bb, order |-> Order(call.size), page |-> got'.at]>> \o bigblocks
          /\ held' = held \union {[at |-> got'.at * PAGE, size |-> call.size]}
          /\ call' = Idle
          /\ UNCHANGED <<heap, slobfree>>
       \/ /\ got'.at = None /\ Order(call.size) > 0
          /\ GiveBack(call.bb)
          /\ call' = Idle
          /\ UNCHANGED <<bigblocks, held>>
       \/ /\ got'.at = None /\ Order(call.size) = 0
          /\ call' = Halted
          /\ UNCHANGED <<heapVars, held>>
    /\ UNCHANGED taken

(* kfree: a page-aligned block that is on the list of big blocks gives its   *)
(* pages back and its bigblock_t; any other has its header one unit before.  *)
Big(b) == {i \in DOMAIN bigblocks : b.at % PAGE = 0 /\ bigblocks[i].page * PAGE = b.at}

KfreeBig(b) ==
    /\ call = Idle
    /\ \E i \in Big(b) :
          /\ bigblocks' = RemoveAt(bigblocks, i)
          /\ FreePages(b.at \div PAGE, 2 ^ bigblocks[i].order)
          /\ SlobFree(bigblocks[i].bb, SLOB_UNITS(BIGBLOCK))
    /\ held' = held \ {b}
    /\ UNCHANGED <<taken, call>>

KfreeSmall(b) ==
    /\ call = Idle /\ Big(b) = {}
    /\ LET header == b.at \div UNIT - 1
       IN SlobFree(header, heap[header].units)
    /\ held' = held \ {b}
    /\ UNCHANGED <<pageVars, bigblocks, taken, call>>

(* The rest of the kernel takes and frees pages of its own. *)
TakePages(n) ==
    /\ call = Idle
    /\ AllocPages(n)
    /\ taken' = IF got'.at = None THEN taken ELSE taken \union {<<got'.at, n>>}
    /\ UNCHANGED <<heapVars, held, call>>

ReturnPages(b, n) ==
    /\ call = Idle /\ <<b, n>> \in taken
    /\ FreePages(b, n)
    /\ taken' = taken \ {<<b, n>>}
    /\ UNCHANGED <<heapVars, held, call>>

Running == SmallReturn \/ Grow \/ BigBlock \/ BigPages
Next ==
    \/ Running
    \/ \E size \in Sizes : Kmalloc(size)
    \/ \E b \in held : KfreeBig(b) \/ KfreeSmall(b)
    \/ \E n \in UserBlocks : TakePages(n) \/ \E b \in Pages : ReturnPages(b, n)

Spec == Init /\ [][Next]_vars

-----------------------------------------------------------------------------
(* Every unit of the pages that the page manager has given out is in exactly *)
(* one place: a free block, a block in use, a big block or a page of         *)
(* somebody else, and a block in use is one that was given out or a          *)
(* bigblock_t of one that was.  Nothing is given out twice, nothing leaks, also   *)
(* not on the way out of a request that fails (slob_alloc, slob_free,        *)
(* __kmalloc, kfree).                                                        *)
UnitsOf(a, n) == a..(a + n - 1)
InPages(b, n) == UnitsOf(Addr(b), n * UnitsPerPage)

Places(x) ==
    {<<"block", a>> : a \in {c \in DOMAIN heap : c # Arena /\ x \in UnitsOf(c, heap[c].units)}}
    \union {<<"page", t>> : t \in {u \in taken : x \in InPages(u[1], u[2])}}
    \union {<<"pages", i>> : i \in {j \in DOMAIN bigblocks :
                x \in InPages(bigblocks[j].page, 2 ^ bigblocks[j].order)}}

HeapTiled ==
    /\ \A p \in Pages : \A x \in InPages(p, 1) :
        Cardinality(Places(x)) = IF p \in ToSet(free_list) THEN 0 ELSE 1
    /\ call # Halted => DOMAIN heap \ FreeBlocks =
          {b.at \div UNIT - 1 : b \in {c \in held : Big(c) = {}}}
          \union {bigblocks[i].bb : i \in DOMAIN bigblocks}
          \union IF call.op = "pages" THEN {call.bb} ELSE {}

(* Every block given out is as large as was asked for, and is the only one   *)
(* at its place: a small block's header and body are one block that is in    *)
(* use, a big one's pages are its own (__kmalloc, find_order).               *)
BlocksLargeEnough ==
    \A b \in held :
        IF Big(b) # {} THEN \A i \in Big(b) : 2 ^ bigblocks[i].order * PAGE >= b.size
        ELSE LET header == b.at \div UNIT - 1
             IN /\ header \in DOMAIN heap /\ ~IsFree(header)
                /\ (heap[header].units - 1) * UNIT >= b.size

(* One page is always enough: after the ring has grown, the search that goes *)
(* round it without a bound finds its block (slob_alloc).                    *)
GrowSuffices ==
    [][Searching /\ call' = call /\ heap' # heap => Fitting(call.units)' # {}]_vars
=============================================================================
