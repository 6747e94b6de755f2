-------------------------------- MODULE Sfmm --------------------------------
(***************************************************************************)
(* The dynamic storage allocator of hw3 (src/hw3/src/sfmm.c): a heap of    *)
(* pages, block headers and footers with allocation bits, and eight        *)
(* circular, doubly linked free lists.  Memory is modelled word by word: a *)
(* function from the addresses written so far to their contents, with the  *)
(* sentinels of the free lists (sf_free_list_heads) at addresses of their  *)
(* own.  The word nobody wrote holds 0 (sfutil.o takes the region in one   *)
(* malloc large enough to be a fresh mapping).                             *)
(*                                                                         *)
(* Every operator on the heap takes a heap record h and returns the one    *)
(* the C function leaves:                                                  *)
(*    mem    the words written so far                                      *)
(*    end    sf_mem_end()                                                  *)
(*    errno  sf_errno: "none" (0), "ENOMEM" or "EINVAL"                    *)
(*    ret    the value the last call returned (Null is NULL)               *)
(* A word is kept as the signed 64-bit integer of the same bits.           *)
(***************************************************************************)
EXTENDS SfmmSizes, Integers, Sequences, FiniteSets, SequencesExt

CONSTANTS Page,       \* PAGE_SZ, in bytes
          MaxPages,   \* pages sf_mem_grow can hand out (16 in sfutil.o)
          Sizes,      \* the sizes the client passes to sf_malloc
          Resizes,    \* the sizes it passes to sf_realloc
          Aligns,     \* the alignments it passes to sf_memalign
          Values,     \* the words it writes into its payloads
          Careful,    \* TRUE: it calls sf_malloc, sf_realloc and sf_memalign only
                      \* while no block but the wilderness is free, and never
                      \* shrinks the block that ends the heap, nor resizes one
                      \* to more than its payload and no more than its size
          MaxCalls    \* bound on the number of steps of the client

VARIABLES h,        \* the heap
          live,     \* the client's allocations, oldest first: pointer p, bytes n
          status,   \* "ok", "abort" (abort() was called) or "fault" (bad access)
          calls     \* steps of the client so far (bound only)

vars == <<h, live, status, calls>>

Null == 0
Start == 1048576                  \* sf_mem_start()
Sentinel(i) == 2097152 + 24 * i   \* &sf_free_list_heads[i]
Lists == 0 .. 7                   \* 0 .. NUM_FREE_LISTS - 1
MaxSize == 268435456              \* an int holds every size, and sums of them

ASSUME SfmmAssumption ==
    /\ Page \in Nat /\ Page % 16 = 0 /\ Page >= 80     \* 48 are spent on a new heap
    /\ MaxPages \in Nat \ {0} /\ MaxCalls \in Nat /\ Careful \in BOOLEAN
    /\ Start + MaxPages * Page <= Sentinel(0)          \* the pages are not the sentinels
    /\ Sizes \cup Resizes \cup Aligns \subseteq 0 .. MaxSize

\* The addresses the program may touch.
Mapped(a) == a \in Start .. Start + MaxPages * Page - 1 \/ a \in Sentinel(0) .. Sentinel(8) - 1

(***************************************************************************)
(* Words, header bits and links.                                           *)
(***************************************************************************)
At(m, a) == IF a \in DOMAIN m THEN m[a] ELSE 0
Put(m, a, v) == [x \in DOMAIN m \cup {a} |-> IF x = a THEN v ELSE m[x]]
\* Several stores <<address, value>>, in the order of the sequence.
Writes(m, ws) ==
    [x \in DOMAIN m \cup {ws[k][1] : k \in DOMAIN ws} |->
        LET to == {k \in DOMAIN ws : ws[k][1] = x}
        IN  IF to = {} THEN m[x] ELSE ws[CHOOSE k \in to : \A j \in to : j <= k][2]]

Bit(w, b) == (w \div b) % 2
Allocd(w) == Bit(w, 1) = 1                  \* w & THIS_BLOCK_ALLOCATED
PrevAllocd(w) == Bit(w, 2) = 1              \* w & PREV_BLOCK_ALLOCATED
NoPrev(w) == w - 2 * Bit(w, 2)              \* clear PREV_BLOCK_ALLOCATED
WithPrev(w) == NoPrev(w) + 2                \* set it
WithAlloc(w) == w - Bit(w, 1) + 1           \* set THIS_BLOCK_ALLOCATED
SizeOf(w) == NoPrev(w) - Bit(w, 1)          \* clear both

NextLink(m, b) == At(m, b + 8)              \* b->body.links.next
PrevLink(m, b) == At(m, b + 16)             \* b->body.links.prev
First(m, i) == NextLink(m, Sentinel(i))

\* Make b the only block of list 7 / empty list 7.
OnlyWild(m, b) == Writes(m, << <<Sentinel(7) + 8, b>>, <<Sentinel(7) + 16, b>>,
                               <<b + 8, Sentinel(7)>>, <<b + 16, Sentinel(7)>> >>)
NoWild(m) == Writes(m, << <<Sentinel(7) + 8, Sentinel(7)>>,
                          <<Sentinel(7) + 16, Sentinel(7)>> >>)

\* Put b first in list i, in the order of the stores of the two splits ...
PushSplit(m, i, b) ==
    Writes(m, << <<b + 8, First(m, i)>>, <<b + 16, Sentinel(i)>>,
                 <<First(m, i) + 16, b>>, <<Sentinel(i) + 8, b>> >>)
\* ... and in the order of those of sf_free.
PushFree(m, i, b) ==
    Writes(m, << <<b + 8, First(m, i)>>, <<First(m, i) + 16, b>>,
                 <<Sentinel(i) + 8, b>>, <<b + 16, Sentinel(i)>> >>)

free_list_free(m, b) ==
    LET m1 == Put(m, PrevLink(m, b) + 8, NextLink(m, b))
    IN  Put(m1, NextLink(m1, b) + 16, PrevLink(m1, b))

(***************************************************************************)
(* Growing the heap.                                                       *)
(***************************************************************************)
\* sf_mem_grow of sfutil.o: one more page, or ENOMEM.
CanGrow(s) == s.end + Page <= Start + MaxPages * Page

\* init_free_lists: every list is its sentinel alone.
init_free_lists ==
    [a \in {Sentinel(i) + 8 : i \in Lists} \cup {Sentinel(i) + 16 : i \in Lists} |->
        Sentinel((a - Sentinel(0)) \div 24)]

init_heap(s) ==
    LET end  == s.end + Page
        wild == Start + 40
        head == WithPrev(Page - 48)
        m    == Writes(init_free_lists, << <<Start + 8, WithAlloc(32)>>, <<end - 8, 0>>,
                                     <<wild, head>>, <<wild + Page - 56, head>> >>)
    IN  [s EXCEPT !.end = end, !.mem = OnlyWild(m, wild)]

\* Mutant of wild_check: the wilderness always looks large enough.
wild_check_never(s, n) == FALSE

\* Whether the request is larger than the wilderness.
wild_check(s, n) ==
    LET w == At(s.mem, First(s.mem, 7)) IN w >= 0 /\ n > w

gen_mem(s) ==
    LET wild == First(s.mem, 7)
        head == At(s.mem, wild) + Page
        end  == s.end + Page
        m    == Writes(s.mem, << <<wild, head>>, <<end - 16, head>>, <<end - 8, 0>> >>)
    IN  [s EXCEPT !.end = end, !.mem = OnlyWild(m, wild)]

(***************************************************************************)
(* Allocating.                                                             *)
(***************************************************************************)
\* Mutant of ClearPrev: the block behind is not told.
ClearPrev_not(m, b) == m

ClearPrev(m, b) == IF PrevAllocd(At(m, b)) THEN Put(m, b, NoPrev(At(m, b))) ELSE m

\* How every split begins: block b of len bytes becomes an allocated one of n
\* bytes, a header is written for the rest, and the block behind it is looked
\* at: ext is its size when it is free, otherwise 0 and it is told that the
\* block before it is free.
Cut(m, b, len, n) ==
    LET m1 == Writes(m, << <<b, n + 1 + 2 * Bit(At(m, b), 2)>>, <<b + n, len - n>> >>)
        w  == At(m1, b + len)
    IN  IF Allocd(w) THEN [mem |-> ClearPrev(m1, b + len), ext |-> 0]
                     ELSE [mem |-> m1, ext |-> NoPrev(w)]

\* split_block for the wilderness: the head of list 7 shrinks to n bytes and
\* what is left of it, at new, is the only block of list 7.
WildRest(c, new) ==
    LET rest == WithPrev(At(c.mem, new))
        foot == new + At(c.mem, new) + c.ext - 8
    IN  OnlyWild(Writes(c.mem, << <<new, rest>>, <<foot, rest>> >>), new)

SplitWild(s, n) ==
    LET cur == First(s.mem, 7)
    IN  [s EXCEPT !.ret = cur + 8,
                  !.mem = WildRest(Cut(s.mem, cur, NoPrev(At(s.mem, cur)), n), cur + n)]

\* The rest of a block enters the list of its size, or list 7 when it took in
\* the wilderness that was at b.
PlaceRest(m, c, b, new, size) ==
    IF c.ext > 0 /\ b = First(c.mem, 7) THEN PushSplit(NoWild(m), 7, new)
                                        ELSE PushSplit(m, get_index(size), new)

\* split_block for the other lists: the head of list i shrinks to n bytes.  It
\* stays linked in list i.  The footer's address is computed on an sf_block
\* pointer, so in strides of 24 bytes.
ListedRest(c, end, new) ==
    LET size == end - new + c.ext
        rest == WithPrev(At(c.mem, new))
        m    == Writes(c.mem, << <<new, rest>>, <<new + 24 * (size - 8), rest + c.ext>> >>)
    IN  PlaceRest(m, c, end, new, size)

SplitListed(s, i, n) ==
    LET cur == First(s.mem, i)
        len == NoPrev(At(s.mem, cur))
    IN  [s EXCEPT !.ret = cur + 8,
                  !.mem = ListedRest(Cut(s.mem, cur, len, n), cur + len, cur + n)]

\* The head of list i is allocated whole.  The header behind it is not told.
norm_alloc(s, i) ==
    LET cur == First(s.mem, i)
        m1  == Writes(s.mem, << <<cur, WithAlloc(At(s.mem, cur))>>,
                                <<NextLink(s.mem, cur) + 16, Sentinel(i)>> >>)
        m2  == Put(m1, Sentinel(i) + 8, NextLink(m1, First(m1, i)))
    IN  [s EXCEPT !.ret = cur + 8,
                  !.mem = IF PrevLink(m2, Sentinel(i)) = cur THEN Put(m2, Sentinel(i) + 16, Sentinel(i))
                                                      ELSE m2]

\* The part of sf_malloc's loop for the wilderness: grow until the request
\* fits, or give up (sf_errno is ENOMEM, NULL is returned).
GrowOnce(s, n) ==
    IF ~wild_check(s, n) \/ s.errno = "ENOMEM" THEN s
    ELSE IF CanGrow(s) THEN gen_mem(s)
    ELSE [s EXCEPT !.errno = "ENOMEM", !.ret = Null]

GrowFor(s, n) ==
    LET grown[k \in 0 .. MaxPages] ==
            IF k = 0 THEN [s EXCEPT !.errno = "none"] ELSE GrowOnce(grown[k - 1], n)
    IN  grown[MaxPages]

TakeWild(s, n) ==
    IF Splittable(At(s.mem, First(s.mem, 7)), n) THEN SplitWild(s, n) ELSE norm_alloc(s, 7)

\* The program sees sf_errno as it was unless memory ran out.
Grown(g, errno, n) ==
    IF g.errno = "ENOMEM" THEN g ELSE TakeWild([g EXCEPT !.errno = errno], n)
FromWild(s, n) == Grown(GrowFor(s, n), s.errno, n)

\* One turn of the loop of sf_malloc.  Only list 7 ends it.
TakeFrom(s, i, n) ==
    IF First(s.mem, i) = Sentinel(i) THEN s
    ELSE IF i = 7 THEN FromWild(s, n)
    ELSE IF Splittable(At(s.mem, First(s.mem, i)), n) THEN SplitListed(s, i, n)
    ELSE norm_alloc(s, i)

sf_malloc(s, size) ==
    IF size = 0 THEN [s EXCEPT !.ret = Null]
    ELSE LET n  == BlockSize(size)
             s0 == IF s.end = Start THEN init_heap(s) ELSE s
             tried[i \in 0 .. 8] ==     \* the lists before list i were tried
                 IF i <= get_index(n) THEN [s0 EXCEPT !.ret = Null]
                 ELSE TakeFrom(tried[i - 1], i - 1, n)
         IN  tried[8]

(***************************************************************************)
(* Freeing.                                                                *)
(***************************************************************************)
\* pre_check: "ok", or "abort" when it calls abort(), or "fault" when the
\* header it computes from the word before the block is not mapped.
pre_check(s, p) ==
    LET head == p - 8
        w    == At(s.mem, head)
        size == SizeOf(w)
        val  == SizeOf(At(s.mem, head - 8))
        prev == IF PrevAllocd(w) THEN head - val ELSE head - 8 - val
    IN  CASE \/ p = Null \/ p % 16 # 0 \/ size < 32 \/ size % 16 # 0
             \/ ~Allocd(w) \/ head + size + 8 > s.end -> "abort"
          [] OTHER -> IF ~Mapped(prev) THEN "fault"
                      ELSE IF PrevAllocd(w) = Allocd(At(s.mem, prev)) THEN "ok"
                      ELSE "abort"

\* Mutant of NextIsFree: the allocation bit is not looked at.
NextIsFree_blind(s, m, b) == b # s.end - 8

\* Whether the block at b, behind the one being freed, is free: the epilogue is not.
NextIsFree(s, m, b) == b # s.end - 8 /\ ~Allocd(At(m, b))

\* The block being freed, at curr, with the neighbours that are free.
Merge(s, m, curr) ==
    LET siz   == NoPrev(At(m, curr))
        next  == curr + siz
        prevFree == ~PrevAllocd(At(m, curr))
        nextFree == NextIsFree(s, m, next)
        foot  == At(m, curr - 8)
        siz1  == IF prevFree THEN NoPrev(foot) ELSE 0
        siz2  == IF nextFree THEN NoPrev(At(m, next)) ELSE 0
        tot   == siz + siz1 + siz2
    IN  [base |-> curr - siz1, tot |-> tot, next |-> next,
         prevFree |-> prevFree, nextFree |-> nextFree,
         head |-> IF prevFree /\ ~PrevAllocd(foot) THEN tot ELSE WithPrev(tot)]

UnlinkPrev(m, w) == IF w.prevFree THEN free_list_free(m, w.base) ELSE m
UnlinkNext(m, w) == IF w.nextFree THEN free_list_free(m, w.next) ELSE m

\* Whether the whole takes in the wilderness, or ends the heap.
EndsHeap(s, m, w) == IF w.nextFree THEN w.next = First(m, 7) ELSE w.base + w.tot = s.end - 8

Relink(m, w, wild) ==
    LET m1 == Writes(m, << <<w.base, w.head>>, <<w.base + w.tot - 8, w.head>> >>)
    IN  IF wild THEN OnlyWild(m1, w.base) ELSE PushFree(m1, get_index(w.tot), w.base)

\* The four cases of sf_free differ in which neighbours are free; each of them
\* unlinks those, writes header and footer of the whole, puts it in list 7 or
\* the list of its size and clears PREV_BLOCK_ALLOCATED behind it.
sf_free(s, p) ==
    LET m0 == Put(s.mem, p - 8, At(s.mem, p - 8) - 1)
        w  == Merge(s, m0, p - 8)
        m1 == UnlinkPrev(m0, w)
    IN  [s EXCEPT !.mem = ClearPrev(Relink(UnlinkNext(m1, w), w, EndsHeap(s, m1, w)),
                                    w.base + w.tot)]

(***************************************************************************)
(* Resizing.                                                               *)
(***************************************************************************)
\* The allocated block of payload p shrinks to n bytes.  The rest takes in a
\* free block behind it, which stays linked unless it is the wilderness.
ShrunkRest(c, end, new) ==
    LET size == end - new + c.ext
        rest == WithPrev(At(c.mem, new) + c.ext)
        m    == Writes(c.mem, << <<new, rest>>, <<new + size - 8, rest>> >>)
    IN  PlaceRest(m, c, end, new, size)

split_block_alloc(s, p, n) ==
    LET john == p - 8
        len  == SizeOf(At(s.mem, john))
    IN  [s EXCEPT !.ret = p,
                  !.mem = ShrunkRest(Cut(s.mem, john, len, n), john + len, john + n)]

\* memcpy of the payload of block b, read eight blocks (192 bytes) past its
\* header, into the payload at q.
CopyFrom(s, b, q, n) ==
    [s EXCEPT !.mem = Writes(@, [k \in 1 .. n \div 8 |->
                         <<q + 8 * (k - 1), At(s.mem, b + 192 + 8 * (k - 1))>>])]

\* A NULL of sf_malloc makes the memcpy fault; ret is Null then.
Moved(t, b, n) == IF t.ret = Null THEN t ELSE CopyFrom(t, b, t.ret, n)

\* sf_realloc after its pre_check, for rsize # 0.
sf_realloc(s, p, rsize) ==
    LET size == SizeOf(At(s.mem, p - 8))
        n    == BlockSize(rsize)
    IN  CASE size = rsize -> [s EXCEPT !.ret = p]
          [] size > rsize -> IF Splittable(size, n) THEN split_block_alloc(s, p, n)
                                                    ELSE [s EXCEPT !.ret = p]
          [] size < rsize -> Moved(sf_malloc(s, rsize), p - 8, size - 8)

(***************************************************************************)
(* Aligned allocation.                                                     *)
(***************************************************************************)
PowerOfTwo(n) == \E k \in 0 .. 16 : n = 2 ^ k

\* A block larger than needed is taken, and returned only when the address
\* behind its first word is aligned already; otherwise NULL, the block kept.
IfAligned(t, align) == IF (t.ret + 8) % align = 0 THEN t ELSE [t EXCEPT !.ret = Null]

sf_memalign(s, size, align) ==
    CASE align < 32 \/ ~PowerOfTwo(align) -> [s EXCEPT !.errno = "EINVAL", !.ret = Null]
      [] align >= 32 /\ PowerOfTwo(align) /\ size = 0 -> [s EXCEPT !.ret = Null]
      [] OTHER -> IfAligned(sf_malloc(s, size + align + 32), align)

(***************************************************************************)
(* The program that uses the allocator: it passes only pointers it was     *)
(* given and has not given back, and writes only inside its payloads.      *)
(***************************************************************************)
Init ==
    /\ h = [mem |-> [a \in {} |-> 0], end |-> Start, errno |-> "none", ret |-> Null]
    /\ live = <<>>
    /\ status = "ok"
    /\ calls = 0

Call == status = "ok" /\ calls < MaxCalls /\ calls' = calls + 1

\* What a careful program waits for before it asks for memory, and before it
\* resizes the block of payload p to rsize.
MayAsk == Careful /\ h.end > Start => \A i \in 0 .. 6 : First(h.mem, i) = Sentinel(i)
MayResize(p, rsize) ==
    LET size == SizeOf(At(h.mem, p - 8))
    IN  Careful => MayAsk /\ p - 8 + size # h.end - 8 /\ rsize \notin size - 7 .. size

\* The heap becomes s: the call faults if it wrote outside mapped memory.
Become(s) ==
    /\ h' = s
    /\ status' = IF \A a \in DOMAIN s.mem : Mapped(a) THEN "ok" ELSE "fault"

Stop(why) == status' = why /\ UNCHANGED <<h, live>>

Without(i) == RemoveAt(live, i)
Holding(seq, p, n) == IF p = Null THEN seq ELSE Append(seq, [p |-> p, n |-> n])

Malloc(size) ==
    /\ Call /\ MayAsk
    /\ \E s \in {sf_malloc(h, size)} : Become(s) /\ live' = Holding(live, s.ret, size)

Free(i) ==
    /\ Call
    /\ LET p   == live[i].p
           chk == pre_check(h, p)
       IN  IF chk # "ok" THEN Stop(chk)
           ELSE Become(sf_free(h, p)) /\ live' = Without(i)

\* Mutant of Realloc: the old block is not freed after the copy.
Realloc_keeps(i, rsize) ==
    /\ Call /\ MayResize(live[i].p, rsize) /\ pre_check(h, live[i].p) = "ok"
    /\ \E s \in {sf_realloc(h, live[i].p, rsize)} :
          /\ s.ret # Null /\ Become(s)
          /\ live' = Holding(Without(i), s.ret, rsize)

Realloc(i, rsize) ==
    /\ Call /\ MayResize(live[i].p, rsize)
    /\ \E p \in {live[i].p}, s \in {sf_realloc(h, live[i].p, rsize)} :
          IF pre_check(h, p) # "ok" THEN Stop(pre_check(h, p))
          ELSE IF s.ret = Null THEN Stop("fault")
          ELSE IF SizeOf(At(h.mem, p - 8)) >= rsize
               THEN Become(s) /\ live' = [live EXCEPT ![i].n = rsize]
          ELSE IF pre_check(s, p) # "ok" THEN Stop(pre_check(s, p))
          ELSE /\ Become(sf_free(s, p))
               /\ live' = Holding(Without(i), s.ret, rsize)

\* sf_realloc(p, 0) hands p to free() of the C library, which never gave it
\* out, and goes on if it survives that.
ReallocZero(i) ==
    /\ Call /\ MayResize(live[i].p, 0)
    /\ LET p   == live[i].p
           chk == pre_check(h, p)
       IN  IF chk # "ok" THEN Stop(chk)
           ELSE \/ Stop("abort")
                \/ /\ Become(sf_realloc(h, p, 0))
                   /\ live' = [live EXCEPT ![i].n = 0]

Memalign(size, align) ==
    /\ Call /\ MayAsk
    /\ \E s \in {sf_memalign(h, size, align)} :
          Become(s) /\ live' = Holding(live, s.ret, size)

\* The program writes v into the first or the last word of a payload.
Write(i, v) ==
    /\ Call
    /\ \E a \in {live[i].p, live[i].p + live[i].n - 8} :
          /\ live[i].n >= 8
          /\ At(h.mem, a) # v
          /\ h' = [h EXCEPT !.mem = Put(@, a, v)]
    /\ UNCHANGED <<live, status>>

Next ==
    \/ \E size \in Sizes : Malloc(size)
    \/ \E size \in Sizes, align \in Aligns : Memalign(size, align)
    \/ \E i \in DOMAIN live :
          \/ Free(i)
          \/ ReallocZero(i) /\ 0 \in Resizes
          \/ \E rsize \in Resizes \ {0} : Realloc(i, rsize)
          \/ \E v \in Values : Write(i, v)

Spec == Init /\ [][Next]_vars

(***************************************************************************)
(* Properties.                                                             *)
(***************************************************************************)
\* The blocks from the first one to the epilogue, by their headers.
Hop(m, b) == b + SizeOf(At(m, b))
Blocks(s) ==
    LET block[k \in 0 .. (s.end - Start) \div 32] ==
            IF k = 0 THEN Start + 40 ELSE Hop(s.mem, block[k - 1])
    IN  {block[k] : k \in DOMAIN block}

Ready == status = "ok" /\ h.end > Start
EndOf(b) == b + SizeOf(At(h.mem, b))
IsFree(b) == b # h.end - 8 /\ ~Allocd(At(h.mem, b))

\* The headers tile the heap up to its epilogue; each of them says of the
\* block before it whether it is allocated; a free block carries its header
\* again as its footer; and no two free blocks are neighbours.
Coalesced ==
    Ready =>
      /\ h.end - 8 \in Blocks(h)
      /\ \A b \in Blocks(h) \ {h.end - 8} :
            /\ SizeOf(At(h.mem, b)) >= 32 /\ EndOf(b) <= h.end - 8
            /\ IsFree(b) => /\ At(h.mem, EndOf(b) - 8) = At(h.mem, b)
                            /\ ~IsFree(EndOf(b))
            /\ EndOf(b) # h.end - 8 =>
                  PrevAllocd(At(h.mem, EndOf(b))) = Allocd(At(h.mem, b))

\* Each free list is a ring through its sentinel and holds exactly the free
\* blocks of its class: list 7 the one that ends the heap, the others those of
\* their sizes (sfmm.h, the comment before NUM_FREE_LISTS).
ClassOf(b) ==
    IF EndOf(b) = h.end - 8 THEN 7
    ELSE CHOOSE i \in 0 .. 6 : InClass(SizeOf(At(h.mem, b)), i)
Onward(m, nodes) == nodes \cup {NextLink(m, b) : b \in nodes}
Ring(i) ==
    LET ring[k \in 0 .. Cardinality(Blocks(h))] ==
            IF k = 0 THEN {Sentinel(i)} ELSE Onward(h.mem, ring[k - 1])
    IN  ring[Cardinality(Blocks(h))]
Listed ==
    Ready => \A i \in Lists :
      /\ Ring(i) = {Sentinel(i)} \cup {b \in Blocks(h) : IsFree(b) /\ ClassOf(b) = i}
      /\ \A b \in Ring(i) : PrevLink(h.mem, NextLink(h.mem, b)) = b

\* No two allocations of the program share a byte, and each lies inside the
\* heap, before the epilogue.
Bytes(x) == x.p .. x.p + x.n - 1
Separate ==
    status = "ok" =>
      /\ \A i \in DOMAIN live : Bytes(live[i]) \subseteq Start + 48 .. h.end - 9
      /\ \A i, j \in DOMAIN live : i # j => Bytes(live[i]) \cap Bytes(live[j]) = {}

\* No call of the allocator changes a word of an allocation that the program
\* holds before and after it.
PayloadKept ==
    [][ (status' = "ok" /\ ~\E i \in DOMAIN live, v \in Values : Write(i, v)) =>
          \A i \in DOMAIN live, j \in DOMAIN live' :
             live'[j].p = live[i].p =>
               \A a \in Bytes(live[i]) \cap Bytes(live'[j]) :
                  At(h'.mem, a) = At(h.mem, a) ]_vars

\* sf_free, and sf_realloc before it resizes, call abort() only for a pointer
\* that is not valid (sfmm.h); the program passes valid ones only.
ValidAccepted == status # "abort"

\* Every allocated block is one the program holds, and stays so whatever the
\* program calls except sf_memalign.
Held(s, seq) ==
    \A b \in Blocks(s) \ {s.end - 8} :
        Allocd(At(s.mem, b)) => b + 8 \in {x.p : x \in ToSet(seq)}
HeldKept ==
    [][ Ready /\ status' = "ok" /\ Held(h, live) =>
          \/ Held(h', live')
          \/ \E size \in Sizes, align \in Aligns : Memalign(size, align) ]_vars
=============================================================================
