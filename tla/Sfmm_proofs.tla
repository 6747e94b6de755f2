----------------------------- MODULE Sfmm_proofs -----------------------------
(***************************************************************************)
(* The allocator of hw3 under a careful program (Careful), for pages of      *)
(* every size, heaps of every length and every sequence of its calls: the    *)
(* blocks tile the heap and no two free ones are neighbours (Coalesced), the *)
(* free lists are exactly the free blocks (Listed), allocations are apart    *)
(* (Separate), keep their contents (PayloadKept) and are not lost (HeldKept). *)
(* Each of the five follows from one inductive invariant, IInv, at the end.  *)
(***************************************************************************)
EXTENDS Sfmm, SequenceTheorems, FiniteSetTheorems, WellFoundedInduction, TLAPS

-----------------------------------------------------------------------------
(* The arithmetic of sizes. *)
\* Rounding a request up: what it gives holds the request behind a header, is a
\* multiple of 16, 32 at least, and less than 32 too much.
LEMMA RoundedUp ==
    ASSUME NEW n \in Nat
    PROVE  /\ BlockSize(n) \in Nat /\ BlockSize(n) % 16 = 0
           /\ BlockSize(n) >= 32 /\ BlockSize(n) >= n + 8
           /\ BlockSize(n) < n + 8 + 32
<1> DEFINE v == IF n + 8 < 32 THEN 32 ELSE n + 8
<1>1. /\ v \in Nat /\ v >= 32 /\ v >= n + 8
      /\ v < n + 8 + 32 /\ (v = n + 8 \/ v = 32)
    OBVIOUS
<1>2. CASE v % 16 = 0
    <2>1. BlockSize(n) = v
        BY <1>2 DEF BlockSize
    <2> QED BY <1>1, <1>2, <2>1
<1>3. CASE v % 16 # 0
    <2>1. BlockSize(n) = v + (16 - (v % 16))
        BY <1>3 DEF BlockSize
    <2>2. v % 16 \in 1 .. 15 /\ v = n + 8
        BY <1>1, <1>3
    <2>3. (v + (16 - (v % 16))) % 16 = 0
        <3> HIDE DEF v
        <3> QED BY <1>1
    <2> HIDE DEF v
    <2> QED BY <1>1, <2>1, <2>2, <2>3
<1> QED BY <1>2, <1>3

\* The block sf_malloc and sf_realloc compute for a request (sfmm.c:256-262,
\* 557-562) holds the request behind its header, can be a free block later (32
\* bytes), keeps the payloads on 16-byte boundaries and wastes less than 32 bytes,
\* for every request whose block an int can count; for these no step of the
\* computation overflows.
THEOREM BlockHoldsRequest ==
    ASSUME NEW n \in Nat, FitsInt(n)
    PROVE  /\ BlockSize(n) % 16 = 0 /\ BlockSize(n) >= 32 /\ BlockSize(n) >= n + 8
           /\ BlockSize(n) < n + 8 + 32
           /\ n + 8 <= INT_MAX /\ BlockSize(n) <= INT_MAX
<1> DEFINE v == IF n + 8 < 32 THEN 32 ELSE n + 8
<1>1. (v \in Nat /\ v <= n + 8 + 15) \/ v = 32
    OBVIOUS
<1>2. BlockSize(n) = v \/ (v = n + 8 /\ BlockSize(n) <= v + 15) \/ BlockSize(n) = 32
    <2>1. v \in Nat /\ (v = n + 8 \/ (v = 32 /\ v % 16 = 0))
        OBVIOUS
    <2>2. BlockSize(n) = IF v % 16 = 0 THEN v ELSE v + (16 - (v % 16))
        BY DEF BlockSize
    <2>3. v % 16 \in 0 .. 15
        BY <2>1
    <2> HIDE DEF v
    <2> QED BY <2>1, <2>2, <2>3
<1> HIDE DEF v
<1>3. n + 8 <= INT_MAX /\ 32 <= INT_MAX
    BY DEF FitsInt, INT_MAX
<1>4. v <= INT_MAX /\ (v = n + 8 => v + 15 <= INT_MAX)
    BY <1>1, <1>3 DEF FitsInt, INT_MAX, v
<1>5. BlockSize(n) <= INT_MAX
    <2>1. BlockSize(n) \in Nat /\ v \in Nat
        BY RoundedUp DEF v
    <2> QED BY <1>2, <1>3, <1>4, <2>1 DEF INT_MAX
<1> QED BY <1>3, <1>5, RoundedUp

\* get_index puts every block size into the list that the comment before
\* NUM_FREE_LISTS gives it, and never into list 7.
THEOREM IndexMatchesClass ==
    ASSUME NEW n \in Nat, n >= 32
    PROVE  get_index(n) \in 0 .. 6 /\ InClass(n, get_index(n))
<1>1. CASE n = 32
    <2>1. get_index(n) = 0
        BY <1>1 DEF get_index
    <2> QED BY <1>1, <2>1 DEF InClass
<1>2. CASE n > 32 /\ n <= 64
    <2>1. get_index(n) = 1
        BY <1>2 DEF get_index
    <2> QED BY <1>2, <2>1 DEF InClass
<1>3. CASE n > 64 /\ n <= 128
    <2>1. get_index(n) = 2
        BY <1>3 DEF get_index
    <2> QED BY <1>3, <2>1 DEF InClass
<1>4. CASE n > 128 /\ n <= 256
    <2>1. get_index(n) = 3
        BY <1>4 DEF get_index
    <2> QED BY <1>4, <2>1 DEF InClass
<1>5. CASE n > 256 /\ n <= 512
    <2>1. get_index(n) = 4
        BY <1>5 DEF get_index
    <2> QED BY <1>5, <2>1 DEF InClass
<1>6. CASE n > 512 /\ n <= 1024
    <2>1. get_index(n) = 5
        BY <1>6 DEF get_index
    <2> QED BY <1>6, <2>1 DEF InClass
<1>7. CASE n > 1024
    <2>1. get_index(n) = 6
        BY <1>7 DEF get_index
    <2> QED BY <1>7, <2>1 DEF InClass
<1> QED BY <1>1, <1>2, <1>3, <1>4, <1>5, <1>6, <1>7

-----------------------------------------------------------------------------

Bottom == Start + 40                \* the first block
Top == Start + MaxPages * Page      \* where the last page ends
Wild == 7                           \* the list of the wilderness

(***************************************************************************)
(* A heap without its words: e is its epilogue, A and F are its allocated    *)
(* and its free blocks, z says how long each of them is.                     *)
(***************************************************************************)
Geometry(e, B, z) ==
    /\ B \subseteq Nat /\ z \in [B -> Nat] /\ e \in Nat /\ e \notin B /\ Bottom \in B
    /\ \A b \in B : /\ b >= Bottom /\ z[b] >= 32 /\ z[b] % 16 = 0
                    /\ b + z[b] <= e /\ b + z[b] \in B \cup {e}
    /\ \A b, c \in B : b # c => b + z[b] <= c \/ c + z[c] <= b

\* The two flags of a header.
Own(A, b) == IF b \in A THEN 1 ELSE 0
Behind(F, z, b) == IF \E c \in F : c + z[c] = b THEN 0 ELSE 2

Words(m, e, A, F, z) ==
    /\ At(m, e) = 0
    /\ \A b \in A \cup F : At(m, b) = z[b] + Own(A, b) + Behind(F, z, b)
    /\ \A b \in F : At(m, b + z[b] - 8) = z[b] + 2

(***************************************************************************)
(* The free lists.  list says for each free block which one it is in; rank   *)
(* falls along the links, so that no ring misses its sentinel.               *)
(***************************************************************************)
InList(list, i) == {Sentinel(i)} \cup {b \in DOMAIN list : list[b] = i}

Rings(m, list) ==
    \A i \in Lists : \A x \in InList(list, i) :
        /\ NextLink(m, x) \in InList(list, i) /\ PrevLink(m, x) \in InList(list, i)
        /\ PrevLink(m, NextLink(m, x)) = x /\ NextLink(m, PrevLink(m, x)) = x

Ranks(m, list, rank, top) ==
    /\ top \in Nat /\ rank \in [DOMAIN list -> 0 .. top]
    /\ \A b \in DOMAIN list : NextLink(m, b) \in DOMAIN list => rank[NextLink(m, b)] < rank[b]

Linked(m, list) == Rings(m, list) /\ \E rank, top : Ranks(m, list, rank, top)

Class(e, z, b) == IF b + z[b] = e THEN Wild ELSE get_index(z[b])
ListOf(e, F, z) == [b \in F |-> Class(e, z, b)]

Heap(m, e, A, F, z) ==
    /\ Geometry(e, A \cup F, z) /\ A \cap F = {} /\ e + 8 <= Sentinel(0)
    /\ \A b \in F : b + z[b] \notin F
    /\ Words(m, e, A, F, z)
    /\ Linked(m, ListOf(e, F, z))

(***************************************************************************)
(* What the program holds: each allocation is an allocated block of its own, *)
(* with room for it behind the header.                                       *)
(***************************************************************************)
Allocation == [p : Nat, n : Nat]
Holds(seq, A, z) ==
    /\ \A i \in DOMAIN seq : /\ seq[i].p - 8 \in A
                             /\ seq[i].n <= z[seq[i].p - 8] - 8
    /\ \A i, j \in DOMAIN seq : i # j => seq[i].p # seq[j].p

-----------------------------------------------------------------------------
(* Words. *)
LEMMA Flags ==
    ASSUME NEW w, NEW z \in Nat, z % 16 = 0, NEW a \in {0, 1}, NEW p \in {0, 2}, w = z + a + p
    PROVE  /\ w \in Nat /\ 2 * Bit(w, 2) = p
           /\ Allocd(w) <=> a = 1
           /\ PrevAllocd(w) <=> p = 2
           /\ NoPrev(w) = z + a
           /\ SizeOf(w) = z
           /\ WithPrev(w) = z + a + 2
           /\ WithAlloc(w) = z + 1 + p
<1>1. PICK q \in Nat : z = 16 * q
    BY Z3
<1>2. Bit(w, 1) = a /\ Bit(w, 2) = p \div 2
    BY <1>1 DEF Bit
<1>3. 2 * (p \div 2) = p /\ w \in Nat
    OBVIOUS
<1> QED BY <1>2, <1>3 DEF Allocd, PrevAllocd, NoPrev, SizeOf, WithPrev, WithAlloc

LEMMA AtPut ==
    ASSUME NEW m, NEW a, NEW v, NEW x
    PROVE  At(Put(m, a, v), x) = IF x = a THEN v ELSE At(m, x)
BY DEF At, Put

\* Several stores: the last one to an address counts.
LEMMA NotWritten ==
    ASSUME NEW m, NEW ws, NEW x, \A k \in DOMAIN ws : ws[k][1] # x
    PROVE  At(Writes(m, ws), x) = At(m, x)
BY DEF At, Writes

LEMMA LastWritten ==
    ASSUME NEW m, NEW ws, DOMAIN ws \subseteq Int, NEW k \in DOMAIN ws,
           \A j \in DOMAIN ws : j > k => ws[j][1] # ws[k][1]
    PROVE  At(Writes(m, ws), ws[k][1]) = ws[k][2]
<1> DEFINE x == ws[k][1]
           to == {j \in DOMAIN ws : ws[j][1] = x}
           last == CHOOSE i \in to : \A j \in to : j <= i
<1>1. k \in to /\ \A j \in to : j <= k
    OBVIOUS
<1>2. last \in to /\ \A j \in to : j <= last
    BY <1>1
<1>3. last = k
    BY <1>1, <1>2
<1>4. x \in DOMAIN m \cup {ws[j][1] : j \in DOMAIN ws}
    OBVIOUS
<1>5. Writes(m, ws)[x] = ws[last][2] /\ x \in DOMAIN Writes(m, ws)
    BY <1>1, <1>4 DEF Writes
<1> QED BY <1>3, <1>5 DEF At

LEMMA Writes2 ==
    ASSUME NEW m, NEW a1, NEW v1, NEW a2, NEW v2, NEW x
    PROVE  At(Writes(m, << <<a1, v1>>, <<a2, v2>> >>), x)
             = IF x = a2 THEN v2 ELSE IF x = a1 THEN v1 ELSE At(m, x)
<1> DEFINE ws == << <<a1, v1>>, <<a2, v2>> >>
<1>1. /\ DOMAIN ws = 1 .. 2
      /\ ws[1][1] = a1 /\ ws[1][2] = v1 /\ ws[2][1] = a2 /\ ws[2][2] = v2
    OBVIOUS
<1> HIDE DEF ws
<1>2. CASE x = a2
    BY <1>1, <1>2, LastWritten
<1>3. CASE x # a2 /\ x = a1
    BY <1>1, <1>3, LastWritten
<1>4. CASE x # a2 /\ x # a1
    BY <1>1, <1>4, NotWritten
<1> QED BY <1>2, <1>3, <1>4 DEF ws

LEMMA Writes3 ==
    ASSUME NEW m, NEW a1, NEW v1, NEW a2, NEW v2, NEW a3, NEW v3, NEW x
    PROVE  At(Writes(m, << <<a1, v1>>, <<a2, v2>>, <<a3, v3>> >>), x)
             = IF x = a3 THEN v3 ELSE IF x = a2 THEN v2 ELSE IF x = a1 THEN v1 ELSE At(m, x)
<1> DEFINE ws == << <<a1, v1>>, <<a2, v2>>, <<a3, v3>> >>
<1>1. /\ DOMAIN ws = 1 .. 3
      /\ ws[1][1] = a1 /\ ws[1][2] = v1 /\ ws[2][1] = a2 /\ ws[2][2] = v2
      /\ ws[3][1] = a3 /\ ws[3][2] = v3
    OBVIOUS
<1> HIDE DEF ws
<1>2. CASE x = a3
    BY <1>1, <1>2, LastWritten
<1>3. CASE x # a3 /\ x = a2
    BY <1>1, <1>3, LastWritten
<1>4. CASE x # a3 /\ x # a2 /\ x = a1
    BY <1>1, <1>4, LastWritten
<1>5. CASE x # a3 /\ x # a2 /\ x # a1
    BY <1>1, <1>5, NotWritten
<1> QED BY <1>2, <1>3, <1>4, <1>5 DEF ws

LEMMA Writes4 ==
    ASSUME NEW m, NEW a1, NEW v1, NEW a2, NEW v2, NEW a3, NEW v3, NEW a4, NEW v4, NEW x
    PROVE  At(Writes(m, << <<a1, v1>>, <<a2, v2>>, <<a3, v3>>, <<a4, v4>> >>), x)
             = IF x = a4 THEN v4 ELSE IF x = a3 THEN v3
               ELSE IF x = a2 THEN v2 ELSE IF x = a1 THEN v1 ELSE At(m, x)
<1> DEFINE ws == << <<a1, v1>>, <<a2, v2>>, <<a3, v3>>, <<a4, v4>> >>
<1>1. /\ DOMAIN ws = 1 .. 4
      /\ ws[1][1] = a1 /\ ws[1][2] = v1 /\ ws[2][1] = a2 /\ ws[2][2] = v2
      /\ ws[3][1] = a3 /\ ws[3][2] = v3 /\ ws[4][1] = a4 /\ ws[4][2] = v4
    OBVIOUS
<1> HIDE DEF ws
<1>2. CASE x = a4
    BY <1>1, <1>2, LastWritten
<1>3. CASE x # a4 /\ x = a3
    BY <1>1, <1>3, LastWritten
<1>4. CASE x # a4 /\ x # a3 /\ x = a2
    BY <1>1, <1>4, LastWritten
<1>5. CASE x # a4 /\ x # a3 /\ x # a2 /\ x = a1
    BY <1>1, <1>5, LastWritten
<1>6. CASE x # a4 /\ x # a3 /\ x # a2 /\ x # a1
    BY <1>1, <1>6, NotWritten
<1> QED BY <1>2, <1>3, <1>4, <1>5, <1>6 DEF ws

-----------------------------------------------------------------------------
(* Rings. *)
Nodes(F) == F \cup {Sentinel(i) : i \in Lists}
Apart(F) ==
    /\ F \subseteq Nat /\ \A x \in F : x + 24 <= Sentinel(0)
    /\ \A x, y \in F : x # y => x + 24 <= y \/ y + 24 <= x

LEMMA NodesApart ==
    ASSUME NEW F, Apart(F), NEW x \in Nodes(F), NEW y \in Nodes(F)
    PROVE  x \in Nat /\ (x # y => x + 24 <= y \/ y + 24 <= x)
<1>1. \A v \in Nodes(F) : (v \in F /\ v \in Nat /\ v + 24 <= 2097152) \/ \E i \in 0 .. 7 : v = 2097152 + 24 * i
    BY DEF Nodes, Apart, Sentinel, Lists
<1>2. CASE x \in F /\ y \in F
    BY <1>2 DEF Apart
<1>3. CASE x \notin F \/ y \notin F
    BY <1>1, <1>3
<1> QED BY <1>2, <1>3

LEMMA InListNodes ==
    ASSUME NEW F, Apart(F), NEW list \in [F -> Lists], NEW i \in Lists
    PROVE  /\ InList(list, i) \subseteq Nodes(F)
           /\ \A j \in Lists : i # j => InList(list, i) \cap InList(list, j) = {}
           /\ \A j \in Lists : Sentinel(i) = Sentinel(j) => i = j
           /\ \A j \in Lists : Sentinel(j) \notin F
<1>1. \A j \in Lists : Sentinel(j) \notin F
    BY DEF Apart, Sentinel, Lists
<1>2. \A j \in Lists : Sentinel(i) = Sentinel(j) => i = j
    BY DEF Sentinel, Lists
<1> QED BY <1>1, <1>2 DEF InList, Nodes

\* Where a node is put first in the ring of list i.
Pushed(m, m2, F, i, x) ==
    LET f == NextLink(m, Sentinel(i))
    IN  /\ NextLink(m2, x) = f /\ PrevLink(m2, x) = Sentinel(i)
        /\ PrevLink(m2, f) = x /\ NextLink(m2, Sentinel(i)) = x
        /\ \A y \in Nodes(F) : /\ y # Sentinel(i) => NextLink(m2, y) = NextLink(m, y)
                               /\ y # f => PrevLink(m2, y) = PrevLink(m, y)

Enters(m, F, list, i, x, list2) ==
    /\ list \in [F -> Lists] /\ i \in Lists /\ x \notin F /\ Apart(F \cup {x}) /\ Linked(m, list)
    /\ list2 \in [F \cup {x} -> Lists] /\ list2[x] = i /\ \A b \in F : list2[b] = list[b]

LEMMA Push ==
    ASSUME NEW m, NEW m2, NEW F, NEW list, NEW i, NEW x, NEW list2,
           Enters(m, F, list, i, x, list2), Pushed(m, m2, F, i, x)
    PROVE  Linked(m2, list2)
<1> SUFFICES ASSUME list \in [F -> Lists], i \in Lists, x \notin F, Apart(F \cup {x}), Linked(m, list),
                    list2 \in [F \cup {x} -> Lists], list2[x] = i, \A b \in F : list2[b] = list[b]
             PROVE  Linked(m2, list2)
    BY DEF Enters
<1> DEFINE f == NextLink(m, Sentinel(i))
           G == F \cup {x}
<1>1. list2 \in [G -> Lists] /\ Apart(F)
    BY DEF Apart
<1>2. \A j \in Lists : InList(list2, j) = IF j = i THEN InList(list, j) \cup {x} ELSE InList(list, j)
    BY DEF InList
<1>3. /\ \A j \in Lists : /\ InList(list, j) \subseteq Nodes(F) /\ Sentinel(j) # x
                          /\ \A k \in Lists : Sentinel(k) = Sentinel(j) => k = j
                          /\ \A k \in Lists : k # j => InList(list, j) \cap InList(list, k) = {}
    <2>1. \A j \in Lists : Sentinel(j) \notin G
        BY <1>1, InListNodes
    <2> QED BY <1>1, <2>1, InListNodes
<1>4. Rings(m, list) /\ \A j \in Lists : Sentinel(j) \in InList(list, j)
    BY DEF Linked, InList
<1>5. f \in InList(list, i) /\ PrevLink(m, f) = Sentinel(i)
    BY <1>4 DEF Rings
<1>6. /\ NextLink(m2, x) = f /\ PrevLink(m2, x) = Sentinel(i)
      /\ PrevLink(m2, f) = x /\ NextLink(m2, Sentinel(i)) = x
      /\ \A y \in Nodes(F) : /\ y # Sentinel(i) => NextLink(m2, y) = NextLink(m, y)
                             /\ y # f => PrevLink(m2, y) = PrevLink(m, y)
    BY DEF Pushed
<1>7. x \notin Nodes(F)
    BY <1>3 DEF Nodes
<1> HIDE DEF f
<1>8. ASSUME NEW j \in Lists, NEW y \in InList(list2, j)
      PROVE  /\ NextLink(m2, y) \in InList(list2, j) /\ PrevLink(m2, y) \in InList(list2, j)
             /\ PrevLink(m2, NextLink(m2, y)) = y /\ NextLink(m2, PrevLink(m2, y)) = y
    <2>1. CASE y = x
        <3>1. j = i
            BY <1>2, <1>3, <1>7, <1>8, <2>1
        <3> QED BY <1>2, <1>4, <1>5, <1>6, <2>1, <3>1
    <2>2. CASE y = Sentinel(i)
        <3>1. j = i
            <4>1. y \in InList(list, i) /\ y # x
                BY <1>3, <1>4, <2>2
            <4> QED BY <1>2, <1>3, <1>8, <4>1
        <3>2. NextLink(m2, y) = x /\ PrevLink(m2, x) = y
            BY <1>6, <2>2
        <3>3. CASE f = Sentinel(i)
            BY <1>2, <1>6, <2>2, <3>1, <3>2, <3>3
        <3>4. CASE f # Sentinel(i)
            <4> DEFINE l == PrevLink(m, Sentinel(i))
            <4>1. l \in InList(list, i) /\ NextLink(m, l) = Sentinel(i)
                BY <1>4 DEF Rings
            <4>2. l # Sentinel(i)
                BY <3>4, <4>1 DEF f
            <4>3. Sentinel(i) \in Nodes(F) /\ l \in Nodes(F)
                BY <1>3, <4>1 DEF Nodes
            <4>4. PrevLink(m2, y) = l /\ NextLink(m2, l) = y
                BY <1>6, <2>2, <3>4, <4>1, <4>2, <4>3
            <4> QED BY <1>2, <3>1, <3>2, <4>1, <4>4
        <3> QED BY <3>3, <3>4
    <2>3. CASE y # x /\ y # Sentinel(i)
        <3>1. y \in InList(list, j) /\ y \in Nodes(F)
            BY <1>2, <1>3, <2>3
        <3> DEFINE nx == NextLink(m, y)
                   pv == PrevLink(m, y)
        <3>2. /\ nx \in InList(list, j) /\ pv \in InList(list, j)
              /\ PrevLink(m, nx) = y /\ NextLink(m, pv) = y
            BY <1>4, <3>1 DEF Rings
        <3>3. nx \in Nodes(F) /\ pv \in Nodes(F)
            BY <1>3, <3>2
        <3>4. nx # f
            BY <1>5, <2>3, <3>2
        <3>5. NextLink(m2, y) = nx /\ PrevLink(m2, nx) = y
            BY <1>6, <2>3, <3>1, <3>2, <3>3, <3>4
        <3>6. nx \in InList(list2, j) /\ pv \in InList(list2, j)
            BY <1>2, <3>2
        <3>7. CASE y = f
            <4>1. j = i
                BY <1>3, <1>5, <3>1, <3>7
            <4>2. PrevLink(m2, y) = x /\ NextLink(m2, x) = y /\ x \in InList(list2, j)
                BY <1>2, <1>6, <3>7, <4>1
            <4> QED BY <3>5, <3>6, <4>2
        <3>8. CASE y # f
            <4>1. pv # Sentinel(i)
                BY <3>2, <3>8 DEF f
            <4>2. PrevLink(m2, y) = pv /\ NextLink(m2, pv) = y
                BY <1>6, <3>1, <3>2, <3>3, <3>8, <4>1
            <4> QED BY <3>5, <3>6, <4>2
        <3> QED BY <3>7, <3>8
    <2> QED BY <2>1, <2>2, <2>3
<1>9. Rings(m2, list2)
    BY <1>8 DEF Rings
<1>10. \E rank, top : Ranks(m2, list2, rank, top)
    <2>1. PICK rank, top : Ranks(m, list, rank, top)
        BY DEF Linked
    <2> DEFINE rank2 == [b \in G |-> IF b = x THEN top + 1 ELSE rank[b]]
    <2>2. top \in Nat /\ rank \in [F -> 0 .. top] /\ DOMAIN list = F /\ DOMAIN list2 = G
        BY <2>1 DEF Ranks
    <2>3. top + 1 \in Nat /\ rank2 \in [G -> 0 .. top + 1]
        BY <2>2
    <2>4. ASSUME NEW b \in G, NextLink(m2, b) \in G
          PROVE  rank2[NextLink(m2, b)] < rank2[b]
        <3>1. CASE b = x
            <4>1. NextLink(m2, b) = f /\ f # x
                BY <1>3, <1>5, <1>6, <1>7, <3>1
            <4>2. f \in F
                BY <2>4, <4>1
            <4> QED BY <2>2, <3>1, <4>1, <4>2
        <3>2. CASE b # x
            <4>1. b \in F /\ b \in Nodes(F) /\ b # Sentinel(i)
                BY <1>1, <3>2, InListNodes DEF Nodes
            <4>2. NextLink(m2, b) = NextLink(m, b)
                BY <1>6, <4>1
            <4>3. b \in InList(list, list[b]) /\ list[b] \in Lists
                BY <2>2, <4>1 DEF InList
            <4>4. NextLink(m, b) \in Nodes(F)
                BY <1>3, <1>4, <4>3 DEF Rings
            <4>5. NextLink(m, b) \in F
                BY <1>7, <2>4, <4>2, <4>4
            <4>6. rank[NextLink(m, b)] < rank[b]
                BY <2>1, <2>2, <4>1, <4>5 DEF Ranks
            <4>7. NextLink(m, b) # x
                BY <4>5
            <4> QED BY <2>2, <3>2, <4>1, <4>2, <4>5, <4>6, <4>7
        <3> QED BY <3>1, <3>2
    <2>5. Ranks(m2, list2, rank2, top + 1)
        <3> HIDE DEF rank2
        <3> QED BY <2>2, <2>3, <2>4 DEF Ranks
    <2> HIDE DEF rank2
    <2> QED BY <2>5
<1> QED BY <1>9, <1>10 DEF Linked

\* Where a node is taken out of its ring.
Unlinked(m, m2, F, x) ==
    LET nx == NextLink(m, x)
        pv == PrevLink(m, x)
    IN  /\ NextLink(m2, pv) = nx /\ PrevLink(m2, nx) = pv
        /\ \A y \in Nodes(F) \ {x} : /\ y # pv => NextLink(m2, y) = NextLink(m, y)
                                     /\ y # nx => PrevLink(m2, y) = PrevLink(m, y)

LEMMA NoLoop ==
    ASSUME NEW m, NEW F, NEW list \in [F -> Lists], Linked(m, list), NEW x \in F
    PROVE  /\ list[x] \in Lists /\ x \in InList(list, list[x])
           /\ NextLink(m, x) \in InList(list, list[x]) /\ NextLink(m, x) # x
           /\ PrevLink(m, x) \in InList(list, list[x]) /\ PrevLink(m, x) # x
           /\ PrevLink(m, NextLink(m, x)) = x /\ NextLink(m, PrevLink(m, x)) = x
<1>1. list[x] \in Lists /\ x \in InList(list, list[x])
    BY DEF InList
<1>2. /\ NextLink(m, x) \in InList(list, list[x]) /\ PrevLink(m, x) \in InList(list, list[x])
      /\ PrevLink(m, NextLink(m, x)) = x /\ NextLink(m, PrevLink(m, x)) = x
    BY <1>1 DEF Linked, Rings
<1>3. PICK rank, top : Ranks(m, list, rank, top)
    BY DEF Linked
<1>4. rank[x] \in Nat
    BY <1>3 DEF Ranks
<1>5. NextLink(m, x) # x
    BY <1>3, <1>4 DEF Ranks
<1> QED BY <1>1, <1>2, <1>5

LEMMA Unlink ==
    ASSUME NEW m, NEW m2, NEW F, NEW list \in [F -> Lists], NEW x \in F,
           Apart(F), Linked(m, list), Unlinked(m, m2, F, x),
           NEW list2 \in [F \ {x} -> Lists], \A b \in F \ {x} : list2[b] = list[b]
    PROVE  Linked(m2, list2)
<1> DEFINE nx == NextLink(m, x)
           pv == PrevLink(m, x)
           G == F \ {x}
           i == list[x]
<1>1. list2 \in [G -> Lists] /\ Apart(G) /\ i \in Lists
    BY DEF Apart
<1>2. \A j \in Lists : /\ InList(list2, j) = InList(list, j) \ {x}
                       /\ InList(list, j) \subseteq Nodes(F)
                       /\ \A k \in Lists : k # j => InList(list, j) \cap InList(list, k) = {}
    <2>1. \A j \in Lists : Sentinel(j) # x
        BY InListNodes
    <2>2. \A j \in Lists : InList(list2, j) = InList(list, j) \ {x}
        BY <2>1 DEF InList
    <2> QED BY <2>2, InListNodes
<1>3. /\ nx \in InList(list, i) /\ nx # x /\ pv \in InList(list, i) /\ pv # x
      /\ PrevLink(m, nx) = x /\ NextLink(m, pv) = x /\ x \in InList(list, i)
    BY NoLoop
<1>4. /\ NextLink(m2, pv) = nx /\ PrevLink(m2, nx) = pv
      /\ \A y \in Nodes(F) \ {x} : /\ y # pv => NextLink(m2, y) = NextLink(m, y)
                                   /\ y # nx => PrevLink(m2, y) = PrevLink(m, y)
    BY DEF Unlinked
<1>5. Rings(m, list)
    BY DEF Linked
<1> HIDE DEF nx, pv, i
<1>6. ASSUME NEW j \in Lists, NEW y \in InList(list2, j)
      PROVE  /\ NextLink(m2, y) \in InList(list2, j) /\ PrevLink(m2, y) \in InList(list2, j)
             /\ PrevLink(m2, NextLink(m2, y)) = y /\ NextLink(m2, PrevLink(m2, y)) = y
    <2> DEFINE ny == NextLink(m, y)
               py == PrevLink(m, y)
    <2>1. y \in InList(list, j) /\ y # x /\ y \in Nodes(F) \ {x}
        BY <1>2, <1>6
    <2>2. /\ ny \in InList(list, j) /\ py \in InList(list, j)
          /\ PrevLink(m, ny) = y /\ NextLink(m, py) = y
        BY <1>5, <2>1 DEF Rings
    <2>3. ny \in Nodes(F) /\ py \in Nodes(F) /\ nx \in Nodes(F) /\ pv \in Nodes(F)
        BY <1>1, <1>2, <1>3, <2>2
    <2>4. /\ NextLink(m2, y) \in InList(list2, j) /\ PrevLink(m2, NextLink(m2, y)) = y
        <3>1. CASE y = pv
            <4>1. j = i
                BY <1>1, <1>2, <1>3, <2>1, <3>1
            <4> QED BY <1>2, <1>3, <1>4, <3>1, <4>1
        <3>2. CASE y # pv
            <4>1. NextLink(m2, y) = ny
                BY <1>4, <2>1, <3>2
            <4>2. ny # x
                BY <2>2, <3>2 DEF pv
            <4>3. ny # nx
                BY <1>3, <2>1, <2>2
            <4> QED BY <1>2, <1>4, <2>2, <2>3, <4>1, <4>2, <4>3
        <3> QED BY <3>1, <3>2
    <2>5. /\ PrevLink(m2, y) \in InList(list2, j) /\ NextLink(m2, PrevLink(m2, y)) = y
        <3>1. CASE y = nx
            <4>1. j = i
                BY <1>1, <1>2, <1>3, <2>1, <3>1
            <4> QED BY <1>2, <1>3, <1>4, <3>1, <4>1
        <3>2. CASE y # nx
            <4>1. PrevLink(m2, y) = py
                BY <1>4, <2>1, <3>2
            <4>2. py # x
                BY <2>2, <3>2 DEF nx
            <4>3. py # pv
                BY <1>3, <2>1, <2>2
            <4> QED BY <1>2, <1>4, <2>2, <2>3, <4>1, <4>2, <4>3
        <3> QED BY <3>1, <3>2
    <2> QED BY <2>4, <2>5
<1>7. Rings(m2, list2)
    BY <1>6 DEF Rings
<1>8. \E rank, top : Ranks(m2, list2, rank, top)
    <2>1. PICK rank, top : Ranks(m, list, rank, top)
        BY DEF Linked
    <2> DEFINE rank2 == [b \in G |-> rank[b]]
    <2>2. /\ top \in Nat /\ rank \in [F -> 0 .. top] /\ DOMAIN list = F /\ DOMAIN list2 = G
          /\ \A b \in F : NextLink(m, b) \in F => rank[NextLink(m, b)] < rank[b]
        BY <2>1 DEF Ranks
    <2>3. rank2 \in [G -> 0 .. top]
        BY <2>2
    <2>4. ASSUME NEW b \in G, NextLink(m2, b) \in G
          PROVE  rank2[NextLink(m2, b)] < rank2[b]
        <3>1. CASE b = pv
            <4>1. NextLink(m2, b) = nx /\ nx \in F /\ x \in F /\ NextLink(m, b) = x /\ NextLink(m, x) = nx
                BY <1>3, <1>4, <2>4, <3>1 DEF nx
            <4>2. rank[nx] < rank[x] /\ rank[x] < rank[b]
                BY <2>2, <4>1
            <4>3. rank[nx] \in Nat /\ rank[x] \in Nat /\ rank[b] \in Nat
                BY <2>2, <4>1
            <4> QED BY <2>4, <4>1, <4>2, <4>3
        <3>2. CASE b # pv
            <4>1. NextLink(m2, b) = NextLink(m, b)
                BY <1>4, <3>2 DEF Nodes
            <4>2. rank[NextLink(m, b)] < rank[b]
                BY <2>2, <2>4, <4>1
            <4> QED BY <2>4, <4>1, <4>2
        <3> QED BY <3>1, <3>2
    <2>5. Ranks(m2, list2, rank2, top)
        <3> HIDE DEF rank2
        <3> QED BY <2>2, <2>3, <2>4 DEF Ranks
    <2> HIDE DEF rank2
    <2> QED BY <2>5
<1> QED BY <1>7, <1>8 DEF Linked

\* Nothing happens to the rings if no link of theirs changes.
LEMMA Undisturbed ==
    ASSUME NEW m, NEW m2, NEW F, NEW list \in [F -> Lists], Apart(F), Linked(m, list),
           \A y \in Nodes(F) : NextLink(m2, y) = NextLink(m, y) /\ PrevLink(m2, y) = PrevLink(m, y)
    PROVE  Linked(m2, list)
<1>1. \A i \in Lists : InList(list, i) \subseteq Nodes(F)
    BY InListNodes
<1>2. Rings(m, list) /\ \E rank, top : Ranks(m, list, rank, top)
    BY DEF Linked
<1>3. Rings(m2, list)
    BY <1>1, <1>2 DEF Rings
<1>4. \E rank, top : Ranks(m2, list, rank, top)
    <2>1. \A b \in F : NextLink(m2, b) = NextLink(m, b)
        BY DEF Nodes
    <2> QED BY <1>2, <2>1 DEF Ranks
<1> QED BY <1>3, <1>4 DEF Linked

\* free_list_free takes a block out of its ring and changes no other word.
LEMMA ListFree ==
    ASSUME NEW m, NEW F, NEW list \in [F -> Lists], Apart(F), Linked(m, list), NEW x \in F
    PROVE  LET m2 == free_list_free(m, x)
           IN  /\ Unlinked(m, m2, F, x)
               /\ \A a : (\A y \in Nodes(F) : a # y + 8 /\ a # y + 16) => At(m2, a) = At(m, a)
<1> DEFINE nx == NextLink(m, x)
           pv == PrevLink(m, x)
           m1 == Put(m, pv + 8, nx)
           m2 == free_list_free(m, x)
<1>1. /\ nx \in Nodes(F) /\ pv \in Nodes(F) /\ x \in Nodes(F) /\ pv # x /\ nx # x
    <2>1. list[x] \in Lists /\ InList(list, list[x]) \subseteq Nodes(F)
        BY InListNodes
    <2> QED BY <2>1, NoLoop
<1>2. \A y, v \in Nodes(F) : y \in Nat /\ v \in Nat /\ (y # v => y + 24 <= v \/ v + 24 <= y)
    BY NodesApart
<1>3. NextLink(m1, x) = nx /\ PrevLink(m1, x) = pv
    <2>1. x + 8 # pv + 8 /\ x + 16 # pv + 8
        BY <1>1, <1>2
    <2> QED BY <2>1, AtPut DEF NextLink, PrevLink
<1>4. m2 = Put(m1, nx + 16, pv)
    BY <1>3 DEF free_list_free
<1>5. \A a : At(m2, a) = IF a = nx + 16 THEN pv ELSE IF a = pv + 8 THEN nx ELSE At(m, a)
    BY <1>4, AtPut
<1> HIDE DEF nx, pv, m1, m2
<1>6. NextLink(m2, pv) = nx /\ PrevLink(m2, nx) = pv
    <2>1. pv + 8 # nx + 16
        BY <1>1, <1>2
    <2> QED BY <1>5, <2>1 DEF NextLink, PrevLink
<1>7. ASSUME NEW y \in Nodes(F) \ {x}
      PROVE  /\ y # pv => NextLink(m2, y) = NextLink(m, y)
             /\ y # nx => PrevLink(m2, y) = PrevLink(m, y)
    <2>1. y + 8 # nx + 16 /\ y + 16 # pv + 8
        BY <1>1, <1>2
    <2>2. (y # pv => y + 8 # pv + 8) /\ (y # nx => y + 16 # nx + 16)
        BY <1>1, <1>2
    <2> QED BY <1>5, <2>1, <2>2 DEF NextLink, PrevLink
<1>8. Unlinked(m, m2, F, x)
    BY <1>6, <1>7 DEF Unlinked, nx, pv
<1> QED BY <1>1, <1>5, <1>8 DEF m2

-----------------------------------------------------------------------------
(* What a well-formed heap says. *)
Facts(e, A, F, z) ==
    /\ A \subseteq Nat /\ F \subseteq Nat /\ A \cap F = {} /\ e \in Nat /\ e + 8 <= Sentinel(0)
    /\ e \notin A \cup F /\ Bottom \in A \cup F
    /\ \A b \in A \cup F : /\ z[b] \in Nat /\ z[b] >= 32 /\ z[b] % 16 = 0 /\ b >= Bottom
                           /\ b + z[b] <= e /\ b + z[b] \in A \cup F \cup {e}
    /\ \A b, c \in A \cup F : b # c => b + z[b] <= c \/ c + z[c] <= b
    /\ Apart(A \cup F) /\ Apart(F)
    /\ ListOf(e, F, z) \in [F -> Lists]

LEMMA HeapFacts ==
    ASSUME NEW m, NEW e, NEW A, NEW F, NEW z, Heap(m, e, A, F, z)
    PROVE  Facts(e, A, F, z)
<1>1. /\ A \subseteq Nat /\ F \subseteq Nat /\ A \cap F = {} /\ e \in Nat /\ e + 8 <= Sentinel(0)
      /\ e \notin A \cup F /\ Bottom \in A \cup F /\ z \in [A \cup F -> Nat]
    BY DEF Heap, Geometry
<1>2. \A b \in A \cup F : /\ z[b] \in Nat /\ z[b] >= 32 /\ z[b] % 16 = 0 /\ b >= Bottom
                          /\ b + z[b] <= e /\ b + z[b] \in A \cup F \cup {e}
    BY DEF Heap, Geometry
<1>3. \A b, c \in A \cup F : b # c => b + z[b] <= c \/ c + z[c] <= b
    BY DEF Heap, Geometry
<1>4. Apart(A \cup F) /\ Apart(F)
    <2>1. Sentinel(0) \in Nat
        BY DEF Sentinel
    <2> QED BY <1>1, <1>2, <1>3, <2>1 DEF Apart
<1>5. \A b \in F : Class(e, z, b) \in Lists
    <2>1. \A b \in F : get_index(z[b]) \in 0 .. 6
        BY <1>2, IndexMatchesClass
    <2> QED BY <2>1 DEF Class, Lists, Wild
<1>6. ListOf(e, F, z) \in [F -> Lists]
    BY <1>5 DEF ListOf
<1> QED BY <1>1, <1>2, <1>3, <1>4, <1>6 DEF Facts

\* What the headers say.
HeaderFacts(m, e, A, F, z) ==
    /\ At(m, e) = 0
    /\ \A b \in A \cup F :
         /\ At(m, b) = z[b] + Own(A, b) + Behind(F, z, b)
         /\ At(m, b) \in Nat /\ SizeOf(At(m, b)) = z[b]
         /\ Allocd(At(m, b)) <=> b \in A
         /\ PrevAllocd(At(m, b)) <=> Behind(F, z, b) = 2
         /\ 2 * Bit(At(m, b), 2) = Behind(F, z, b)
         /\ NoPrev(At(m, b)) = z[b] + Own(A, b)
    /\ \A b \in F : At(m, b) = z[b] + 2 /\ Behind(F, z, b) = 2
    /\ \A b \in F : At(m, b + z[b] - 8) = z[b] + 2

LEMMA Headers ==
    ASSUME NEW m, NEW e, NEW A, NEW F, NEW z, Heap(m, e, A, F, z)
    PROVE  HeaderFacts(m, e, A, F, z)
<1>0. Facts(e, A, F, z)
    BY HeapFacts
<1>1. Words(m, e, A, F, z)
    BY DEF Heap
<1>2. ASSUME NEW b \in A \cup F
      PROVE  /\ At(m, b) = z[b] + Own(A, b) + Behind(F, z, b)
             /\ At(m, b) \in Nat /\ SizeOf(At(m, b)) = z[b]
             /\ Allocd(At(m, b)) <=> b \in A
             /\ PrevAllocd(At(m, b)) <=> Behind(F, z, b) = 2
             /\ 2 * Bit(At(m, b), 2) = Behind(F, z, b)
             /\ NoPrev(At(m, b)) = z[b] + Own(A, b)
    <2>1. At(m, b) = z[b] + Own(A, b) + Behind(F, z, b)
        BY <1>1 DEF Words
    <2> DEFINE w == At(m, b)
               s == z[b]
               a == Own(A, b)
               p == Behind(F, z, b)
    <2>2. s \in Nat /\ s % 16 = 0
        BY <1>0 DEF Facts
    <2>3. a \in {0, 1} /\ p \in {0, 2}
        BY DEF Own, Behind
    <2>4. a = 1 <=> b \in A
        BY DEF Own
    <2> HIDE DEF w, s, a, p
    <2>5. w = s + a + p
        BY <2>1 DEF w, s, a, p
    <2>6. /\ w \in Nat /\ 2 * Bit(w, 2) = p
          /\ Allocd(w) <=> a = 1
          /\ PrevAllocd(w) <=> p = 2
          /\ NoPrev(w) = s + a
          /\ SizeOf(w) = s
        BY <2>2, <2>3, <2>5, Flags
    <2> QED BY <2>4, <2>5, <2>6 DEF w, s, a, p
<1>3. ASSUME NEW b \in F PROVE At(m, b) = z[b] + 2 /\ Behind(F, z, b) = 2
    <2>1. Own(A, b) = 0 /\ Behind(F, z, b) = 2
        BY DEF Heap, Own, Behind
    <2>2. z[b] \in Nat
        BY <1>0 DEF Facts
    <2> QED BY <1>2, <2>1, <2>2
<1>4. At(m, e) = 0 /\ \A b \in F : At(m, b + z[b] - 8) = z[b] + 2
    BY <1>1 DEF Words
<1> QED BY <1>2, <1>3, <1>4 DEF HeaderFacts

\* The block that ends the heap, if it is free, is alone in list 7.
LEMMA WildIs ==
    ASSUME NEW m, NEW e, NEW A, NEW F, NEW z, Heap(m, e, A, F, z),
           NEW w \in F, w + z[w] = e
    PROVE  /\ InList(ListOf(e, F, z), Wild) = {Sentinel(Wild), w}
           /\ First(m, Wild) = w /\ PrevLink(m, Sentinel(Wild)) = w
           /\ NextLink(m, w) = Sentinel(Wild) /\ PrevLink(m, w) = Sentinel(Wild)
<1> DEFINE list == ListOf(e, F, z)
<1>1. /\ F \subseteq Nat /\ e \in Nat
      /\ \A b \in F : z[b] \in Nat /\ z[b] >= 32
      /\ \A b, c \in F : b # c => b + z[b] <= c \/ c + z[c] <= b
      /\ list \in [F -> Lists]
    <2>1. Facts(e, A, F, z)
        BY HeapFacts
    <2> QED BY <2>1 DEF Facts
<1>2. \A b \in F : list[b] = Wild <=> b + z[b] = e
    <2>1. \A b \in F : get_index(z[b]) # Wild
        BY <1>1, IndexMatchesClass DEF Wild
    <2> QED BY <2>1 DEF ListOf, Class
<1>3. \A b \in F : b + z[b] = e => b = w
    BY <1>1
<1>4. InList(list, Wild) = {Sentinel(Wild), w}
    BY <1>1, <1>2, <1>3 DEF InList
<1>5. Linked(m, list) /\ Rings(m, list) /\ Wild \in Lists /\ list[w] = Wild
    BY <1>2 DEF Heap, Linked, Wild, Lists
<1> HIDE DEF list
<1>6. /\ NextLink(m, w) \in {Sentinel(Wild), w} /\ NextLink(m, w) # w
      /\ PrevLink(m, w) \in {Sentinel(Wild), w} /\ PrevLink(m, w) # w
      /\ PrevLink(m, NextLink(m, w)) = w /\ NextLink(m, PrevLink(m, w)) = w
    <2>1. list[w] = Wild
        BY <1>5
    <2>2. /\ NextLink(m, w) \in InList(list, list[w]) /\ NextLink(m, w) # w
          /\ PrevLink(m, w) \in InList(list, list[w]) /\ PrevLink(m, w) # w
          /\ PrevLink(m, NextLink(m, w)) = w /\ NextLink(m, PrevLink(m, w)) = w
        <3>1. list \in [F -> Lists] /\ Linked(m, list)
            BY <1>1, <1>5
        <3> QED BY <3>1, NoLoop
    <2>3. InList(list, list[w]) = {Sentinel(Wild), w}
        BY <1>4, <2>1, Zenon
    <2> QED BY <2>2, <2>3, Zenon
<1> QED BY <1>4, <1>6 DEF First, list

LEMMA NoWildIs ==
    ASSUME NEW m, NEW e, NEW A, NEW F, NEW z, Heap(m, e, A, F, z),
           \A b \in F : b + z[b] # e
    PROVE  First(m, Wild) = Sentinel(Wild) /\ InList(ListOf(e, F, z), Wild) = {Sentinel(Wild)}
<1> DEFINE list == ListOf(e, F, z)
<1>1. list \in [F -> Lists] /\ \A b \in F : z[b] \in Nat /\ z[b] >= 32
    <2>1. Facts(e, A, F, z)
        BY HeapFacts
    <2> QED BY <2>1 DEF Facts
<1>2. \A b \in F : list[b] # Wild
    BY <1>1, IndexMatchesClass DEF ListOf, Class, Wild
<1>3. InList(list, Wild) = {Sentinel(Wild)}
    BY <1>1, <1>2 DEF InList
<1>4. Rings(m, list) /\ Wild \in Lists
    BY DEF Heap, Linked, Wild, Lists
<1> QED BY <1>3, <1>4 DEF Rings, First

\* A list whose sentinel points to itself has no member: in a ring every block
\* follows one of higher rank, or the sentinel.
LEMMA EmptyList ==
    ASSUME NEW m, NEW F, NEW list \in [F -> Lists], Linked(m, list), Apart(F), NEW i \in Lists,
           First(m, i) = Sentinel(i)
    PROVE  \A b \in F : list[b] # i
<1>1. SUFFICES ASSUME NEW c \in F, list[c] = i PROVE FALSE
    OBVIOUS
<1>2. PICK rank, top : Ranks(m, list, rank, top)
    BY DEF Linked
<1>3. top \in Nat /\ rank \in [F -> 0 .. top]
    BY <1>2 DEF Ranks
<1> DEFINE S == {top - rank[b] : b \in {x \in F : list[x] = i}}
<1>4. S \in SUBSET Nat /\ S # {}
    BY <1>1, <1>3
<1>5. PICK least \in S : \A k \in S : least <= k
    <2> DEFINE R == {ss \in Nat \X Nat : ss[1] < ss[2]}
    <2>1. IsWellFoundedOn(R, Nat)
        BY NatLessThanWellFounded DEF OpToRel
    <2>2. PICK x \in S : \A y \in S : ~(<<y, x>> \in R)
        <3> HIDE DEF R, S
        <3> QED BY <1>4, <2>1, WFMin, Zenon
    <2>3. ASSUME NEW y \in S PROVE x <= y
        <3>1. x \in Nat /\ y \in Nat /\ (<<y, x>> \in Nat \X Nat => ~(y < x))
            BY <1>4, <2>2
        <3> QED BY <3>1
    <2> QED BY <2>3
<1>6. PICK b \in F : list[b] = i /\ least = top - rank[b]
    OBVIOUS
<1>7. /\ PrevLink(m, b) \in InList(list, i) /\ NextLink(m, PrevLink(m, b)) = b
    BY <1>6, NoLoop
<1>8. PrevLink(m, b) # Sentinel(i)
    <2>1. Sentinel(i) \notin F
        BY InListNodes
    <2> QED BY <1>7, <2>1 DEF First
<1>9. PrevLink(m, b) \in F /\ list[PrevLink(m, b)] = i
    BY <1>7, <1>8 DEF InList
<1>10. rank[b] < rank[PrevLink(m, b)]
    BY <1>2, <1>7, <1>9 DEF Ranks
<1>11. top - rank[PrevLink(m, b)] \in S
    BY <1>9
<1> HIDE DEF S
<1> QED BY <1>3, <1>5, <1>6, <1>9, <1>10, <1>11

\* While the lists before the last are empty, nothing but the wilderness is free.
LEMMA OnlyWildFree ==
    ASSUME NEW m, NEW e, NEW A, NEW F, NEW z, Heap(m, e, A, F, z),
           \A i \in 0 .. 6 : First(m, i) = Sentinel(i)
    PROVE  \A b \in F : b + z[b] = e
<1>1. ListOf(e, F, z) \in [F -> Lists] /\ Apart(F) /\ Linked(m, ListOf(e, F, z))
      /\ \A b \in F : z[b] \in Nat /\ z[b] >= 32
    <2>1. Facts(e, A, F, z)
        BY HeapFacts
    <2> QED BY <2>1 DEF Facts, Heap
<1>2. \A i \in 0 .. 6 : \A b \in F : ListOf(e, F, z)[b] # i
    <2>1. 0 .. 6 \subseteq Lists
        BY DEF Lists
    <2> QED BY <1>1, <2>1, EmptyList
<1>3. \A b \in F : get_index(z[b]) \in 0 .. 6
    BY <1>1, IndexMatchesClass
<1> QED BY <1>2, <1>3 DEF ListOf, Class

-----------------------------------------------------------------------------
(* Cutting a block in two, joining two, and extending the last one. *)
LEMMA SplitGeometry ==
    ASSUME NEW e, NEW B, NEW z, Geometry(e, B, z), NEW b \in B,
           NEW n \in Nat, n >= 32, n % 16 = 0, n + 32 <= z[b],
           NEW z2 \in [B \cup {b + n} -> Nat], z2[b] = n, z2[b + n] = z[b] - n,
           \A x \in B : x # b => z2[x] = z[x]
    PROVE  Geometry(e, B \cup {b + n}, z2) /\ b + n \notin B \cup {e}
<1> DEFINE c == b + n
           C == B \cup {c}
<1>1. /\ B \subseteq Nat /\ e \in Nat /\ e \notin B /\ Bottom \in B /\ Bottom \in Nat
      /\ \A x \in B : x \in Nat /\ z[x] \in Nat
      /\ \A x \in B : x >= Bottom /\ z[x] >= 32 /\ z[x] % 16 = 0
      /\ \A x \in B : x + z[x] <= e /\ x + z[x] \in B \cup {e}
    BY DEF Geometry
<1>2. \A x, y \in B : x # y => x + z[x] <= y \/ y + z[y] <= x
    BY DEF Geometry
<1>3. /\ c \in Nat /\ b < c /\ c < b + z[b] /\ b + z[b] <= e
      /\ z2[b] = n /\ z2[c] = z[b] - n /\ z2[c] >= 32 /\ z2[c] % 16 = 0
      /\ z2[c] \in Nat /\ c + z2[c] = b + z[b] /\ b + z2[b] = c
    <2>1. z[b] \in Nat /\ z[b] % 16 = 0 /\ b \in Nat /\ b + z[b] <= e
        BY <1>1
    <2>2. (z[b] - n) % 16 = 0
        BY <2>1
    <2> QED BY <2>1, <2>2
<1>4. \A x \in B : x # b => x + z[x] <= b \/ b + z[b] <= x
    BY <1>2
<1>5. c \notin B \cup {e}
    BY <1>1, <1>3, <1>4
<1> HIDE DEF c
<1>6. \A x \in C : /\ x >= Bottom /\ z2[x] >= 32 /\ z2[x] % 16 = 0
                   /\ x + z2[x] <= e /\ x + z2[x] \in C \cup {e}
    <2>1. b \in Nat
        BY <1>1
    <2>2. ASSUME NEW x \in B, x # b
          PROVE  /\ x >= Bottom /\ z2[x] >= 32 /\ z2[x] % 16 = 0
                 /\ x + z2[x] <= e /\ x + z2[x] \in C \cup {e}
        BY <1>1, <2>2
    <2>3. b >= Bottom /\ z2[b] >= 32 /\ z2[b] % 16 = 0 /\ b + z2[b] <= e /\ b + z2[b] \in C \cup {e}
        BY <1>1, <1>3
    <2>4. c >= Bottom /\ z2[c] >= 32 /\ z2[c] % 16 = 0 /\ c + z2[c] <= e /\ c + z2[c] \in C \cup {e}
        BY <1>1, <1>3
    <2> QED BY <2>2, <2>3, <2>4
<1>7. \A x, y \in C : x # y => x + z2[x] <= y \/ y + z2[y] <= x
    <2>1. ASSUME NEW x \in B, NEW y \in B, x # y
          PROVE  x + z2[x] <= y \/ y + z2[y] <= x
        <3>1. x + z[x] <= y \/ y + z[y] <= x
            BY <1>2, <2>1
        <3>2. /\ x \in Nat /\ y \in Nat /\ z[x] \in Nat /\ z[y] \in Nat
              /\ z2[x] <= z[x] /\ z2[y] <= z[y] /\ z2[x] \in Nat /\ z2[y] \in Nat
            BY <1>1, <1>3
        <3> QED BY <3>1, <3>2
    <2>2. ASSUME NEW x \in B PROVE x + z2[x] <= c \/ c + z2[c] <= x
        <3>1. x \in Nat /\ z[x] \in Nat /\ b \in Nat
            BY <1>1
        <3> QED BY <1>3, <1>4, <3>1
    <2> QED BY <2>1, <2>2
<1> QED BY <1>1, <1>3, <1>5, <1>6, <1>7 DEF Geometry, c

LEMMA JoinGeometry ==
    ASSUME NEW e, NEW B, NEW z, Geometry(e, B, z), NEW b \in B, NEW c \in B, b + z[b] = c,
           NEW z2 \in [B \ {c} -> Nat], z2[b] = z[b] + z[c],
           \A x \in B \ {c} : x # b => z2[x] = z[x]
    PROVE  Geometry(e, B \ {c}, z2)
<1> DEFINE C == B \ {c}
<1>1. /\ B \subseteq Nat /\ e \in Nat /\ e \notin B /\ Bottom \in B /\ Bottom \in Nat
      /\ \A x \in B : x \in Nat /\ z[x] \in Nat
      /\ \A x \in B : x >= Bottom /\ z[x] >= 32 /\ z[x] % 16 = 0
      /\ \A x \in B : x + z[x] <= e /\ x + z[x] \in B \cup {e}
    BY DEF Geometry
<1>2. \A x, y \in B : x # y => x + z[x] <= y \/ y + z[y] <= x
    BY DEF Geometry
<1>3. /\ b \in Nat /\ c \in Nat /\ z[b] \in Nat /\ z[c] \in Nat /\ z[b] >= 32 /\ z[c] >= 32
      /\ b < c /\ b >= Bottom /\ z2[b] = z[b] + z[c] /\ b + z2[b] = c + z[c] /\ b \in C
      /\ z[b] % 16 = 0 /\ z[c] % 16 = 0 /\ c + z[c] <= e /\ c + z[c] \in B \cup {e} /\ c + z[c] # c
    BY <1>1
<1>4. Bottom \in C
    BY <1>1, <1>3
<1>5. ASSUME NEW x \in C
      PROVE  /\ x >= Bottom /\ z2[x] >= 32 /\ z2[x] % 16 = 0
             /\ x + z2[x] <= e /\ x + z2[x] \in C \cup {e}
    <2>1. CASE x = b
        <3>1. (z[b] + z[c]) % 16 = 0
            BY <1>3
        <3> QED BY <1>3, <2>1, <3>1
    <2>2. CASE x # b
        <3>1. x + z[x] # c
            <4>1. x + z[x] <= b \/ b + z[b] <= x
                BY <1>2, <2>2
            <4>2. x \in Nat /\ z[x] \in Nat /\ z[x] >= 32
                BY <1>1
            <4> QED BY <1>3, <4>1, <4>2
        <3> QED BY <1>1, <2>2, <3>1
    <2> QED BY <2>1, <2>2
<1>6. ASSUME NEW x \in C, NEW y \in C, x # y
      PROVE  x + z2[x] <= y \/ y + z2[y] <= x
    <2>1. /\ x + z[x] <= y \/ y + z[y] <= x
          /\ x + z[x] <= c \/ c + z[c] <= x
          /\ y + z[y] <= c \/ c + z[c] <= y
        BY <1>2, <1>6
    <2>2. /\ x \in Nat /\ y \in Nat /\ z[x] \in Nat /\ z[y] \in Nat
          /\ z[x] >= 32 /\ z[y] >= 32
          /\ x # b => z2[x] = z[x]
          /\ y # b => z2[y] = z[y]
        BY <1>1
    <2>3. CASE x # b /\ y # b
        BY <2>1, <2>2, <2>3
    <2>4. CASE x = b
        BY <1>3, <1>6, <2>1, <2>2, <2>4
    <2>5. CASE y = b
        BY <1>3, <1>6, <2>1, <2>2, <2>5
    <2> QED BY <2>3, <2>4, <2>5
<1> QED BY <1>1, <1>4, <1>5, <1>6 DEF Geometry

LEMMA ExtendGeometry ==
    ASSUME NEW e, NEW B, NEW z, Geometry(e, B, z), NEW w \in B, w + z[w] = e,
           NEW k \in Nat, k > 0, k % 16 = 0,
           NEW z2 \in [B -> Nat], z2[w] = z[w] + k, \A x \in B : x # w => z2[x] = z[x]
    PROVE  Geometry(e + k, B, z2)
<1>1. /\ B \subseteq Nat /\ e \in Nat /\ e \notin B /\ Bottom \in B /\ Bottom \in Nat
      /\ \A x \in B : x \in Nat /\ z[x] \in Nat
      /\ \A x \in B : x >= Bottom /\ z[x] >= 32 /\ z[x] % 16 = 0
      /\ \A x \in B : x + z[x] <= e /\ x + z[x] \in B \cup {e}
    BY DEF Geometry
<1>2. \A x, y \in B : x # y => x + z[x] <= y \/ y + z[y] <= x
    BY DEF Geometry
<1>3. e + k \in Nat /\ e + k \notin B
    BY <1>1
<1>4. ASSUME NEW x \in B
      PROVE  /\ x >= Bottom /\ z2[x] >= 32 /\ z2[x] % 16 = 0
             /\ x + z2[x] <= e + k /\ x + z2[x] \in B \cup {e + k}
    <2>1. CASE x = w
        <3>1. z[w] \in Nat /\ z[w] % 16 = 0
            BY <1>1
        <3>2. (z[w] + k) % 16 = 0
            BY <3>1
        <3> QED BY <1>1, <2>1, <3>2
    <2>2. CASE x # w
        <3>1. x + z[x] <= w \/ w + z[w] <= x
            BY <1>2, <2>2
        <3>2. x + z[x] # e
            BY <1>1, <3>1
        <3> QED BY <1>1, <2>2, <3>2
    <2> QED BY <2>1, <2>2
<1>5. ASSUME NEW x \in B, NEW y \in B, x # y
      PROVE  x + z2[x] <= y \/ y + z2[y] <= x
    <2>1. x + z[x] <= y \/ y + z[y] <= x
        BY <1>2, <1>5
    <2>2. /\ x \in Nat /\ y \in Nat /\ z[x] \in Nat /\ z[y] \in Nat /\ z[x] >= 32 /\ z[y] >= 32
          /\ x + z[x] <= e /\ y + z[y] <= e
        BY <1>1
    <2>3. CASE x # w /\ y # w
        BY <2>1, <2>3
    <2>4. CASE x = w
        BY <1>5, <2>1, <2>2, <2>4
    <2>5. CASE y = w
        BY <1>5, <2>1, <2>2, <2>5
    <2> QED BY <2>3, <2>4, <2>5
<1> QED BY <1>1, <1>3, <1>4, <1>5 DEF Geometry

-----------------------------------------------------------------------------
(* What each operation does to a well-formed heap. *)
\* Payloads of blocks that stay allocated keep their words.
Keeps(m, m2, A, z, A2, z2) ==
    \A b \in A \cap A2 : \A a \in Nat :
        b < a /\ a < b + z[b] /\ a < b + z2[b] => At(m2, a) = At(m, a)

LEMMA Behinds ==
    ASSUME NEW F, NEW z, NEW b
    PROVE  /\ Behind(F, z, b) \in {0, 2}
           /\ Behind(F, z, b) = 0 <=> \E c \in F : c + z[c] = b
BY DEF Behind

LEMMA SentinelWords ==
    /\ \A i \in Lists : Sentinel(i) \in Nat /\ Sentinel(i) >= Sentinel(0)
    /\ Sentinel(0) \in Nat /\ Sentinel(Wild) \in Nat /\ Sentinel(Wild) >= Sentinel(0) /\ Wild \in Lists
    /\ Bottom \in Nat /\ Bottom > 0
BY DEF Sentinel, Lists, Wild, Bottom, Start

-----------------------------------------------------------------------------
(* Heaps in which nothing but the wilderness is free: F is empty or holds    *)
(* the block that ends the heap.                                             *)
Alone(m, i) == NextLink(m, Sentinel(i)) = Sentinel(i) /\ PrevLink(m, Sentinel(i)) = Sentinel(i)
Paired(m, w) ==
    /\ NextLink(m, Sentinel(Wild)) = w /\ PrevLink(m, Sentinel(Wild)) = w
    /\ NextLink(m, w) = Sentinel(Wild) /\ PrevLink(m, w) = Sentinel(Wild)

Tight(m, e, A, F, z) ==
    /\ Geometry(e, A \cup F, z) /\ A \cap F = {} /\ e + 8 <= Sentinel(0)
    /\ At(m, e) = 0 /\ \A b \in A : At(m, b) = z[b] + 3
    /\ \A b \in F : b + z[b] = e /\ At(m, b) = z[b] + 2 /\ At(m, e - 8) = z[b] + 2 /\ Paired(m, b)
    /\ \A i \in 0 .. 6 : Alone(m, i)
    /\ F = {} => Alone(m, Wild)

\* Of a list that is a sentinel alone, and of list 7 with its one block.
LEMMA TightRings ==
    ASSUME NEW m, NEW F, NEW list, list \in [F -> Lists], Apart(F),
           \A i \in 0 .. 6 : Alone(m, i), F = {} => Alone(m, Wild),
           \A b \in F : list[b] = Wild /\ Paired(m, b),
           \A b, c \in F : b = c
    PROVE  Linked(m, list)
<1>1. \A i \in Lists : i \in 0 .. 6 \/ i = Wild
    BY DEF Lists, Wild
<1>2. Wild \notin 0 .. 6 /\ Wild \in Lists
    BY DEF Wild, Lists
<1>3. Rings(m, list)
    <2>1. ASSUME NEW i \in Lists, i # Wild PROVE InList(list, i) = {Sentinel(i)} /\ Alone(m, i)
        BY <1>1, <2>1 DEF InList
    <2>2. CASE F = {}
        <3>1. \A i \in Lists : InList(list, i) = {Sentinel(i)} /\ Alone(m, i)
            BY <2>1, <2>2 DEF InList
        <3> QED BY <3>1 DEF Rings, Alone
    <2>3. CASE F # {}
        <3>1. PICK w \in F : F = {w} /\ Paired(m, w)
            BY <2>3
        <3>2. InList(list, Wild) = {Sentinel(Wild), w}
            BY <3>1 DEF InList
        <3>3. ASSUME NEW i \in Lists, NEW x \in InList(list, i)
              PROVE  /\ NextLink(m, x) \in InList(list, i) /\ PrevLink(m, x) \in InList(list, i)
                     /\ PrevLink(m, NextLink(m, x)) = x /\ NextLink(m, PrevLink(m, x)) = x
            <4>1. CASE i = Wild
                BY <3>1, <3>2, <3>3, <4>1 DEF Paired
            <4>2. CASE i # Wild
                BY <2>1, <3>3, <4>2 DEF Alone
            <4> QED BY <4>1, <4>2
        <3> QED BY <3>3 DEF Rings
    <2> QED BY <2>2, <2>3
<1>4. Ranks(m, list, [b \in F |-> 0], 0)
    <2>1. \A j \in Lists : Sentinel(j) \notin F
        BY InListNodes
    <2>2. \A b \in F : NextLink(m, b) = Sentinel(Wild)
        BY DEF Paired
    <2> QED BY <1>2, <2>1, <2>2 DEF Ranks
<1> QED BY <1>3, <1>4 DEF Linked

LEMMA TightHeap ==
    ASSUME NEW m, NEW e, NEW A, NEW F, NEW z, Tight(m, e, A, F, z)
    PROVE  Heap(m, e, A, F, z)
<1>1. /\ Geometry(e, A \cup F, z) /\ A \cap F = {} /\ e + 8 <= Sentinel(0)
      /\ At(m, e) = 0 /\ \A b \in A : At(m, b) = z[b] + 3
      /\ \A b \in F : b + z[b] = e /\ At(m, b) = z[b] + 2 /\ At(m, e - 8) = z[b] + 2 /\ Paired(m, b)
      /\ \A i \in 0 .. 6 : Alone(m, i)
      /\ F = {} => Alone(m, Wild)
    BY DEF Tight
<1>2. /\ A \cup F \subseteq Nat /\ e \in Nat /\ e \notin A \cup F
      /\ \A b \in A \cup F : z[b] \in Nat /\ z[b] >= 32
      /\ \A b, c \in A \cup F : b # c => b + z[b] <= c \/ c + z[c] <= b
    BY <1>1 DEF Geometry
<1>3. \A b \in F : b + z[b] \notin F
    BY <1>1, <1>2
<1>4. Words(m, e, A, F, z)
    <2>1. \A b \in A \cup F : Behind(F, z, b) = 2
        BY <1>1, <1>2 DEF Behind
    <2>2. \A b \in A : At(m, b) = z[b] + Own(A, b) + Behind(F, z, b)
        BY <1>1, <1>2, <2>1 DEF Own
    <2>3. \A b \in F : At(m, b) = z[b] + Own(A, b) + Behind(F, z, b)
        BY <1>1, <1>2, <2>1 DEF Own
    <2>4. ASSUME NEW b \in F PROVE At(m, b + z[b] - 8) = z[b] + 2
        <3>1. b + z[b] = e /\ At(m, e - 8) = z[b] + 2
            BY <1>1
        <3>2. b + z[b] - 8 = e - 8
            BY <1>2, <3>1
        <3> QED BY <3>1, <3>2
    <2> QED BY <1>1, <2>2, <2>3, <2>4 DEF Words
<1>5. Linked(m, ListOf(e, F, z))
    <2>1. ListOf(e, F, z) \in [F -> Lists] /\ \A b \in F : ListOf(e, F, z)[b] = Wild
        BY <1>1 DEF ListOf, Class, Lists, Wild
    <2>2. Apart(F)
        <3>1. Sentinel(0) \in Nat
            BY SentinelWords
        <3> QED BY <1>1, <1>2, <3>1 DEF Apart
    <2>3. \A b, c \in F : b = c
        BY <1>1, <1>2
    <2> HIDE DEF ListOf
    <2> QED BY <1>1, <2>1, <2>2, <2>3, TightRings
<1> QED BY <1>1, <1>3, <1>4, <1>5 DEF Heap

LEMMA HeapTight ==
    ASSUME NEW m, NEW e, NEW A, NEW F, NEW z, Heap(m, e, A, F, z),
           \A i \in 0 .. 6 : First(m, i) = Sentinel(i)
    PROVE  Tight(m, e, A, F, z)
<1>1. Facts(e, A, F, z) /\ HeaderFacts(m, e, A, F, z)
    BY HeapFacts, Headers
<1>2. \A b \in F : b + z[b] = e
    BY OnlyWildFree
<1>3. Rings(m, ListOf(e, F, z)) /\ ListOf(e, F, z) \in [F -> Lists]
    BY <1>1 DEF Heap, Linked, Facts
<1>4. \A i \in Lists : First(m, i) = Sentinel(i) => Alone(m, i)
    BY <1>3 DEF Rings, InList, First, Alone
<1>5. \A i \in 0 .. 6 : Alone(m, i)
    <2>1. 0 .. 6 \subseteq Lists
        BY DEF Lists
    <2> QED BY <1>4, <2>1
<1>6. F = {} => Alone(m, Wild)
    BY <1>4, NoWildIs, SentinelWords
<1>7. \A b \in F : Paired(m, b)
    BY <1>2, WildIs DEF Paired, First
<1>8. ASSUME NEW b \in A PROVE At(m, b) = z[b] + 3
    <2>1. Own(A, b) = 1 /\ z[b] \in Nat /\ b # e
        BY <1>1 DEF Own, Facts
    <2>2. Behind(F, z, b) = 2
        BY <1>2, <2>1 DEF Behind
    <2> QED BY <1>1, <2>1, <2>2 DEF HeaderFacts
<1>9. At(m, e) = 0 /\ \A b \in F : At(m, b) = z[b] + 2 /\ At(m, e - 8) = z[b] + 2
    <2>1. ASSUME NEW b \in F PROVE At(m, e - 8) = z[b] + 2
        <3>1. b + z[b] = e /\ At(m, b + z[b] - 8) = z[b] + 2
            BY <1>1, <1>2 DEF HeaderFacts
        <3>2. b + z[b] - 8 = e - 8
            BY <1>1, <3>1 DEF Facts
        <3> QED BY <3>1, <3>2
    <2> QED BY <1>1, <2>1 DEF HeaderFacts
<1>10. Geometry(e, A \cup F, z) /\ A \cap F = {} /\ e + 8 <= Sentinel(0)
    BY DEF Heap
<1> QED BY <1>2, <1>5, <1>6, <1>7, <1>8, <1>9, <1>10 DEF Tight

\* What OnlyWild writes.
LEMMA OnlyWildWords ==
    ASSUME NEW m, NEW b, NEW a
    PROVE  At(OnlyWild(m, b), a) =
             IF a = b + 16 \/ a = b + 8 THEN Sentinel(Wild)
             ELSE IF a = Sentinel(Wild) + 16 \/ a = Sentinel(Wild) + 8 THEN b ELSE At(m, a)
BY Writes4 DEF OnlyWild, Wild

LEMMA OnlyWildLinks ==
    ASSUME NEW m, NEW b \in Nat, b + 24 <= Sentinel(0)
    PROVE  /\ Paired(OnlyWild(m, b), b)
           /\ \A i \in 0 .. 6 : Alone(m, i) => Alone(OnlyWild(m, b), i)
           /\ \A a \in Nat : a < Sentinel(0) /\ a # b + 8 /\ a # b + 16
                                => At(OnlyWild(m, b), a) = At(m, a)
<1> DEFINE m2 == OnlyWild(m, b)
           s7 == Sentinel(Wild)
<1>1. /\ s7 \in Nat /\ Sentinel(0) \in Nat /\ s7 >= Sentinel(0)
      /\ \A i \in 0 .. 6 : Sentinel(i) \in Nat /\ Sentinel(i) >= Sentinel(0) /\ Sentinel(i) + 24 <= s7
    BY DEF Sentinel, Wild
<1>2. \A a : At(m2, a) = IF a = b + 16 \/ a = b + 8 THEN s7
                         ELSE IF a = s7 + 16 \/ a = s7 + 8 THEN b ELSE At(m, a)
    BY OnlyWildWords
<1> HIDE DEF m2, s7
<1>3. At(m2, s7 + 8) = b /\ At(m2, s7 + 16) = b /\ At(m2, b + 8) = s7 /\ At(m2, b + 16) = s7
    BY <1>1, <1>2
<1>4. Paired(m2, b)
    BY <1>3 DEF Paired, NextLink, PrevLink, s7
<1>5. ASSUME NEW i \in 0 .. 6, Alone(m, i) PROVE Alone(m2, i)
    <2>1. Sentinel(i) + 8 # s7 + 16 /\ Sentinel(i) + 8 # s7 + 8 /\ Sentinel(i) + 8 # b + 16 /\ Sentinel(i) + 8 # b + 8
        BY <1>1
    <2>2. Sentinel(i) + 16 # s7 + 16 /\ Sentinel(i) + 16 # s7 + 8 /\ Sentinel(i) + 16 # b + 16 /\ Sentinel(i) + 16 # b + 8
        BY <1>1
    <2> QED BY <1>2, <1>5, <2>1, <2>2 DEF Alone, NextLink, PrevLink
<1>6. ASSUME NEW a \in Nat, a < Sentinel(0), a # b + 8, a # b + 16 PROVE At(m2, a) = At(m, a)
    <2>1. a # s7 + 16 /\ a # s7 + 8
        BY <1>1, <1>6
    <2> QED BY <1>2, <1>6, <2>1
<1> QED BY <1>4, <1>5, <1>6 DEF m2

\* Heap records have their four fields.
Record(s) == s = [mem |-> s.mem, end |-> s.end, errno |-> s.errno, ret |-> s.ret]

LEMMA NoMemory ==
    ASSUME NEW g, Record(g), NEW t, t = [g EXCEPT !.errno = "ENOMEM", !.ret = Null]
    PROVE  Record(t) /\ t.mem = g.mem /\ t.end = g.end /\ t.errno = "ENOMEM" /\ t.ret = Null
BY DEF Record

\* A new heap is one block, the wilderness.
LEMMA InitTight ==
    ASSUME NEW s, Record(s), s.end = Start,
           NEW z, z \in [{Bottom} -> Nat], z[Bottom] = Page - 48
    PROVE  LET t == init_heap(s)
           IN  /\ Record(t) /\ t.end = Start + Page /\ t.errno = s.errno /\ t.ret = s.ret
               /\ Start + Page <= Top
               /\ Tight(t.mem, Start + Page - 8, {}, {Bottom}, z)
<1> DEFINE end == Start + Page
           head == WithPrev(Page - 48)
           m == Writes(init_free_lists, << <<Start + 8, WithAlloc(32)>>, <<end - 8, 0>>,
                           <<Bottom, head>>, <<Bottom + Page - 56, head>> >>)
           t == init_heap(s)
<1>1. t = [s EXCEPT !.end = end, !.mem = OnlyWild(m, Bottom)]
    BY DEF init_heap, Bottom
<1>2. Record(t) /\ t.end = end /\ t.errno = s.errno /\ t.ret = s.ret /\ t.mem = OnlyWild(m, Bottom)
    BY <1>1 DEF Record
<1>3. /\ Page \in Nat /\ Page % 16 = 0 /\ Page >= 80 /\ Start \in Nat /\ Bottom = Start + 40
      /\ Sentinel(0) \in Nat /\ end <= Top /\ end <= Sentinel(0)
    <2>1. Start \in Nat /\ Sentinel(0) \in Nat /\ Top <= Sentinel(0)
        BY SfmmAssumption DEF Start, Sentinel, Top
    <2>2. MaxPages * Page \in Nat /\ MaxPages * Page >= Page /\ Top = Start + MaxPages * Page
        BY SfmmAssumption DEF Top
    <2> QED BY <2>1, <2>2, SfmmAssumption DEF Bottom
<1>4. head = Page - 46
    <2>1. (Page - 48) \in Nat /\ (Page - 48) % 16 = 0
        BY <1>3
    <2> DEFINE w == Page - 48
    <2> HIDE DEF w
    <2>2. w \in Nat /\ w % 16 = 0 => WithPrev(w) = w + 2
        BY Flags
    <2> QED BY <1>3, <2>1, <2>2 DEF w
<1>5. \A a : At(m, a) = IF a = Bottom + Page - 56 \/ a = Bottom THEN head
                        ELSE IF a = end - 8 THEN 0
                        ELSE IF a = Start + 8 THEN WithAlloc(32) ELSE At(init_free_lists, a)
    BY Writes4
<1>6. ASSUME NEW i \in Lists PROVE Alone(init_free_lists, i)
    <2> DEFINE D == {Sentinel(j) + 8 : j \in Lists} \cup {Sentinel(j) + 16 : j \in Lists}
    <2>1. init_free_lists = [a \in D |-> Sentinel((a - Sentinel(0)) \div 24)]
        BY DEF init_free_lists
    <2>2. Sentinel(i) + 8 \in D /\ Sentinel(i) + 16 \in D
        OBVIOUS
    <2> HIDE DEF D
    <2> DEFINE near(a) == Sentinel((a - Sentinel(0)) \div 24)
    <2>3. \A a \in D : At(init_free_lists, a) = near(a)
        BY <2>1 DEF At
    <2>4. near(Sentinel(i) + 8) = Sentinel(i) /\ near(Sentinel(i) + 16) = Sentinel(i)
        <3>1. \A k \in 0 .. 7 : (24 * k + 8) \div 24 = k /\ (24 * k + 16) \div 24 = k
            OBVIOUS
        <3>2. /\ i \in 0 .. 7 /\ (Sentinel(i) + 8) - Sentinel(0) = 24 * i + 8
              /\ (Sentinel(i) + 16) - Sentinel(0) = 24 * i + 16
            BY DEF Sentinel, Lists
        <3> QED BY <3>1, <3>2
    <2> HIDE DEF near
    <2> QED BY <2>2, <2>3, <2>4 DEF Alone, NextLink, PrevLink
<1> HIDE DEF t, m, head, end
<1>7. ASSUME NEW i \in 0 .. 6 PROVE Alone(m, i)
    <2>1. i \in Lists /\ Sentinel(i) \in Nat /\ Sentinel(i) >= Sentinel(0)
        BY DEF Lists, Sentinel
    <2>2. \A a \in Nat : a >= Sentinel(0) => At(m, a) = At(init_free_lists, a)
        BY <1>3, <1>5 DEF end
    <2>3. Alone(init_free_lists, i)
        BY <1>6, <2>1
    <2>4. /\ At(m, Sentinel(i) + 8) = At(init_free_lists, Sentinel(i) + 8)
          /\ At(m, Sentinel(i) + 16) = At(init_free_lists, Sentinel(i) + 16)
        BY <1>3, <2>1, <2>2
    <2> QED BY <2>3, <2>4 DEF Alone, NextLink, PrevLink
<1>8. /\ Paired(t.mem, Bottom) /\ \A i \in 0 .. 6 : Alone(t.mem, i)
      /\ \A a \in Nat : a < Sentinel(0) /\ a # Bottom + 8 /\ a # Bottom + 16 => At(t.mem, a) = At(m, a)
    <2>1. Bottom \in Nat /\ Bottom + 24 <= Sentinel(0)
        BY <1>3 DEF end
    <2> QED BY <1>2, <1>7, <2>1, OnlyWildLinks
<1>9. At(t.mem, end - 8) = 0 /\ At(t.mem, Bottom) = head /\ At(t.mem, end - 16) = head
    <2>1. /\ Bottom \in Nat /\ Bottom < Sentinel(0) /\ Bottom # Bottom + 8 /\ Bottom # Bottom + 16
          /\ Bottom + Page - 56 = end - 16
          /\ end - 8 # Bottom /\ end - 8 # end - 16
        BY <1>3 DEF end
    <2>2. /\ end - 16 \in Nat /\ end - 16 < Sentinel(0) /\ end - 16 # Bottom + 8 /\ end - 16 # Bottom + 16
          /\ end - 8 \in Nat /\ end - 8 < Sentinel(0) /\ end - 8 # Bottom + 8 /\ end - 8 # Bottom + 16
        BY <1>3 DEF end
    <2>3. At(m, end - 8) = 0 /\ At(m, Bottom) = head /\ At(m, end - 16) = head
        BY <1>5, <2>1
    <2> QED BY <1>8, <2>1, <2>2, <2>3
<1>10. Geometry(end - 8, {Bottom}, z)
    <2>1. z[Bottom] = Page - 48 /\ z[Bottom] \in Nat /\ z[Bottom] >= 32 /\ z[Bottom] % 16 = 0
          /\ Bottom + z[Bottom] = end - 8 /\ end - 8 \in Nat /\ Bottom \in Nat /\ end - 8 # Bottom
        BY <1>3 DEF end
    <2> QED BY <2>1 DEF Geometry
<1>11. /\ Bottom + z[Bottom] = end - 8 /\ head = z[Bottom] + 2 /\ end - 8 + 8 <= Sentinel(0)
       /\ end - 8 - 8 = end - 16
    BY <1>3, <1>4 DEF end
<1>12. Tight(t.mem, end - 8, {}, {Bottom}, z)
    BY <1>8, <1>9, <1>10, <1>11 DEF Tight
<1> QED BY <1>2, <1>3, <1>12 DEF t, end

\* Where the wilderness is, and that everything else lies before it.
WildFacts(m, e, A, F, z, w) ==
    /\ F = {w} /\ w \in Nat /\ e \in Nat /\ w + z[w] = e /\ w \notin A /\ w >= Bottom
    /\ z[w] \in Nat /\ z[w] >= 32 /\ z[w] % 16 = 0
    /\ \A b \in A : /\ b \in Nat /\ z[b] \in Nat /\ z[b] >= 32 /\ z[b] % 16 = 0
                    /\ b >= Bottom /\ b + z[b] <= w
    /\ At(m, w) = z[w] + 2 /\ First(m, 7) = w
    /\ e + 8 <= Sentinel(0) /\ Sentinel(0) \in Nat

LEMMA WildIsLast ==
    ASSUME NEW m, NEW e, NEW A, NEW F, NEW z, Tight(m, e, A, F, z), NEW w \in F
    PROVE  WildFacts(m, e, A, F, z, w)
<1>1. /\ A \cup F \subseteq Nat /\ e \in Nat
      /\ \A b \in A \cup F : z[b] \in Nat /\ z[b] >= 32 /\ z[b] % 16 = 0 /\ b >= Bottom /\ b + z[b] <= e
      /\ \A b, c \in A \cup F : b # c => b + z[b] <= c \/ c + z[c] <= b
    BY DEF Tight, Geometry
<1>2. /\ A \cap F = {} /\ e + 8 <= Sentinel(0) /\ w + z[w] = e /\ At(m, w) = z[w] + 2 /\ Paired(m, w)
      /\ \A b \in F : b + z[b] = e
    BY DEF Tight
<1>3. F = {w}
    BY <1>1, <1>2
<1>4. \A b \in A : b + z[b] <= w
    BY <1>1, <1>2
<1> QED BY <1>1, <1>2, <1>3, <1>4, SentinelWords DEF WildFacts, Paired, First, Wild

\* Nothing before the wilderness changes.
LEMMA KeptBelow ==
    ASSUME NEW m, NEW m2, NEW A, NEW z, NEW A2, NEW z2, NEW w \in Nat,
           \A b \in A : b \in Nat /\ z[b] \in Nat /\ b + z[b] <= w,
           \A a \in Nat : a < w => At(m2, a) = At(m, a)
    PROVE  Keeps(m, m2, A, z, A2, z2)
BY DEF Keeps

LEMMA GenTight ==
    ASSUME NEW s, Record(s), s.end \in Nat, CanGrow(s), NEW A, NEW F, NEW z, NEW w \in F,
           Tight(s.mem, s.end - 8, A, F, z),
           NEW z2, z2 \in [A \cup F -> Nat], z2[w] = z[w] + Page,
           \A b \in A \cup F : b # w => z2[b] = z[b]
    PROVE  LET t == gen_mem(s)
           IN  /\ Record(t) /\ t.end = s.end + Page /\ t.end <= Top
               /\ t.errno = s.errno /\ t.ret = s.ret
               /\ Tight(t.mem, t.end - 8, A, F, z2) /\ Keeps(s.mem, t.mem, A, z, A, z2)
<1> DEFINE e == s.end - 8
           e2 == e + Page
           head == z[w] + 2 + Page
           m == Writes(s.mem, << <<w, head>>, <<e2 - 8, head>>, <<e2, 0>> >>)
           t == gen_mem(s)
<1>1. WildFacts(s.mem, e, A, F, z, w)
    BY WildIsLast
<1>2. /\ F = {w} /\ w \in Nat /\ e \in Nat /\ w + z[w] = e /\ w \notin A /\ w >= Bottom
      /\ z[w] \in Nat /\ z[w] >= 32
      /\ \A b \in A : b \in Nat /\ z[b] \in Nat /\ z[b] >= 32 /\ b + z[b] <= w
      /\ At(s.mem, w) = z[w] + 2 /\ First(s.mem, 7) = w
      /\ Sentinel(0) \in Nat
    BY <1>1 DEF WildFacts
<1>3. /\ Page \in Nat /\ Page % 16 = 0 /\ Page >= 80
      /\ s.end + Page <= Top /\ Top <= Sentinel(0) /\ Top \in Nat
    <2>1. MaxPages * Page \in Nat /\ Start \in Nat
        BY SfmmAssumption DEF Start
    <2> QED BY <2>1, SfmmAssumption DEF CanGrow, Top
<1>4. /\ t.end = s.end + Page /\ t.mem = OnlyWild(m, w)
      /\ Record(t) /\ t.errno = s.errno /\ t.ret = s.ret
    <2>1. (s.end + Page) - 16 = e2 - 8 /\ (s.end + Page) - 8 = e2
        BY <1>3
    <2>2. gen_mem(s) = [s EXCEPT !.end = s.end + Page, !.mem = OnlyWild(m, w)]
        BY <1>2, <2>1 DEF gen_mem
    <2> HIDE DEF m
    <2> QED BY <2>2 DEF Record
<1>5. \A a : At(m, a) = IF a = e2 THEN 0 ELSE IF a = e2 - 8 \/ a = w THEN head ELSE At(s.mem, a)
    BY Writes3
<1>6. /\ e2 \in Nat /\ e2 = w + z[w] + Page /\ e2 + 8 <= Sentinel(0) /\ t.end - 8 = e2 /\ head = z2[w] + 2
    BY <1>2, <1>3, <1>4
<1> HIDE DEF t, m, e2, head, e
<1>7. \A i \in 0 .. 6 : Alone(m, i)
    <2>1. ASSUME NEW i \in 0 .. 6 PROVE Alone(m, i)
        <3>1. Sentinel(i) \in Nat /\ Sentinel(i) >= Sentinel(0)
            BY SentinelWords DEF Lists
        <3>2. /\ At(m, Sentinel(i) + 8) = At(s.mem, Sentinel(i) + 8)
              /\ At(m, Sentinel(i) + 16) = At(s.mem, Sentinel(i) + 16)
            BY <1>2, <1>3, <1>5, <1>6, <3>1
        <3>3. Alone(s.mem, i)
            BY DEF Tight
        <3> QED BY <3>2, <3>3 DEF Alone, NextLink, PrevLink
    <2> QED BY <2>1
<1>8. /\ Paired(t.mem, w) /\ \A i \in 0 .. 6 : Alone(t.mem, i)
      /\ \A a \in Nat : a < Sentinel(0) /\ a # w + 8 /\ a # w + 16 => At(t.mem, a) = At(m, a)
    <2>1. w + 24 <= Sentinel(0)
        BY <1>2, <1>3, <1>6
    <2> QED BY <1>2, <1>4, <1>7, <2>1, OnlyWildLinks
<1>9. \A a \in Nat : a < w => At(t.mem, a) = At(s.mem, a)
    BY <1>2, <1>3, <1>5, <1>6, <1>8
<1>10. At(t.mem, e2) = 0 /\ At(t.mem, w) = head /\ At(t.mem, e2 - 8) = head
    <2>1. /\ e2 < Sentinel(0) /\ e2 # w + 8 /\ e2 # w + 16 /\ w < Sentinel(0)
          /\ e2 - 8 \in Nat /\ e2 - 8 < Sentinel(0) /\ e2 - 8 # w + 8 /\ e2 - 8 # w + 16
          /\ w # e2 /\ e2 - 8 # e2
        BY <1>2, <1>3, <1>6
    <2> QED BY <1>2, <1>5, <1>6, <1>8, <2>1
<1>11. Geometry(e2, A \cup F, z2)
    <2>1. Geometry(e, A \cup F, z)
        BY DEF Tight, e
    <2>2. e2 = e + Page /\ Page > 0
        BY <1>3 DEF e2
    <2> QED BY <1>2, <1>3, <2>1, <2>2, ExtendGeometry
<1>12. \A b \in A : At(t.mem, b) = z2[b] + 3
    <2>1. \A b \in A : At(s.mem, b) = z[b] + 3
        BY DEF Tight
    <2>2. \A b \in A : b < w /\ b # w
        BY <1>2
    <2> QED BY <1>2, <1>9, <2>1, <2>2
<1>13. A \cap F = {} /\ w + z2[w] = e2
    BY <1>2, <1>3, <1>6
<1>14. Tight(t.mem, e2, A, F, z2)
    BY <1>2, <1>6, <1>8, <1>10, <1>11, <1>12, <1>13 DEF Tight
<1>15. Keeps(s.mem, t.mem, A, z, A, z2)
    BY <1>2, <1>9, KeptBelow
<1>16. t.end <= Top
    BY <1>3, <1>4
<1> QED BY <1>4, <1>6, <1>14, <1>15, <1>16 DEF t

\* The header of a free block.
LEMMA FreeWord ==
    ASSUME NEW k \in Nat, k % 16 = 0
    PROVE  /\ NoPrev(k + 2) = k /\ SizeOf(k + 2) = k /\ 2 * Bit(k + 2, 2) = 2
           /\ ~Allocd(k + 2) /\ PrevAllocd(k + 2) /\ WithAlloc(k + 2) = k + 3
           /\ WithPrev(k) = k + 2 /\ NoPrev(k) = k
<1>3. WithPrev(k) = k + 0 + 2 /\ NoPrev(k) = k + 0
    <2>1. k = k + 0 + 0 /\ 0 \in {0, 1} /\ 0 \in {0, 2}
        OBVIOUS
    <2> QED BY <2>1, Flags
<1> DEFINE w == k + 2
<1>1. w = k + 0 + 2 /\ 0 \in {0, 1} /\ 2 \in {0, 2} /\ k + 1 + 2 = k + 3 /\ k + 0 = k
    OBVIOUS
<1> HIDE DEF w
<1>2. /\ NoPrev(w) = k + 0 /\ SizeOf(w) = k /\ 2 * Bit(w, 2) = 2
      /\ ~Allocd(w) /\ PrevAllocd(w) /\ WithAlloc(w) = k + 1 + 2
    BY <1>1, Flags
<1> QED BY <1>1, <1>2, <1>3 DEF w

\* The word of the epilogue: not allocated, of no size.
LEMMA Epilogue == ~Allocd(0) /\ ~PrevAllocd(0) /\ NoPrev(0) = 0 /\ SizeOf(0) = 0
<1>1. 0 \in Nat /\ 0 % 16 = 0 /\ 0 \in {0, 1} /\ 0 \in {0, 2} /\ 0 = 0 + 0 + 0
    OBVIOUS
<1> QED BY <1>1, Flags

\* The wilderness gives n bytes to a new block and keeps the rest.
Splits(s, A, F, z, w, n, z2) ==
    /\ Record(s) /\ s.end \in Nat /\ w \in F /\ Tight(s.mem, s.end - 8, A, F, z)
    /\ n \in Nat /\ n >= 32 /\ n % 16 = 0 /\ n + 32 <= z[w]
    /\ z2 \in [A \cup {w, w + n} -> Nat] /\ z2[w] = n /\ z2[w + n] = z[w] - n
    /\ \A b \in A : z2[b] = z[b]

LEMMA SplitTight ==
    ASSUME NEW s, NEW A, NEW F, NEW z, NEW w, NEW n, NEW z2, Splits(s, A, F, z, w, n, z2)
    PROVE  LET t == SplitWild(s, n)
           IN  /\ Record(t) /\ t.end = s.end /\ t.errno = s.errno /\ t.ret = w + 8
               /\ Tight(t.mem, s.end - 8, A \cup {w}, {w + n}, z2)
               /\ Keeps(s.mem, t.mem, A, z, A \cup {w}, z2)
<1> SUFFICES ASSUME Record(s), s.end \in Nat, w \in F, Tight(s.mem, s.end - 8, A, F, z),
                    n \in Nat, n >= 32, n % 16 = 0, n + 32 <= z[w],
                    z2 \in [A \cup {w, w + n} -> Nat], z2[w] = n, z2[w + n] = z[w] - n,
                    \A b \in A : z2[b] = z[b]
             PROVE  LET t == SplitWild(s, n)
                    IN  /\ Record(t) /\ t.end = s.end /\ t.errno = s.errno /\ t.ret = w + 8
                        /\ Tight(t.mem, s.end - 8, A \cup {w}, {w + n}, z2)
                        /\ Keeps(s.mem, t.mem, A, z, A \cup {w}, z2)
    BY DEF Splits
<1> DEFINE e == s.end - 8
           new == w + n
           rest == z[w] - n + 2
           m1 == Writes(s.mem, << <<w, n + 3>>, <<new, z[w] - n>> >>)
           m == Writes(m1, << <<new, rest>>, <<e - 8, rest>> >>)
           t == SplitWild(s, n)
<1>1. WildFacts(s.mem, e, A, F, z, w)
    BY WildIsLast
<1>2. /\ F = {w} /\ w \in Nat /\ e \in Nat /\ w + z[w] = e /\ w \notin A /\ w >= Bottom
      /\ z[w] \in Nat /\ z[w] >= 32 /\ z[w] % 16 = 0
      /\ \A b \in A : b \in Nat /\ z[b] \in Nat /\ z[b] >= 32 /\ b + z[b] <= w
      /\ At(s.mem, w) = z[w] + 2 /\ First(s.mem, 7) = w
      /\ e + 8 <= Sentinel(0) /\ Sentinel(0) \in Nat
    BY <1>1 DEF WildFacts
<1>3. NoPrev(At(s.mem, w)) = z[w] /\ 2 * Bit(At(s.mem, w), 2) = 2
    BY <1>2, FreeWord
<1>4. \A a : At(m1, a) = IF a = new THEN z[w] - n ELSE IF a = w THEN n + 3 ELSE At(s.mem, a)
    BY Writes2
<1>5. \A a : At(m, a) = IF a = e - 8 \/ a = new THEN rest ELSE At(m1, a)
    BY Writes2
<1>6. Cut(s.mem, w, z[w], n) = [mem |-> m1, ext |-> 0]
    <2>1. At(m1, w + z[w]) = 0
        <3>1. At(s.mem, e) = 0
            BY DEF Tight
        <3>2. e # new /\ e # w
            BY <1>2
        <3> QED BY <1>2, <1>4, <3>1, <3>2
    <2>2. n + 1 + 2 * Bit(At(s.mem, w), 2) = n + 3
        BY <1>3
    <2> QED BY <2>1, <2>2, Epilogue DEF Cut
<1>7. WithPrev(At(m1, new)) = rest /\ new + At(m1, new) + 0 - 8 = e - 8
    <2>1. At(m1, new) = z[w] - n
        BY <1>4
    <2> DEFINE r == z[w] - n
    <2>2. r \in Nat /\ r % 16 = 0 /\ new + r + 0 - 8 = e - 8 /\ rest = r + 2
        BY <1>2
    <2> HIDE DEF r
    <2>3. WithPrev(r) = r + 2
        BY <2>2, FreeWord
    <2> QED BY <2>1, <2>2, <2>3 DEF r
<1>8. WildRest([mem |-> m1, ext |-> 0], new) = OnlyWild(m, new)
    <2> HIDE DEF m1, new
    <2> QED BY <1>7 DEF WildRest
<1>9. /\ t.mem = OnlyWild(m, new) /\ Record(t) /\ t.end = s.end /\ t.errno = s.errno /\ t.ret = w + 8
    <2>1. SplitWild(s, n) = [s EXCEPT !.ret = w + 8, !.mem = OnlyWild(m, new)]
        <3> HIDE DEF m, m1
        <3> QED BY <1>2, <1>3, <1>6, <1>8 DEF SplitWild
    <2> HIDE DEF m
    <2> QED BY <2>1 DEF Record
<1>10. /\ new \in Nat /\ w + 32 <= new /\ new + 32 <= e /\ new + z2[new] = e
       /\ rest = z2[new] + 2 /\ n + 3 = z2[w] + 3
    BY <1>2
<1> HIDE DEF t, m, m1, new, rest, e
<1>11. \A i \in 0 .. 6 : Alone(m, i)
    <2>1. ASSUME NEW i \in 0 .. 6 PROVE Alone(m, i)
        <3>1. Sentinel(i) \in Nat /\ Sentinel(i) >= Sentinel(0)
            BY SentinelWords DEF Lists
        <3>2. \A a \in Nat : a >= Sentinel(0) => At(m, a) = At(s.mem, a)
            BY <1>2, <1>4, <1>5, <1>10
        <3>3. /\ At(m, Sentinel(i) + 8) = At(s.mem, Sentinel(i) + 8)
              /\ At(m, Sentinel(i) + 16) = At(s.mem, Sentinel(i) + 16)
            BY <1>2, <3>1, <3>2
        <3>4. Alone(s.mem, i)
            BY DEF Tight
        <3> QED BY <3>3, <3>4 DEF Alone, NextLink, PrevLink
    <2> QED BY <2>1
<1>12. /\ Paired(t.mem, new) /\ \A i \in 0 .. 6 : Alone(t.mem, i)
       /\ \A a \in Nat : a < Sentinel(0) /\ a # new + 8 /\ a # new + 16 => At(t.mem, a) = At(m, a)
    <2>1. new + 24 <= Sentinel(0)
        BY <1>2, <1>10
    <2> QED BY <1>9, <1>10, <1>11, <2>1, OnlyWildLinks
<1>13. \A a \in Nat : a < w => At(t.mem, a) = At(s.mem, a)
    <2>1. ASSUME NEW a \in Nat, a < w
          PROVE  a < Sentinel(0) /\ a # new + 8 /\ a # new + 16 /\ a # e - 8 /\ a # new /\ a # w
        BY <1>2, <1>10, <2>1
    <2> QED BY <1>4, <1>5, <1>12, <2>1
<1>14. /\ At(t.mem, e) = 0 /\ At(t.mem, w) = n + 3 /\ At(t.mem, new) = rest /\ At(t.mem, e - 8) = rest
    <2>1. /\ e < Sentinel(0) /\ e # new + 8 /\ e # new + 16 /\ e # e - 8 /\ e # new /\ e # w
          /\ w < Sentinel(0) /\ w # new + 8 /\ w # new + 16 /\ w # e - 8 /\ w # new
          /\ new < Sentinel(0) /\ new # new + 8 /\ new # new + 16
          /\ e - 8 \in Nat /\ e - 8 < Sentinel(0) /\ e - 8 # new + 8 /\ e - 8 # new + 16
        BY <1>2, <1>10
    <2>2. At(s.mem, e) = 0
        BY DEF Tight, e
    <2>3. At(m, e) = 0 /\ At(m, w) = n + 3 /\ At(m, new) = rest /\ At(m, e - 8) = rest
        BY <1>4, <1>5, <2>1, <2>2
    <2> QED BY <1>2, <1>10, <1>12, <2>1, <2>3
<1>15. Geometry(e, (A \cup {w}) \cup {new}, z2) /\ new \notin A
    <2>1. Geometry(e, A \cup {w}, z)
        BY <1>2 DEF Tight, e
    <2>2. z2 \in [(A \cup {w}) \cup {w + n} -> Nat]
        <3>1. A \cup {w, w + n} = (A \cup {w}) \cup {w + n}
            OBVIOUS
        <3> QED BY <3>1
    <2>3. w \in A \cup {w} /\ \A x \in A \cup {w} : x # w => z2[x] = z[x]
        OBVIOUS
    <2>4. Geometry(e, (A \cup {w}) \cup {w + n}, z2) /\ w + n \notin (A \cup {w}) \cup {e}
        BY <2>1, <2>2, <2>3, SplitGeometry
    <2> QED BY <2>4 DEF new
<1>16. \A b \in A \cup {w} : At(t.mem, b) = z2[b] + 3
    <2>1. \A b \in A : At(s.mem, b) = z[b] + 3
        BY DEF Tight
    <2>2. \A b \in A : b < w /\ b # w
        BY <1>2
    <2> QED BY <1>2, <1>10, <1>13, <1>14, <2>1, <2>2
<1>17. Tight(t.mem, e, A \cup {w}, {new}, z2)
    <2>1. (A \cup {w}) \cap {new} = {}
        BY <1>2, <1>10, <1>15
    <2> QED BY <1>2, <1>10, <1>12, <1>14, <1>15, <1>16, <2>1 DEF Tight
<1>18. Keeps(s.mem, t.mem, A, z, A \cup {w}, z2)
    BY <1>2, <1>13, KeptBelow
<1> QED BY <1>9, <1>17, <1>18 DEF t, e, new

\* The wilderness is allocated whole.
LEMMA WholeTight ==
    ASSUME NEW s, Record(s), s.end \in Nat, NEW A, NEW F, NEW z, NEW w \in F,
           Tight(s.mem, s.end - 8, A, F, z)
    PROVE  LET t == norm_alloc(s, 7)
           IN  /\ Record(t) /\ t.end = s.end /\ t.errno = s.errno /\ t.ret = w + 8
               /\ Tight(t.mem, s.end - 8, A \cup {w}, {}, z)
               /\ Keeps(s.mem, t.mem, A, z, A \cup {w}, z)
<1> DEFINE e == s.end - 8
           s7 == Sentinel(Wild)
           m1 == Writes(s.mem, << <<w, z[w] + 3>>, <<s7 + 16, s7>> >>)
           m2 == Put(m1, s7 + 8, s7)
           t == norm_alloc(s, 7)
<1>1. WildFacts(s.mem, e, A, F, z, w)
    BY WildIsLast
<1>2. /\ F = {w} /\ w \in Nat /\ e \in Nat /\ w + z[w] = e /\ w \notin A /\ w >= Bottom
      /\ z[w] \in Nat /\ z[w] >= 32 /\ z[w] % 16 = 0
      /\ \A b \in A : b \in Nat /\ z[b] \in Nat /\ z[b] >= 32 /\ b + z[b] <= w
      /\ At(s.mem, w) = z[w] + 2 /\ First(s.mem, 7) = w
      /\ e + 8 <= Sentinel(0) /\ Sentinel(0) \in Nat
    BY <1>1 DEF WildFacts
<1>3. WithAlloc(At(s.mem, w)) = z[w] + 3
    BY <1>2, FreeWord
<1>4. /\ NextLink(s.mem, w) = s7 /\ PrevLink(s.mem, w) = s7
      /\ NextLink(s.mem, s7) = w /\ PrevLink(s.mem, s7) = w /\ Sentinel(7) = s7
    BY DEF Tight, Paired, Wild
<1>5. \A a : At(m1, a) = IF a = s7 + 16 THEN s7 ELSE IF a = w THEN z[w] + 3 ELSE At(s.mem, a)
    BY Writes2
<1>6. /\ s7 \in Nat /\ s7 >= Sentinel(0)
      /\ \A i \in 0 .. 6 : Sentinel(i) \in Nat /\ Sentinel(i) >= Sentinel(0) /\ Sentinel(i) + 24 <= s7
    BY DEF Sentinel, Wild
<1>7. \A a : At(m2, a) = IF a = s7 + 8 THEN s7 ELSE At(m1, a)
    BY AtPut
<1> HIDE DEF s7
<1>8. First(m1, 7) = w /\ NextLink(m1, w) = s7 /\ PrevLink(m2, s7) = s7
    <2>1. s7 + 8 # s7 + 16 /\ s7 + 8 # w /\ w + 8 # s7 + 16 /\ w + 8 # w /\ s7 + 16 # s7 + 8
        BY <1>2, <1>6
    <2>2. At(m1, s7 + 8) = At(s.mem, s7 + 8) /\ At(m1, w + 8) = At(s.mem, w + 8) /\ At(m2, s7 + 16) = s7
        BY <1>5, <1>7, <2>1
    <2> QED BY <1>4, <2>2 DEF First, NextLink, PrevLink
<1>9. w # s7
    BY <1>2, <1>6
<1>10. /\ t.mem = m2 /\ Record(t) /\ t.end = s.end /\ t.errno = s.errno /\ t.ret = w + 8
    <2>1. norm_alloc(s, 7) = [s EXCEPT !.ret = w + 8, !.mem = m2]
        <3>1. m1 = Writes(s.mem, << <<w, WithAlloc(At(s.mem, w))>>, <<NextLink(s.mem, w) + 16, s7>> >>)
            BY <1>3, <1>4
        <3>2. m2 = Put(m1, s7 + 8, NextLink(m1, First(m1, 7)))
            BY <1>8
        <3> HIDE DEF m1, m2
        <3> QED BY <1>2, <1>4, <1>8, <1>9, <3>1, <3>2 DEF norm_alloc
    <2> HIDE DEF m2
    <2> QED BY <2>1 DEF Record
<1> HIDE DEF t, m1, m2, e
<1>11. \A a \in Nat : a < Sentinel(0) /\ a # w => At(m2, a) = At(s.mem, a)
    BY <1>5, <1>6, <1>7, SentinelWords
<1>12. At(m2, w) = z[w] + 3 /\ At(m2, e) = 0
    <2>1. w # s7 + 8 /\ w # s7 + 16 /\ e # w /\ e < Sentinel(0)
        BY <1>2, <1>6
    <2>2. At(s.mem, e) = 0
        BY DEF Tight, e
    <2> QED BY <1>2, <1>5, <1>7, <1>11, <2>1, <2>2
<1>13. Alone(m2, Wild)
    BY <1>5, <1>6, <1>7 DEF Alone, NextLink, PrevLink, s7
<1>14. ASSUME NEW i \in 0 .. 6 PROVE Alone(m2, i)
    <2>1. /\ Sentinel(i) + 8 # s7 + 8 /\ Sentinel(i) + 8 # s7 + 16 /\ Sentinel(i) + 8 # w
          /\ Sentinel(i) + 16 # s7 + 8 /\ Sentinel(i) + 16 # s7 + 16 /\ Sentinel(i) + 16 # w
        BY <1>2, <1>6
    <2>2. Alone(s.mem, i)
        BY DEF Tight
    <2> QED BY <1>5, <1>7, <2>1, <2>2 DEF Alone, NextLink, PrevLink
<1>15. \A b \in A \cup {w} : At(m2, b) = z[b] + 3
    <2>1. \A b \in A : At(s.mem, b) = z[b] + 3
        BY DEF Tight
    <2>2. \A b \in A : b < Sentinel(0) /\ b # w
        BY <1>2
    <2> QED BY <1>2, <1>11, <1>12, <2>1, <2>2
<1>16. Tight(m2, e, A \cup {w}, {}, z)
    <2>1. Geometry(e, (A \cup {w}) \cup {}, z)
        <3>1. (A \cup {w}) \cup {} = A \cup F
            BY <1>2
        <3> QED BY <3>1 DEF Tight, e
    <2> QED BY <1>2, <1>12, <1>13, <1>14, <1>15, <2>1 DEF Tight
<1>17. Keeps(s.mem, m2, A, z, A \cup {w}, z)
    <2>1. \A a \in Nat : a < w => At(m2, a) = At(s.mem, a)
        BY <1>2, <1>11
    <2> QED BY <1>2, <2>1, KeptBelow
<1> QED BY <1>10, <1>16, <1>17 DEF t, e

-----------------------------------------------------------------------------
(* The loop of sf_malloc that grows the heap. *)
LEMMA LeastNat ==
    ASSUME NEW S, S \subseteq Nat, S # {}
    PROVE  \E x \in S : \A y \in S : x <= y
<1> DEFINE R == {ss \in Nat \X Nat : ss[1] < ss[2]}
<1>1. IsWellFoundedOn(R, Nat)
    BY NatLessThanWellFounded DEF OpToRel
<1>2. S \in SUBSET Nat
    OBVIOUS
<1>3. PICK x \in S : \A y \in S : ~(<<y, x>> \in R)
    <2> HIDE DEF R
    <2> QED BY <1>1, <1>2, WFMin, Zenon
<1>4. ASSUME NEW y \in S PROVE x <= y
    <2>1. x \in Nat /\ y \in Nat /\ (<<y, x>> \in Nat \X Nat => ~(y < x))
        BY <1>3
    <2> QED BY <2>1
<1> QED BY <1>4

Big(s) == s.end \in Nat /\ s.end >= Start + Page /\ s.end <= Top

\* What the first k turns leave: the wilderness larger, everything else as it was.
GrownBy(s, A, F, z, n, k, g) ==
    /\ Record(g) /\ Big(g) /\ g.errno \in {"none", "ENOMEM"}
    /\ g.errno = "ENOMEM" => g.ret = Null
    /\ g.errno = "none" => g.ret = s.ret
    /\ \E z2 : /\ z2 \in [A \cup F -> Nat] /\ \A b \in A : z2[b] = z[b]
               /\ Tight(g.mem, g.end - 8, A, F, z2) /\ Keeps(s.mem, g.mem, A, z, A, z2)
    /\ wild_check(g, n) /\ g.errno = "none" => g.end = s.end + k * Page

LEMMA KeepsTwice ==
    ASSUME NEW m, NEW m1, NEW m2, NEW A, NEW z, NEW A1, NEW z1, NEW A2, NEW z2,
           A \cap A2 \subseteq A1, \A b \in A : z1[b] = z[b],
           Keeps(m, m1, A, z, A1, z1), Keeps(m1, m2, A1, z1, A2, z2)
    PROVE  Keeps(m, m2, A, z, A2, z2)
<1>1. ASSUME NEW b \in A \cap A2, NEW a \in Nat, b < a, a < b + z[b], a < b + z2[b]
      PROVE  At(m2, a) = At(m, a)
    <2>1. b \in A1 /\ b \in A /\ b \in A2 /\ z1[b] = z[b]
        OBVIOUS
    <2>2. At(m1, a) = At(m, a)
        BY <1>1, <2>1 DEF Keeps
    <2>3. At(m2, a) = At(m1, a)
        BY <1>1, <2>1 DEF Keeps
    <2> QED BY <2>2, <2>3
<1> QED BY <1>1 DEF Keeps

LEMMA KeepsAll == ASSUME NEW m, NEW A, NEW z, NEW A2, NEW z2 PROVE Keeps(m, m, A, z, A2, z2)
BY DEF Keeps

LEMMA GrowStep ==
    ASSUME NEW s, NEW A, NEW F, NEW z, NEW n, NEW k \in Nat, NEW g, NEW w \in F,
           s.end \in Nat, GrownBy(s, A, F, z, n, k, g)
    PROVE  GrownBy(s, A, F, z, n, k + 1, GrowOnce(g, n))
<1>1. /\ Record(g) /\ Big(g) /\ g.errno \in {"none", "ENOMEM"}
      /\ g.errno = "ENOMEM" => g.ret = Null
      /\ g.errno = "none" => g.ret = s.ret
      /\ wild_check(g, n) /\ g.errno = "none" => g.end = s.end + k * Page
    BY DEF GrownBy
<1>2. PICK z1 : /\ z1 \in [A \cup F -> Nat] /\ \A b \in A : z1[b] = z[b]
                /\ Tight(g.mem, g.end - 8, A, F, z1) /\ Keeps(s.mem, g.mem, A, z, A, z1)
    BY DEF GrownBy
<1>3. CASE ~wild_check(g, n) \/ g.errno = "ENOMEM"
    BY <1>1, <1>2, <1>3 DEF GrowOnce, GrownBy
<1>4. CASE wild_check(g, n) /\ g.errno # "ENOMEM" /\ ~CanGrow(g)
    <2> DEFINE t == [g EXCEPT !.errno = "ENOMEM", !.ret = Null]
    <2>1. GrowOnce(g, n) = t
        BY <1>4 DEF GrowOnce
    <2>2. Record(t) /\ t.mem = g.mem /\ t.end = g.end /\ t.errno = "ENOMEM" /\ t.ret = Null
        BY <1>1, NoMemory
    <2> HIDE DEF t
    <2>3. Big(t)
        BY <1>1, <2>2 DEF Big
    <2> QED BY <1>2, <2>1, <2>2, <2>3 DEF GrownBy
<1>5. CASE wild_check(g, n) /\ g.errno # "ENOMEM" /\ CanGrow(g)
    <2> DEFINE t == gen_mem(g)
               z2 == [b \in A \cup F |-> IF b = w THEN z1[b] + Page ELSE z1[b]]
    <2>1. GrowOnce(g, n) = t
        BY <1>5 DEF GrowOnce
    <2>2. g.end \in Nat /\ Page \in Nat /\ w \in A \cup F
        BY <1>1, SfmmAssumption DEF Big
    <2>3. z2 \in [A \cup F -> Nat] /\ z2[w] = z1[w] + Page /\ \A b \in A \cup F : b # w => z2[b] = z1[b]
        BY <1>2, <2>2
    <2> HIDE DEF z2, t
    <2>4. /\ Record(t) /\ t.end = g.end + Page /\ t.end <= Top
          /\ t.errno = g.errno /\ t.ret = g.ret
          /\ Tight(t.mem, t.end - 8, A, F, z2) /\ Keeps(g.mem, t.mem, A, z1, A, z2)
        BY <1>1, <1>2, <1>5, <2>2, <2>3, GenTight DEF t
    <2>5. Big(t)
        BY <1>1, <2>2, <2>4, SfmmAssumption DEF Big, Start
    <2>6. t.end = s.end + (k + 1) * Page
        <3>1. g.end = s.end + k * Page
            BY <1>1, <1>5
        <3>2. (k + 1) * Page = k * Page + Page /\ k * Page \in Nat
            BY <2>2
        <3> QED BY <2>2, <2>4, <3>1, <3>2
    <2>7. \A b \in A : z2[b] = z[b]
        <3>1. w \notin A
            BY <1>2 DEF Tight
        <3> QED BY <1>2, <2>3, <3>1
    <2>8. Keeps(s.mem, t.mem, A, z, A, z2)
        BY <1>2, <2>4, KeepsTwice
    <2> QED BY <1>1, <2>1, <2>3, <2>4, <2>5, <2>6, <2>7, <2>8 DEF GrownBy
<1> QED BY <1>3, <1>4, <1>5

LEMMA GrowAll ==
    ASSUME NEW s, NEW A, NEW F, NEW z, NEW n, NEW w \in F, Record(s), Big(s),
           z \in [A \cup F -> Nat], Tight(s.mem, s.end - 8, A, F, z)
    PROVE  GrownBy(s, A, F, z, n, MaxPages, GrowFor(s, n))
<1> DEFINE base == [s EXCEPT !.errno = "none"]
           Turns(N, f) == f = [k \in 0 .. N |-> IF k = 0 THEN base ELSE GrowOnce(f[k - 1], n)]
           grown == CHOOSE f : Turns(MaxPages, f)
<1>1. MaxPages \in Nat
    BY SfmmAssumption
<1>2. GrowFor(s, n) = grown[MaxPages]
    BY DEF GrowFor
<1> HIDE DEF base
<1>3. ASSUME NEW k \in Nat, NEW g, Turns(k, g)
      PROVE  \E f : Turns(k + 1, f)
    <2> DEFINE f == [i \in 0 .. k + 1 |-> IF i = 0 THEN base ELSE GrowOnce(g[i - 1], n)]
    <2>1. \A i \in 0 .. k : f[i] = g[i]
        BY <1>3
    <2>2. f = [i \in 0 .. k + 1 |-> IF i = 0 THEN base ELSE GrowOnce(f[i - 1], n)]
        <3>1. \A i \in 0 .. k + 1 : i # 0 => i - 1 \in 0 .. k
            OBVIOUS
        <3>2. \A i \in 0 .. k + 1 : f[i] = IF i = 0 THEN base ELSE GrowOnce(f[i - 1], n)
            BY <2>1, <3>1
        <3>3. DOMAIN f = 0 .. k + 1 /\ f = [i \in 0 .. k + 1 |-> f[i]]
            OBVIOUS
        <3> HIDE DEF f
        <3> QED BY <3>2, <3>3
    <2> HIDE DEF f
    <2> QED BY <2>2
<1>4. \E f : Turns(0, f)
    <2> DEFINE f == [k \in 0 .. 0 |-> base]
    <2>1. f = [k \in 0 .. 0 |-> IF k = 0 THEN base ELSE GrowOnce(f[k - 1], n)]
        OBVIOUS
    <2> HIDE DEF f
    <2> QED BY <2>1
<1>5. Turns(MaxPages, grown)
    <2> HIDE DEF Turns
    <2> DEFINE S == {k \in Nat : ~\E f : Turns(k, f)}
    <2>1. S = {}
        <3>1. SUFFICES ASSUME S # {} PROVE FALSE
            OBVIOUS
        <3>2. PICK k \in S : \A j \in S : k <= j
            BY <3>1, LeastNat
        <3>3. k \in Nat /\ k # 0
            BY <1>4
        <3>4. k - 1 \in Nat /\ k - 1 \notin S /\ (k - 1) + 1 = k
            BY <3>2, <3>3
        <3> QED BY <1>3, <3>2, <3>4
    <2>2. \E f : Turns(MaxPages, f)
        BY <1>1, <2>1
    <2> QED BY <2>2
<1> HIDE DEF grown
<1>6. grown[0] = base /\ \A k \in Nat : k + 1 \in 0 .. MaxPages => grown[k + 1] = GrowOnce(grown[k], n)
    <2>1. \A k \in 0 .. MaxPages : grown[k] = IF k = 0 THEN base ELSE GrowOnce(grown[k - 1], n)
        BY <1>5
    <2>2. \A k \in Nat : k + 1 # 0 /\ (k + 1) - 1 = k
        OBVIOUS
    <2> QED BY <1>1, <2>1, <2>2
<1>7. GrownBy(s, A, F, z, n, 0, base)
    <2>1. /\ Record(base) /\ base.mem = s.mem /\ base.end = s.end /\ base.errno = "none" /\ base.ret = s.ret
        BY DEF Record, base
    <2>2. Big(base) /\ base.end = s.end + 0 * Page
        BY <2>1, SfmmAssumption DEF Big
    <2>3. Keeps(s.mem, base.mem, A, z, A, z)
        BY <2>1, KeepsAll
    <2> QED BY <2>1, <2>2, <2>3 DEF GrownBy
<1>8. \A k \in 0 .. MaxPages : GrownBy(s, A, F, z, n, k, grown[k])
    <2> DEFINE S == {k \in Nat : k \in 0 .. MaxPages /\ ~GrownBy(s, A, F, z, n, k, grown[k])}
    <2>1. S = {}
        <3>1. SUFFICES ASSUME S # {} PROVE FALSE
            OBVIOUS
        <3>2. PICK k \in S : \A j \in S : k <= j
            BY <3>1, LeastNat
        <3>3. k \in Nat /\ k # 0 /\ k \in 0 .. MaxPages
            BY <1>6, <1>7
        <3>4. k - 1 \in Nat /\ k - 1 \in 0 .. MaxPages /\ k - 1 \notin S /\ (k - 1) + 1 = k
            BY <1>1, <3>2, <3>3
        <3>5. GrownBy(s, A, F, z, n, k - 1, grown[k - 1]) /\ s.end \in Nat
            BY <3>4 DEF Big
        <3>6. GrownBy(s, A, F, z, n, (k - 1) + 1, GrowOnce(grown[k - 1], n))
            BY <3>4, <3>5, GrowStep
        <3>7. grown[k] = GrowOnce(grown[k - 1], n)
            BY <1>6, <3>3, <3>4
        <3> QED BY <3>4, <3>6, <3>7
    <2> QED BY <1>1, <2>1
<1>9. MaxPages \in 0 .. MaxPages
    BY <1>1
<1> QED BY <1>2, <1>8, <1>9

-----------------------------------------------------------------------------
(* Allocating, while nothing but the wilderness is free. *)
Errnos == {"none", "ENOMEM", "EINVAL"}

\* What a call leaves that was asked for a block of n bytes: the blocks there
\* were, and the new one if it returned one.
Yields(s, A, z, n, t) ==
    /\ Record(t) /\ Big(t) /\ t.errno \in Errnos /\ t.ret \in Nat
    /\ \E A2, F2, z2 :
          /\ Tight(t.mem, t.end - 8, A2, F2, z2) /\ Keeps(s.mem, t.mem, A, z, A2, z2)
          /\ A \subseteq A2 /\ \A b \in A : z2[b] = z[b]
          /\ t.ret = Null => A2 = A
          /\ t.ret # Null => A2 = A \cup {t.ret - 8} /\ t.ret - 8 \notin A /\ n <= z2[t.ret - 8]

LEMMA TakeWildYields ==
    ASSUME NEW s, NEW A, NEW F, NEW z, NEW w \in F, Record(s), Big(s), s.errno \in Errnos,
           Tight(s.mem, s.end - 8, A, F, z),
           NEW n \in Nat, n >= 32, n % 16 = 0, n <= z[w]
    PROVE  Yields(s, A, z, n, TakeWild(s, n))
<1> DEFINE e == s.end - 8
           t == TakeWild(s, n)
<1>1. WildFacts(s.mem, e, A, F, z, w)
    BY WildIsLast
<1>2. /\ F = {w} /\ w \in Nat /\ e \in Nat /\ w + z[w] = e /\ w \notin A /\ w >= Bottom
      /\ z[w] \in Nat /\ z[w] % 16 = 0
      /\ \A b \in A : b \in Nat /\ z[b] \in Nat /\ b + z[b] <= w
      /\ At(s.mem, w) = z[w] + 2 /\ First(s.mem, 7) = w
    BY <1>1 DEF WildFacts
<1>3. w + 8 \in Nat /\ w + 8 # Null /\ (w + 8) - 8 = w
    BY <1>2 DEF Null
<1>4. CASE Splittable(z[w] + 2, n)
    <2> DEFINE z2 == [b \in A \cup {w, w + n} |-> IF b = w THEN n ELSE IF b = w + n THEN z[w] - n ELSE z[b]]
    <2>1. n + 32 <= z[w]
        BY <1>2, <1>4 DEF Splittable
    <2>2. w + n \notin A /\ w + n # w
        <3>1. \A b \in A : b <= w
            BY <1>2
        <3> QED BY <1>2, <3>1
    <2>3. /\ z2 \in [A \cup {w, w + n} -> Nat] /\ z2[w] = n /\ z2[w + n] = z[w] - n
          /\ \A b \in A : z2[b] = z[b]
        BY <1>2, <2>1, <2>2
    <2> HIDE DEF z2
    <2>4. t = SplitWild(s, n)
        BY <1>2, <1>4 DEF TakeWild
    <2> HIDE DEF t
    <2>5. /\ Record(t) /\ t.end = s.end /\ t.errno = s.errno /\ t.ret = w + 8
          /\ Tight(t.mem, s.end - 8, A \cup {w}, {w + n}, z2)
          /\ Keeps(s.mem, t.mem, A, z, A \cup {w}, z2)
        <3>1. s.end \in Nat
            BY DEF Big
        <3>2. LET v == SplitWild(s, n)
              IN  /\ Record(v) /\ v.end = s.end /\ v.errno = s.errno /\ v.ret = w + 8
                  /\ Tight(v.mem, s.end - 8, A \cup {w}, {w + n}, z2)
                  /\ Keeps(s.mem, v.mem, A, z, A \cup {w}, z2)
            <4>1. Splits(s, A, F, z, w, n, z2)
                BY <2>1, <2>3, <3>1 DEF Splits
            <4> QED BY <4>1, SplitTight
        <3> QED BY <2>4, <3>2
    <2>6. Big(t) /\ t.errno \in Errnos
        BY <2>5 DEF Big
    <2>7. n <= z2[w]
        BY <2>3
    <2>8. Yields(s, A, z, n, t)
        BY <1>2, <1>3, <2>3, <2>5, <2>6, <2>7 DEF Yields
    <2> QED BY <2>8 DEF t
<1>5. CASE ~Splittable(z[w] + 2, n)
    <2>1. t = norm_alloc(s, 7)
        BY <1>2, <1>5 DEF TakeWild
    <2> HIDE DEF t
    <2>2. /\ Record(t) /\ t.end = s.end /\ t.errno = s.errno /\ t.ret = w + 8
          /\ Tight(t.mem, s.end - 8, A \cup {w}, {}, z)
          /\ Keeps(s.mem, t.mem, A, z, A \cup {w}, z)
        <3>1. s.end \in Nat
            BY DEF Big
        <3>2. LET v == norm_alloc(s, 7)
              IN  /\ Record(v) /\ v.end = s.end /\ v.errno = s.errno /\ v.ret = w + 8
                  /\ Tight(v.mem, s.end - 8, A \cup {w}, {}, z)
                  /\ Keeps(s.mem, v.mem, A, z, A \cup {w}, z)
            BY <3>1, WholeTight
        <3> QED BY <2>1, <3>2
    <2>3. Big(t) /\ t.errno \in Errnos
        BY <2>2 DEF Big
    <2>4. Yields(s, A, z, n, t)
        BY <1>2, <1>3, <2>2, <2>3 DEF Yields
    <2> QED BY <2>4 DEF t
<1> QED BY <1>4, <1>5

LEMMA FromWildYields ==
    ASSUME NEW s, NEW A, NEW F, NEW z, NEW w \in F, Record(s), Big(s), s.errno \in Errnos,
           z \in [A \cup F -> Nat], Tight(s.mem, s.end - 8, A, F, z),
           NEW n \in Nat, n >= 32, n % 16 = 0
    PROVE  Yields(s, A, z, n, FromWild(s, n))
<1> DEFINE g == GrowFor(s, n)
<1>1. GrownBy(s, A, F, z, n, MaxPages, g)
    BY GrowAll
<1>2. FromWild(s, n) = Grown(g, s.errno, n)
    BY DEF FromWild
<1> HIDE DEF g
<1>3. /\ Record(g) /\ Big(g) /\ g.errno \in {"none", "ENOMEM"}
      /\ g.errno = "ENOMEM" => g.ret = Null
      /\ g.errno = "none" => g.ret = s.ret
      /\ wild_check(g, n) /\ g.errno = "none" => g.end = s.end + MaxPages * Page
    BY <1>1 DEF GrownBy
<1>4. PICK z1 : /\ z1 \in [A \cup F -> Nat] /\ \A b \in A : z1[b] = z[b]
                /\ Tight(g.mem, g.end - 8, A, F, z1) /\ Keeps(s.mem, g.mem, A, z, A, z1)
    BY <1>1 DEF GrownBy
<1>5. CASE g.errno = "ENOMEM"
    <2>1. FromWild(s, n) = g
        BY <1>2, <1>5 DEF Grown
    <2>2. g.errno \in Errnos /\ g.ret \in Nat /\ g.ret = Null
        BY <1>3, <1>5 DEF Errnos, Null
    <2>3. Yields(s, A, z, n, g)
        BY <1>3, <1>4, <2>2 DEF Yields
    <2> QED BY <2>1, <2>3
<1>6. CASE g.errno # "ENOMEM"
    <2> DEFINE t == [g EXCEPT !.errno = s.errno]
    <2>1. FromWild(s, n) = TakeWild(t, n)
        BY <1>2, <1>6 DEF Grown
    <2>2. Record(t) /\ t.mem = g.mem /\ t.end = g.end /\ t.errno = s.errno
        BY <1>3 DEF Record
    <2> HIDE DEF t
    <2>3. ~wild_check(g, n)
        <3>1. g.end <= Top /\ s.end >= Start + Page /\ s.end \in Nat
            BY <1>3 DEF Big
        <3>2. Top = Start + MaxPages * Page /\ MaxPages * Page \in Nat /\ Page \in Nat /\ Page >= 80 /\ Start \in Nat
            BY SfmmAssumption DEF Top, Start
        <3>3. g.end # s.end + MaxPages * Page
            BY <3>1, <3>2
        <3> QED BY <1>3, <1>6, <3>3
    <2>4. n <= z1[w]
        <3>1. WildFacts(g.mem, g.end - 8, A, F, z1, w)
            BY <1>4, WildIsLast
        <3>2. At(g.mem, First(g.mem, 7)) = z1[w] + 2 /\ z1[w] \in Nat /\ z1[w] % 16 = 0
            BY <3>1 DEF WildFacts
        <3>3. n <= z1[w] + 2
            BY <2>3, <3>2 DEF wild_check
        <3> QED BY <3>2, <3>3
    <2>5. Big(t)
        BY <1>3, <2>2 DEF Big
    <2>6. Yields(t, A, z1, n, TakeWild(t, n))
        BY <1>4, <2>2, <2>4, <2>5, TakeWildYields
    <2> DEFINE u == TakeWild(t, n)
    <2> HIDE DEF u
    <2>7. Record(u) /\ Big(u) /\ u.errno \in Errnos /\ u.ret \in Nat
        BY <2>6 DEF Yields, u
    <2>8. PICK A2, F2, z2 :
             /\ Tight(u.mem, u.end - 8, A2, F2, z2) /\ Keeps(g.mem, u.mem, A, z1, A2, z2)
             /\ A \subseteq A2 /\ \A b \in A : z2[b] = z1[b]
             /\ u.ret = Null => A2 = A
             /\ u.ret # Null => A2 = A \cup {u.ret - 8} /\ u.ret - 8 \notin A /\ n <= z2[u.ret - 8]
        BY <2>2, <2>6 DEF Yields, u
    <2>9. Keeps(s.mem, u.mem, A, z, A2, z2)
        <3>1. A \cap A2 \subseteq A
            OBVIOUS
        <3> QED BY <1>4, <2>8, <3>1, KeepsTwice
    <2>10. \A b \in A : z2[b] = z[b]
        BY <1>4, <2>8
    <2>11. Yields(s, A, z, n, u)
        BY <2>7, <2>8, <2>9, <2>10 DEF Yields
    <2> QED BY <2>1, <2>11 DEF u
<1> QED BY <1>5, <1>6

\* Of the lists sf_malloc goes through only the last can have a block.
LEMMA OnlyLastList ==
    ASSUME NEW s, NEW n, Record(s), \A i \in 0 .. 6 : Alone(s.mem, i), get_index(n) \in 0 .. 6
    PROVE  LET base == [s EXCEPT !.ret = Null]
               tried[i \in 0 .. 8] ==
                   IF i <= get_index(n) THEN base ELSE TakeFrom(tried[i - 1], i - 1, n)
           IN  tried[8] = TakeFrom(base, 7, n)
<1> DEFINE base == [s EXCEPT !.ret = Null]
           gi == get_index(n)
           Tries(f) == f = [i \in 0 .. 8 |-> IF i <= gi THEN base ELSE TakeFrom(f[i - 1], i - 1, n)]
           tried == CHOOSE f : Tries(f)
<1>1. ASSUME NEW i \in 0 .. 6 PROVE TakeFrom(base, i, n) = base
    <2>1. base.mem = s.mem
        BY DEF Record
    <2> HIDE DEF base
    <2> QED BY <2>1 DEF TakeFrom, Alone, First
<1> HIDE DEF base, gi
<1>2. gi \in 0 .. 6
    BY DEF gi
<1>3. \E f : Tries(f)
    <2> DEFINE f == [i \in 0 .. 8 |-> IF i <= 7 THEN base ELSE TakeFrom(base, 7, n)]
    <2>1. ASSUME NEW i \in 0 .. 8 PROVE f[i] = IF i <= gi THEN base ELSE TakeFrom(f[i - 1], i - 1, n)
        <3>1. CASE i <= gi
            BY <1>2, <3>1
        <3>2. CASE i > gi
            <4>1. i - 1 \in 0 .. 8 /\ i - 1 <= 7
                BY <1>2, <3>2
            <4>2. f[i - 1] = base
                BY <4>1
            <4>3. CASE i <= 7
                <5>1. i - 1 \in 0 .. 6 /\ f[i] = base
                    BY <1>2, <3>2, <4>3
                <5> HIDE DEF f
                <5> QED BY <1>1, <1>2, <3>2, <4>2, <5>1
            <4>4. CASE i = 8
                <5>1. f[i] = TakeFrom(base, 7, n) /\ i - 1 = 7
                    BY <4>4
                <5> HIDE DEF f
                <5> QED BY <1>2, <3>2, <4>2, <5>1
            <4> QED BY <4>3, <4>4
        <3> QED BY <1>2, <3>1, <3>2
    <2>2. f = [i \in 0 .. 8 |-> f[i]]
        OBVIOUS
    <2> HIDE DEF f
    <2>3. f = [i \in 0 .. 8 |-> IF i <= gi THEN base ELSE TakeFrom(f[i - 1], i - 1, n)]
        BY <2>1, <2>2
    <2> QED BY <2>3
<1>4. Tries(tried)
    <2> HIDE DEF Tries
    <2> QED BY <1>3
<1> HIDE DEF tried
<1>5. \A i \in 0 .. 8 : tried[i] = IF i <= gi THEN base ELSE TakeFrom(tried[i - 1], i - 1, n)
    BY <1>4
<1>6. tried[0] = base
    BY <1>2, <1>5
<1>7. ASSUME NEW i \in 0 .. 6, tried[i] = base PROVE tried[i + 1] = base
    <2>1. i + 1 \in 0 .. 8 /\ (i + 1) - 1 = i
        OBVIOUS
    <2>2. tried[i + 1] = IF i + 1 <= gi THEN base ELSE TakeFrom(tried[i], i, n)
        BY <1>5, <2>1
    <2> QED BY <1>1, <1>7, <2>2
<1>8. tried[1] = base /\ tried[2] = base /\ tried[3] = base /\ tried[4] = base
    <2>1. tried[0 + 1] = base /\ 0 + 1 = 1
        BY <1>6, <1>7
    <2>2. tried[1 + 1] = base /\ 1 + 1 = 2
        BY <1>7, <2>1
    <2>3. tried[2 + 1] = base /\ 2 + 1 = 3
        BY <1>7, <2>2
    <2>4. tried[3 + 1] = base /\ 3 + 1 = 4
        BY <1>7, <2>3
    <2> QED BY <2>1, <2>2, <2>3, <2>4
<1>9. tried[7] = base
    <2>1. tried[4 + 1] = base /\ 4 + 1 = 5
        BY <1>7, <1>8
    <2>2. tried[5 + 1] = base /\ 5 + 1 = 6
        BY <1>7, <2>1
    <2>3. tried[6 + 1] = base /\ 6 + 1 = 7
        BY <1>7, <2>2
    <2> QED BY <2>3
<1>10. tried[8] = TakeFrom(base, 7, n)
    <2>1. 8 \in 0 .. 8 /\ 8 - 1 = 7 /\ ~(8 <= gi)
        BY <1>2
    <2> QED BY <1>5, <1>9, <2>1
<1> QED BY <1>10 DEF tried, gi, base

\* What sf_malloc needs of a heap: that it is new, or tight.
Askable(s, A, F, z) ==
    /\ Record(s) /\ s.errno \in Errnos /\ s.ret \in Nat
    /\ \/ s.end = Start /\ A = {}
       \/ Big(s) /\ Tight(s.mem, s.end - 8, A, F, z)

LEMMA TightMalloc ==
    ASSUME NEW s, NEW A, NEW F, NEW z, NEW n \in Nat, n >= 32, n % 16 = 0,
           Record(s), Big(s), s.errno \in Errnos, Tight(s.mem, s.end - 8, A, F, z)
    PROVE  Yields(s, A, z, n, TakeFrom([s EXCEPT !.ret = Null], 7, n))
<1> DEFINE base == [s EXCEPT !.ret = Null]
<1>1. Record(base) /\ base.mem = s.mem /\ base.end = s.end /\ base.errno = s.errno /\ base.ret = Null
    BY DEF Record
<1> HIDE DEF base
<1>2. Big(base) /\ base.ret \in Nat /\ Sentinel(7) = Sentinel(Wild)
    BY <1>1 DEF Big, Null, Wild
<1>3. CASE F = {}
    <2>1. First(s.mem, 7) = Sentinel(7)
        BY <1>2, <1>3 DEF Tight, Alone, First
    <2>2. TakeFrom(base, 7, n) = base
        BY <1>1, <2>1 DEF TakeFrom
    <2>3. Yields(s, A, z, n, base)
        <3>1. Keeps(s.mem, base.mem, A, z, A, z)
            BY <1>1, KeepsAll
        <3> QED BY <1>1, <1>2, <3>1 DEF Yields
    <2> QED BY <2>2, <2>3 DEF base
<1>4. CASE F # {}
    <2>1. PICK w : w \in F
        BY <1>4
    <2>2. WildFacts(s.mem, s.end - 8, A, F, z, w)
        BY <2>1, WildIsLast
    <2>3. First(s.mem, 7) = w /\ w # Sentinel(7)
        <3>1. w \in Nat /\ z[w] \in Nat /\ s.end - 8 \in Nat /\ w + z[w] = s.end - 8
              /\ (s.end - 8) + 8 <= Sentinel(0) /\ Sentinel(0) \in Nat /\ First(s.mem, 7) = w
            BY <2>2 DEF WildFacts
        <3>2. w < Sentinel(0)
            BY <3>1
        <3> QED BY <1>2, <3>1, <3>2, SentinelWords
    <2>4. TakeFrom(base, 7, n) = FromWild(base, n)
        BY <1>1, <2>3 DEF TakeFrom
    <2>5. z \in [A \cup F -> Nat]
        BY DEF Tight, Geometry
    <2>6. Yields(base, A, z, n, FromWild(base, n))
        BY <1>1, <1>2, <2>1, <2>5, FromWildYields
    <2>7. Yields(s, A, z, n, FromWild(base, n))
        BY <1>1, <2>6 DEF Yields
    <2> QED BY <2>4, <2>7 DEF base
<1> QED BY <1>3, <1>4

LEMMA Malloced ==
    ASSUME NEW s, NEW A, NEW F, NEW z, NEW size \in Nat, size # 0, Askable(s, A, F, z)
    PROVE  Yields(s, A, z, BlockSize(size), sf_malloc(s, size))
<1> DEFINE n == BlockSize(size)
           s0 == IF s.end = Start THEN init_heap(s) ELSE s
<1>1. n \in Nat /\ n % 16 = 0 /\ n >= 32 /\ get_index(n) \in 0 .. 6
    BY RoundedUp, IndexMatchesClass
<1>2. PICK F0, z0 : /\ Record(s0) /\ Big(s0) /\ s0.errno \in Errnos
                    /\ Tight(s0.mem, s0.end - 8, A, F0, z0)
                    /\ Keeps(s.mem, s0.mem, A, z, A, z0) /\ \A b \in A : z0[b] = z[b]
    <2>1. CASE s.end = Start
        <3> DEFINE z1 == [b \in {Bottom} |-> Page - 48]
        <3>1. z1 \in [{Bottom} -> Nat] /\ z1[Bottom] = Page - 48
            BY SfmmAssumption
        <3> HIDE DEF z1
        <3>2. s0 = init_heap(s) /\ Record(s) /\ s.errno \in Errnos
            BY <2>1 DEF Askable
        <3> HIDE DEF s0
        <3>3. /\ Record(s0) /\ s0.end = Start + Page /\ s0.errno = s.errno /\ s0.ret = s.ret
              /\ Start + Page <= Top
              /\ Tight(s0.mem, Start + Page - 8, {}, {Bottom}, z1)
            <4>1. LET t == init_heap(s)
                  IN  /\ Record(t) /\ t.end = Start + Page /\ t.errno = s.errno /\ t.ret = s.ret
                      /\ Start + Page <= Top
                      /\ Tight(t.mem, Start + Page - 8, {}, {Bottom}, z1)
                BY <2>1, <3>1, <3>2, InitTight
            <4> QED BY <3>2, <4>1
        <3>4. Big(s0) /\ s0.end - 8 = Start + Page - 8
            BY <3>3, SfmmAssumption DEF Big, Start
        <3>5. A = {}
            <4>1. ~Big(s)
                BY <2>1, SfmmAssumption DEF Big, Start
            <4> QED BY <4>1 DEF Askable
        <3>6. Keeps(s.mem, s0.mem, A, z, A, z1)
            BY <3>5 DEF Keeps
        <3> QED BY <3>2, <3>3, <3>4, <3>5, <3>6
    <2>2. CASE s.end # Start
        <3>1. s0 = s
            BY <2>2
        <3> HIDE DEF s0
        <3>2. Keeps(s.mem, s0.mem, A, z, A, z)
            BY <3>1, KeepsAll
        <3> QED BY <2>2, <3>1, <3>2 DEF Askable
    <2> QED BY <2>1, <2>2
<1>3. sf_malloc(s, size) = TakeFrom([s0 EXCEPT !.ret = Null], 7, n)
    <2>1. \A i \in 0 .. 6 : Alone(s0.mem, i)
        BY <1>2 DEF Tight
    <2> DEFINE base == [s0 EXCEPT !.ret = Null]
               tried[i \in 0 .. 8] ==
                   IF i <= get_index(n) THEN base ELSE TakeFrom(tried[i - 1], i - 1, n)
    <2>2. sf_malloc(s, size) = tried[8]
        BY DEF sf_malloc
    <2> HIDE DEF s0, n
    <2>3. tried[8] = TakeFrom(base, 7, n)
        BY <1>1, <1>2, <2>1, OnlyLastList
    <2> HIDE DEF tried
    <2> QED BY <2>2, <2>3
<1> DEFINE t == TakeFrom([s0 EXCEPT !.ret = Null], 7, n)
<1> HIDE DEF s0, n
<1>4. Yields(s0, A, z0, n, t)
    BY <1>1, <1>2, TightMalloc
<1> HIDE DEF t
<1>5. Yields(s, A, z, n, t)
    <2>1. Record(t) /\ Big(t) /\ t.errno \in Errnos /\ t.ret \in Nat
        BY <1>4 DEF Yields
    <2>2. PICK A2, F2, z2 :
             /\ Tight(t.mem, t.end - 8, A2, F2, z2) /\ Keeps(s0.mem, t.mem, A, z0, A2, z2)
             /\ A \subseteq A2 /\ \A b \in A : z2[b] = z0[b]
             /\ t.ret = Null => A2 = A
             /\ t.ret # Null => A2 = A \cup {t.ret - 8} /\ t.ret - 8 \notin A /\ n <= z2[t.ret - 8]
        BY <1>4 DEF Yields
    <2>3. Keeps(s.mem, t.mem, A, z, A2, z2)
        <3>1. A \cap A2 \subseteq A
            OBVIOUS
        <3> QED BY <1>2, <2>2, <3>1, KeepsTwice
    <2>4. \A b \in A : z2[b] = z[b]
        BY <1>2, <2>2
    <2> QED BY <2>1, <2>2, <2>3, <2>4 DEF Yields
<1> QED BY <1>3, <1>5 DEF t, n

-----------------------------------------------------------------------------
(* Payloads. *)
Inside(A, z, a) == \E b \in A : b < a /\ a < b + z[b]

\* What is written into payloads is none of the allocator's words.
LEMMA PayloadWords ==
    ASSUME NEW m, NEW m2, NEW e, NEW A, NEW F, NEW z, Heap(m, e, A, F, z),
           \A a \in Nat : ~Inside(A, z, a) => At(m2, a) = At(m, a)
    PROVE  Heap(m2, e, A, F, z)
<1>1. Facts(e, A, F, z) /\ HeaderFacts(m, e, A, F, z)
    BY HeapFacts, Headers
<1>2. /\ A \cap F = {} /\ e \in Nat /\ e + 8 <= Sentinel(0) /\ Sentinel(0) \in Nat
      /\ \A b \in A \cup F : b \in Nat /\ z[b] \in Nat
      /\ \A b \in A \cup F : z[b] >= 32 /\ b + z[b] <= e
      /\ \A b, c \in A \cup F : b # c => b + z[b] <= c \/ c + z[c] <= b
      /\ Apart(F) /\ ListOf(e, F, z) \in [F -> Lists]
    BY <1>1, SentinelWords DEF Facts
<1>3. ASSUME NEW a \in Nat, a >= e PROVE At(m2, a) = At(m, a)
    <2>1. ~Inside(A, z, a)
        BY <1>2, <1>3 DEF Inside
    <2> QED BY <2>1
<1>4. ASSUME NEW b \in A \cup F PROVE At(m2, b) = At(m, b)
    <2>1. ~Inside(A, z, b)
        BY <1>2 DEF Inside
    <2> QED BY <1>2, <2>1
<1>5. ASSUME NEW b \in F, NEW a \in Nat, b <= a, a < b + z[b] PROVE At(m2, a) = At(m, a)
    <2>1. ASSUME NEW c \in A PROVE ~(c < a /\ a < c + z[c])
        <3>1. b # c /\ b \in Nat /\ c \in Nat /\ z[b] \in Nat /\ z[c] \in Nat
            BY <1>2
        <3>2. b + z[b] <= c \/ c + z[c] <= b
            BY <1>2, <3>1
        <3> QED BY <1>5, <3>1, <3>2
    <2>2. ~Inside(A, z, a)
        BY <2>1 DEF Inside
    <2> QED BY <2>2
<1>6. Words(m2, e, A, F, z)
    <2>1. Words(m, e, A, F, z)
        BY DEF Heap
    <2>2. ASSUME NEW b \in F PROVE At(m2, b + z[b] - 8) = At(m, b + z[b] - 8)
        <3>1. b + z[b] - 8 \in Nat /\ b <= b + z[b] - 8 /\ b + z[b] - 8 < b + z[b]
            BY <1>2
        <3> QED BY <1>5, <3>1
    <2> QED BY <1>2, <1>3, <1>4, <2>1, <2>2 DEF Words
<1>7. Linked(m2, ListOf(e, F, z))
    <2>1. ASSUME NEW y \in Nodes(F) PROVE At(m2, y + 8) = At(m, y + 8) /\ At(m2, y + 16) = At(m, y + 16)
        <3>1. CASE y \in F
            <4>1. /\ y + 8 \in Nat /\ y <= y + 8 /\ y + 8 < y + z[y]
                  /\ y + 16 \in Nat /\ y <= y + 16 /\ y + 16 < y + z[y]
                BY <1>2, <3>1
            <4> QED BY <1>5, <3>1, <4>1
        <3>2. CASE y \notin F
            <4>1. y \in Nat /\ y >= Sentinel(0)
                BY <3>2, SentinelWords DEF Nodes
            <4>2. y + 8 \in Nat /\ y + 8 >= e /\ y + 16 \in Nat /\ y + 16 >= e
                BY <1>2, <4>1
            <4> QED BY <1>3, <4>2
        <3> QED BY <3>1, <3>2
    <2>2. \A y \in Nodes(F) : NextLink(m2, y) = NextLink(m, y) /\ PrevLink(m2, y) = PrevLink(m, y)
        BY <2>1 DEF NextLink, PrevLink
    <2>3. Linked(m, ListOf(e, F, z))
        BY DEF Heap
    <2> QED BY <1>2, <2>2, <2>3, Undisturbed
<1> QED BY <1>6, <1>7 DEF Heap

-----------------------------------------------------------------------------
(* Freeing.  P and N hold the free block before b and the one behind it, if  *)
(* there are such; base and tot say where the whole begins and how long it   *)
(* is, z2 how long every block is then.                                      *)
Merges(e, A, F, z, b, P, N, base, tot, z2) ==
    /\ b \in A /\ P = {c \in F : c + z[c] = b} /\ N = {c \in F : b + z[b] = c}
    /\ (P = {} /\ base = b) \/ base \in P
    /\ tot = z[b] + (IF P = {} THEN 0 ELSE z[base]) + (IF N = {} THEN 0 ELSE z[b + z[b]])
    /\ z2 \in [((A \ {b}) \cup (F \ (P \cup N))) \cup {base} -> Nat] /\ z2[base] = tot
    /\ \A x \in (A \ {b}) \cup (F \ (P \cup N)) : z2[x] = z[x]

MergedFacts(e, A, F, z, b, P, N, base, tot, z2) ==
    LET A2 == A \ {b}
        G  == F \ (P \cup N)
    IN  /\ P \subseteq {base} /\ N \subseteq {b + z[b]}
        /\ base \in Nat /\ tot \in Nat /\ tot >= 32 /\ tot % 16 = 0
        /\ base >= Bottom /\ base <= b /\ b + z[b] <= base + tot /\ base + tot <= e
        /\ base + tot \in A2 \cup {e} /\ base \notin A2 \cup G
        /\ \A x \in A2 \cup G : x + z[x] <= base \/ base + tot <= x
        /\ Geometry(e, A2 \cup G \cup {base}, z2)
        /\ N = {} => base + tot = b + z[b]
        /\ N # {} => b + z[b] \in F /\ base + tot = (b + z[b]) + z[b + z[b]]

LEMMA Merging ==
    ASSUME NEW m, NEW e, NEW A, NEW F, NEW z, NEW b, NEW P, NEW N, NEW base, NEW tot, NEW z2,
           Heap(m, e, A, F, z), Merges(e, A, F, z, b, P, N, base, tot, z2)
    PROVE  MergedFacts(e, A, F, z, b, P, N, base, tot, z2)
<1> DEFINE A2 == A \ {b}
           G == F \ (P \cup N)
           next == b + z[b]
           before == IF P = {} THEN 0 ELSE z[base]
           after == IF N = {} THEN 0 ELSE z[next]
<1>1. /\ b \in A /\ P = {c \in F : c + z[c] = b} /\ N = {c \in F : next = c}
      /\ (P = {} /\ base = b) \/ base \in P
      /\ tot = z[b] + before + after
      /\ z2 \in [(A2 \cup G) \cup {base} -> Nat] /\ z2[base] = tot
      /\ \A x \in A2 \cup G : z2[x] = z[x]
    BY DEF Merges
<1>2. Facts(e, A, F, z)
    BY HeapFacts
<1>3. /\ A \cap F = {} /\ e \in Nat /\ e \notin A \cup F
      /\ \A x \in A \cup F : x \in Nat /\ z[x] \in Nat
      /\ \A x \in A \cup F : z[x] >= 32 /\ z[x] % 16 = 0 /\ x >= Bottom
      /\ \A x \in A \cup F : x + z[x] <= e /\ x + z[x] \in A \cup F \cup {e}
      /\ \A x, y \in A \cup F : x # y => x + z[x] <= y \/ y + z[y] <= x
    BY <1>2 DEF Facts
<1>4. Geometry(e, A \cup F, z) /\ \A x \in F : x + z[x] \notin F
    BY DEF Heap
<1>5. P \subseteq {base}
    <2>1. ASSUME NEW c \in P PROVE c = base
        <3>1. c \in F /\ c + z[c] = b /\ base \in F /\ base + z[base] = b
            BY <1>1
        <3>2. /\ c \in Nat /\ z[c] \in Nat /\ z[c] >= 32 /\ base \in Nat /\ z[base] \in Nat /\ z[base] >= 32
              /\ c # base => c + z[c] <= base \/ base + z[base] <= c
            BY <1>3, <3>1
        <3> QED BY <3>1, <3>2
    <2> QED BY <2>1
<1>6. N \subseteq {next} /\ N \cap P = {} /\ b \notin F /\ b \in Nat /\ z[b] \in Nat /\ next > b
    <2>1. b \notin F /\ b \in Nat /\ z[b] \in Nat /\ next > b
        BY <1>1, <1>3
    <2>2. \A x \in F : x + z[x] = b => x < b
        BY <1>3
    <2> QED BY <1>1, <2>1, <2>2
<1> DEFINE B1 == (A \cup F) \ N
           len == z[b] + after
           z1 == [x \in B1 |-> IF x = b THEN len ELSE z[x]]
<1>7. /\ before \in Nat /\ (P = {} => before = 0) /\ (P # {} => before = z[base])
      /\ after \in Nat /\ (N = {} => after = 0) /\ (N # {} => after = z[next] /\ next \in F)
    <2>1. P # {} => base \in F
        BY <1>1
    <2>2. N # {} => next \in F
        BY <1>1
    <2>3. \A x \in F : z[x] \in Nat
        BY <1>3
    <2> HIDE DEF next
    <2> QED BY <2>1, <2>2, <2>3
<1> HIDE DEF next, before, after
\* First the block behind b joins it.
<1>71. len \in Nat /\ z1 \in [B1 -> Nat] /\ b \in B1 /\ z1[b] = len /\ \A x \in B1 : x # b => z1[x] = z[x]
    <2>1. len \in Nat
        BY <1>6, <1>7
    <2>2. b \in A /\ N \subseteq F /\ b \notin F
        BY <1>1, <1>6
    <2>3. b \in B1 /\ \A x \in B1 : z[x] \in Nat
        BY <1>3, <2>2
    <2> HIDE DEF len, B1
    <2> QED BY <2>1, <2>3
<1>72. b \in A /\ P \subseteq F /\ N \subseteq F /\ P \cap N = {} /\ b \notin F /\ A \cap F = {}
    BY <1>1, <1>3, <1>6
<1> HIDE DEF z1
<1>8. Geometry(e, B1, z1)
    <2>1. CASE N = {}
        <3>1. B1 = A \cup F /\ z1[b] = z[b]
            BY <1>6, <1>7, <1>71, <2>1
        <3>2. \A x \in A \cup F : z1[x] = z[x]
            BY <1>7, <1>71, <3>1
        <3>3. z1 = z
            <4>1. z \in [A \cup F -> Nat]
                BY <1>4 DEF Geometry
            <4> QED BY <1>7, <1>71, <3>1, <3>2, <4>1
        <3> QED BY <1>4, <3>1, <3>3
    <2>2. CASE N # {}
        <3>1. N = {next} /\ next \in F /\ next \in A \cup F /\ b + z[b] = next
            BY <1>1, <1>6, <2>2 DEF next
        <3>2. B1 = (A \cup F) \ {next} /\ b \in A \cup F
            BY <1>1, <3>1
        <3>3. z1 \in [(A \cup F) \ {next} -> Nat] /\ z1[b] = z[b] + z[next]
              /\ \A x \in (A \cup F) \ {next} : x # b => z1[x] = z[x]
            BY <1>7, <1>71, <2>2, <3>2
        <3>4. Geometry(e, (A \cup F) \ {next}, z1)
            <4> HIDE DEF B1, len
            <4> QED BY <1>4, <3>1, <3>2, <3>3, JoinGeometry
        <3> QED BY <3>2, <3>4
    <2> QED BY <2>1, <2>2
\* Then b joins the block before it.
<1>9. Geometry(e, (A2 \cup G) \cup {base}, z2)
    <2>1. CASE P = {}
        <3>1. base = b /\ tot = len /\ (A2 \cup G) \cup {base} = B1
            <4>1. base = b
                BY <1>1, <2>1
            <4>2. tot = len
                <5>1. before = 0 /\ z[b] \in Nat /\ after \in Nat /\ tot = z[b] + before + after
                    BY <1>1, <1>6, <1>7, <2>1
                <5> QED BY <5>1
            <4>3. (A2 \cup G) \cup {base} = B1
                BY <1>72, <2>1, <4>1
            <4> QED BY <4>1, <4>2, <4>3
        <3>2. z2 = z1
            <4>1. \A x \in B1 : x # b => z2[x] = z1[x]
                BY <1>1, <1>7, <1>71, <3>1
            <4>2. z2[b] = z1[b] /\ z2 \in [B1 -> Nat]
                BY <1>1, <1>7, <1>71, <3>1
            <4> QED BY <1>7, <1>71, <4>1, <4>2
        <3> QED BY <1>8, <3>1, <3>2
    <2>2. CASE P # {}
        <3>1. P = {base} /\ base \in F /\ base + z[base] = b
            BY <1>1, <1>5, <2>2
        <3>2. base \in B1 /\ base # b /\ z1[base] = z[base] /\ base + z1[base] = b
            BY <1>1, <1>6, <1>7, <1>71, <3>1
        <3>3. (A2 \cup G) \cup {base} = B1 \ {b}
            <4>1. P = {base} /\ base # b /\ base \notin N /\ base \in F
                BY <1>72, <3>1, <3>2
            <4> QED BY <1>72, <4>1
        <3>4. z2 \in [B1 \ {b} -> Nat] /\ \A x \in B1 \ {b} : x # base => z2[x] = z1[x]
            BY <1>1, <1>7, <1>71, <3>3
        <3>5. z2[base] = z1[base] + z1[b]
            <4>1. z[base] \in Nat /\ z[b] \in Nat /\ before = z[base]
                BY <1>3, <1>6, <1>7, <2>2, <3>1
            <4>2. z1[base] = z[base] /\ z1[b] = z[b] + after /\ after \in Nat
                BY <1>7, <1>71, <3>2
            <4>3. z2[base] = z[b] + z[base] + after
                BY <1>1, <4>1
            <4> QED BY <4>1, <4>2, <4>3
        <3> HIDE DEF B1, A2, G, len
        <3>6. Geometry(e, B1 \ {b}, z2)
            BY <1>7, <1>71, <1>8, <3>2, <3>4, <3>5, JoinGeometry
        <3> QED BY <3>3, <3>6
    <2> QED BY <2>1, <2>2
<1>10. /\ base \in Nat /\ tot \in Nat /\ tot >= 32 /\ tot % 16 = 0
       /\ base >= Bottom /\ base + tot <= e /\ base + tot \in (A2 \cup G) \cup {base} \cup {e}
    BY <1>1, <1>9 DEF Geometry
<1>11. base <= b /\ next <= base + tot
       /\ (N = {} => base + tot = next) /\ (N # {} => base + tot = next + z[next] /\ next \in F)
    <2>1. base \in Nat /\ base + before = b
        <3>1. P # {} => base \in F /\ base + z[base] = b
            BY <1>1, <1>5
        <3>2. CASE P = {}
            BY <1>1, <1>6, <1>7, <3>2
        <3>3. CASE P # {}
            <4>1. base \in F /\ base + z[base] = b /\ before = z[base]
                BY <1>7, <3>1, <3>3
            <4>2. base \in Nat
                BY <1>3, <4>1
            <4> QED BY <4>1, <4>2
        <3> QED BY <3>2, <3>3
    <2>2. next = b + z[b] /\ z[b] \in Nat /\ b \in Nat /\ tot = z[b] + before + after
        BY <1>1, <1>6 DEF next
    <2>3. base + tot = next + after /\ next \in Nat
        BY <1>7, <2>1, <2>2
    <2> QED BY <1>7, <2>1, <2>2, <2>3
<1>12. base \notin A2 \cup G
    BY <1>1, <1>3, <1>6
<1>13. base + tot \in A2 \cup {e}
    <2>1. base + tot \notin G /\ base + tot # base
        <3>1. CASE N = {}
            BY <1>1, <1>10, <1>11, <3>1
        <3>2. CASE N # {}
            BY <1>4, <1>10, <1>11, <3>2
        <3> QED BY <3>1, <3>2
    <2> QED BY <1>10, <2>1
<1>14. \A x \in A2 \cup G : x + z[x] <= base \/ base + tot <= x
    <2>1. \A x, y \in (A2 \cup G) \cup {base} : x # y => x + z2[x] <= y \/ y + z2[y] <= x
        BY <1>9 DEF Geometry
    <2>2. ASSUME NEW x \in A2 \cup G PROVE x + z[x] <= base \/ base + tot <= x
        <3>1. x # base /\ z2[x] = z[x] /\ z2[base] = tot
            BY <1>1, <1>12
        <3>2. x + z2[x] <= base \/ base + z2[base] <= x
            BY <2>1, <3>1
        <3> QED BY <3>1, <3>2
    <2> QED BY <2>2
<1> HIDE DEF A2, G
<1> QED BY <1>5, <1>6, <1>9, <1>10, <1>11, <1>12, <1>13, <1>14 DEF MergedFacts, A2, G, next

\* The words a merge must leave for the heap to be well-formed again.
MergedWords(m, m2, e, A, F, z, b, P, N, base, tot, z2) ==
    LET A2 == A \ {b}
        G  == F \ (P \cup N)
    IN  /\ At(m2, base) = tot + 2 /\ At(m2, base + tot - 8) = tot + 2 /\ At(m2, e) = 0
        /\ \A x \in A2 : At(m2, x) = IF x = base + tot THEN z[x] + 1 ELSE At(m, x)
        /\ \A x \in G : At(m2, x) = At(m, x) /\ At(m2, x + z[x] - 8) = At(m, x + z[x] - 8)
        /\ Linked(m2, ListOf(e, G \cup {base}, z2))

LEMMA MergedHeap ==
    ASSUME NEW m, NEW m2, NEW e, NEW A, NEW F, NEW z, NEW b, NEW P, NEW N, NEW base, NEW tot, NEW z2,
           Heap(m, e, A, F, z), Merges(e, A, F, z, b, P, N, base, tot, z2),
           MergedWords(m, m2, e, A, F, z, b, P, N, base, tot, z2)
    PROVE  Heap(m2, e, A \ {b}, (F \ (P \cup N)) \cup {base}, z2)
<1> DEFINE A2 == A \ {b}
           G == F \ (P \cup N)
           H == G \cup {base}
<1>1. /\ b \in A /\ P = {c \in F : c + z[c] = b} /\ N = {c \in F : b + z[b] = c}
      /\ (P = {} /\ base = b) \/ base \in P
      /\ z2[base] = tot
      /\ \A x \in A2 \cup G : z2[x] = z[x]
    BY DEF Merges
<1>2. /\ P \subseteq {base} /\ N \subseteq {b + z[b]}
      /\ base \in Nat /\ tot \in Nat /\ tot >= 32 /\ tot % 16 = 0
      /\ base + tot \in A2 \cup {e} /\ base \notin A2 \cup G
      /\ Geometry(e, A2 \cup G \cup {base}, z2)
    <2>1. MergedFacts(e, A, F, z, b, P, N, base, tot, z2)
        BY Merging
    <2> QED BY <2>1 DEF MergedFacts
<1>3. /\ A \cap F = {} /\ e \notin A \cup F /\ e + 8 <= Sentinel(0) /\ \A x \in F : x + z[x] \notin F
    BY DEF Heap, Geometry
<1>4. /\ \A x \in A \cup F : At(m, x) = z[x] + Own(A, x) + Behind(F, z, x)
      /\ \A x \in F : At(m, x) = z[x] + 2 /\ At(m, x + z[x] - 8) = z[x] + 2
    BY Headers DEF HeaderFacts
<1>5. /\ At(m2, base) = tot + 2 /\ At(m2, base + tot - 8) = tot + 2 /\ At(m2, e) = 0
      /\ \A x \in A2 : At(m2, x) = IF x = base + tot THEN z[x] + 1 ELSE At(m, x)
      /\ \A x \in G : At(m2, x) = At(m, x) /\ At(m2, x + z[x] - 8) = At(m, x + z[x] - 8)
      /\ Linked(m2, ListOf(e, H, z2))
    BY DEF MergedWords
<1>51. \A x \in A \cup F : z[x] \in Nat
    <2>1. Facts(e, A, F, z)
        BY HeapFacts
    <2> QED BY <2>1 DEF Facts
<1>6. A2 \cap H = {} /\ Geometry(e, A2 \cup H, z2)
    <2>1. A2 \cup H = A2 \cup G \cup {base}
        OBVIOUS
    <2> QED BY <1>2, <1>3, <2>1
<1>7. \A x \in G : x + z[x] \notin H
    <2>1. ASSUME NEW x \in G, x + z[x] = base PROVE FALSE
        <3>1. base \notin F
            BY <1>3, <2>1
        <3>2. base = b
            BY <1>1, <3>1
        <3> QED BY <1>1, <2>1, <3>2
    <2> QED BY <1>3, <2>1
<1>8. base + tot \notin H
    <2>1. base + tot # base
        BY <1>2
    <2> QED BY <1>2, <1>3, <2>1
<1>9. \A x \in H : x + z2[x] \notin H
    BY <1>1, <1>7, <1>8
<1>10. \A x \in H : Behind(H, z2, x) = 2
    BY <1>9 DEF Behind
<1>11. ASSUME NEW x \in A2
       PROVE  Behind(H, z2, x) = IF x = base + tot THEN 0 ELSE Behind(F, z, x)
    <2>1. CASE x = base + tot
        <3>1. base + z2[base] = x
            BY <1>1, <2>1
        <3> QED BY <2>1, <3>1 DEF Behind
    <2>2. CASE x # base + tot
        <3>1. ASSUME NEW c \in F, c + z[c] = x PROVE c \in G
            <4>1. c \notin P
                BY <1>1, <3>1
            <4>2. c \notin N
                <5>1. ASSUME c \in N PROVE x = base + tot
                    <6>1. MergedFacts(e, A, F, z, b, P, N, base, tot, z2) /\ Facts(e, A, F, z)
                        BY Merging, HeapFacts
                    <6>2. c = b + z[b] /\ c >= b /\ c + z[c] \in A2
                        BY <1>1, <3>1, <5>1, <6>1 DEF Facts
                    <6>3. base + tot = c + z[c]
                        <7>1. tot = z[b] + (IF P = {} THEN 0 ELSE z[base]) + z[c]
                            BY <5>1, <6>2 DEF Merges
                        <7>2. /\ z[b] \in Nat /\ z[c] \in Nat /\ b \in Nat /\ b \in A
                              /\ \A y \in F : y \in Nat /\ z[y] \in Nat
                            BY <1>1, <6>1 DEF Facts
                        <7>3. CASE P = {}
                            <8>1. base = b /\ tot = z[b] + z[c]
                                BY <1>1, <7>1, <7>2, <7>3
                            <8> QED BY <6>2, <7>2, <8>1
                        <7>4. CASE P # {}
                            <8>1. base \in F /\ base + z[base] = b
                                BY <1>1, <7>4
                            <8>2. base \in Nat /\ z[base] \in Nat
                                BY <7>2, <8>1
                            <8> QED BY <6>2, <7>1, <7>2, <7>4, <8>1, <8>2
                        <7> QED BY <7>3, <7>4
                    <6> QED BY <3>1, <6>3
                <5> QED BY <2>2, <5>1
            <4> QED BY <4>1, <4>2
        <3>2. (\E c \in H : c + z2[c] = x) <=> \E c \in F : c + z[c] = x
            BY <1>1, <2>2, <3>1
        <3> QED BY <2>2, <3>2 DEF Behind
    <2> QED BY <2>1, <2>2
<1> HIDE DEF A2, G, H
<1>12. Words(m2, e, A2, H, z2)
    <2>1. ASSUME NEW x \in A2 PROVE At(m2, x) = z2[x] + Own(A2, x) + Behind(H, z2, x)
        <3>1. z2[x] = z[x] /\ Own(A2, x) = 1 /\ Own(A, x) = 1 /\ x \in A
            BY <1>1 DEF Own, A2
        <3>2. At(m, x) = z[x] + 1 + Behind(F, z, x)
            BY <1>4, <3>1
        <3>3. z[x] \in Nat
            BY <1>51, <3>1
        <3>4. CASE x = base + tot
            <4>1. At(m2, x) = z[x] + 1 /\ Behind(H, z2, x) = 0
                BY <1>5, <1>11, <3>4
            <4> QED BY <3>1, <3>3, <4>1
        <3>5. CASE x # base + tot
            <4>1. At(m2, x) = At(m, x) /\ Behind(H, z2, x) = Behind(F, z, x)
                BY <1>5, <1>11, <3>5
            <4> QED BY <3>1, <3>2, <3>3, <4>1
        <3> QED BY <3>4, <3>5
    <2>2. ASSUME NEW x \in H
          PROVE  /\ At(m2, x) = z2[x] + Own(A2, x) + Behind(H, z2, x)
                 /\ At(m2, x + z2[x] - 8) = z2[x] + 2
        <3>1. Own(A2, x) = 0 /\ Behind(H, z2, x) = 2
            BY <1>6, <1>10 DEF Own
        <3>2. CASE x = base
            BY <1>1, <1>2, <1>5, <3>1, <3>2
        <3>3. CASE x # base
            <4>1. x \in G /\ x \in F /\ z2[x] = z[x]
                BY <1>1, <3>3 DEF G, H
            <4>2. z[x] \in Nat
                BY <1>51, <4>1
            <4>3. /\ At(m2, x) = At(m, x) /\ At(m2, x + z[x] - 8) = At(m, x + z[x] - 8)
                  /\ At(m, x) = z[x] + 2 /\ At(m, x + z[x] - 8) = z[x] + 2
                BY <1>4, <1>5, <4>1
            <4> QED BY <3>1, <4>1, <4>2, <4>3
        <3> QED BY <3>2, <3>3
    <2> QED BY <1>5, <2>1, <2>2 DEF Words
<1>13. Heap(m2, e, A2, H, z2)
    BY <1>3, <1>5, <1>6, <1>9, <1>12 DEF Heap
<1> QED BY <1>13 DEF A2, G, H

-----------------------------------------------------------------------------
(* Links and the other words.  A word is plain when it is no link of the     *)
(* free blocks F nor of a sentinel.                                          *)
Plain(F, a) == \A y \in Nodes(F) : a # y + 8 /\ a # y + 16

LEMMA PlainWords ==
    ASSUME NEW m, NEW e, NEW A, NEW F, NEW z, Heap(m, e, A, F, z), NEW b \in A
    PROVE  /\ Apart(F \cup {b})
           /\ \A x \in A \cup F \cup {e} : Plain(F \cup {b}, x)
           /\ \A x \in F \cup {b} : Plain(F \cup {b}, x + z[x] - 8)
           /\ \A x \in A \ {b} : \A a \in Nat : x < a /\ a < x + z[x] => Plain(F \cup {b}, a)
<1> DEFINE G == F \cup {b}
<1>1. Facts(e, A, F, z)
    BY HeapFacts
<1>2. /\ e \in Nat /\ e + 8 <= Sentinel(0) /\ Sentinel(0) \in Nat /\ A \cap F = {}
      /\ \A x \in A \cup F : x \in Nat /\ z[x] \in Nat
      /\ \A x \in A \cup F : z[x] >= 32 /\ x + z[x] <= e
      /\ \A x, y \in A \cup F : x # y => x + z[x] <= y \/ y + z[y] <= x
      /\ Apart(A \cup F) /\ G \subseteq A \cup F
    BY <1>1, SentinelWords DEF Facts
<1>3. Apart(G)
    BY <1>2 DEF Apart
<1>4. \A y \in Nodes(G) : y \in G \/ (y \in Nat /\ y >= Sentinel(0))
    BY SentinelWords DEF Nodes
<1> HIDE DEF G
<1>5. ASSUME NEW a \in Nat, a < e + 8, \A y \in G : a # y + 8 /\ a # y + 16 PROVE Plain(G, a)
    <2>1. ASSUME NEW y \in Nodes(G) PROVE a # y + 8 /\ a # y + 16
        <3>1. CASE y \in G
            BY <1>5, <3>1
        <3>2. CASE y \notin G
            BY <1>2, <1>4, <1>5, <3>2
        <3> QED BY <3>1, <3>2, Zenon
    <2> QED BY <2>1 DEF Plain
<1>6. ASSUME NEW x \in A \cup F \cup {e} PROVE Plain(G, x)
    <2>1. ASSUME NEW y \in G PROVE x # y + 8 /\ x # y + 16
        <3>1. y \in A \cup F /\ y \in Nat /\ z[y] \in Nat /\ z[y] >= 32 /\ y + z[y] <= e
            BY <1>2
        <3>2. CASE x = e
            BY <3>1, <3>2
        <3>3. CASE x # e
            <4>1. x \in A \cup F /\ x \in Nat /\ z[x] \in Nat
                BY <1>2, <3>3
            <4>2. x # y => x + z[x] <= y \/ y + z[y] <= x
                BY <1>2, <3>1, <4>1
            <4> QED BY <3>1, <4>1, <4>2
        <3> QED BY <3>2, <3>3
    <2>2. x \in Nat /\ x < e + 8
        <3>1. CASE x = e
            BY <1>2, <3>1
        <3>2. CASE x # e
            <4>1. x \in A \cup F /\ x \in Nat /\ z[x] \in Nat /\ x + z[x] <= e
                BY <1>2, <3>2
            <4> QED BY <1>2, <4>1
        <3> QED BY <3>1, <3>2
    <2> QED BY <1>5, <2>1, <2>2
<1>7. ASSUME NEW x \in A \cup F, NEW a \in Nat, a = x + z[x] - 8 \/ (x \notin G /\ x < a /\ a < x + z[x])
      PROVE  Plain(G, a)
    <2>1. x \in Nat /\ z[x] \in Nat /\ z[x] >= 32 /\ x + z[x] <= e
        BY <1>2
    <2>2. ASSUME NEW y \in G PROVE a # y + 8 /\ a # y + 16
        <3>1. y \in A \cup F /\ y \in Nat /\ z[y] \in Nat /\ z[y] >= 32
            BY <1>2
        <3>2. x # y => x + z[x] <= y \/ y + z[y] <= x
            BY <1>2, <3>1
        <3>3. CASE x = y
            <4>1. a = x + z[x] - 8
                BY <1>7, <3>3
            <4> QED BY <2>1, <3>3, <4>1
        <3>4. CASE x # y
            <4>1. x < a /\ a < x + z[x]
                BY <1>7, <2>1
            <4> QED BY <2>1, <3>1, <3>2, <3>4, <4>1
        <3> QED BY <3>3, <3>4
    <2>3. a < e + 8
        BY <1>2, <1>7, <2>1
    <2> QED BY <1>5, <2>2, <2>3
<1>8. ASSUME NEW x \in G PROVE Plain(G, x + z[x] - 8)
    <2>1. x \in A \cup F /\ x \in Nat /\ z[x] \in Nat /\ z[x] >= 32
        BY <1>2
    <2>2. x + z[x] - 8 \in Nat
        BY <2>1
    <2> QED BY <1>7, <2>1, <2>2
<1>9. ASSUME NEW x \in A \ {b}, NEW a \in Nat, x < a, a < x + z[x] PROVE Plain(G, a)
    <2>1. x \notin G
        BY <1>2 DEF G
    <2> QED BY <1>7, <1>9, <2>1
<1> QED BY <1>3, <1>6, <1>8, <1>9 DEF G

LEMMA PlainLess ==
    ASSUME NEW F, NEW G, G \subseteq F, NEW a, Plain(F, a)
    PROVE  Plain(G, a)
BY DEF Plain, Nodes

LEMMA PlainLinked ==
    ASSUME NEW m, NEW m2, NEW F, NEW list \in [F -> Lists], Apart(F), Linked(m, list),
           \A a : ~Plain(F, a) => At(m2, a) = At(m, a)
    PROVE  Linked(m2, list)
<1>1. \A y \in Nodes(F) : ~Plain(F, y + 8) /\ ~Plain(F, y + 16)
    BY DEF Plain
<1>2. \A y \in Nodes(F) : NextLink(m2, y) = NextLink(m, y) /\ PrevLink(m2, y) = PrevLink(m, y)
    BY <1>1 DEF NextLink, PrevLink
<1> QED BY <1>2, Undisturbed

\* The first block of a list that has one member, or none.
LEMMA FirstOf ==
    ASSUME NEW m, NEW F, NEW list \in [F -> Lists], Apart(F), Linked(m, list), NEW i \in Lists
    PROVE  /\ First(m, i) \in InList(list, i)
           /\ \A x \in F : First(m, i) = x => list[x] = i
           /\ \A x \in F : list[x] = i /\ (\A y \in F : list[y] = i => y = x) => First(m, i) = x
           /\ (\A y \in F : list[y] # i) => First(m, i) = Sentinel(i)
<1>1. First(m, i) \in InList(list, i) /\ \A j \in Lists : Sentinel(j) \notin F
    <2>1. Rings(m, list) /\ Sentinel(i) \in InList(list, i)
        BY DEF Linked, InList
    <2>2. \A j \in Lists : Sentinel(j) \notin F
        BY InListNodes
    <2> QED BY <2>1, <2>2 DEF Rings, First
<1>2. \A x \in F : First(m, i) = x => list[x] = i
    BY <1>1 DEF InList
<1>3. ASSUME NEW x \in F, list[x] = i, \A y \in F : list[y] = i => y = x PROVE First(m, i) = x
    <2>1. InList(list, i) = {Sentinel(i), x}
        BY <1>3 DEF InList
    <2>2. /\ PrevLink(m, x) \in InList(list, i) /\ PrevLink(m, x) # x
          /\ NextLink(m, PrevLink(m, x)) = x
        BY <1>3, NoLoop
    <2> QED BY <2>1, <2>2 DEF First
<1>4. (\A y \in F : list[y] # i) => First(m, i) = Sentinel(i)
    BY <1>1 DEF InList
<1> QED BY <1>1, <1>2, <1>3, <1>4

\* Taking the block of S out, if S holds one.
Without1(list, F, S) == [y \in F \ S |-> list[y]]

Takes(m, m2, F, list, S, x) ==
    /\ list \in [F -> Lists] /\ Apart(F) /\ Linked(m, list) /\ S \subseteq F /\ S \subseteq {x}
    /\ m2 = IF S = {} THEN m ELSE free_list_free(m, x)
TakenOut(m, m2, F, list, S) ==
    /\ Linked(m2, Without1(list, F, S)) /\ Without1(list, F, S) \in [F \ S -> Lists]
    /\ Apart(F \ S)
    /\ \A a : Plain(F, a) => At(m2, a) = At(m, a)

LEMMA TakeOut ==
    ASSUME NEW m, NEW m2, NEW F, NEW list, NEW S, NEW x, Takes(m, m2, F, list, S, x)
    PROVE  TakenOut(m, m2, F, list, S)
<1> SUFFICES ASSUME list \in [F -> Lists], Apart(F), Linked(m, list), S \subseteq F, S \subseteq {x},
                    m2 = IF S = {} THEN m ELSE free_list_free(m, x)
             PROVE  /\ Linked(m2, Without1(list, F, S)) /\ Without1(list, F, S) \in [F \ S -> Lists]
                    /\ Apart(F \ S)
                    /\ \A a : Plain(F, a) => At(m2, a) = At(m, a)
    BY DEF Takes, TakenOut
<1>1. Without1(list, F, S) \in [F \ S -> Lists] /\ Apart(F \ S)
    BY DEF Without1, Apart
<1>2. CASE S = {}
    <2>1. m2 = m /\ F \ S = F
        BY <1>2
    <2>2. Without1(list, F, S) = list
        BY <2>1 DEF Without1
    <2> QED BY <1>1, <2>1, <2>2
<1>3. CASE S # {}
    <2>1. S = {x} /\ x \in F /\ m2 = free_list_free(m, x)
        BY <1>3
    <2>2. LET v == free_list_free(m, x)
          IN  /\ Unlinked(m, v, F, x)
              /\ \A a : (\A y \in Nodes(F) : a # y + 8 /\ a # y + 16) => At(v, a) = At(m, a)
        BY <2>1, ListFree
    <2>3. Unlinked(m, m2, F, x) /\ \A a : Plain(F, a) => At(m2, a) = At(m, a)
        BY <2>1, <2>2 DEF Plain
    <2>4. /\ Without1(list, F, S) \in [F \ {x} -> Lists]
          /\ \A b \in F \ {x} : Without1(list, F, S)[b] = list[b]
        BY <1>1, <2>1 DEF Without1
    <2>5. Linked(m2, Without1(list, F, S))
        BY <2>1, <2>3, <2>4, Unlink
    <2> QED BY <1>1, <2>3, <2>5
<1> QED BY <1>2, <1>3

\* Putting block x first in list i: the four words it takes, in any order.
Puts(m, m2, i, x) ==
    \A a : At(m2, a) = IF a = x + 8 THEN First(m, i)
                       ELSE IF a = x + 16 THEN Sentinel(i)
                       ELSE IF a = First(m, i) + 16 THEN x
                       ELSE IF a = Sentinel(i) + 8 THEN x ELSE At(m, a)

LEMMA Placed ==
    ASSUME NEW m, NEW m2, NEW F, NEW list, NEW i, NEW x, NEW list2,
           Enters(m, F, list, i, x, list2), Puts(m, m2, i, x)
    PROVE  /\ Linked(m2, list2)
           /\ \A a : Plain(F \cup {x}, a) => At(m2, a) = At(m, a)
<1> DEFINE f == First(m, i)
           s == Sentinel(i)
           G == F \cup {x}
<1>1. /\ list \in [F -> Lists] /\ i \in Lists /\ x \notin F /\ Apart(G) /\ Linked(m, list)
      /\ list2 \in [G -> Lists] /\ list2[x] = i /\ \A b \in F : list2[b] = list[b]
    BY DEF Enters
<1>2. f \in Nodes(F) /\ s \in Nodes(F) /\ x \in Nodes(G) /\ Nodes(F) \subseteq Nodes(G) /\ x # f /\ x # s
    <2>1. Apart(F) /\ \A j \in Lists : Sentinel(j) \notin G
        <3>1. Apart(F)
            BY <1>1 DEF Apart
        <3> QED BY <1>1, <3>1, InListNodes
    <2>2. f \in InList(list, i)
        BY <1>1, <2>1, FirstOf
    <2>3. f \in Nodes(F) /\ s \in Nodes(F)
        BY <1>1, <2>1, <2>2, InListNodes DEF Nodes
    <2>4. x # f /\ x # s
        BY <1>1, <2>1, <2>3 DEF Nodes
    <2> QED BY <2>3, <2>4 DEF Nodes
<1>3. \A y, v \in Nodes(G) : y \in Nat /\ v \in Nat /\ (y # v => y + 24 <= v \/ v + 24 <= y)
    BY <1>1, NodesApart
<1>31. /\ x \in Nat /\ f \in Nat /\ s \in Nat
       /\ x + 24 <= f \/ f + 24 <= x
       /\ x + 24 <= s \/ s + 24 <= x
       /\ f # s => f + 24 <= s \/ s + 24 <= f
    BY <1>2, <1>3
<1>4. \A a : At(m2, a) = IF a = x + 8 THEN f ELSE IF a = x + 16 THEN s
                         ELSE IF a = f + 16 THEN x ELSE IF a = s + 8 THEN x ELSE At(m, a)
    BY DEF Puts
<1>5. f = NextLink(m, s)
    BY DEF First
<1> HIDE DEF f, s
<1>6. NextLink(m2, x) = f /\ PrevLink(m2, x) = s
    <2>1. x + 8 # x + 16
        BY <1>2, <1>3
    <2> QED BY <1>4, <2>1 DEF NextLink, PrevLink
<1>7. PrevLink(m2, f) = x
    <2>1. f + 16 # x + 8 /\ f + 16 # x + 16
        BY <1>31
    <2> QED BY <1>4, <2>1 DEF PrevLink
<1>8. NextLink(m2, s) = x
    <2>1. s + 8 # x + 8 /\ s + 8 # x + 16 /\ s + 8 # f + 16
        BY <1>31
    <2> QED BY <1>4, <2>1 DEF NextLink
<1>9. ASSUME NEW y \in Nodes(F)
      PROVE  /\ y # s => NextLink(m2, y) = NextLink(m, y)
             /\ y # f => PrevLink(m2, y) = PrevLink(m, y)
    <2>0. y # x
        <3>1. \A j \in Lists : Sentinel(j) \notin G
            BY <1>1, InListNodes
        <3> QED BY <1>1, <3>1 DEF Nodes
    <2>1. y + 8 # x + 8 /\ y + 8 # x + 16 /\ y + 8 # f + 16 /\ (y # s => y + 8 # s + 8)
        BY <1>2, <1>3, <2>0
    <2>2. y + 16 # x + 8 /\ y + 16 # x + 16 /\ y + 16 # s + 8 /\ (y # f => y + 16 # f + 16)
        BY <1>2, <1>3, <2>0
    <2> QED BY <1>4, <2>1, <2>2 DEF NextLink, PrevLink
<1>10. Pushed(m, m2, F, i, x)
    BY <1>5, <1>6, <1>7, <1>8, <1>9 DEF Pushed, s
<1>11. Linked(m2, list2)
    BY <1>10, Push
<1>12. ASSUME NEW a, Plain(G, a) PROVE At(m2, a) = At(m, a)
    <2>1. a # x + 8 /\ a # x + 16 /\ a # f + 16 /\ a # s + 8
        BY <1>2, <1>12 DEF Plain
    <2> QED BY <1>4, <2>1
<1> QED BY <1>11, <1>12

\* The order in which the two functions store those words makes no difference,
\* nor does OnlyWild for a list 7 that is empty.
LEMMA FourStores ==
    ASSUME NEW m, NEW F, NEW list, NEW i, NEW x, NEW list2, Enters(m, F, list, i, x, list2)
    PROVE  /\ Puts(m, PushSplit(m, i, x), i, x)
           /\ Puts(m, PushFree(m, i, x), i, x)
           /\ i = Wild /\ First(m, i) = Sentinel(i) => Puts(m, OnlyWild(m, x), i, x)
<1> DEFINE f == First(m, i)
           s == Sentinel(i)
           G == F \cup {x}
<1>1. /\ list \in [F -> Lists] /\ i \in Lists /\ x \notin F /\ Apart(G) /\ Linked(m, list)
      /\ list2 \in [G -> Lists]
    BY DEF Enters
<1>2. f \in Nodes(F) /\ s \in Nodes(F) /\ x \in Nodes(G) /\ Nodes(F) \subseteq Nodes(G) /\ x # f /\ x # s
    <2>1. Apart(F) /\ \A j \in Lists : Sentinel(j) \notin G
        <3>1. Apart(F)
            BY <1>1 DEF Apart
        <3> QED BY <1>1, <3>1, InListNodes
    <2>2. f \in InList(list, i)
        BY <1>1, <2>1, FirstOf
    <2>3. f \in Nodes(F) /\ s \in Nodes(F)
        BY <1>1, <2>1, <2>2, InListNodes DEF Nodes
    <2>4. x # f /\ x # s
        BY <1>1, <2>1, <2>3 DEF Nodes
    <2> QED BY <2>3, <2>4 DEF Nodes
<1>3. \A y, v \in Nodes(G) : y \in Nat /\ v \in Nat /\ (y # v => y + 24 <= v \/ v + 24 <= y)
    BY <1>1, NodesApart
<1> HIDE DEF f, s
<1>4. /\ x + 8 # x + 16 /\ f + 16 # x + 8 /\ f + 16 # x + 16
      /\ s + 8 # x + 8 /\ s + 8 # x + 16 /\ s + 8 # f + 16 /\ s + 8 # s + 16
    BY <1>2, <1>3
<1>5. ASSUME NEW a
      PROVE  At(PushSplit(m, i, x), a) =
                  IF a = x + 8 THEN f ELSE IF a = x + 16 THEN s
                  ELSE IF a = f + 16 THEN x ELSE IF a = s + 8 THEN x ELSE At(m, a)
    <2>1. At(PushSplit(m, i, x), a) =
                  IF a = s + 8 THEN x ELSE IF a = f + 16 THEN x
                  ELSE IF a = x + 16 THEN s ELSE IF a = x + 8 THEN f ELSE At(m, a)
        BY Writes4 DEF PushSplit, f, s
    <2> QED BY <1>4, <2>1
<1>6. ASSUME NEW a
      PROVE  At(PushFree(m, i, x), a) =
                  IF a = x + 8 THEN f ELSE IF a = x + 16 THEN s
                  ELSE IF a = f + 16 THEN x ELSE IF a = s + 8 THEN x ELSE At(m, a)
    <2>1. At(PushFree(m, i, x), a) =
                  IF a = x + 16 THEN s ELSE IF a = s + 8 THEN x
                  ELSE IF a = f + 16 THEN x ELSE IF a = x + 8 THEN f ELSE At(m, a)
        BY Writes4 DEF PushFree, f, s
    <2> QED BY <1>4, <2>1
<1>7. ASSUME i = Wild, f = s, NEW a
      PROVE  At(OnlyWild(m, x), a) =
                  IF a = x + 8 THEN f ELSE IF a = x + 16 THEN s
                  ELSE IF a = f + 16 THEN x ELSE IF a = s + 8 THEN x ELSE At(m, a)
    <2>1. At(OnlyWild(m, x), a) =
                 IF a = x + 16 \/ a = x + 8 THEN s
                 ELSE IF a = s + 16 \/ a = s + 8 THEN x ELSE At(m, a)
        BY <1>7, OnlyWildWords DEF s
    <2> QED BY <1>4, <1>7, <2>1
<1> QED BY <1>5, <1>6, <1>7 DEF Puts, f, s

LEMMA MergesExist ==
    ASSUME NEW m, NEW e, NEW A, NEW F, NEW z, Heap(m, e, A, F, z), NEW b \in A
    PROVE  \E P, N, base, tot, z2 : Merges(e, A, F, z, b, P, N, base, tot, z2)
<1> DEFINE P == {c \in F : c + z[c] = b}
           N == {c \in F : b + z[b] = c}
           base == IF P = {} THEN b ELSE CHOOSE c \in P : TRUE
           tot == z[b] + (IF P = {} THEN 0 ELSE z[base]) + (IF N = {} THEN 0 ELSE z[b + z[b]])
           D == (A \ {b}) \cup (F \ (P \cup N))
           z2 == [x \in D \cup {base} |-> IF x = base THEN tot ELSE z[x]]
<1>1. \A x \in A \cup F : z[x] \in Nat
    <2>1. Facts(e, A, F, z)
        BY HeapFacts
    <2> QED BY <2>1 DEF Facts
<1>2. (P = {} /\ base = b) \/ base \in P
    OBVIOUS
<1>3. base \notin D
    <2>1. A \cap F = {}
        BY DEF Heap
    <2>2. P \subseteq F
        OBVIOUS
    <2> HIDE DEF base, P, N
    <2> QED BY <1>2, <2>1, <2>2
<1>4. tot \in Nat
    <2>1. P # {} => base \in F
        BY <1>2
    <2>2. N # {} => b + z[b] \in F
        OBVIOUS
    <2> HIDE DEF base, P, N
    <2>3. z[b] \in Nat /\ (P # {} => z[base] \in Nat) /\ (N # {} => z[b + z[b]] \in Nat)
        BY <1>1, <2>1, <2>2
    <2>4. (IF P = {} THEN 0 ELSE z[base]) \in Nat /\ (IF N = {} THEN 0 ELSE z[b + z[b]]) \in Nat
        BY <2>3
    <2> QED BY <2>3, <2>4
<1>5. z2 \in [D \cup {base} -> Nat] /\ z2[base] = tot /\ \A x \in D : z2[x] = z[x]
    <2>1. \A x \in D : z[x] \in Nat
        BY <1>1
    <2> HIDE DEF base, tot, D
    <2> QED BY <1>3, <1>4, <2>1
<1> HIDE DEF z2
<1>6. Merges(e, A, F, z, b, P, N, base, tot, z2)
    <2>1. /\ b \in A /\ P = {c \in F : c + z[c] = b} /\ N = {c \in F : b + z[b] = c}
        OBVIOUS
    <2>2. tot = z[b] + (IF P = {} THEN 0 ELSE z[base]) + (IF N = {} THEN 0 ELSE z[b + z[b]])
        OBVIOUS
    <2> HIDE DEF base, tot, P, N
    <2> QED BY <1>2, <1>5, <2>1, <2>2 DEF Merges
<1> QED BY <1>6

\* What sf_free works out from the words around the block.
WorkedOut(w, next, P, N, base, tot) ==
    /\ w.base = base /\ w.tot = tot /\ w.next = next /\ w.head = tot + 2
    /\ w.prevFree <=> P # {}
    /\ w.nextFree <=> N # {}

LEMMA MergeIs ==
    ASSUME NEW s, NEW e, s.end - 8 = e, NEW A, NEW F, NEW z, NEW b, NEW P, NEW N, NEW base, NEW tot, NEW z2,
           Heap(s.mem, e, A, F, z), Merges(e, A, F, z, b, P, N, base, tot, z2),
           NEW m0, m0 = Put(s.mem, b, At(s.mem, b) - 1)
    PROVE  WorkedOut(Merge(s, m0, b), b + z[b], P, N, base, tot)
<1> DEFINE next == b + z[b]
           w == Merge(s, m0, b)
<1>1. /\ b \in A /\ P = {c \in F : c + z[c] = b} /\ N = {c \in F : b + z[b] = c}
      /\ (P = {} /\ base = b) \/ base \in P
    BY DEF Merges
<1>2. tot = z[b] + (IF P = {} THEN 0 ELSE z[base]) + (IF N = {} THEN 0 ELSE z[next])
    BY DEF Merges
<1>3. tot \in Nat /\ tot % 16 = 0
    <2>1. MergedFacts(e, A, F, z, b, P, N, base, tot, z2)
        BY Merging
    <2> QED BY <2>1 DEF MergedFacts
<1>4. /\ A \cap F = {} /\ e \notin A \cup F
      /\ \A x \in A \cup F : x \in Nat /\ z[x] \in Nat
      /\ \A x \in A \cup F : z[x] >= 32 /\ z[x] % 16 = 0
      /\ \A x \in A \cup F : x + z[x] \in A \cup F \cup {e}
    <2>1. Facts(e, A, F, z)
        BY HeapFacts
    <2> QED BY <2>1 DEF Facts
<1>5. /\ \A x \in A \cup F : At(s.mem, x) = z[x] + Own(A, x) + Behind(F, z, x)
      /\ \A x \in A \cup F : Allocd(At(s.mem, x)) <=> x \in A
      /\ \A x \in F : At(s.mem, x) = z[x] + 2 /\ At(s.mem, x + z[x] - 8) = z[x] + 2
    <2>1. HeaderFacts(s.mem, e, A, F, z)
        BY Headers
    <2> QED BY <2>1 DEF HeaderFacts
<1>6. /\ NoPrev(At(m0, b)) = z[b]
      /\ PrevAllocd(At(m0, b)) <=> P = {}
    <2> DEFINE k == z[b]
               beh == Behind(F, z, b)
               hd == At(m0, b)
    <2>1. hd = At(s.mem, b) - 1 /\ At(s.mem, b) = k + 1 + beh /\ k \in Nat /\ k % 16 = 0 /\ beh \in {0, 2}
        <3>1. hd = At(s.mem, b) - 1
            BY AtPut
        <3>2. At(s.mem, b) = z[b] + Own(A, b) + Behind(F, z, b) /\ Own(A, b) = 1
            BY <1>1, <1>5 DEF Own
        <3>3. z[b] \in Nat /\ z[b] % 16 = 0
            BY <1>1, <1>4
        <3> QED BY <3>1, <3>2, <3>3, Behinds
    <2>2. beh = 2 <=> P = {}
        BY <1>1 DEF Behind
    <2> HIDE DEF k, beh, hd
    <2>3. hd = k + 0 + beh /\ 0 \in {0, 1} /\ k + 0 = k
        BY <2>1
    <2>4. NoPrev(hd) = k + 0 /\ (PrevAllocd(hd) <=> beh = 2)
        BY <2>1, <2>3, Flags
    <2> QED BY <2>2, <2>3, <2>4 DEF k, beh, hd
<1>7. \A a : a # b => At(m0, a) = At(s.mem, a)
    BY AtPut
<1>8. next # b /\ next \in A \cup F \cup {e} /\ b - 8 # b
    BY <1>1, <1>4
<1>9. NextIsFree(s, m0, next) <=> N # {}
    <2>1. N # {} <=> next \in F
        BY <1>1
    <2>2. next # e => (Allocd(At(m0, next)) <=> next \in A)
        BY <1>5, <1>7, <1>8
    <2> HIDE DEF next
    <2> QED BY <1>4, <1>8, <2>1, <2>2 DEF NextIsFree
<1>10. N # {} => NoPrev(At(m0, next)) = z[next]
    <2>1. ASSUME N # {} PROVE NoPrev(At(m0, next)) = z[next]
        <3>1. next \in F
            BY <1>1, <2>1
        <3>2. At(m0, next) = z[next] + 2 /\ z[next] \in Nat /\ z[next] % 16 = 0
            BY <1>4, <1>5, <1>7, <1>8, <3>1
        <3> HIDE DEF next
        <3> QED BY <3>2, FreeWord
    <2> QED BY <2>1
<1>11. P # {} => /\ NoPrev(At(m0, b - 8)) = z[base] /\ PrevAllocd(At(m0, b - 8))
                 /\ b - z[base] = base /\ z[base] \in Nat
    <2>1. ASSUME P # {}
          PROVE  /\ NoPrev(At(m0, b - 8)) = z[base] /\ PrevAllocd(At(m0, b - 8))
                 /\ b - z[base] = base /\ z[base] \in Nat
        <3>1. base \in F /\ base + z[base] = b
            BY <1>1, <2>1
        <3>2. z[base] \in Nat /\ z[base] % 16 = 0 /\ base \in Nat
            BY <1>4, <3>1
        <3>3. At(m0, b - 8) = z[base] + 2
            <4>1. At(s.mem, base + z[base] - 8) = z[base] + 2 /\ base + z[base] - 8 = b - 8
                BY <1>5, <3>1, <3>2
            <4> QED BY <1>7, <1>8, <4>1
        <3> QED BY <3>1, <3>2, <3>3, FreeWord
    <2> QED BY <2>1
<1> DEFINE siz1 == IF ~PrevAllocd(At(m0, b)) THEN NoPrev(At(m0, b - 8)) ELSE 0
           siz2 == IF NextIsFree(s, m0, next) THEN NoPrev(At(m0, next)) ELSE 0
<1>12. /\ w.prevFree = ~PrevAllocd(At(m0, b)) /\ w.nextFree = NextIsFree(s, m0, next)
       /\ w.base = b - siz1 /\ w.tot = z[b] + siz1 + siz2 /\ w.next = next
       /\ w.head = IF ~PrevAllocd(At(m0, b)) /\ ~PrevAllocd(At(m0, b - 8))
                   THEN z[b] + siz1 + siz2 ELSE WithPrev(z[b] + siz1 + siz2)
    BY <1>6 DEF Merge
<1>13. /\ siz1 = (IF P = {} THEN 0 ELSE z[base]) /\ siz2 = (IF N = {} THEN 0 ELSE z[next])
       /\ b - siz1 = base
    <2>1. siz2 = (IF N = {} THEN 0 ELSE z[next])
        BY <1>9, <1>10
    <2>2. siz1 = (IF P = {} THEN 0 ELSE z[base])
        BY <1>6, <1>11
    <2>3. b - siz1 = base
        <3>1. b \in Nat
            BY <1>1, <1>4
        <3> HIDE DEF siz1
        <3> QED BY <1>1, <1>11, <2>2, <3>1
    <2> QED BY <2>1, <2>2, <2>3
<1>14. w.tot = tot /\ z[b] + siz1 + siz2 = tot /\ w.base = base /\ w.next = next
    BY <1>2, <1>12, <1>13
<1>15. w.head = tot + 2
    <2>1. w.head = WithPrev(tot)
        BY <1>6, <1>11, <1>12, <1>14
    <2> HIDE DEF w
    <2> QED BY <1>3, <2>1, FreeWord
<1>16. (w.prevFree <=> P # {}) /\ (w.nextFree <=> N # {})
    BY <1>6, <1>9, <1>12
<1> HIDE DEF w, next
<1>17. WorkedOut(w, next, P, N, base, tot)
    BY <1>14, <1>15, <1>16 DEF WorkedOut
<1> QED BY <1>17 DEF w, next

\* The neighbours leave their lists, the one before first.
Unlinks(m0, b, next, P, N, base, m1, m2) ==
    /\ m1 = IF P = {} THEN m0 ELSE free_list_free(m0, base)
    /\ m2 = IF N = {} THEN m1 ELSE free_list_free(m1, next)

BothOut(m0, m1, m2, e, F, z, next, P, N, base, tot) ==
    /\ Linked(m2, ListOf(e, F \ (P \cup N), z))
    /\ N # {} => (next = First(m1, 7) <=> base + tot = e)
    /\ \A a : Plain(F, a) => At(m2, a) = At(m0, a)

LEMMA UnlinkBoth ==
    ASSUME NEW m, NEW e, NEW A, NEW F, NEW z, NEW b, NEW P, NEW N, NEW base, NEW tot, NEW z2,
           Heap(m, e, A, F, z), Merges(e, A, F, z, b, P, N, base, tot, z2),
           NEW m0, NEW v, m0 = Put(m, b, v), NEW m1, NEW m2, Unlinks(m0, b, b + z[b], P, N, base, m1, m2)
    PROVE  BothOut(m0, m1, m2, e, F, z, b + z[b], P, N, base, tot)
<1> DEFINE list == ListOf(e, F, z)
           next == b + z[b]
<1>1. /\ m1 = IF P = {} THEN m0 ELSE free_list_free(m0, base)
      /\ m2 = IF N = {} THEN m1 ELSE free_list_free(m1, next)
    BY DEF Unlinks
<1>2. /\ P \subseteq {base} /\ N \subseteq {next} /\ P \subseteq F /\ N \subseteq F /\ P \cap N = {}
      /\ N # {} => next \in F /\ base + tot = next + z[next] /\ next \notin P
    <2>1. MergedFacts(e, A, F, z, b, P, N, base, tot, z2) /\ Facts(e, A, F, z)
        BY Merging, HeapFacts
    <2>2. /\ P = {c \in F : c + z[c] = b} /\ N = {c \in F : b + z[b] = c} /\ b \in A
        BY DEF Merges
    <2>3. P \cap N = {}
        <3>1. \A c \in F : c \in Nat /\ z[c] \in Nat /\ z[c] >= 32 /\ b \in Nat /\ z[b] \in Nat
            BY <2>1, <2>2 DEF Facts
        <3> QED BY <2>2, <3>1
    <2>4. P \subseteq {base} /\ N \subseteq {next} /\ P \subseteq F /\ N \subseteq F
        BY <2>1, <2>2 DEF MergedFacts
    <2>5. N # {} => next \in F /\ base + tot = next + z[next]
        BY <2>1 DEF MergedFacts
    <2>6. N # {} => next \in N
        BY <2>4
    <2> QED BY <2>3, <2>4, <2>5, <2>6
<1>3. /\ list \in [F -> Lists] /\ Apart(F) /\ Linked(m, list)
      /\ \A x \in F : x \in Nat /\ z[x] \in Nat /\ z[x] >= 32
      /\ \A x, y \in F : x # y => x + z[x] <= y \/ y + z[y] <= x
    <2>1. Facts(e, A, F, z)
        BY HeapFacts
    <2> QED BY <2>1 DEF Facts, Heap
<1>4. Linked(m0, list)
    <2>1. Plain(F, b)
        <3>1. b \in A
            BY DEF Merges
        <3>2. Plain(F \cup {b}, b)
            BY <3>1, PlainWords
        <3> QED BY <3>2, PlainLess
    <2>2. \A a : ~Plain(F, a) => At(m0, a) = At(m, a)
        BY <2>1, AtPut
    <2> HIDE DEF list
    <2> QED BY <1>3, <2>2, PlainLinked
<1> DEFINE list1 == Without1(list, F, P)
           list2 == Without1(list1, F \ P, N)
<1> HIDE DEF list, next
<1>5. /\ Linked(m1, list1) /\ list1 \in [F \ P -> Lists] /\ Apart(F \ P)
      /\ \A a : Plain(F, a) => At(m1, a) = At(m0, a)
    <2>1. P \subseteq F /\ P \subseteq {base} /\ m1 = IF P = {} THEN m0 ELSE free_list_free(m0, base)
        BY <1>1, <1>2
    <2>2. list \in [F -> Lists] /\ Apart(F) /\ Linked(m0, list)
        BY <1>3, <1>4
    <2>3. TakenOut(m0, m1, F, list, P)
        BY <2>1, <2>2, TakeOut DEF Takes
    <2> QED BY <2>3 DEF TakenOut
<1>6. list1 = [y \in F \ P |-> list[y]]
    BY DEF Without1
<1> HIDE DEF list1
<1>7. /\ Linked(m2, list2) /\ \A a : Plain(F \ P, a) => At(m2, a) = At(m1, a)
    <2>1. N \subseteq F \ P
        BY <1>2
    <2> DEFINE F1 == F \ P
    <2>2. /\ list1 \in [F1 -> Lists] /\ Apart(F1) /\ N \subseteq F1
        BY <1>5, <2>1
    <2> HIDE DEF F1
    <2>3. /\ Linked(m2, Without1(list1, F1, N)) /\ \A a : Plain(F1, a) => At(m2, a) = At(m1, a)
        <3>1. N \subseteq {next} /\ m2 = IF N = {} THEN m1 ELSE free_list_free(m1, next)
            BY <1>1, <1>2 DEF next
        <3>2. Linked(m1, list1)
            BY <1>5
        <3>3. TakenOut(m1, m2, F1, list1, N)
            BY <2>2, <3>1, <3>2, TakeOut DEF Takes
        <3> QED BY <3>3 DEF TakenOut
    <2> QED BY <2>3 DEF F1
<1>8. list2 = ListOf(e, F \ (P \cup N), z)
    <2>1. list2 = [y \in (F \ P) \ N |-> list1[y]]
        BY DEF Without1
    <2>2. (F \ P) \ N = F \ (P \cup N)
        OBVIOUS
    <2>3. \A y \in F \ (P \cup N) : list1[y] = Class(e, z, y)
        BY <1>6 DEF ListOf, list
    <2> HIDE DEF list2
    <2>4. list2 = [y \in F \ (P \cup N) |-> Class(e, z, y)]
        BY <2>1, <2>2, <2>3
    <2> QED BY <2>4 DEF ListOf
<1>9. \A a : Plain(F, a) => At(m2, a) = At(m0, a)
    <2>1. \A a : Plain(F, a) => Plain(F \ P, a)
        <3>1. F \ P \subseteq F
            OBVIOUS
        <3> QED BY <3>1, PlainLess
    <2> QED BY <1>5, <1>7, <2>1
<1>10. ASSUME N # {} PROVE next = First(m1, 7) <=> base + tot = e
    <2>1. next \in F \ P /\ next \in F
        BY <1>2, <1>10
    <2>2. \A y \in F : list[y] = Wild <=> y + z[y] = e
        <3>1. \A y \in F : get_index(z[y]) # Wild
            BY <1>3, IndexMatchesClass DEF Wild
        <3> QED BY <3>1 DEF list, ListOf, Class
    <2>3. \A y \in F \ P : list1[y] = Wild <=> y + z[y] = e
        BY <1>6, <2>2
    <2>4. \A y \in F \ P : y + z[y] = next + z[next] => y = next
        BY <1>3, <2>1
    <2>5. base + tot = next + z[next]
        BY <1>2, <1>10
    <2>6. /\ First(m1, Wild) = next => list1[next] = Wild
          /\ list1[next] = Wild /\ (\A y \in F \ P : list1[y] = Wild => y = next) => First(m1, Wild) = next
        <3> DEFINE F1 == F \ P
        <3>1. list1 \in [F1 -> Lists] /\ Apart(F1) /\ Linked(m1, list1) /\ Wild \in Lists /\ next \in F1
            BY <1>5, <2>1, SentinelWords
        <3> HIDE DEF F1
        <3>2. /\ First(m1, Wild) = next => list1[next] = Wild
              /\ list1[next] = Wild /\ (\A y \in F1 : list1[y] = Wild => y = next) => First(m1, Wild) = next
            BY <3>1, FirstOf
        <3> QED BY <3>2 DEF F1
    <2>7. First(m1, 7) = First(m1, Wild)
        BY DEF Wild
    <2> QED BY <2>1, <2>3, <2>4, <2>5, <2>6, <2>7
<1> HIDE DEF list2
<1>11. BothOut(m0, m1, m2, e, F, z, next, P, N, base, tot)
    BY <1>7, <1>8, <1>9, <1>10 DEF BothOut
<1> QED BY <1>11 DEF next

\* The list the whole is put in.
Reentry(e, F, z, b, P, N, base, tot, z2, m3) ==
    LET G == F \ (P \cup N)
    IN  /\ Enters(m3, G, ListOf(e, G, z), Class(e, z2, base), base, ListOf(e, G \cup {base}, z2))
        /\ base + tot = e => Class(e, z2, base) = Wild /\ First(m3, Wild) = Sentinel(Wild)
        /\ base + tot # e => Class(e, z2, base) = get_index(tot)
        /\ \A a : Plain(F \cup {b}, a) => Plain(G \cup {base}, a)

LEMMA Reenters ==
    ASSUME NEW m, NEW e, NEW A, NEW F, NEW z, NEW b, NEW P, NEW N, NEW base, NEW tot, NEW z2,
           Heap(m, e, A, F, z), Merges(e, A, F, z, b, P, N, base, tot, z2),
           NEW m3, Linked(m3, ListOf(e, F \ (P \cup N), z))
    PROVE  Reentry(e, F, z, b, P, N, base, tot, z2, m3)
<1> DEFINE G == F \ (P \cup N)
           i == Class(e, z2, base)
           list == ListOf(e, G, z)
           list2 == ListOf(e, G \cup {base}, z2)
<1>1. /\ base \in Nat /\ tot \in Nat /\ tot >= 32 /\ base + tot <= e /\ base \notin G
      /\ \A x \in G : x + z[x] <= base \/ base + tot <= x
    <2>1. MergedFacts(e, A, F, z, b, P, N, base, tot, z2)
        BY Merging
    <2> QED BY <2>1 DEF MergedFacts
<1>2. z2[base] = tot /\ (\A x \in G : z2[x] = z[x]) /\ b \in A /\ (base = b \/ base \in F)
    BY DEF Merges
<1>3. /\ \A x \in G : x \in Nat /\ z[x] \in Nat /\ z[x] >= 32 /\ x + z[x] <= e /\ e \in Nat
      /\ ListOf(e, F, z) \in [F -> Lists]
    <2>1. Facts(e, A, F, z)
        BY HeapFacts
    <2> QED BY <2>1 DEF Facts
<1>4. G \cup {base} \subseteq F \cup {b} /\ Apart(G \cup {base}) /\ Apart(G)
    <2>1. Apart(F \cup {b})
        BY <1>2, PlainWords
    <2>2. G \cup {base} \subseteq F \cup {b}
        BY <1>2
    <2> QED BY <2>1, <2>2 DEF Apart
<1>5. i \in Lists /\ i = IF base + tot = e THEN Wild ELSE get_index(tot)
    <2>1. get_index(tot) \in Lists
        BY <1>1, IndexMatchesClass DEF Lists
    <2> QED BY <1>2, <2>1, SentinelWords DEF Class
<1>6. list \in [G -> Lists] /\ \A x \in G : list[x] = Class(e, z, x)
    BY <1>3 DEF ListOf
<1>7. list2 \in [G \cup {base} -> Lists] /\ list2[base] = i /\ \A x \in G : list2[x] = list[x]
    <2>1. \A x \in G : Class(e, z2, x) = Class(e, z, x) /\ Class(e, z, x) \in Lists
        BY <1>2, <1>6 DEF Class
    <2> HIDE DEF i, G
    <2>2. \A x \in G \cup {base} : list2[x] = Class(e, z2, x)
        BY DEF ListOf
    <2>3. list2 = [x \in G \cup {base} |-> Class(e, z2, x)]
        BY DEF ListOf
    <2>4. Class(e, z2, base) = i
        BY DEF i
    <2> HIDE DEF list2
    <2>5. \A x \in G \cup {base} : Class(e, z2, x) \in Lists
        BY <1>5, <2>1, <2>4
    <2> QED BY <1>6, <2>1, <2>2, <2>3, <2>4, <2>5
<1> HIDE DEF i, list, list2
<1>8. Enters(m3, G, list, i, base, list2)
    BY <1>1, <1>4, <1>5, <1>6, <1>7 DEF Enters, list
<1>9. ASSUME base + tot = e PROVE First(m3, Wild) = Sentinel(Wild)
    <2>1. \A x \in G : list[x] # Wild
        <3>1. \A x \in G : x + z[x] # e
            BY <1>1, <1>3, <1>9
        <3>2. \A x \in G : get_index(z[x]) # Wild
            BY <1>3, IndexMatchesClass DEF Wild
        <3> QED BY <1>6, <3>1, <3>2 DEF Class
    <2>2. Linked(m3, list) /\ Wild \in Lists
        BY SentinelWords DEF list
    <2> HIDE DEF G
    <2> QED BY <1>4, <1>6, <2>1, <2>2, FirstOf
<1>10. \A a : Plain(F \cup {b}, a) => Plain(G \cup {base}, a)
    BY <1>4, PlainLess
<1> QED BY <1>5, <1>8, <1>9, <1>10 DEF Reentry, i, list, list2

\* The words a merge leaves, apart from the links.
Settled(m, m2, e, F, z, b, base, tot) ==
    /\ At(m2, base) = tot + 2 /\ At(m2, base + tot - 8) = tot + 2
    /\ At(m2, base + tot) = IF base + tot = e THEN 0 ELSE z[base + tot] + 1
    /\ \A a : Plain(F \cup {b}, a) /\ a \notin {b, base, base + tot - 8, base + tot} => At(m2, a) = At(m, a)

LEMMA SettledHeap ==
    ASSUME NEW m, NEW e, NEW A, NEW F, NEW z, NEW b, NEW P, NEW N, NEW base, NEW tot, NEW z2,
           Heap(m, e, A, F, z), Merges(e, A, F, z, b, P, N, base, tot, z2), NEW m2,
           Linked(m2, ListOf(e, (F \ (P \cup N)) \cup {base}, z2)),
           Settled(m, m2, e, F, z, b, base, tot)
    PROVE  /\ Heap(m2, e, A \ {b}, (F \ (P \cup N)) \cup {base}, z2)
           /\ Keeps(m, m2, A, z, A \ {b}, z2)
<1> DEFINE A2 == A \ {b}
           G == F \ (P \cup N)
           Outside(a) == a # base + tot /\ (a < base \/ base + tot <= a)
<1>1. /\ base \in Nat /\ tot \in Nat /\ tot >= 32 /\ base + tot <= e /\ base \notin A2 \cup G
      /\ base <= b /\ b < base + tot /\ b \in A /\ base + tot \in A2 \cup {e}
      /\ \A x \in A2 \cup G : x + z[x] <= base \/ base + tot <= x
    <2>1. MergedFacts(e, A, F, z, b, P, N, base, tot, z2) /\ b \in A /\ Facts(e, A, F, z)
        BY Merging, HeapFacts DEF Merges
    <2>2. b \in Nat /\ z[b] \in Nat /\ z[b] >= 32
        BY <2>1 DEF Facts
    <2>3. /\ base \in Nat /\ tot \in Nat /\ tot >= 32 /\ base + tot <= e /\ base \notin A2 \cup G
          /\ base <= b /\ b + z[b] <= base + tot /\ base + tot \in A2 \cup {e}
          /\ \A x \in A2 \cup G : x + z[x] <= base \/ base + tot <= x
        BY <2>1 DEF MergedFacts
    <2> QED BY <2>1, <2>2, <2>3
<1>2. /\ e \in Nat /\ e \notin A \cup F /\ A \cap F = {}
      /\ \A x \in A \cup F : x \in Nat /\ z[x] \in Nat /\ z[x] >= 32 /\ x + z[x] <= e
      /\ \A x, y \in A \cup F : x # y => x + z[x] <= y \/ y + z[y] <= x
    <2>1. Facts(e, A, F, z)
        BY HeapFacts
    <2> QED BY <2>1 DEF Facts
<1>3. /\ At(m2, base) = tot + 2 /\ At(m2, base + tot - 8) = tot + 2
      /\ At(m2, base + tot) = IF base + tot = e THEN 0 ELSE z[base + tot] + 1
    BY DEF Settled
<1>4. ASSUME NEW a \in Nat, Plain(F \cup {b}, a), Outside(a) PROVE At(m2, a) = At(m, a)
    <2>1. a # b /\ a # base /\ a # base + tot - 8 /\ a # base + tot
        BY <1>1, <1>2, <1>4
    <2> QED BY <1>4, <2>1 DEF Settled
<1>5. /\ \A x \in A \cup F \cup {e} : Plain(F \cup {b}, x)
      /\ \A x \in F \cup {b} : Plain(F \cup {b}, x + z[x] - 8)
      /\ \A x \in A \ {b} : \A a \in Nat : x < a /\ a < x + z[x] => Plain(F \cup {b}, a)
    <2>1. b \in A
        BY <1>1
    <2> QED BY <2>1, PlainWords, Zenon
\* Where the other blocks are.
<1>6. ASSUME NEW x \in A2 \cup G, NEW a \in Nat, x <= a, a < x + z[x], a # x \/ x # base + tot
      PROVE  Outside(a)
    <2>1. x \in A \cup F /\ x \in Nat /\ z[x] \in Nat /\ x + z[x] <= e /\ base + tot \in Nat
        BY <1>1, <1>2
    <2>2. a # base + tot
        <3>1. CASE base + tot = e
            BY <1>6, <2>1, <3>1
        <3>2. CASE base + tot \in A2 /\ x # base + tot
            <4> DEFINE c == base + tot
            <4>1. c \in A \cup F /\ z[c] \in Nat /\ z[c] >= 32 /\ c \in Nat
                BY <1>2, <3>2
            <4>2. x + z[x] <= c \/ c + z[c] <= x
                BY <1>2, <2>1, <3>2, <4>1
            <4> HIDE DEF c
            <4>3. a # c
                BY <1>6, <2>1, <4>1, <4>2
            <4> QED BY <4>3 DEF c
        <3>3. CASE x = base + tot
            BY <1>6, <3>3
        <3> QED BY <1>1, <3>1, <3>2, <3>3
    <2>3. x + z[x] <= base \/ base + tot <= x
        BY <1>1
    <2>4. a < base \/ base + tot <= a
        BY <1>1, <1>6, <2>1, <2>3
    <2> QED BY <2>2, <2>4
<1>7. At(m2, e) = 0
    <2>1. CASE base + tot = e
        BY <1>3, <2>1
    <2>2. CASE base + tot # e
        <3>1. e \in Nat /\ Plain(F \cup {b}, e) /\ Outside(e)
            BY <1>1, <1>2, <1>5, <2>2
        <3> HIDE DEF Outside
        <3>2. At(m2, e) = At(m, e)
            BY <1>4, <3>1
        <3>3. Words(m, e, A, F, z)
            BY DEF Heap
        <3> QED BY <3>2, <3>3 DEF Words
    <2> QED BY <2>1, <2>2
<1> HIDE DEF Outside
<1>8. ASSUME NEW x \in A2 PROVE At(m2, x) = IF x = base + tot THEN z[x] + 1 ELSE At(m, x)
    <2>1. CASE x = base + tot
        BY <1>2, <1>3, <2>1
    <2>2. CASE x # base + tot
        <3>1. x \in Nat /\ x <= x /\ x < x + z[x] /\ Plain(F \cup {b}, x)
            <4>1. x \in A \cup F /\ x \in A \cup F \cup {e}
                OBVIOUS
            <4>2. x \in Nat /\ z[x] \in Nat /\ z[x] >= 32
                BY <1>2, <4>1
            <4> QED BY <1>5, <4>1, <4>2
        <3>2. Outside(x)
            BY <1>6, <2>2, <3>1
        <3> QED BY <1>4, <2>2, <3>1, <3>2
    <2> QED BY <2>1, <2>2
<1>9. ASSUME NEW x \in G PROVE At(m2, x) = At(m, x) /\ At(m2, x + z[x] - 8) = At(m, x + z[x] - 8)
    <2>1. x \in Nat /\ z[x] \in Nat /\ z[x] >= 32 /\ x \in F /\ x # base + tot
        BY <1>1, <1>2
    <2>2. Plain(F \cup {b}, x) /\ Plain(F \cup {b}, x + z[x] - 8)
        BY <1>5, <2>1
    <2>3. /\ x <= x /\ x < x + z[x]
          /\ x + z[x] - 8 \in Nat /\ x <= x + z[x] - 8 /\ x + z[x] - 8 < x + z[x]
        BY <2>1
    <2>4. Outside(x) /\ Outside(x + z[x] - 8)
        BY <1>6, <2>1, <2>3
    <2> QED BY <1>4, <2>1, <2>2, <2>3, <2>4
<1>10. MergedWords(m, m2, e, A, F, z, b, P, N, base, tot, z2)
    BY <1>3, <1>7, <1>8, <1>9 DEF MergedWords
<1>11. Keeps(m, m2, A, z, A2, z2)
    <2>1. ASSUME NEW x \in A2, NEW a \in Nat, x < a, a < x + z[x] PROVE At(m2, a) = At(m, a)
        <3>1. x \in Nat /\ x <= a /\ a # x
            BY <1>2, <2>1
        <3>2. Outside(a)
            BY <1>6, <2>1, <3>1
        <3>3. Plain(F \cup {b}, a)
            BY <1>5, <2>1
        <3> QED BY <1>4, <3>2, <3>3
    <2> QED BY <2>1 DEF Keeps
<1> QED BY <1>10, <1>11, MergedHeap

\* Header, footer and place of the whole, and what the block behind it is told.
Relinked(m2, e, base, tot, m3, m4, m5) ==
    /\ m3 = Writes(m2, << <<base, tot + 2>>, <<base + tot - 8, tot + 2>> >>)
    /\ m4 = IF base + tot = e THEN OnlyWild(m3, base) ELSE PushFree(m3, get_index(tot), base)
    /\ m5 = ClearPrev(m4, base + tot)

LEMMA FreeSettles ==
    ASSUME NEW m, NEW e, NEW A, NEW F, NEW z, NEW b, NEW P, NEW N, NEW base, NEW tot, NEW z2,
           Heap(m, e, A, F, z), Merges(e, A, F, z, b, P, N, base, tot, z2),
           NEW m0, NEW v, m0 = Put(m, b, v), NEW m1, NEW m2, Unlinks(m0, b, b + z[b], P, N, base, m1, m2),
           NEW m3, NEW m4, NEW m5, Relinked(m2, e, base, tot, m3, m4, m5)
    PROVE  /\ Linked(m5, ListOf(e, (F \ (P \cup N)) \cup {base}, z2))
           /\ Settled(m, m5, e, F, z, b, base, tot)
<1> DEFINE G == F \ (P \cup N)
           H == G \cup {base}
           foot == base + tot - 8
           behind == base + tot
<1>1. /\ m3 = Writes(m2, << <<base, tot + 2>>, <<foot, tot + 2>> >>)
      /\ m4 = IF base + tot = e THEN OnlyWild(m3, base) ELSE PushFree(m3, get_index(tot), base)
      /\ m5 = ClearPrev(m4, behind)
    BY DEF Relinked
<1>2. MergedFacts(e, A, F, z, b, P, N, base, tot, z2) /\ b \in A /\ Facts(e, A, F, z)
    BY Merging, HeapFacts DEF Merges
<1>21. /\ N = {} => base + tot = b + z[b]
       /\ N # {} => b + z[b] \in F /\ base + tot = (b + z[b]) + z[b + z[b]]
    BY <1>2 DEF MergedFacts
<1>3. /\ base \in Nat /\ tot \in Nat /\ tot >= 32 /\ base + tot \in (A \ {b}) \cup {e}
      /\ base <= b /\ b + z[b] <= base + tot
      /\ b \in Nat /\ z[b] \in Nat /\ z[b] >= 32
    BY <1>2 DEF MergedFacts, Facts
\* Where the words are.
<1>4. /\ Plain(F \cup {b}, b) /\ Plain(F \cup {b}, base) /\ Plain(F \cup {b}, foot) /\ Plain(F \cup {b}, behind)
      /\ Apart(F \cup {b})
    <2>1. /\ \A x \in A \cup F \cup {e} : Plain(F \cup {b}, x)
          /\ \A x \in F \cup {b} : Plain(F \cup {b}, x + z[x] - 8)
          /\ Apart(F \cup {b})
        <3>1. b \in A
            BY <1>2
        <3> QED BY <3>1, PlainWords, Zenon
    <2>2. base = b \/ base \in F
        BY DEF Merges
    <2>3. Plain(F \cup {b}, foot)
        <3>1. CASE N = {}
            <4>1. base + tot = b + z[b]
                BY <1>21, <3>1
            <4>2. Plain(F \cup {b}, b + z[b] - 8)
                BY <2>1
            <4>3. b + z[b] - 8 = foot
                BY <1>3, <4>1
            <4> QED BY <4>2, <4>3
        <3>2. CASE N # {}
            <4>1. base + tot = (b + z[b]) + z[b + z[b]] /\ b + z[b] \in F
                BY <1>21, <3>2
            <4> DEFINE c == b + z[b]
            <4>2. Plain(F \cup {b}, c + z[c] - 8)
                BY <2>1, <4>1
            <4>3. c \in Nat /\ z[c] \in Nat
                BY <1>2, <4>1 DEF Facts
            <4>4. c + z[c] - 8 = foot
                <5>1. base + tot = c + z[c]
                    BY <4>1
                <5> HIDE DEF c
                <5> QED BY <1>3, <4>3, <5>1
            <4> QED BY <4>2, <4>4
        <3> QED BY <3>1, <3>2
    <2> QED BY <1>2, <1>3, <2>1, <2>2, <2>3
<1>5. Linked(m2, ListOf(e, G, z)) /\ \A a : Plain(F, a) => At(m2, a) = At(m0, a)
    <2>1. BothOut(m0, m1, m2, e, F, z, b + z[b], P, N, base, tot)
        BY UnlinkBoth
    <2> QED BY <2>1 DEF BothOut
<1>6. \A a : At(m3, a) = IF a = foot THEN tot + 2 ELSE IF a = base THEN tot + 2 ELSE At(m2, a)
    BY <1>1, Writes2
<1>7. Linked(m3, ListOf(e, G, z))
    <2>1. Plain(G, base) /\ Plain(G, foot) /\ Apart(G)
        <3>1. G \subseteq F \cup {b}
            OBVIOUS
        <3> QED BY <1>4, <3>1, PlainLess DEF Apart
    <2>2. \A a : ~Plain(G, a) => At(m3, a) = At(m2, a)
        BY <1>6, <2>1
    <2>3. ListOf(e, G, z) \in [G -> Lists]
        <3>1. ListOf(e, F, z) \in [F -> Lists]
            BY <1>2 DEF Facts
        <3> QED BY <3>1 DEF ListOf
    <2> HIDE DEF G
    <2> QED BY <1>5, <2>1, <2>2, <2>3, PlainLinked
<1> DEFINE i == Class(e, z2, base)
<1>8. /\ Enters(m3, G, ListOf(e, G, z), i, base, ListOf(e, H, z2))
      /\ base + tot = e => i = Wild /\ First(m3, Wild) = Sentinel(Wild)
      /\ base + tot # e => i = get_index(tot)
      /\ \A a : Plain(F \cup {b}, a) => Plain(H, a)
    <2>1. Reentry(e, F, z, b, P, N, base, tot, z2, m3)
        BY <1>7, Reenters
    <2> QED BY <2>1 DEF Reentry
<1> HIDE DEF i, foot, behind
<1>9. Puts(m3, m4, i, base)
    <2>1. CASE base + tot = e
        BY <1>1, <1>8, <2>1, FourStores
    <2>2. CASE base + tot # e
        BY <1>1, <1>8, <2>2, FourStores
    <2> QED BY <2>1, <2>2
<1>10. Linked(m4, ListOf(e, H, z2)) /\ \A a : Plain(H, a) => At(m4, a) = At(m3, a)
    <2> HIDE DEF G, H
    <2>1. Linked(m4, ListOf(e, H, z2)) /\ \A a : Plain(G \cup {base}, a) => At(m4, a) = At(m3, a)
        BY <1>8, <1>9, Placed
    <2> QED BY <2>1 DEF H
<1>11. \A a : Plain(F \cup {b}, a) => At(m4, a) = IF a = foot \/ a = base THEN tot + 2
                                                 ELSE IF a = b THEN v ELSE At(m, a)
    <2>1. \A a : Plain(F \cup {b}, a) => Plain(F, a)
        BY PlainLess
    <2>2. \A a : At(m0, a) = IF a = b THEN v ELSE At(m, a)
        BY AtPut
    <2> QED BY <1>5, <1>6, <1>8, <1>10, <2>1, <2>2
<1>12. \A a : a # behind => At(m5, a) = At(m4, a)
    BY <1>1, AtPut DEF ClearPrev
<1>13. behind # b /\ behind # base /\ behind # foot /\ foot # base /\ foot # b
    BY <1>3 DEF behind, foot
<1>14. At(m5, behind) = IF behind = e THEN 0 ELSE z[behind] + 1
    <2>1. At(m4, behind) = At(m, behind)
        BY <1>4, <1>11, <1>13
    <2>2. CASE behind = e
        <3>1. At(m, e) = 0
            <4>1. Words(m, e, A, F, z)
                BY DEF Heap
            <4> QED BY <4>1 DEF Words
        <3> QED BY <1>1, <2>1, <2>2, <3>1, Epilogue DEF ClearPrev
    <2>3. CASE behind # e
        <3>1. behind \in A
            BY <1>3, <2>3 DEF behind
        <3>2. HeaderFacts(m, e, A, F, z)
            BY Headers
        <3>3. /\ At(m, behind) = z[behind] + 1 + Behind(F, z, behind)
              /\ PrevAllocd(At(m, behind)) <=> Behind(F, z, behind) = 2
              /\ NoPrev(At(m, behind)) = z[behind] + 1
            BY <3>1, <3>2 DEF HeaderFacts, Own
        <3>4. z[behind] \in Nat
            BY <1>2, <3>1 DEF Facts
        <3>5. CASE Behind(F, z, behind) = 2
            <4>1. m5 = Put(m4, behind, z[behind] + 1)
                BY <1>1, <2>1, <3>3, <3>5 DEF ClearPrev
            <4> QED BY <2>3, <4>1, AtPut
        <3>6. CASE Behind(F, z, behind) = 0
            <4>1. m5 = m4
                BY <1>1, <2>1, <3>3, <3>6 DEF ClearPrev
            <4> QED BY <2>1, <2>3, <3>3, <3>4, <3>6, <4>1
        <3> QED BY <3>5, <3>6, Behinds
    <2> QED BY <2>2, <2>3
<1>15. Linked(m5, ListOf(e, H, z2))
    <2>1. \A a : ~Plain(H, a) => At(m5, a) = At(m4, a)
        BY <1>4, <1>8, <1>12
    <2>2. Apart(H) /\ ListOf(e, H, z2) \in [H -> Lists]
        BY <1>8 DEF Enters
    <2> HIDE DEF H
    <2> QED BY <1>10, <2>1, <2>2, PlainLinked
<1>16. Settled(m, m5, e, F, z, b, base, tot)
    <2>1. At(m5, base) = tot + 2 /\ At(m5, foot) = tot + 2
        BY <1>4, <1>11, <1>12, <1>13
    <2>2. ASSUME NEW a, Plain(F \cup {b}, a), a \notin {b, base, foot, behind} PROVE At(m5, a) = At(m, a)
        BY <1>11, <1>12, <2>2
    <2> QED BY <1>14, <2>1, <2>2 DEF Settled, foot, behind
<1> QED BY <1>15, <1>16

\* What sf_free leaves.
Frees(s, A, z, b, t) ==
    /\ Record(t) /\ t.end = s.end /\ t.errno = s.errno /\ t.ret = s.ret
    /\ \E F2, z2 : /\ Heap(t.mem, t.end - 8, A \ {b}, F2, z2) /\ \A x \in A \ {b} : z2[x] = z[x]
                   /\ Keeps(s.mem, t.mem, A, z, A \ {b}, z2)

LEMMA Freed ==
    ASSUME NEW s, Record(s), NEW A, NEW F, NEW z, NEW b \in A, Heap(s.mem, s.end - 8, A, F, z)
    PROVE  Frees(s, A, z, b, sf_free(s, b + 8))
<1> DEFINE e == s.end - 8
           t == sf_free(s, b + 8)
<1>0. Heap(s.mem, e, A, F, z) /\ s.end - 8 = e
    OBVIOUS
<1>1. PICK P, N, base, tot, z2 : Merges(e, A, F, z, b, P, N, base, tot, z2)
    BY MergesExist
<1>2. b \in Nat /\ (b + 8) - 8 = b
    <2>1. Facts(e, A, F, z)
        BY HeapFacts
    <2>2. b \in Nat
        BY <2>1 DEF Facts
    <2> QED BY <2>2
<1> DEFINE m0 == Put(s.mem, b, At(s.mem, b) - 1)
           w == Merge(s, m0, b)
           m1 == UnlinkPrev(m0, w)
           m2 == UnlinkNext(m1, w)
           m3 == Writes(m2, << <<base, tot + 2>>, <<base + tot - 8, tot + 2>> >>)
           m4 == IF base + tot = e THEN OnlyWild(m3, base) ELSE PushFree(m3, get_index(tot), base)
           m5 == ClearPrev(m4, base + tot)
<1>3. t = [s EXCEPT !.mem = ClearPrev(Relink(m2, w, EndsHeap(s, m1, w)), w.base + w.tot)]
    BY <1>2 DEF sf_free
<1>4. /\ w.base = base /\ w.tot = tot /\ w.next = b + z[b] /\ w.head = tot + 2
      /\ w.prevFree <=> P # {}
      /\ w.nextFree <=> N # {}
    <2>1. WorkedOut(Merge(s, m0, b), b + z[b], P, N, base, tot)
        <3>1. m0 = Put(s.mem, b, At(s.mem, b) - 1)
            OBVIOUS
        <3> HIDE DEF m0, e
        <3> QED BY <1>0, <1>1, <3>1, MergeIs
    <2> QED BY <2>1 DEF WorkedOut
<1> HIDE DEF w, m0
<1>5. Unlinks(m0, b, b + z[b], P, N, base, m1, m2)
    BY <1>4 DEF Unlinks, UnlinkPrev, UnlinkNext
<1>6. EndsHeap(s, m1, w) <=> base + tot = e
    <2>1. N # {} => (b + z[b] = First(m1, 7) <=> base + tot = e)
        <3> DEFINE v == At(s.mem, b) - 1
        <3>1. m0 = Put(s.mem, b, v)
            BY DEF m0
        <3> HIDE DEF m1, m2, e, v
        <3>2. /\ Heap(s.mem, e, A, F, z) /\ Merges(e, A, F, z, b, P, N, base, tot, z2)
              /\ Unlinks(m0, b, b + z[b], P, N, base, m1, m2)
            BY <1>0, <1>1, <1>5
        <3>3. BothOut(m0, m1, m2, e, F, z, b + z[b], P, N, base, tot)
            BY <3>1, <3>2, UnlinkBoth
        <3> QED BY <3>3 DEF BothOut
    <2> QED BY <1>4, <2>1 DEF EndsHeap
<1> HIDE DEF m1, m2
<1>7. Relink(m2, w, EndsHeap(s, m1, w)) = m4
    BY <1>4, <1>6 DEF Relink
<1>8. Relinked(m2, e, base, tot, m3, m4, m5)
    BY DEF Relinked
<1>9. t = [s EXCEPT !.mem = m5]
    BY <1>3, <1>4, <1>7
<1> HIDE DEF m3, m4, m5, t
<1>10. /\ Linked(m5, ListOf(e, (F \ (P \cup N)) \cup {base}, z2))
       /\ Settled(s.mem, m5, e, F, z, b, base, tot)
    <2>1. m0 = Put(s.mem, b, At(s.mem, b) - 1) /\ Heap(s.mem, e, A, F, z)
        BY DEF m0
    <2> HIDE DEF e
    <2> QED BY <1>1, <1>5, <1>8, <2>1, FreeSettles
<1>11. /\ Heap(m5, e, A \ {b}, (F \ (P \cup N)) \cup {base}, z2)
       /\ Keeps(s.mem, m5, A, z, A \ {b}, z2)
    BY <1>1, <1>10, SettledHeap
<1>12. Record(t) /\ t.mem = m5 /\ t.end = s.end /\ t.errno = s.errno /\ t.ret = s.ret
    BY <1>9 DEF Record
<1>13. \A x \in A \ {b} : z2[x] = z[x]
    BY <1>1 DEF Merges
<1> QED BY <1>11, <1>12, <1>13 DEF Frees, t

-----------------------------------------------------------------------------
(* Shrinking.  The end of an allocated block is given back: as if it were an *)
(* allocated block of its own, which is then freed.                          *)
Cuts(m, e, A, F, z, b, n, c, z1, mid) ==
    /\ Tight(m, e, A, F, z) /\ b \in A /\ b + z[b] # e
    /\ n \in Nat /\ n >= 32 /\ n % 16 = 0 /\ n + 32 <= z[b] /\ c = b + n
    /\ z1 \in [(A \cup F) \cup {c} -> Nat] /\ z1[b] = n /\ z1[c] = z[b] - n
    /\ \A x \in A \cup F : x # b => z1[x] = z[x]
    /\ mid = Writes(m, << <<b, n + 3>>, <<c, z[b] - n + 3>> >>)

LEMMA CutTight ==
    ASSUME NEW m, NEW e, NEW A, NEW F, NEW z, NEW b, NEW n, NEW c, NEW z1, NEW mid,
           Cuts(m, e, A, F, z, b, n, c, z1, mid)
    PROVE  Tight(mid, e, A \cup {c}, F, z1) /\ c \notin A \cup F \cup {e}
<1>1. /\ Tight(m, e, A, F, z) /\ b \in A /\ b + z[b] # e
      /\ n \in Nat /\ n >= 32 /\ n % 16 = 0 /\ n + 32 <= z[b] /\ c = b + n
      /\ z1 \in [(A \cup F) \cup {c} -> Nat] /\ z1[b] = n /\ z1[c] = z[b] - n
      /\ \A x \in A \cup F : x # b => z1[x] = z[x]
    BY DEF Cuts
<1>2. \A a : At(mid, a) = IF a = c THEN z[b] - n + 3 ELSE IF a = b THEN n + 3 ELSE At(m, a)
    BY Writes2 DEF Cuts
<1>3. /\ Geometry(e, A \cup F, z) /\ A \cap F = {} /\ e + 8 <= Sentinel(0)
      /\ At(m, e) = 0 /\ \A x \in A : At(m, x) = z[x] + 3
      /\ \A x \in F : x + z[x] = e /\ At(m, x) = z[x] + 2 /\ At(m, e - 8) = z[x] + 2 /\ Paired(m, x)
      /\ \A i \in 0 .. 6 : Alone(m, i)
      /\ F = {} => Alone(m, Wild)
    BY <1>1 DEF Tight
<1>4. /\ e \in Nat /\ e \notin A \cup F
      /\ \A x \in A \cup F : x \in Nat /\ z[x] \in Nat /\ z[x] >= 32 /\ x + z[x] <= e
      /\ \A x, y \in A \cup F : x # y => x + z[x] <= y \/ y + z[y] <= x
    BY <1>3 DEF Geometry
<1>5. Geometry(e, (A \cup F) \cup {c}, z1) /\ c \notin A \cup F \cup {e}
    <2> DEFINE B == A \cup F
    <2>1. b \in B /\ Geometry(e, B, z) /\ z1 \in [B \cup {c} -> Nat] /\ \A x \in B : x # b => z1[x] = z[x]
        BY <1>1, <1>3
    <2> HIDE DEF B
    <2>2. Geometry(e, B \cup {c}, z1) /\ c \notin B \cup {e}
        BY <1>1, <2>1, SplitGeometry
    <2> QED BY <2>2 DEF B
<1>6. /\ b \in Nat /\ z[b] \in Nat /\ b + z[b] <= e /\ b < c /\ c < b + z[b] /\ b \notin F
      /\ (z[b] - n) + 3 = z1[c] + 3
    BY <1>1, <1>3, <1>4
<1>7. (A \cup {c}) \cap F = {} /\ Geometry(e, (A \cup {c}) \cup F, z1)
    <2>1. (A \cup {c}) \cup F = (A \cup F) \cup {c}
        OBVIOUS
    <2> QED BY <1>3, <1>5, <2>1
<1>8. At(mid, e) = 0 /\ \A x \in A \cup {c} : At(mid, x) = z1[x] + 3
    <2>1. e # b /\ e # c
        BY <1>1, <1>4, <1>5
    <2>2. At(mid, c) = z1[c] + 3
        BY <1>1, <1>2
    <2>3. ASSUME NEW x \in A PROVE At(mid, x) = z1[x] + 3
        <3>1. x # c /\ At(m, x) = z[x] + 3 /\ (x # b => z1[x] = z[x])
            BY <1>1, <1>3, <1>5
        <3> QED BY <1>1, <1>2, <3>1
    <2> QED BY <1>2, <1>3, <2>1, <2>2, <2>3
<1>9. ASSUME NEW x \in F
      PROVE  /\ x + z1[x] = e /\ At(mid, x) = z1[x] + 2 /\ At(mid, e - 8) = z1[x] + 2 /\ Paired(mid, x)
    <2>1. x # b /\ x # c /\ z1[x] = z[x] /\ x \in Nat /\ z[x] \in Nat /\ z[x] >= 32 /\ x + z[x] = e
        BY <1>1, <1>3, <1>4, <1>5, <1>6
    <2>2. b + z[b] <= x
        BY <1>1, <1>4, <1>6, <2>1
    <2>3. /\ e - 8 # b /\ e - 8 # c /\ x + 8 # b /\ x + 8 # c /\ x + 16 # b /\ x + 16 # c
        BY <1>1, <1>6, <2>1, <2>2
    <2>4. /\ Sentinel(Wild) + 8 # b /\ Sentinel(Wild) + 8 # c /\ Sentinel(Wild) + 16 # b /\ Sentinel(Wild) + 16 # c
        BY <1>1, <1>3, <1>4, <1>6, SentinelWords
    <2>5. Paired(mid, x)
        <3>1. Paired(m, x)
            BY <1>3
        <3> QED BY <1>2, <2>3, <2>4, <3>1 DEF Paired, NextLink, PrevLink
    <2> QED BY <1>2, <1>3, <2>1, <2>3, <2>5
<1>10. \A i \in Lists : Alone(m, i) => Alone(mid, i)
    <2>1. ASSUME NEW i \in Lists, Alone(m, i) PROVE Alone(mid, i)
        <3>1. Sentinel(i) + 8 # b /\ Sentinel(i) + 8 # c /\ Sentinel(i) + 16 # b /\ Sentinel(i) + 16 # c
            BY <1>1, <1>3, <1>4, <1>6, SentinelWords
        <3> QED BY <1>2, <2>1, <3>1 DEF Alone, NextLink, PrevLink
    <2> QED BY <2>1
<1>11. (\A i \in 0 .. 6 : Alone(mid, i)) /\ (F = {} => Alone(mid, Wild))
    <2>1. \A i \in 0 .. 6 : i \in Lists
        BY DEF Lists
    <2> QED BY <1>3, <1>10, <2>1, SentinelWords
<1>12. Tight(mid, e, A \cup {c}, F, z1)
    BY <1>3, <1>7, <1>8, <1>9, <1>11 DEF Tight
<1> QED BY <1>5, <1>12

\* The end of the block, at c, joins the free block behind it.
GivesBack(e, A, F, z, b, n, c, z1) ==
    \E N, tot, z2 :
        /\ Merges(e, A \cup {c}, F, z1, c, {}, N, c, tot, z2)
        /\ N = {x \in F : x = b + z[b]}
        /\ tot = z[b] - n + (IF b + z[b] \in F THEN z[b + z[b]] ELSE 0)

LEMMA CutMerges ==
    ASSUME NEW m, NEW e, NEW A, NEW F, NEW z, NEW b, NEW n, NEW c, NEW z1, NEW mid,
           Cuts(m, e, A, F, z, b, n, c, z1, mid)
    PROVE  GivesBack(e, A, F, z, b, n, c, z1)
<1>1. Tight(mid, e, A \cup {c}, F, z1) /\ c \notin A \cup F \cup {e}
    BY CutTight
<1>2. Heap(mid, e, A \cup {c}, F, z1)
    BY <1>1, TightHeap
<1>3. PICK P, N, base, tot, z2 : Merges(e, A \cup {c}, F, z1, c, P, N, base, tot, z2)
    BY <1>2, MergesExist
<1>4. /\ P = {x \in F : x + z1[x] = c} /\ N = {x \in F : c + z1[c] = x}
      /\ (P = {} /\ base = c) \/ base \in P
      /\ tot = z1[c] + (IF P = {} THEN 0 ELSE z1[base]) + (IF N = {} THEN 0 ELSE z1[c + z1[c]])
    BY <1>3 DEF Merges
<1>5. P = {} /\ base = c
    <2>1. \A x \in F : x + z1[x] = e
        BY <1>1 DEF Tight
    <2> QED BY <1>1, <1>4, <2>1
<1>6. /\ n \in Nat /\ n + 32 <= z[b] /\ c = b + n /\ z1[c] = z[b] - n /\ b \in A
      /\ \A x \in A \cup F : x # b => z1[x] = z[x]
    BY DEF Cuts
<1>7. b \in Nat /\ z[b] \in Nat /\ A \cap F = {} /\ \A x \in F : x \in Nat /\ z[x] \in Nat
    <2>1. Geometry(e, A \cup F, z) /\ A \cap F = {}
        BY DEF Cuts, Tight
    <2> QED BY <1>6, <2>1 DEF Geometry
<1> DEFINE x == b + z[b]
<1>8. c + z1[c] = x /\ z1[c] \in Nat
    BY <1>6, <1>7
<1> HIDE DEF x
<1>9. N = {y \in F : y = x} /\ (N = {} <=> x \notin F)
    BY <1>4, <1>8
<1>10. tot = z1[c] + (IF x \in F THEN z[x] ELSE 0)
    <2>1. tot = z1[c] + 0 + (IF N = {} THEN 0 ELSE z1[x])
        BY <1>4, <1>5, <1>8
    <2>2. CASE x \in F
        <3>1. x # b
            BY <1>6, <1>7, <2>2
        <3>2. z1[x] = z[x] /\ z[x] \in Nat
            BY <1>6, <1>7, <2>2, <3>1
        <3> QED BY <1>8, <1>9, <2>1, <2>2, <3>2
    <2>3. CASE x \notin F
        BY <1>8, <1>9, <2>1, <2>3
    <2> QED BY <2>2, <2>3
<1> QED BY <1>3, <1>5, <1>6, <1>9, <1>10 DEF x, GivesBack

LEMMA ShrinkSettles ==
    ASSUME NEW m, NEW e, NEW A, NEW F, NEW z, NEW b, NEW n, NEW c, NEW z1, NEW mid,
           Cuts(m, e, A, F, z, b, n, c, z1, mid), NEW N, NEW tot, NEW z2,
           Merges(e, A \cup {c}, F, z1, c, {}, N, c, tot, z2),
           N = {x \in F : x = b + z[b]}, tot = z[b] - n + (IF b + z[b] \in F THEN z[b + z[b]] ELSE 0),
           NEW mf, mf = ShrunkRest(Cut(m, b, z[b], n), b + z[b], c)
    PROVE  /\ Linked(mf, ListOf(e, (F \ ({} \cup N)) \cup {c}, z2))
           /\ Settled(mid, mf, e, F, z1, c, c, tot)
<1> DEFINE x == b + z[b]
           G == F \ ({} \cup N)
           H == G \cup {c}
           cut == Cut(m, b, z[b], n)
           m1 == Writes(m, << <<b, n + 1 + 2 * Bit(At(m, b), 2)>>, <<c, z[b] - n>> >>)
           rest == WithPrev(At(cut.mem, c) + cut.ext)
           m3 == Writes(cut.mem, << <<c, rest>>, <<c + (x - c + cut.ext) - 8, rest>> >>)
<1>1. /\ Tight(m, e, A, F, z) /\ b \in A /\ x # e
      /\ n \in Nat /\ n >= 32 /\ n % 16 = 0 /\ n + 32 <= z[b] /\ c = b + n
      /\ z1[b] = n /\ z1[c] = z[b] - n
      /\ \A y \in A \cup F : y # b => z1[y] = z[y]
      /\ mid = Writes(m, << <<b, n + 3>>, <<c, z[b] - n + 3>> >>)
    BY DEF Cuts
<1>2. Tight(mid, e, A \cup {c}, F, z1) /\ c \notin A \cup F \cup {e} /\ Heap(mid, e, A \cup {c}, F, z1)
    BY CutTight, TightHeap
<1>3. /\ Geometry(e, A \cup F, z) /\ A \cap F = {} /\ e + 8 <= Sentinel(0)
      /\ At(m, e) = 0 /\ \A y \in A : At(m, y) = z[y] + 3
      /\ \A y \in F : y + z[y] = e /\ At(m, y) = z[y] + 2 /\ At(m, e - 8) = z[y] + 2 /\ Paired(m, y)
    BY <1>1 DEF Tight
<1>4. /\ e \in Nat /\ e \notin A \cup F
      /\ \A y \in A \cup F : y \in Nat /\ z[y] \in Nat /\ z[y] >= 32 /\ z[y] % 16 = 0 /\ y + z[y] <= e
      /\ \A y \in A \cup F : y + z[y] \in A \cup F \cup {e}
    BY <1>3 DEF Geometry
<1>5. /\ b \in Nat /\ z[b] \in Nat /\ z[b] % 16 = 0 /\ c \in Nat /\ b < c /\ c < x /\ x \in A \cup F /\ x \in Nat
      /\ c + z1[c] = x /\ z1[c] \in Nat /\ z1[c] >= 32 /\ x + 8 <= Sentinel(0)
    <2>1. b \in Nat /\ z[b] \in Nat /\ z[b] % 16 = 0 /\ x \in A \cup F /\ x <= e
        BY <1>1, <1>4
    <2>2. n \in Nat /\ n >= 32 /\ n + 32 <= z[b] /\ c = b + n /\ z1[c] = z[b] - n
          /\ e \in Nat /\ e + 8 <= Sentinel(0) /\ Sentinel(0) \in Nat
        BY <1>1, <1>3, <1>4, SentinelWords
    <2> QED BY <2>1, <2>2
<1>6. MergedFacts(e, A \cup {c}, F, z1, c, {}, N, c, tot, z2)
    BY <1>2, Merging
<1>7. tot \in Nat /\ tot % 16 = 0 /\ tot >= 32
    BY <1>6 DEF MergedFacts
<1>8. /\ Apart(F \cup {c})
      /\ \A y \in (A \cup {c}) \cup F \cup {e} : Plain(F \cup {c}, y)
      /\ \A y \in F \cup {c} : Plain(F \cup {c}, y + z1[y] - 8)
    <2> DEFINE A1 == A \cup {c}
    <2>1. c \in A1 /\ Heap(mid, e, A1, F, z1)
        BY <1>2
    <2> HIDE DEF A1
    <2>2. /\ Apart(F \cup {c})
          /\ \A y \in A1 \cup F \cup {e} : Plain(F \cup {c}, y)
          /\ \A y \in F \cup {c} : Plain(F \cup {c}, y + z1[y] - 8)
        BY <2>1, PlainWords, Zenon
    <2> QED BY <2>2 DEF A1
<1>9. \A a : At(m1, a) = IF a = c THEN z[b] - n ELSE IF a = b THEN n + 3 ELSE At(m, a)
    <2>1. n + 1 + 2 * Bit(At(m, b), 2) = n + 3
        <3>1. At(m, b) = z[b] + 1 + 2 /\ 1 \in {0, 1} /\ 2 \in {0, 2}
            BY <1>1, <1>3, <1>5
        <3> DEFINE k == z[b]
                   hd == At(m, b)
        <3> HIDE DEF k, hd
        <3>2. hd = k + 1 + 2 /\ k \in Nat /\ k % 16 = 0
            BY <1>5, <3>1 DEF hd, k
        <3>3. 2 * Bit(hd, 2) = 2
            BY <3>1, <3>2, Flags
        <3> QED BY <1>1, <3>3 DEF hd
    <2> QED BY <2>1, Writes2
<1>10. \A a : At(mid, a) = IF a = c THEN z[b] - n + 3 ELSE IF a = b THEN n + 3 ELSE At(m, a)
    BY <1>1, Writes2
<1>11. cut = IF Allocd(At(m1, x)) THEN [mem |-> ClearPrev(m1, x), ext |-> 0]
                                  ELSE [mem |-> m1, ext |-> NoPrev(At(m1, x))]
    BY <1>1 DEF Cut
<1>12. mf = PlaceRest(m3, cut, x, c, x - c + cut.ext)
    BY DEF ShrunkRest
<1>13. At(m1, x) = At(m, x) /\ x # b /\ x # c
    BY <1>1, <1>5, <1>9
<1> HIDE DEF cut, m1, rest, m3, x
<1> DEFINE foot == c + tot - 8
           i == Class(e, z2, c)
           Entry(mm) == Linked(mm, ListOf(e, G, z1))
                        => /\ Enters(mm, G, ListOf(e, G, z1), i, c, ListOf(e, H, z2))
                           /\ c + tot = e => i = Wild /\ First(mm, Wild) = Sentinel(Wild)
                           /\ c + tot # e => i = get_index(tot)
                           /\ \A a : Plain(F \cup {c}, a) => Plain(H, a)
<1>14. ASSUME NEW mm PROVE Entry(mm)
    <2>1. ASSUME Linked(mm, ListOf(e, G, z1)) PROVE Reentry(e, F, z1, c, {}, N, c, tot, z2, mm)
        BY <1>2, <2>1, Reenters
    <2> QED BY <2>1 DEF Reentry
\* What is left to show once the four links are stored.
<1>15. ASSUME NEW m4, Linked(m4, ListOf(e, G, z1)), mf = PushSplit(m4, i, c),
              At(m4, c) = tot + 2, At(m4, foot) = tot + 2,
              At(m4, c + tot) = IF c + tot = e THEN 0 ELSE z1[c + tot] + 1,
              Plain(F \cup {c}, c), Plain(F \cup {c}, foot), Plain(F \cup {c}, c + tot),
              \A a : Plain(F \cup {c}, a) /\ a \notin {c, foot, c + tot} => At(m4, a) = At(mid, a)
       PROVE  Linked(mf, ListOf(e, H, z2)) /\ Settled(mid, mf, e, F, z1, c, c, tot)
    <2> HIDE DEF i, G, H
    <2>1. /\ Enters(m4, G, ListOf(e, G, z1), i, c, ListOf(e, H, z2))
          /\ \A a : Plain(F \cup {c}, a) => Plain(H, a)
        BY <1>14, <1>15
    <2>2. Puts(m4, mf, i, c)
        BY <1>15, <2>1, FourStores
    <2>3. Linked(mf, ListOf(e, H, z2)) /\ \A a : Plain(G \cup {c}, a) => At(mf, a) = At(m4, a)
        <3>1. Enters(m4, G, ListOf(e, G, z1), i, c, ListOf(e, H, z2))
            BY <2>1
        <3>2. Linked(mf, ListOf(e, H, z2))
            BY <2>2, <3>1, Placed, Zenon
        <3>3. \A a : Plain(G \cup {c}, a) => At(mf, a) = At(m4, a)
            BY <2>2, <3>1, Placed
        <3> QED BY <3>2, <3>3
    <2>4. \A a : Plain(F \cup {c}, a) => At(mf, a) = At(m4, a)
        BY <2>1, <2>3 DEF H
    <2> HIDE DEF foot
    <2>5. /\ At(mf, c) = tot + 2 /\ At(mf, foot) = tot + 2
          /\ At(mf, c + tot) = IF c + tot = e THEN 0 ELSE z1[c + tot] + 1
        BY <1>15, <2>4
    <2>6. \A a : Plain(F \cup {c}, a) /\ a \notin {c, foot, c + tot} => At(mf, a) = At(mid, a)
        BY <1>15, <2>4
    <2> QED BY <2>3, <2>5, <2>6 DEF Settled, foot
<1> HIDE DEF Entry
<1>16. /\ N = {y \in F : y = x} /\ tot = z1[c] + (IF x \in F THEN z[x] ELSE 0) /\ z1[c] = z[b] - n
       /\ c + tot - 8 = foot /\ c # b /\ x \in Nat
    BY <1>1, <1>5 DEF x
<1>17. Linked(mid, ListOf(e, F, z1)) /\ ListOf(e, F, z1) \in [F -> Lists]
    <2>1. Facts(e, A \cup {c}, F, z1)
        BY <1>2, HeapFacts
    <2> QED BY <1>2, <2>1 DEF Heap, Facts
<1>18. Wild = 7 /\ \A j \in Lists : ~Plain(F \cup {c}, Sentinel(j) + 8) /\ ~Plain(F \cup {c}, Sentinel(j) + 16)
    BY DEF Plain, Nodes, Wild
<1>19. CASE x \in A
    <2>1. x \notin F /\ N = {} /\ tot = z1[c] /\ G = F /\ c + tot = x /\ x # e /\ z1[x] = z[x]
        <3>1. x \notin F /\ x # b /\ x # e
            BY <1>3, <1>4, <1>13, <1>19
        <3>2. N = {} /\ tot = z1[c]
            BY <1>5, <1>16, <3>1
        <3> QED BY <1>1, <1>5, <1>19, <3>1, <3>2
    <2>2. Plain(F \cup {c}, c) /\ Plain(F \cup {c}, foot) /\ Plain(F \cup {c}, x)
        <3>1. c + z1[c] - 8 = foot
            BY <2>1
        <3>2. c \in F \cup {c} /\ c \in (A \cup {c}) \cup F \cup {e} /\ x \in (A \cup {c}) \cup F \cup {e}
            BY <1>19
        <3> HIDE DEF foot
        <3> QED BY <1>8, <3>1, <3>2
    <2>3. cut.mem = Put(m1, x, z[x] + 1) /\ cut.ext = 0
        <3>1. At(m1, x) = z[x] + 1 + 2 /\ 1 \in {0, 1} /\ 2 \in {0, 2} /\ z[x] \in Nat /\ z[x] % 16 = 0
            BY <1>3, <1>4, <1>13, <1>19
        <3>2. Allocd(At(m1, x)) /\ PrevAllocd(At(m1, x)) /\ NoPrev(At(m1, x)) = z[x] + 1
            BY <3>1, Flags
        <3> QED BY <1>11, <3>2 DEF ClearPrev
    <2>4. \A a : At(cut.mem, a) = IF a = x THEN z[x] + 1 ELSE At(m1, a)
        BY <2>3, AtPut
    <2>5. rest = tot + 2
        <3>1. At(cut.mem, c) + cut.ext = tot
            BY <1>7, <1>9, <1>13, <1>16, <2>1, <2>3, <2>4
        <3> QED BY <1>7, <3>1, FreeWord DEF rest
    <2>6. c + (x - c + cut.ext) - 8 = foot /\ x - c + cut.ext = tot
        BY <1>5, <1>7, <2>1, <2>3
    <2>7. m3 = Writes(cut.mem, << <<c, tot + 2>>, <<foot, tot + 2>> >>)
        BY <2>5, <2>6 DEF m3
    <2>8. \A a : At(m3, a) = IF a = foot THEN tot + 2 ELSE IF a = c THEN tot + 2
                             ELSE IF a = x THEN z[x] + 1 ELSE At(m1, a)
        BY <2>4, <2>7, Writes2
    <2>9. foot # c /\ foot # x /\ x # c
        BY <1>5, <1>7, <2>1
    <2> HIDE DEF foot
    <2>10. At(m3, c) = tot + 2 /\ At(m3, foot) = tot + 2 /\ At(m3, x) = z1[x] + 1
        BY <2>1, <2>8, <2>9
    <2>11. \A a : a \notin {c, foot, x} => At(m3, a) = At(mid, a)
        BY <1>9, <1>10, <2>8
    <2>12. Linked(m3, ListOf(e, F, z1))
        <3>1. Plain(F, c) /\ Plain(F, foot) /\ Plain(F, x) /\ Apart(F)
            <4>1. F \subseteq F \cup {c}
                OBVIOUS
            <4> QED BY <1>8, <2>2, <4>1, PlainLess DEF Apart
        <3>2. \A a : ~Plain(F, a) => At(m3, a) = At(mid, a)
            BY <2>11, <3>1
        <3> QED BY <1>17, <3>1, <3>2, PlainLinked
    <2>13. mf = PushSplit(m3, get_index(tot), c)
        <3>1. ~(cut.ext > 0)
            BY <2>3
        <3> QED BY <1>12, <2>6, <3>1 DEF PlaceRest
    <2>14. i = get_index(tot)
        <3>1. Entry(m3) /\ c + tot # e /\ Linked(m3, ListOf(e, G, z1))
            BY <1>14, <2>1, <2>12
        <3> HIDE DEF i
        <3> QED BY <3>1 DEF Entry
    <2> HIDE DEF i, G, H
    <2>15. /\ Linked(m3, ListOf(e, G, z1)) /\ mf = PushSplit(m3, i, c)
           /\ At(m3, c) = tot + 2 /\ At(m3, foot) = tot + 2
           /\ At(m3, c + tot) = IF c + tot = e THEN 0 ELSE z1[c + tot] + 1
           /\ Plain(F \cup {c}, c) /\ Plain(F \cup {c}, foot) /\ Plain(F \cup {c}, c + tot)
           /\ \A a : Plain(F \cup {c}, a) /\ a \notin {c, foot, c + tot} => At(m3, a) = At(mid, a)
        BY <2>1, <2>2, <2>10, <2>11, <2>12, <2>13, <2>14
    <2>16. Linked(mf, ListOf(e, H, z2)) /\ Settled(mid, mf, e, F, z1, c, c, tot)
        BY <1>15, <2>15
    <2> QED BY <2>16 DEF H, G
<1>20. CASE x \in F
    <2>1. F = {x} /\ N = {x} /\ G = {} /\ tot = z1[c] + z[x] /\ c + tot = e /\ x + z[x] = e
          /\ z1[x] = z[x] /\ z[x] \in Nat
        <3>1. F = {x}
            <4>1. ASSUME NEW y \in F PROVE y = x
                <5>1. /\ y + z[y] = e /\ x + z[x] = e /\ y \in A \cup F /\ x \in A \cup F
                    BY <1>3, <1>20, <4>1
                <5>2. y # x => y + z[y] <= x \/ x + z[x] <= y
                    BY <1>3, <5>1 DEF Geometry
                <5> QED BY <1>4, <5>1, <5>2
            <4> QED BY <1>20, <4>1
        <3>2. x # b /\ x + z[x] = e /\ z[x] \in Nat
            BY <1>3, <1>4, <1>13, <1>20
        <3>3. N = {x} /\ tot = z1[c] + z[x] /\ z1[x] = z[x]
            BY <1>1, <1>16, <1>20, <3>2
        <3>4. G = {}
            BY <3>1, <3>3
        <3>5. c + tot = e
            BY <1>5, <3>2, <3>3
        <3> QED BY <3>1, <3>2, <3>3, <3>4, <3>5
    <2>2. Plain(F \cup {c}, c) /\ Plain(F \cup {c}, foot) /\ Plain(F \cup {c}, e)
        <3>1. x + z1[x] - 8 = foot
            BY <1>5, <1>7, <2>1
        <3>2. x \in F \cup {c} /\ c \in (A \cup {c}) \cup F \cup {e} /\ e \in (A \cup {c}) \cup F \cup {e}
            BY <1>20
        <3> HIDE DEF foot
        <3> QED BY <1>8, <3>1, <3>2
    <2>3. cut.mem = m1 /\ cut.ext = z[x] /\ z[x] \in Nat /\ z[x] >= 32
        <3>1. At(m1, x) = z[x] + 2 /\ z[x] \in Nat /\ z[x] % 16 = 0 /\ z[x] >= 32
            BY <1>3, <1>4, <1>13, <1>20
        <3>2. ~Allocd(At(m1, x)) /\ NoPrev(At(m1, x)) = z[x]
            BY <3>1, FreeWord
        <3> QED BY <1>11, <3>1, <3>2
    <2>4. rest = tot + 2
        <3>1. At(cut.mem, c) + cut.ext = tot
            BY <1>9, <1>16, <2>1, <2>3
        <3> QED BY <1>7, <3>1, FreeWord DEF rest
    <2>5. c + (x - c + cut.ext) - 8 = foot
        BY <1>5, <2>1, <2>3
    <2>6. m3 = Writes(m1, << <<c, tot + 2>>, <<foot, tot + 2>> >>)
        BY <2>3, <2>4, <2>5 DEF m3
    <2>7. \A a : At(m3, a) = IF a = foot THEN tot + 2 ELSE IF a = c THEN tot + 2 ELSE At(m1, a)
        BY <2>6, Writes2
    <2>8. \A a : a \notin {c, foot} => At(m3, a) = At(mid, a)
        BY <1>9, <1>10, <2>7
    <2> DEFINE m4 == NoWild(m3)
               s7 == Sentinel(Wild)
    <2>9. \A a : At(m4, a) = IF a = s7 + 16 THEN s7 ELSE IF a = s7 + 8 THEN s7 ELSE At(m3, a)
        BY <1>18, Writes2 DEF NoWild
    <2>10. foot # c /\ e # c /\ e # foot /\ e # b
        BY <1>1, <1>4, <1>5, <1>7, <1>16, <2>1
    <2> HIDE DEF m4, foot
    <2>11. ~Plain(F \cup {c}, s7 + 8) /\ ~Plain(F \cup {c}, s7 + 16)
        BY <1>18, SentinelWords
    <2>12. x = First(cut.mem, 7)
        <3>1. Paired(mid, x)
            BY <1>2, <1>20 DEF Tight
        <3>2. s7 + 8 # c
            BY <2>2, <2>11
        <3>3. At(mid, s7 + 8) = x
            BY <3>1 DEF Paired, NextLink
        <3>4. At(m1, s7 + 8) = x
            BY <1>9, <1>10, <3>2, <3>3
        <3> QED BY <1>18, <2>3, <3>4 DEF First, NextLink
    <2>13. mf = PushSplit(m4, 7, c)
        <3>1. cut.ext > 0
            BY <2>3
        <3> QED BY <1>12, <2>12, <3>1 DEF PlaceRest, m4
    <2>14. Linked(m4, ListOf(e, G, z1))
        <3>1. \A j \in 0 .. 6 : Alone(m4, j)
            <4>1. ASSUME NEW j \in 0 .. 6 PROVE Alone(m4, j)
                <5>1. j \in Lists /\ Alone(mid, j) /\ Sentinel(j) + 24 <= s7 /\ Sentinel(j) \in Nat /\ s7 \in Nat
                    <6>1. j \in Lists /\ Sentinel(j) + 24 <= s7
                        BY DEF Lists, Sentinel, Wild
                    <6> QED BY <1>2, <6>1, SentinelWords DEF Tight
                <5>2. Sentinel(j) + 8 \notin {c, foot} /\ Sentinel(j) + 16 \notin {c, foot}
                    BY <1>18, <2>2, <5>1
                <5>3. /\ Sentinel(j) + 8 # s7 + 8 /\ Sentinel(j) + 8 # s7 + 16
                      /\ Sentinel(j) + 16 # s7 + 8 /\ Sentinel(j) + 16 # s7 + 16
                    BY <5>1
                <5> HIDE DEF s7
                <5>4. At(m4, Sentinel(j) + 8) = At(mid, Sentinel(j) + 8) /\ At(m4, Sentinel(j) + 16) = At(mid, Sentinel(j) + 16)
                    BY <2>8, <2>9, <5>2, <5>3
                <5> QED BY <5>1, <5>4 DEF Alone, NextLink, PrevLink
            <4> QED BY <4>1
        <3>2. Alone(m4, Wild)
            BY <2>9 DEF Alone, NextLink, PrevLink
        <3>3. ListOf(e, {}, z1) \in [{} -> Lists] /\ Apart({})
            BY DEF ListOf, Apart
        <3>4. Linked(m4, ListOf(e, {}, z1))
            BY <3>1, <3>2, <3>3, TightRings
        <3> QED BY <2>1, <3>4
    <2>15. i = Wild
        <3>1. Entry(m4) /\ c + tot = e /\ Linked(m4, ListOf(e, G, z1))
            BY <1>14, <2>1, <2>14
        <3> HIDE DEF i
        <3> QED BY <3>1 DEF Entry
    <2>16. \A a : Plain(F \cup {c}, a) => At(m4, a) = At(m3, a)
        BY <2>9, <2>11
    <2>17. At(m4, c) = tot + 2 /\ At(m4, foot) = tot + 2 /\ At(m4, e) = 0
        BY <1>3, <1>9, <2>2, <2>7, <2>10, <2>16
    <2> HIDE DEF i, G, H, s7
    <2>18. /\ Linked(m4, ListOf(e, G, z1)) /\ mf = PushSplit(m4, i, c)
           /\ At(m4, c) = tot + 2 /\ At(m4, foot) = tot + 2
           /\ At(m4, c + tot) = IF c + tot = e THEN 0 ELSE z1[c + tot] + 1
           /\ Plain(F \cup {c}, c) /\ Plain(F \cup {c}, foot) /\ Plain(F \cup {c}, c + tot)
           /\ \A a : Plain(F \cup {c}, a) /\ a \notin {c, foot, c + tot} => At(m4, a) = At(mid, a)
        BY <1>18, <2>1, <2>2, <2>8, <2>13, <2>14, <2>15, <2>16, <2>17
    <2>19. Linked(mf, ListOf(e, H, z2)) /\ Settled(mid, mf, e, F, z1, c, c, tot)
        BY <1>15, <2>18
    <2> QED BY <2>19 DEF H, G
<1> QED BY <1>5, <1>19, <1>20

\* What shrinking leaves.
Shrinks(s, A, z, b, n, t) ==
    /\ Record(t) /\ t.end = s.end /\ t.errno = s.errno /\ t.ret = b + 8
    /\ \E F2, z2 : /\ Heap(t.mem, t.end - 8, A, F2, z2) /\ z2[b] = n /\ \A x \in A \ {b} : z2[x] = z[x]
                   /\ Keeps(s.mem, t.mem, A, z, A, z2)

LEMMA Shrunk ==
    ASSUME NEW s, Record(s), NEW A, NEW F, NEW z, Tight(s.mem, s.end - 8, A, F, z),
           NEW b \in A, b + z[b] # s.end - 8,
           NEW n \in Nat, n >= 32, n % 16 = 0, n + 32 <= z[b]
    PROVE  Shrinks(s, A, z, b, n, split_block_alloc(s, b + 8, n))
<1> DEFINE e == s.end - 8
           m == s.mem
           c == b + n
           z1 == [x \in (A \cup F) \cup {c} |-> IF x = c THEN z[b] - n ELSE IF x = b THEN n ELSE z[x]]
           mid == Writes(m, << <<b, n + 3>>, <<c, z[b] - n + 3>> >>)
           mf == ShrunkRest(Cut(m, b, z[b], n), b + z[b], c)
           t == split_block_alloc(s, b + 8, n)
<1>1. Heap(m, e, A, F, z) /\ Tight(m, e, A, F, z) /\ b + z[b] # e
    BY TightHeap
<1> HIDE DEF e, m
<1>2. Facts(e, A, F, z) /\ HeaderFacts(m, e, A, F, z)
    BY <1>1, HeapFacts, Headers
<1>3. /\ b \in Nat /\ z[b] \in Nat /\ SizeOf(At(m, b)) = z[b] /\ A \cap F = {}
      /\ \A x \in A \cup F : x \in Nat /\ z[x] \in Nat
      /\ \A x, y \in A \cup F : x # y => x + z[x] <= y \/ y + z[y] <= x
    BY <1>2 DEF Facts, HeaderFacts
<1>4. c \in Nat /\ b < c /\ c < b + z[b] /\ (b + 8) - 8 = b
    BY <1>3
<1>5. c \notin A \cup F
    <2>1. ASSUME NEW x \in A \cup F PROVE x # c
        <3>1. x # b => b + z[b] <= x \/ x + z[x] <= b
            BY <1>3
        <3> QED BY <1>3, <1>4, <3>1
    <2> QED BY <2>1
<1>6. t = [s EXCEPT !.ret = b + 8, !.mem = mf]
    BY <1>3, <1>4 DEF split_block_alloc, m
<1>7. Cuts(m, e, A, F, z, b, n, c, z1, mid)
    <2>1. z1 \in [(A \cup F) \cup {c} -> Nat]
        <3>1. z[b] - n \in Nat
            BY <1>3
        <3> HIDE DEF c
        <3> QED BY <1>3, <3>1
    <2>2. z1[c] = z[b] - n /\ z1[b] = n
        BY <1>4
    <2>3. \A x \in A \cup F : x # b => z1[x] = z[x]
        BY <1>5
    <2> HIDE DEF z1, c, mid
    <2> QED BY <1>1, <2>1, <2>2, <2>3 DEF Cuts, c, mid
<1>8. Cuts(m, e, A, F, z, b, n, c, z1, mid) /\ z1[b] = n /\ \A x \in A \ {b} : z1[x] = z[x]
    BY <1>7 DEF Cuts
<1>9. Heap(mid, e, A \cup {c}, F, z1)
    <2> HIDE DEF mid, z1, c
    <2>1. Tight(mid, e, A \cup {c}, F, z1)
        BY <1>7, CutTight
    <2> QED BY <2>1, TightHeap
<1>10. \A a : At(mid, a) = IF a = c THEN z[b] - n + 3 ELSE IF a = b THEN n + 3 ELSE At(m, a)
    BY Writes2
<1>11. mf = ShrunkRest(Cut(m, b, z[b], n), b + z[b], c)
    OBVIOUS
<1> HIDE DEF mid, z1, mf
<1>12. PICK N, tot, z2 :
            /\ Merges(e, A \cup {c}, F, z1, c, {}, N, c, tot, z2)
            /\ N = {x \in F : x = b + z[b]}
            /\ tot = z[b] - n + (IF b + z[b] \in F THEN z[b + z[b]] ELSE 0)
    <2> HIDE DEF c
    <2>1. GivesBack(e, A, F, z, b, n, c, z1)
        BY <1>7, CutMerges
    <2> QED BY <2>1 DEF GivesBack
<1> DEFINE F2 == (F \ ({} \cup N)) \cup {c}
<1>13. Linked(mf, ListOf(e, F2, z2)) /\ Settled(mid, mf, e, F, z1, c, c, tot)
    <2> HIDE DEF c
    <2> QED BY <1>7, <1>11, <1>12, ShrinkSettles
<1>14. Heap(mf, e, A, F2, z2) /\ Keeps(mid, mf, A \cup {c}, z1, A, z2)
    <2>1. (A \cup {c}) \ {c} = A
        BY <1>5
    <2> DEFINE A1 == A \cup {c}
    <2> HIDE DEF c
    <2>2. Heap(mid, e, A1, F, z1) /\ Merges(e, A1, F, z1, c, {}, N, c, tot, z2)
        BY <1>9, <1>12
    <2> HIDE DEF A1
    <2>3. Linked(mf, ListOf(e, (F \ ({} \cup N)) \cup {c}, z2)) /\ Settled(mid, mf, e, F, z1, c, c, tot)
        BY <1>13
    <2>4. Heap(mf, e, A1 \ {c}, (F \ ({} \cup N)) \cup {c}, z2)
        BY <2>2, <2>3, SettledHeap
    <2>5. Keeps(mid, mf, A1, z1, A1 \ {c}, z2)
        BY <2>2, <2>3, SettledHeap
    <2> QED BY <2>1, <2>4, <2>5 DEF A1
<1>15. z2[b] = n /\ \A x \in A \ {b} : z2[x] = z[x]
    <2>1. \A x \in A : z2[x] = z1[x]
        BY <1>5, <1>12 DEF Merges
    <2> QED BY <1>8, <2>1
<1>16. Keeps(m, mf, A, z, A, z2)
    <2>1. ASSUME NEW x \in A, NEW a \in Nat, x < a, a < x + z[x], a < x + z2[x] PROVE At(mf, a) = At(m, a)
        <3>1. a < x + z1[x] /\ x \in (A \cup {c}) \cap A
            BY <1>8, <1>15, <2>1
        <3>2. At(mf, a) = At(mid, a)
            BY <1>14, <2>1, <3>1 DEF Keeps
        <3>3. a # b /\ a # c
            <4>1. CASE x = b
                BY <1>3, <1>15, <2>1, <4>1
            <4>2. CASE x # b
                <5>1. b + z[b] <= x \/ x + z[x] <= b
                    BY <1>3, <4>2
                <5> QED BY <1>3, <1>4, <2>1, <5>1
            <4> QED BY <4>1, <4>2
        <3> QED BY <1>10, <3>2, <3>3
    <2> QED BY <2>1 DEF Keeps
<1>17. Record(t) /\ t.mem = mf /\ t.end = s.end /\ t.errno = s.errno /\ t.ret = b + 8
    BY <1>6 DEF Record
<1> HIDE DEF t, F2
<1>18. Heap(t.mem, t.end - 8, A, F2, z2)
    BY <1>14, <1>17 DEF e
<1>19. Keeps(s.mem, t.mem, A, z, A, z2)
    BY <1>16, <1>17 DEF m
<1>20. Shrinks(s, A, z, b, n, t)
    BY <1>15, <1>17, <1>18, <1>19 DEF Shrinks
<1> QED BY <1>20 DEF t

-----------------------------------------------------------------------------
(* What the program holds, as its sequence of allocations changes.           *)
Owned(seq, A) == \A b \in A : \E i \in DOMAIN seq : seq[i].p = b + 8
Kept(seq, A, seq2, A2, z2) ==
    seq2 \in Seq(Allocation) /\ Holds(seq2, A2, z2) /\ (Owned(seq, A) => Owned(seq2, A2))

LEMMA Appended ==
    ASSUME NEW seq \in Seq(Allocation), NEW A, A \subseteq Nat, NEW z, Holds(seq, A, z), NEW q \in Nat, NEW n \in Nat,
           NEW A2, NEW z2, A2 = A \cup {q - 8}, q - 8 \notin A, \A b \in A : z2[b] = z[b],
           n <= z2[q - 8] - 8
    PROVE  Kept(seq, A, Append(seq, [p |-> q, n |-> n]), A2, z2)
<1> DEFINE x == [p |-> q, n |-> n]
           seq2 == Append(seq, x)
<1>1. x \in Allocation /\ x.p = q /\ x.n = n
    BY DEF Allocation
<1> HIDE DEF x
<1>2. /\ seq2 \in Seq(Allocation) /\ Len(seq) \in Nat /\ DOMAIN seq = 1 .. Len(seq)
      /\ DOMAIN seq2 = 1 .. Len(seq) + 1 /\ seq2[Len(seq) + 1] = x
      /\ \A i \in DOMAIN seq : seq2[i] = seq[i]
    BY <1>1
<1> HIDE DEF seq2
<1>3. \A i \in DOMAIN seq2 : (i \in DOMAIN seq /\ seq2[i] = seq[i]) \/ (i = Len(seq) + 1 /\ seq2[i] = x)
    BY <1>2
<1>4. \A i \in DOMAIN seq : seq[i].p - 8 \in A /\ seq[i].n <= z[seq[i].p - 8] - 8
    BY DEF Holds
<1>5. \A i, j \in DOMAIN seq : i # j => seq[i].p # seq[j].p
    BY DEF Holds
<1>6. \A i \in DOMAIN seq2 : seq2[i].p - 8 \in A2 /\ seq2[i].n <= z2[seq2[i].p - 8] - 8
    BY <1>1, <1>3, <1>4
<1>7. \A i \in DOMAIN seq : seq[i].p # q
    BY <1>4
<1>8. \A i, j \in DOMAIN seq2 : i # j => seq2[i].p # seq2[j].p
    BY <1>1, <1>3, <1>5, <1>7
<1>9. ASSUME Owned(seq, A) PROVE Owned(seq2, A2)
    <2>1. ASSUME NEW b \in A2 PROVE \E i \in DOMAIN seq2 : seq2[i].p = b + 8
        <3>1. CASE b \in A
            BY <1>2, <1>9, <3>1 DEF Owned
        <3>2. CASE b = q - 8
            <4>1. Len(seq) + 1 \in DOMAIN seq2 /\ seq2[Len(seq) + 1].p = b + 8
                BY <1>1, <1>2, <3>2
            <4> QED BY <4>1
        <3> QED BY <3>1, <3>2
    <2> QED BY <2>1 DEF Owned
<1> QED BY <1>2, <1>6, <1>8, <1>9 DEF Kept, Holds, seq2, x

LEMMA Removed ==
    ASSUME NEW seq \in Seq(Allocation), NEW A, A \subseteq Nat, NEW z, Holds(seq, A, z), NEW i \in DOMAIN seq,
           NEW A2, NEW z2, A2 = A \ {seq[i].p - 8}, \A b \in A2 : z2[b] = z[b]
    PROVE  Kept(seq, A, RemoveAt(seq, i), A2, z2)
<1> DEFINE seq2 == RemoveAt(seq, i)
           At2(k) == IF k < i THEN k ELSE k + 1
<1>1. i \in 1 .. Len(seq) /\ Len(seq) \in Nat /\ DOMAIN seq = 1 .. Len(seq)
    OBVIOUS
<1>2. /\ seq2 \in Seq(Allocation) /\ DOMAIN seq2 = 1 .. Len(seq) - 1
      /\ \A k \in 1 .. Len(seq) - 1 : seq2[k] = seq[At2(k)]
    <2> DEFINE s1 == SubSeq(seq, 1, i - 1)
               s2 == SubSeq(seq, i + 1, Len(seq))
    <2>1. s1 \in Seq(Allocation) /\ Len(s1) = i - 1 /\ \A k \in 1 .. i - 1 : s1[k] = seq[k]
        BY <1>1
    <2>2. s2 \in Seq(Allocation) /\ Len(s2) = Len(seq) - i /\ \A k \in 1 .. Len(seq) - i : s2[k] = seq[i + k]
        BY <1>1
    <2>3. seq2 = s1 \o s2
        BY DEF RemoveAt
    <2> HIDE DEF s1, s2, seq2
    <2> HIDE DEF At2
    <2>4. /\ seq2 \in Seq(Allocation) /\ Len(seq2) = Len(seq) - 1
          /\ \A k \in 1 .. Len(seq) - 1 : seq2[k] = IF k <= i - 1 THEN s1[k] ELSE s2[k - (i - 1)]
        <3>1. /\ s1 \o s2 \in Seq(Allocation) /\ Len(s1 \o s2) = Len(s1) + Len(s2)
              /\ \A k \in 1 .. Len(s1) + Len(s2) :
                     (s1 \o s2)[k] = IF k <= Len(s1) THEN s1[k] ELSE s2[k - Len(s1)]
            BY <2>1, <2>2, ConcatProperties
        <3>2. Len(s1) = i - 1 /\ Len(s1) + Len(s2) = Len(seq) - 1
            BY <1>1, <2>1, <2>2
        <3> QED BY <2>3, <3>1, <3>2
    <2>5. ASSUME NEW k \in 1 .. Len(seq) - 1 PROVE seq2[k] = seq[At2(k)]
        <3>1. CASE k < i
            <4>1. k <= i - 1 /\ k \in 1 .. i - 1
                BY <1>1, <3>1
            <4>2. seq2[k] = s1[k]
                BY <2>4, <4>1
            <4> QED BY <2>1, <3>1, <4>1, <4>2 DEF At2
        <3>2. CASE ~(k < i)
            <4>1. k - (i - 1) \in 1 .. Len(seq) - i /\ ~(k <= i - 1)
                BY <1>1, <3>2
            <4>2. seq2[k] = s2[k - (i - 1)]
                BY <2>4, <4>1
            <4>3. seq2[k] = seq[i + (k - (i - 1))]
                BY <2>2, <4>1, <4>2
            <4>4. i + (k - (i - 1)) = k + 1
                BY <1>1
            <4> QED BY <3>2, <4>3, <4>4 DEF At2
        <3> QED BY <3>1, <3>2
    <2> QED BY <1>1, <2>4, <2>5
<1> HIDE DEF seq2
<1>3. \A k \in DOMAIN seq2 : At2(k) \in DOMAIN seq /\ At2(k) # i /\ seq2[k] = seq[At2(k)]
    BY <1>1, <1>2
<1>4. \A k, l \in DOMAIN seq2 : k # l => At2(k) # At2(l)
    BY <1>1, <1>2
<1>5. ASSUME NEW k \in DOMAIN seq, k # i PROVE \E l \in DOMAIN seq2 : At2(l) = k
    <2>1. CASE k < i
        <3>1. k \in DOMAIN seq2 /\ At2(k) = k
            BY <1>1, <1>2, <2>1
        <3> QED BY <3>1
    <2>2. CASE ~(k < i)
        <3>1. k - 1 \in DOMAIN seq2 /\ At2(k - 1) = k
            BY <1>1, <1>2, <1>5, <2>2
        <3> QED BY <3>1
    <2> QED BY <2>1, <2>2
<1> HIDE DEF At2
<1>6. \A k \in DOMAIN seq : seq[k].p - 8 \in A /\ seq[k].n <= z[seq[k].p - 8] - 8 /\ seq[k].p \in Nat
    <2>1. \A k \in DOMAIN seq : seq[k] \in Allocation
        OBVIOUS
    <2>2. \A k \in DOMAIN seq : seq[k].p \in Nat
        BY <2>1 DEF Allocation
    <2> QED BY <2>2 DEF Holds
<1>7. \A k, l \in DOMAIN seq : k # l => seq[k].p # seq[l].p
    BY DEF Holds
<1>8. \A k \in DOMAIN seq2 : seq2[k].p - 8 \in A2 /\ seq2[k].n <= z2[seq2[k].p - 8] - 8
    <2>1. ASSUME NEW k \in DOMAIN seq, k # i PROVE seq[k].p - 8 \in A2 /\ seq[k].n <= z2[seq[k].p - 8] - 8
        <3>1. seq[k].p - 8 # seq[i].p - 8
            BY <1>6, <1>7, <2>1
        <3> QED BY <1>6, <3>1
    <2> QED BY <1>3, <2>1
<1>9. \A k, l \in DOMAIN seq2 : k # l => seq2[k].p # seq2[l].p
    BY <1>3, <1>4, <1>7
<1>10. ASSUME Owned(seq, A) PROVE Owned(seq2, A2)
    <2>1. ASSUME NEW b \in A2 PROVE \E l \in DOMAIN seq2 : seq2[l].p = b + 8
        <3>1. PICK k \in DOMAIN seq : seq[k].p = b + 8
            BY <1>10, <2>1 DEF Owned
        <3>2. k # i
            <4>1. b # seq[i].p - 8 /\ b \in Nat /\ seq[i].p \in Nat
                BY <1>6, <2>1
            <4>2. seq[i].p # b + 8
                BY <4>1
            <4> QED BY <3>1, <4>2
        <3> QED BY <1>3, <1>5, <3>1, <3>2
    <2> QED BY <2>1 DEF Owned
<1> QED BY <1>2, <1>8, <1>9, <1>10 DEF Kept, Holds, seq2

LEMMA Resized ==
    ASSUME NEW seq \in Seq(Allocation), NEW A, A \subseteq Nat, NEW z, Holds(seq, A, z), NEW i \in DOMAIN seq,
           NEW r \in Nat, NEW z2, r <= z2[seq[i].p - 8] - 8, \A b \in A \ {seq[i].p - 8} : z2[b] = z[b]
    PROVE  Kept(seq, A, [seq EXCEPT ![i].n = r], A, z2)
<1> DEFINE seq2 == [seq EXCEPT ![i].n = r]
<1>1. /\ DOMAIN seq2 = DOMAIN seq /\ seq2 \in Seq(Allocation)
      /\ \A k \in DOMAIN seq : seq2[k].p = seq[k].p /\ (k # i => seq2[k].n = seq[k].n)
      /\ seq2[i].n = r
    <2> DEFINE x == [seq[i] EXCEPT !.n = r]
    <2>1. seq[i] \in Allocation /\ i \in 1 .. Len(seq) /\ DOMAIN seq = 1 .. Len(seq)
        OBVIOUS
    <2>2. x \in Allocation /\ x.p = seq[i].p /\ x.n = r
        BY <2>1 DEF Allocation
    <2> HIDE DEF x
    <2>3. seq2 = [seq EXCEPT ![i] = x]
        BY DEF x
    <2>4. /\ seq2 \in Seq(Allocation) /\ Len(seq2) = Len(seq)
          /\ \A k \in 1 .. Len(seq) : seq2[k] = IF k = i THEN x ELSE seq[k]
        BY <2>1, <2>2, <2>3, ExceptSeq
    <2> HIDE DEF seq2
    <2>5. DOMAIN seq2 = DOMAIN seq
        BY <2>1, <2>4
    <2> QED BY <2>1, <2>2, <2>4, <2>5
<1> HIDE DEF seq2
<1>2. \A k \in DOMAIN seq : seq[k].p - 8 \in A /\ seq[k].n <= z[seq[k].p - 8] - 8 /\ seq[k].p \in Nat
    <2>1. \A k \in DOMAIN seq : seq[k] \in Allocation
        OBVIOUS
    <2>2. \A k \in DOMAIN seq : seq[k].p \in Nat
        BY <2>1 DEF Allocation
    <2> QED BY <2>2 DEF Holds
<1>3. \A k, l \in DOMAIN seq : k # l => seq[k].p # seq[l].p
    BY DEF Holds
<1>4. \A k \in DOMAIN seq2 : seq2[k].p - 8 \in A /\ seq2[k].n <= z2[seq2[k].p - 8] - 8
    <2>1. ASSUME NEW k \in DOMAIN seq, k # i PROVE seq2[k].n <= z2[seq2[k].p - 8] - 8
        <3>1. seq[k].p - 8 # seq[i].p - 8
            BY <1>2, <1>3, <2>1
        <3> QED BY <1>1, <1>2, <2>1, <3>1
    <2> QED BY <1>1, <1>2, <2>1
<1>5. Owned(seq, A) => Owned(seq2, A)
    BY <1>1 DEF Owned
<1> QED BY <1>1, <1>3, <1>4, <1>5 DEF Kept, Holds, seq2

-----------------------------------------------------------------------------
(* What each call makes of a heap and of what the program holds of it.        *)
GoodFor(s, seq, A, F, z) ==
    /\ seq \in Seq(Allocation) /\ Record(s) /\ s.errno \in Errnos /\ s.ret \in Nat
    /\ s.end = Start => seq = <<>> /\ A = {}
    /\ s.end # Start => Big(s) /\ Heap(s.mem, s.end - 8, A, F, z) /\ Holds(seq, A, z)

\* From s and seq to t and seq2; nothing the program holds is written (keeps),
\* and no block is lost (owns).
Moves(s, seq, A, z, t, seq2, keeps, owns) ==
    /\ s.end # Start => t.end # Start
    /\ \E A2, F2, z2 : /\ GoodFor(t, seq2, A2, F2, z2)
                       /\ keeps => Keeps(s.mem, t.mem, A, z, A2, z2)
                       /\ owns => (Owned(seq, A) => Owned(seq2, A2))

LEMMA BigEnd == ASSUME NEW s, Big(s) PROVE s.end # Start /\ s.end \in Nat
<1>1. Start \in Nat
    BY DEF Start
<1> QED BY <1>1, SfmmAssumption DEF Big

LEMMA GoodHolds ==
    ASSUME NEW s, NEW seq, NEW A, NEW F, NEW z, GoodFor(s, seq, A, F, z)
    PROVE  Holds(seq, A, z) /\ A \subseteq Nat
<1>1. CASE s.end = Start
    <2>1. seq = <<>> /\ A = {}
        BY <1>1 DEF GoodFor
    <2> QED BY <2>1 DEF Holds
<1>2. CASE s.end # Start
    <2>1. Heap(s.mem, s.end - 8, A, F, z) /\ Holds(seq, A, z)
        BY <1>2 DEF GoodFor
    <2>2. Facts(s.end - 8, A, F, z)
        BY <2>1, HeapFacts
    <2> QED BY <2>1, <2>2 DEF Facts
<1> QED BY <1>1, <1>2

MayAskOf(s) == s.end # Start => \A i \in 0 .. 6 : First(s.mem, i) = Sentinel(i)

LEMMA GoodAskable ==
    ASSUME NEW s, NEW seq, NEW A, NEW F, NEW z, GoodFor(s, seq, A, F, z), MayAskOf(s)
    PROVE  Askable(s, A, F, z)
<1>1. CASE s.end = Start
    BY <1>1 DEF GoodFor, Askable
<1>2. CASE s.end # Start
    <2>1. Heap(s.mem, s.end - 8, A, F, z) /\ \A i \in 0 .. 6 : First(s.mem, i) = Sentinel(i)
        BY <1>2 DEF GoodFor, MayAskOf
    <2>2. Tight(s.mem, s.end - 8, A, F, z)
        BY <2>1, HeapTight
    <2> QED BY <1>2, <2>2 DEF GoodFor, Askable
<1> QED BY <1>1, <1>2

\* A block of n bytes for an allocation of size bytes.
LEMMA YieldedHeld ==
    ASSUME NEW s, NEW seq, NEW A, NEW F, NEW z, GoodFor(s, seq, A, F, z),
           NEW n \in Nat, NEW size \in Nat, size + 8 <= n, NEW t, Yields(s, A, z, n, t)
    PROVE  /\ Moves(s, seq, A, z, t, Holding(seq, t.ret, size), TRUE, TRUE)
           /\ Moves(s, seq, A, z, [t EXCEPT !.ret = Null], seq, TRUE, FALSE)
<1>1. Record(t) /\ Big(t) /\ t.errno \in Errnos /\ t.ret \in Nat
    BY DEF Yields
<1>2. PICK A2, F2, z2 :
          /\ Tight(t.mem, t.end - 8, A2, F2, z2) /\ Keeps(s.mem, t.mem, A, z, A2, z2)
          /\ A \subseteq A2 /\ \A b \in A : z2[b] = z[b]
          /\ t.ret = Null => A2 = A
          /\ t.ret # Null => A2 = A \cup {t.ret - 8} /\ t.ret - 8 \notin A /\ n <= z2[t.ret - 8]
    BY DEF Yields
<1>3. Heap(t.mem, t.end - 8, A2, F2, z2) /\ t.end # Start
    BY <1>1, <1>2, TightHeap, BigEnd
<1>4. Facts(t.end - 8, A2, F2, z2)
    BY <1>3, HeapFacts
<1>5. \A b \in A2 : z2[b] \in Nat
    BY <1>4 DEF Facts
<1>6. Holds(seq, A, z) /\ A \subseteq Nat /\ seq \in Seq(Allocation)
    BY GoodHolds DEF GoodFor
<1>7. Holds(seq, A2, z2)
    BY <1>2, <1>6 DEF Holds
<1> DEFINE seq2 == Holding(seq, t.ret, size)
<1>8. Kept(seq, A, seq2, A2, z2)
    <2>1. CASE t.ret = Null
        <3>1. seq2 = seq /\ A2 = A
            BY <1>2, <2>1 DEF Holding
        <3> QED BY <1>6, <1>7, <3>1 DEF Kept
    <2>2. CASE t.ret # Null
        <3>1. /\ A2 = A \cup {t.ret - 8} /\ t.ret - 8 \notin A /\ n <= z2[t.ret - 8]
              /\ z2[t.ret - 8] \in Nat /\ \A b \in A : z2[b] = z[b]
            BY <1>2, <1>5, <2>2
        <3>2. size <= z2[t.ret - 8] - 8
            BY <3>1
        <3>3. Kept(seq, A, Append(seq, [p |-> t.ret, n |-> size]), A2, z2)
            BY <1>1, <1>6, <3>1, <3>2, Appended
        <3>4. seq2 = Append(seq, [p |-> t.ret, n |-> size])
            BY <2>2 DEF Holding
        <3> QED BY <3>3, <3>4
    <2> QED BY <2>1, <2>2
<1> HIDE DEF seq2
<1>9. GoodFor(t, seq2, A2, F2, z2)
    BY <1>1, <1>3, <1>8 DEF GoodFor, Kept
<1>10. Moves(s, seq, A, z, t, seq2, TRUE, TRUE)
    BY <1>2, <1>3, <1>8, <1>9 DEF Moves, Kept
<1> DEFINE t2 == [t EXCEPT !.ret = Null]
<1>11. /\ Record(t2) /\ t2.mem = t.mem /\ t2.end = t.end /\ t2.errno = t.errno /\ t2.ret = Null
    BY <1>1 DEF Record
<1> HIDE DEF t2
<1>12. Big(t2) /\ t2.errno \in Errnos /\ t2.ret \in Nat
    BY <1>1, <1>11 DEF Big, Null
<1>13. GoodFor(t2, seq, A2, F2, z2)
    BY <1>3, <1>6, <1>7, <1>11, <1>12 DEF GoodFor
<1>14. Moves(s, seq, A, z, t2, seq, TRUE, FALSE)
    BY <1>2, <1>3, <1>11, <1>13 DEF Moves
<1> QED BY <1>10, <1>14 DEF seq2, t2

\* A call that only returns something.
LEMMA OnlyReturns ==
    ASSUME NEW s, NEW seq, NEW A, NEW F, NEW z, GoodFor(s, seq, A, F, z),
           NEW t, Record(t), t.mem = s.mem, t.end = s.end, t.errno \in Errnos, t.ret \in Nat,
           NEW keeps \in BOOLEAN, NEW owns \in BOOLEAN
    PROVE  Moves(s, seq, A, z, t, seq, keeps, owns)
<1>1. GoodFor(t, seq, A, F, z)
    BY DEF GoodFor, Big
<1>2. Keeps(s.mem, t.mem, A, z, A, z)
    BY KeepsAll
<1> QED BY <1>1, <1>2 DEF Moves

LEMMA MallocMoves ==
    ASSUME NEW s, NEW seq, NEW A, NEW F, NEW z, GoodFor(s, seq, A, F, z), MayAskOf(s), NEW size \in Nat
    PROVE  Moves(s, seq, A, z, sf_malloc(s, size), Holding(seq, sf_malloc(s, size).ret, size), TRUE, TRUE)
<1>1. CASE size = 0
    <2> DEFINE t == [s EXCEPT !.ret = Null]
    <2>1. Record(t) /\ t.mem = s.mem /\ t.end = s.end /\ t.errno \in Errnos /\ t.ret \in Nat /\ t.ret = Null
        BY DEF GoodFor, Record, Null
    <2>2. sf_malloc(s, size) = t
        BY <1>1 DEF sf_malloc
    <2> HIDE DEF t
    <2>3. Moves(s, seq, A, z, t, seq, TRUE, TRUE)
        BY <2>1, OnlyReturns
    <2>4. Holding(seq, t.ret, size) = seq
        BY <2>1 DEF Holding
    <2> QED BY <2>2, <2>3, <2>4
<1>2. CASE size # 0
    <2>1. Askable(s, A, F, z)
        BY GoodAskable
    <2>2. Yields(s, A, z, BlockSize(size), sf_malloc(s, size))
        BY <1>2, <2>1, Malloced
    <2>3. BlockSize(size) \in Nat /\ size + 8 <= BlockSize(size)
        BY RoundedUp
    <2> QED BY <2>2, <2>3, YieldedHeld
<1> QED BY <1>1, <1>2

LEMMA MemalignMoves ==
    ASSUME NEW s, NEW seq, NEW A, NEW F, NEW z, GoodFor(s, seq, A, F, z), MayAskOf(s),
           NEW size \in Nat, NEW align \in Nat
    PROVE  LET t == sf_memalign(s, size, align)
           IN  Moves(s, seq, A, z, t, Holding(seq, t.ret, size), TRUE, FALSE)
<1> DEFINE t == sf_memalign(s, size, align)
<1>1. CASE align < 32 \/ ~PowerOfTwo(align)
    <2>1. t = [s EXCEPT !.errno = "EINVAL", !.ret = Null]
        BY <1>1 DEF sf_memalign
    <2> HIDE DEF t
    <2>2. Record(t) /\ t.mem = s.mem /\ t.end = s.end /\ t.errno \in Errnos /\ t.ret \in Nat /\ t.ret = Null
        <3>1. Record(s)
            BY DEF GoodFor
        <3>2. /\ Record(t) /\ t.mem = s.mem /\ t.end = s.end /\ t.errno = "EINVAL" /\ t.ret = Null
            BY <2>1, <3>1 DEF Record
        <3> QED BY <3>2 DEF Errnos, Null
    <2>3. Moves(s, seq, A, z, t, seq, TRUE, FALSE)
        BY <2>2, OnlyReturns
    <2>4. Holding(seq, t.ret, size) = seq
        BY <2>2 DEF Holding
    <2> QED BY <2>3, <2>4 DEF t
<1>2. CASE align >= 32 /\ PowerOfTwo(align) /\ size = 0
    <2>1. t = [s EXCEPT !.ret = Null]
        BY <1>2 DEF sf_memalign
    <2>2. Record(t) /\ t.mem = s.mem /\ t.end = s.end /\ t.errno \in Errnos /\ t.ret \in Nat /\ t.ret = Null
        BY <2>1 DEF GoodFor, Record, Null
    <2> HIDE DEF t
    <2>3. Moves(s, seq, A, z, t, seq, TRUE, FALSE)
        BY <2>2, OnlyReturns
    <2>4. Holding(seq, t.ret, size) = seq
        BY <2>2 DEF Holding
    <2> QED BY <2>3, <2>4 DEF t
<1>3. CASE align >= 32 /\ PowerOfTwo(align) /\ size # 0
    <2> DEFINE big == size + align + 32
               u == sf_malloc(s, big)
    <2>1. t = IfAligned(u, align)
        BY <1>3 DEF sf_memalign
    <2>2. big \in Nat /\ big # 0
        OBVIOUS
    <2>3. Yields(s, A, z, BlockSize(big), u)
        BY <2>2, GoodAskable, Malloced
    <2>4. BlockSize(big) \in Nat /\ size + 8 <= BlockSize(big)
        <3>1. BlockSize(big) \in Nat /\ BlockSize(big) >= big + 8
            BY <2>2, RoundedUp
        <3> QED BY <3>1
    <2> HIDE DEF big, u
    <2>5. /\ Moves(s, seq, A, z, u, Holding(seq, u.ret, size), TRUE, TRUE)
          /\ Moves(s, seq, A, z, [u EXCEPT !.ret = Null], seq, TRUE, FALSE)
        BY <2>3, <2>4, YieldedHeld
    <2>6. CASE (u.ret + 8) % align = 0
        <3>1. t = u
            BY <2>1, <2>6 DEF IfAligned
        <3> HIDE DEF t
        <3> QED BY <2>5, <3>1 DEF Moves, t
    <2>7. CASE (u.ret + 8) % align # 0
        <3>1. t = [u EXCEPT !.ret = Null]
            BY <2>1, <2>7 DEF IfAligned
        <3>2. t.ret = Null
            BY <2>3, <3>1 DEF Yields, Record
        <3> HIDE DEF t
        <3>3. Holding(seq, t.ret, size) = seq
            BY <3>2 DEF Holding
        <3> QED BY <2>5, <3>1, <3>3 DEF t
    <2> QED BY <2>6, <2>7
<1>4. align < 32 \/ align >= 32
    OBVIOUS
<1> HIDE DEF t
<1>5. Moves(s, seq, A, z, t, Holding(seq, t.ret, size), TRUE, FALSE)
    BY <1>1, <1>2, <1>3, <1>4 DEF t
<1> QED BY <1>5 DEF t

\* The block of an allocation.
BlockOf(s, A, F, z, b, p) ==
    /\ b \in A /\ b = p - 8 /\ p = b + 8 /\ s.end # Start /\ Big(s) /\ Heap(s.mem, s.end - 8, A, F, z)
    /\ b \in Nat /\ z[b] \in Nat /\ z[b] >= 32 /\ z[b] % 16 = 0 /\ SizeOf(At(s.mem, b)) = z[b]

LEMMA HeldBlock ==
    ASSUME NEW s, NEW seq, NEW A, NEW F, NEW z, GoodFor(s, seq, A, F, z), NEW i \in DOMAIN seq
    PROVE  BlockOf(s, A, F, z, seq[i].p - 8, seq[i].p)
<1> DEFINE p == seq[i].p
           b == p - 8
<1>1. s.end # Start
    BY DEF GoodFor
<1>2. Big(s) /\ Heap(s.mem, s.end - 8, A, F, z) /\ Holds(seq, A, z) /\ seq \in Seq(Allocation)
    BY <1>1 DEF GoodFor
<1>3. b \in A /\ p \in Nat
    <2>1. seq[i] \in Allocation
        BY <1>2
    <2> QED BY <1>2, <2>1 DEF Holds, Allocation
<1>4. Facts(s.end - 8, A, F, z) /\ HeaderFacts(s.mem, s.end - 8, A, F, z)
    BY <1>2, HeapFacts, Headers
<1>5. p = b + 8
    BY <1>3
<1> HIDE DEF p
<1>6. b = p - 8
    OBVIOUS
<1> HIDE DEF b
<1>7. b \in Nat /\ z[b] \in Nat /\ z[b] >= 32 /\ z[b] % 16 = 0 /\ SizeOf(At(s.mem, b)) = z[b]
    BY <1>3, <1>4 DEF Facts, HeaderFacts
<1>8. BlockOf(s, A, F, z, b, p)
    BY <1>1, <1>2, <1>3, <1>5, <1>6, <1>7 DEF BlockOf
<1> QED BY <1>8 DEF b, p

LEMMA FreeMoves ==
    ASSUME NEW s, NEW seq, NEW A, NEW F, NEW z, GoodFor(s, seq, A, F, z), NEW i \in DOMAIN seq
    PROVE  Moves(s, seq, A, z, sf_free(s, seq[i].p), RemoveAt(seq, i), TRUE, TRUE)
<1> DEFINE p == seq[i].p
           b == p - 8
           t == sf_free(s, p)
           A2 == A \ {b}
<1>1. BlockOf(s, A, F, z, b, p)
    BY HeldBlock
<1>2. Record(s) /\ s.errno \in Errnos /\ s.ret \in Nat /\ seq \in Seq(Allocation)
    BY DEF GoodFor
<1> HIDE DEF p
<1>3. b \in A /\ p = b + 8 /\ Heap(s.mem, s.end - 8, A, F, z) /\ Big(s) /\ s.end # Start
    BY <1>1 DEF BlockOf
<1> HIDE DEF b
<1>4. Frees(s, A, z, b, sf_free(s, b + 8))
    BY <1>2, <1>3, Freed
<1>5. Frees(s, A, z, b, t)
    BY <1>3, <1>4
<1> HIDE DEF t
<1>6. Record(t) /\ t.end = s.end /\ t.errno = s.errno /\ t.ret = s.ret
    BY <1>5 DEF Frees
<1>7. PICK F2, z2 : /\ Heap(t.mem, t.end - 8, A2, F2, z2) /\ \A x \in A2 : z2[x] = z[x]
                    /\ Keeps(s.mem, t.mem, A, z, A2, z2)
    BY <1>5 DEF Frees
<1>8. Kept(seq, A, RemoveAt(seq, i), A2, z2)
    <2>1. A2 = A \ {seq[i].p - 8} /\ A \subseteq Nat /\ Holds(seq, A, z)
        BY GoodHolds DEF b, p
    <2> HIDE DEF A2
    <2> QED BY <1>2, <1>7, <2>1, Removed
<1>9. GoodFor(t, RemoveAt(seq, i), A2, F2, z2)
    BY <1>2, <1>3, <1>6, <1>7, <1>8 DEF GoodFor, Kept, Big
<1>10. Moves(s, seq, A, z, t, RemoveAt(seq, i), TRUE, TRUE)
    BY <1>6, <1>7, <1>8, <1>9 DEF Moves, Kept
<1> QED BY <1>10 DEF t, p

\* A block that holds its header, 32 bytes and one of another size.
LEMMA BlockFits ==
    ASSUME NEW size \in Nat, size >= 32, size % 16 = 0, NEW r \in Nat, r + 8 <= size
    PROVE  /\ BlockSize(r) <= size
           /\ Splittable(size, BlockSize(r)) => BlockSize(r) + 32 <= size
<1> DEFINE n == BlockSize(r)
<1>1. n \in Nat /\ n % 16 = 0 /\ n <= size
    <2> DEFINE v == IF r + 8 < 32 THEN 32 ELSE r + 8
    <2>1. v \in Nat /\ v <= size
        OBVIOUS
    <2>2. n = IF v % 16 = 0 THEN v ELSE v + (16 - (v % 16))
        BY DEF BlockSize
    <2>3. n \in Nat /\ n % 16 = 0
        BY RoundedUp
    <2> HIDE DEF v, n
    <2> QED BY <2>1, <2>2, <2>3
<1> HIDE DEF n
<1>2. Splittable(size, n) => n + 32 <= size
    BY <1>1 DEF Splittable
<1> QED BY <1>1, <1>2 DEF n

LEMMA ShrinkMoves ==
    ASSUME NEW s, NEW seq, NEW A, NEW F, NEW z, GoodFor(s, seq, A, F, z), MayAskOf(s),
           NEW i \in DOMAIN seq, NEW r \in Nat, NEW size, size = SizeOf(At(s.mem, seq[i].p - 8)),
           seq[i].p - 8 + size # s.end - 8, r \notin size - 7 .. size, r <= size
    PROVE  Moves(s, seq, A, z, sf_realloc(s, seq[i].p, r), [seq EXCEPT ![i].n = r], TRUE, TRUE)
<1> DEFINE p == seq[i].p
           b == p - 8
           n == BlockSize(r)
           t == sf_realloc(s, p, r)
           seq2 == [seq EXCEPT ![i].n = r]
<1>1. BlockOf(s, A, F, z, b, p)
    BY HeldBlock
<1>2. Record(s) /\ s.errno \in Errnos /\ s.ret \in Nat /\ seq \in Seq(Allocation)
      /\ A \subseteq Nat /\ Holds(seq, A, z)
    BY GoodHolds DEF GoodFor
<1>3. size = SizeOf(At(s.mem, b)) /\ b = p - 8 /\ b = seq[i].p - 8 /\ b + size # s.end - 8
    <2>1. \A x \in Nat : x - 8 + size = (x - 8) + size
        OBVIOUS
    <2>2. p \in Nat
        <3>1. b \in Nat /\ p = b + 8
            BY <1>1 DEF BlockOf
        <3> QED BY <3>1
    <2> QED BY <2>1, <2>2
<1> HIDE DEF p
<1>4. /\ b \in A /\ p = b + 8 /\ Heap(s.mem, s.end - 8, A, F, z) /\ Big(s) /\ s.end # Start
      /\ b \in Nat /\ z[b] \in Nat /\ z[b] >= 32 /\ z[b] % 16 = 0 /\ size = z[b] /\ p \in Nat
    <2>1. /\ b \in A /\ p = b + 8 /\ Heap(s.mem, s.end - 8, A, F, z) /\ Big(s) /\ s.end # Start
          /\ b \in Nat /\ z[b] \in Nat /\ z[b] >= 32 /\ z[b] % 16 = 0 /\ size = z[b]
        BY <1>1, <1>3 DEF BlockOf
    <2> QED BY <2>1
<1> HIDE DEF b
<1>5. r + 8 <= z[b] /\ size > r /\ size # r /\ ~(size < r)
    BY <1>4
<1>6. n \in Nat /\ n >= 32 /\ n % 16 = 0 /\ n >= r + 8 /\ (Splittable(size, n) => n + 32 <= z[b])
    <2>1. n \in Nat /\ n >= 32 /\ n % 16 = 0 /\ n >= r + 8
        BY RoundedUp
    <2>2. Splittable(size, n) => n + 32 <= size
        BY <1>4, <1>5, BlockFits
    <2> QED BY <1>4, <2>1, <2>2
<1> HIDE DEF n
<1>7. CASE Splittable(size, n)
    <2>1. t = split_block_alloc(s, p, n)
        BY <1>3, <1>5, <1>7 DEF sf_realloc, n
    <2>2. Tight(s.mem, s.end - 8, A, F, z)
        BY <1>4, HeapTight DEF MayAskOf
    <2>3. Shrinks(s, A, z, b, n, split_block_alloc(s, b + 8, n))
        BY <1>2, <1>3, <1>4, <1>6, <1>7, <2>2, Shrunk
    <2>4. Shrinks(s, A, z, b, n, t)
        BY <1>4, <2>1, <2>3
    <2> HIDE DEF t
    <2>5. Record(t) /\ t.end = s.end /\ t.errno = s.errno /\ t.ret = b + 8
        BY <2>4 DEF Shrinks
    <2>6. PICK F2, z2 : /\ Heap(t.mem, t.end - 8, A, F2, z2) /\ z2[b] = n /\ \A x \in A \ {b} : z2[x] = z[x]
                        /\ Keeps(s.mem, t.mem, A, z, A, z2)
        BY <2>4 DEF Shrinks
    <2>7. Kept(seq, A, seq2, A, z2)
        <3>1. r <= z2[seq[i].p - 8] - 8
            BY <1>3, <1>6, <2>6
        <3>2. \A x \in A \ {seq[i].p - 8} : z2[x] = z[x]
            BY <1>3, <2>6
        <3> QED BY <1>2, <3>1, <3>2, Resized
    <2> HIDE DEF seq2
    <2>8. GoodFor(t, seq2, A, F2, z2)
        BY <1>2, <1>4, <2>5, <2>6, <2>7 DEF GoodFor, Kept, Big
    <2>9. Moves(s, seq, A, z, t, seq2, TRUE, TRUE)
        BY <2>5, <2>6, <2>7, <2>8 DEF Moves, Kept
    <2> QED BY <2>9 DEF t, p, seq2
<1>8. CASE ~Splittable(size, n)
    <2>1. t = [s EXCEPT !.ret = p]
        BY <1>3, <1>5, <1>8 DEF sf_realloc, n
    <2>2. Record(t) /\ t.mem = s.mem /\ t.end = s.end /\ t.errno = s.errno /\ t.ret = p
        BY <1>2, <2>1 DEF Record
    <2> HIDE DEF t
    <2>3. Kept(seq, A, seq2, A, z)
        <3>1. r <= z[seq[i].p - 8] - 8
            BY <1>3, <1>4, <1>5
        <3> QED BY <1>2, <3>1, Resized
    <2> HIDE DEF seq2
    <2>4. GoodFor(t, seq2, A, F, z)
        BY <1>2, <1>4, <2>2, <2>3 DEF GoodFor, Kept, Big
    <2>5. Keeps(s.mem, t.mem, A, z, A, z)
        BY <2>2, KeepsAll
    <2>6. Moves(s, seq, A, z, t, seq2, TRUE, TRUE)
        BY <2>2, <2>3, <2>4, <2>5 DEF Moves, Kept
    <2> QED BY <2>6 DEF t, p, seq2
<1> QED BY <1>7, <1>8

\* A copy into the block at c, from its first word on.
Copies(t, e, A, F, z, c, u) ==
    /\ Record(u) /\ u.end = t.end /\ u.errno = t.errno /\ u.ret = t.ret
    /\ Heap(u.mem, e, A, F, z)
    /\ \A x \in A \ {c} : \A a \in Nat :
           x < a /\ a < x + z[x] => At(u.mem, a) = At(t.mem, a)

LEMMA Copied ==
    ASSUME NEW t, Record(t), NEW e, NEW A, NEW F, NEW z, Heap(t.mem, e, A, F, z),
           NEW c \in A, NEW b, NEW q, q = c + 8, NEW n \in Nat, n + 8 <= z[c]
    PROVE  Copies(t, e, A, F, z, c, CopyFrom(t, b, q, n))
<1> DEFINE ws == [k \in 1 .. n \div 8 |-> <<q + 8 * (k - 1), At(t.mem, b + 192 + 8 * (k - 1))>>]
           m2 == Writes(t.mem, ws)
           u == CopyFrom(t, b, q, n)
<1>1. u = [t EXCEPT !.mem = m2]
    BY DEF CopyFrom
<1>2. Record(u) /\ u.mem = m2 /\ u.end = t.end /\ u.errno = t.errno /\ u.ret = t.ret
    BY <1>1 DEF Record
<1>3. Facts(e, A, F, z)
    BY HeapFacts
<1>4. /\ c \in Nat /\ z[c] \in Nat /\ \A x \in A : x \in Nat /\ z[x] \in Nat
      /\ \A x, y \in A : x # y => x + z[x] <= y \/ y + z[y] <= x
    BY <1>3 DEF Facts
<1>5. ASSUME NEW k \in 1 .. n \div 8
      PROVE  ws[k][1] = q + 8 * (k - 1) /\ c < q + 8 * (k - 1) /\ q + 8 * (k - 1) < c + z[c]
    <2>1. 8 * k <= n /\ k >= 1 /\ k \in Nat
        BY Z3
    <2> QED BY <1>4, <2>1
<1>6. DOMAIN ws = 1 .. n \div 8
    OBVIOUS
<1> HIDE DEF ws
<1>7. ASSUME NEW a, ~(c < a /\ a < c + z[c]) PROVE At(m2, a) = At(t.mem, a)
    <2>1. \A k \in DOMAIN ws : ws[k][1] # a
        BY <1>5, <1>6, <1>7
    <2> QED BY <2>1, NotWritten
<1> HIDE DEF m2, u
<1>8. Heap(m2, e, A, F, z)
    <2>1. \A a \in Nat : ~Inside(A, z, a) => At(m2, a) = At(t.mem, a)
        BY <1>7 DEF Inside
    <2> QED BY <2>1, PayloadWords
<1>9. ASSUME NEW x \in A \ {c}, NEW a \in Nat, x < a, a < x + z[x] PROVE At(m2, a) = At(t.mem, a)
    <2>1. x + z[x] <= c \/ c + z[c] <= x
        BY <1>4
    <2>2. ~(c < a /\ a < c + z[c])
        BY <1>4, <1>9, <2>1
    <2> QED BY <1>7, <2>2
<1> QED BY <1>2, <1>8, <1>9 DEF u, Copies

LEMMA GrowMoves ==
    ASSUME NEW s, NEW seq, NEW A, NEW F, NEW z, GoodFor(s, seq, A, F, z), MayAskOf(s),
           NEW i \in DOMAIN seq, NEW r \in Nat, SizeOf(At(s.mem, seq[i].p - 8)) < r,
           NEW u, u = sf_realloc(s, seq[i].p, r), u.ret # Null
    PROVE  Moves(s, seq, A, z, sf_free(u, seq[i].p), Holding(RemoveAt(seq, i), u.ret, r), TRUE, TRUE)
<1> DEFINE p == seq[i].p
           b == p - 8
           size == z[b]
           n == BlockSize(r)
           t == sf_malloc(s, r)
           v == sf_free(u, p)
           rem == RemoveAt(seq, i)
<1>1. BlockOf(s, A, F, z, b, p)
    BY HeldBlock
<1>2. Record(s) /\ s.errno \in Errnos /\ s.ret \in Nat /\ seq \in Seq(Allocation)
      /\ A \subseteq Nat /\ Holds(seq, A, z)
    BY GoodHolds DEF GoodFor
<1>3. SizeOf(At(s.mem, b)) < r /\ u = sf_realloc(s, p, r) /\ b = seq[i].p - 8 /\ b = p - 8
    OBVIOUS
<1> HIDE DEF p
<1>4. /\ b \in A /\ p = b + 8 /\ b \in Nat /\ size \in Nat /\ size >= 32 /\ size % 16 = 0
      /\ SizeOf(At(s.mem, b)) = size
    BY <1>1 DEF BlockOf
<1> HIDE DEF b, size
<1>5. size < r /\ r # 0 /\ ~(size = r) /\ ~(size > r)
    BY <1>3, <1>4
<1>6. n \in Nat /\ n >= r + 8
    BY RoundedUp
<1> HIDE DEF n
<1>7. Yields(s, A, z, n, t)
    <2>1. Askable(s, A, F, z)
        BY GoodAskable
    <2> QED BY <1>5, <2>1, Malloced DEF n
<1> HIDE DEF t
<1>8. u = CopyFrom(t, b, t.ret, size - 8) /\ t.ret # Null
    <2>1. u = Moved(t, b, size - 8)
        BY <1>3, <1>4, <1>5 DEF sf_realloc, t
    <2>2. t.ret # Null
        BY <2>1 DEF Moved
    <2> QED BY <2>1, <2>2 DEF Moved
<1> DEFINE q == t.ret
           c == q - 8
           A1 == A \cup {c}
           A2 == A1 \ {b}
<1>9. Record(t) /\ Big(t) /\ t.errno \in Errnos /\ q \in Nat
    BY <1>7 DEF Yields
<1>10. PICK F1, z1 :
           /\ Tight(t.mem, t.end - 8, A1, F1, z1) /\ Keeps(s.mem, t.mem, A, z, A1, z1)
           /\ \A x \in A : z1[x] = z[x]
           /\ c \notin A /\ n <= z1[c]
    BY <1>7, <1>8 DEF Yields
<1>11. q = c + 8 /\ c = q - 8
    BY <1>9
<1> HIDE DEF c
<1>12. Heap(t.mem, t.end - 8, A1, F1, z1) /\ c \in A1
    BY <1>10, TightHeap
<1>13. z1[c] \in Nat /\ c \in Nat
    <2>1. Facts(t.end - 8, A1, F1, z1)
        BY <1>12, HeapFacts
    <2> QED BY <1>12, <2>1 DEF Facts
<1> HIDE DEF q, A1
<1>14. /\ Record(u) /\ u.end = t.end /\ u.errno = t.errno /\ u.ret = t.ret
       /\ Heap(u.mem, t.end - 8, A1, F1, z1)
       /\ \A x \in A1 \ {c} : \A a \in Nat :
             x < a /\ a < x + z1[x] => At(u.mem, a) = At(t.mem, a)
    <2>1. size - 8 \in Nat /\ (size - 8) + 8 <= z1[c]
        BY <1>4, <1>5, <1>6, <1>10, <1>13
    <2>2. u = CopyFrom(t, b, q, size - 8)
        BY <1>8 DEF q
    <2> DEFINE k == size - 8
    <2> HIDE DEF k
    <2>3. k \in Nat /\ k + 8 <= z1[c] /\ u = CopyFrom(t, b, q, k)
        BY <2>1, <2>2 DEF k
    <2>4. Copies(t, t.end - 8, A1, F1, z1, c, CopyFrom(t, b, q, k))
        BY <1>9, <1>11, <1>12, <2>3, Copied
    <2> QED BY <2>3, <2>4 DEF Copies
<1>15. b \in A1 /\ Heap(u.mem, u.end - 8, A1, F1, z1)
    BY <1>4, <1>14 DEF A1
<1>16. Frees(u, A1, z1, b, sf_free(u, b + 8))
    BY <1>14, <1>15, Freed
<1>17. Frees(u, A1, z1, b, v)
    BY <1>4, <1>16
<1> HIDE DEF v
<1>18. Record(v) /\ v.end = u.end /\ v.errno = u.errno /\ v.ret = u.ret
    BY <1>17 DEF Frees
<1>19. PICK F2, z2 : /\ Heap(v.mem, v.end - 8, A2, F2, z2) /\ \A x \in A2 : z2[x] = z1[x]
                     /\ Keeps(u.mem, v.mem, A1, z1, A2, z2)
    BY <1>17 DEF Frees
<1> DEFINE A0 == A \ {b}
<1>20. A2 = A0 \cup {q - 8} /\ q - 8 \notin A0 /\ A0 \subseteq Nat /\ \A x \in A0 : z2[x] = z[x]
    <2>1. c # b /\ A2 = A0 \cup {c} /\ c \notin A0
        BY <1>4, <1>10 DEF A1
    <2>2. \A x \in A0 : z2[x] = z1[x] /\ z1[x] = z[x]
        BY <1>10, <1>19, <2>1
    <2> QED BY <1>2, <1>11, <2>1, <2>2
<1>21. Kept(seq, A, rem, A0, z)
    <2>1. A0 = A \ {seq[i].p - 8}
        BY <1>3
    <2> HIDE DEF A0
    <2> QED BY <1>2, <2>1, Removed
<1> HIDE DEF rem, A2, A0
<1>22. Kept(rem, A0, Append(rem, [p |-> q, n |-> r]), A2, z2)
    <2>1. r <= z2[q - 8] - 8
        <3>1. q - 8 \in A2 /\ q - 8 = c
            BY <1>11, <1>20
        <3>2. z2[c] = z1[c]
            BY <1>19, <3>1
        <3> QED BY <1>6, <1>10, <1>13, <3>1, <3>2
    <2>2. rem \in Seq(Allocation) /\ Holds(rem, A0, z)
        BY <1>21 DEF Kept
    <2>3. q \in Nat /\ r \in Nat
        BY <1>9 DEF q
    <2> QED BY <1>20, <2>1, <2>2, <2>3, Appended
<1> DEFINE seq2 == Holding(rem, u.ret, r)
<1>23. Kept(seq, A, seq2, A2, z2)
    <2>1. seq2 = Append(rem, [p |-> q, n |-> r])
        BY <1>8, <1>14 DEF Holding, q
    <2> HIDE DEF seq2
    <2> QED BY <1>21, <1>22, <2>1 DEF Kept
<1> HIDE DEF seq2
<1>24. GoodFor(v, seq2, A2, F2, z2) /\ v.end # Start
    <2>1. v.end = t.end /\ v.errno \in Errnos /\ v.ret \in Nat
        BY <1>9, <1>14, <1>18 DEF q
    <2>2. Big(v) /\ v.end # Start
        <3>1. Big(v)
            BY <1>9, <2>1 DEF Big
        <3> QED BY <3>1, BigEnd
    <2> QED BY <1>18, <1>19, <1>23, <2>1, <2>2 DEF GoodFor, Kept
<1>25. Keeps(s.mem, v.mem, A, z, A2, z2)
    <2>1. Keeps(s.mem, u.mem, A, z, A1, z1)
        <3>1. ASSUME NEW x \in A \cap A1, NEW a \in Nat, x < a, a < x + z[x], a < x + z1[x]
              PROVE  At(u.mem, a) = At(s.mem, a)
            <4>1. x \in A1 \ {c}
                BY <1>10
            <4>2. At(u.mem, a) = At(t.mem, a)
                BY <1>14, <3>1, <4>1
            <4>3. At(t.mem, a) = At(s.mem, a)
                BY <1>10, <3>1 DEF Keeps
            <4> QED BY <4>2, <4>3
        <3> QED BY <3>1 DEF Keeps
    <2>2. A \cap A2 \subseteq A1
        BY DEF A1
    <2> QED BY <1>10, <1>19, <2>1, <2>2, KeepsTwice
<1>26. Moves(s, seq, A, z, v, seq2, TRUE, TRUE)
    BY <1>23, <1>24, <1>25 DEF Moves, Kept
<1> QED BY <1>26 DEF v, seq2, rem, p

LEMMA WriteMoves ==
    ASSUME NEW s, NEW seq, NEW A, NEW F, NEW z, GoodFor(s, seq, A, F, z), NEW i \in DOMAIN seq,
           NEW a, a \in {seq[i].p, seq[i].p + seq[i].n - 8}, seq[i].n >= 8, NEW v,
           NEW t, t = [s EXCEPT !.mem = Put(s.mem, a, v)]
    PROVE  Moves(s, seq, A, z, t, seq, FALSE, TRUE)
<1> DEFINE p == seq[i].p
           b == p - 8
<1>1. BlockOf(s, A, F, z, b, p)
    BY HeldBlock
<1>2. Record(s) /\ s.errno \in Errnos /\ s.ret \in Nat /\ seq \in Seq(Allocation) /\ Holds(seq, A, z)
    BY GoodHolds DEF GoodFor
<1>3. a \in {p, p + seq[i].n - 8} /\ seq[i].n \in Nat /\ seq[i].n >= 8 /\ seq[i].n <= z[b] - 8
    <2>1. seq[i] \in Allocation
        BY <1>2
    <2> QED BY <1>2, <2>1 DEF Allocation, Holds
<1> HIDE DEF p
<1>4. /\ b \in A /\ p = b + 8 /\ b \in Nat /\ z[b] \in Nat /\ z[b] >= 32
      /\ Heap(s.mem, s.end - 8, A, F, z) /\ Big(s) /\ s.end # Start
    BY <1>1 DEF BlockOf
<1> HIDE DEF b
<1>5. b < a /\ a < b + z[b]
    BY <1>3, <1>4
<1>6. Record(t) /\ t.mem = Put(s.mem, a, v) /\ t.end = s.end /\ t.errno = s.errno /\ t.ret = s.ret
    BY <1>2 DEF Record
<1>7. Heap(t.mem, s.end - 8, A, F, z)
    <2>1. \A x \in Nat : ~Inside(A, z, x) => At(t.mem, x) = At(s.mem, x)
        BY <1>4, <1>5, <1>6, AtPut DEF Inside
    <2> QED BY <1>4, <2>1, PayloadWords
<1>8. GoodFor(t, seq, A, F, z)
    BY <1>2, <1>4, <1>6, <1>7 DEF GoodFor, Big
<1> QED BY <1>8 DEF Moves

-----------------------------------------------------------------------------
(* The steps of a careful program. *)
LEMMA Requests ==
    /\ \A size \in Sizes : size \in Nat
    /\ \A r \in Resizes : r \in Nat
    /\ \A align \in Aligns : align \in Nat
BY SfmmAssumption

LEMMA Asking ==
    ASSUME Careful, NEW A, NEW F, NEW z, GoodFor(h, live, A, F, z), MayAsk
    PROVE  MayAskOf(h)
<1>1. CASE h.end = Start
    BY <1>1 DEF MayAskOf
<1>2. CASE h.end # Start
    <2>1. Big(h) /\ Start \in Nat
        BY <1>2 DEF GoodFor, Start
    <2>2. h.end > Start
        BY <2>1, SfmmAssumption DEF Big
    <2> QED BY <2>2 DEF MayAsk, MayAskOf
<1> QED BY <1>1, <1>2

LEMMA Freeing ==
    ASSUME NEW A, NEW F, NEW z, GoodFor(h, live, A, F, z), status' = "ok",
           NEW i \in DOMAIN live, Free(i)
    PROVE  Moves(h, live, A, z, h', live', TRUE, TRUE)
<1>1. h' = sf_free(h, live[i].p) /\ live' = RemoveAt(live, i)
    BY DEF Free, Stop, Become, Without
<1>2. Moves(h, live, A, z, sf_free(h, live[i].p), RemoveAt(live, i), TRUE, TRUE)
    BY FreeMoves
<1> QED BY <1>1, <1>2

LEMMA Resizing ==
    ASSUME Careful, NEW A, NEW F, NEW z, GoodFor(h, live, A, F, z), NEW i \in DOMAIN live,
           NEW r \in Nat, MayResize(live[i].p, r)
    PROVE  /\ MayAskOf(h) /\ SizeOf(At(h.mem, live[i].p - 8)) \in Nat
           /\ SizeOf(At(h.mem, live[i].p - 8)) >= 32
           /\ SizeOf(At(h.mem, live[i].p - 8)) >= r =>
                 Moves(h, live, A, z, sf_realloc(h, live[i].p, r), [live EXCEPT ![i].n = r], TRUE, TRUE)
<1> DEFINE p == live[i].p
           size == SizeOf(At(h.mem, p - 8))
<1>1. MayAsk /\ p - 8 + size # h.end - 8 /\ r \notin size - 7 .. size
    BY DEF MayResize
<1>2. MayAskOf(h)
    BY <1>1, Asking
<1>3. BlockOf(h, A, F, z, p - 8, p)
    BY HeldBlock
<1>4. size \in Nat /\ size >= 32
    BY <1>3 DEF BlockOf
<1>5. ASSUME size >= r
      PROVE  Moves(h, live, A, z, sf_realloc(h, live[i].p, r), [live EXCEPT ![i].n = r], TRUE, TRUE)
    <2>1. size = SizeOf(At(h.mem, live[i].p - 8)) /\ live[i].p - 8 + size # h.end - 8
        BY <1>1
    <2> HIDE DEF size
    <2>2. r <= size
        BY <1>4, <1>5
    <2> QED BY <1>1, <1>2, <2>1, <2>2, ShrinkMoves
<1> QED BY <1>2, <1>4, <1>5

LEMMA Reallocating ==
    ASSUME Careful, NEW A, NEW F, NEW z, GoodFor(h, live, A, F, z), status' = "ok",
           NEW i \in DOMAIN live, NEW r \in Nat, Realloc(i, r)
    PROVE  Moves(h, live, A, z, h', live', TRUE, TRUE)
<1> DEFINE p == live[i].p
           s == sf_realloc(h, p, r)
           size == SizeOf(At(h.mem, p - 8))
<1>1. MayResize(p, r)
    BY DEF Realloc
<1>2. /\ MayAskOf(h) /\ size \in Nat
      /\ size >= r => Moves(h, live, A, z, s, [live EXCEPT ![i].n = r], TRUE, TRUE)
    BY <1>1, Resizing
<1>3. /\ s.ret # Null
      /\ \/ size >= r /\ h' = s /\ live' = [live EXCEPT ![i].n = r]
         \/ ~(size >= r) /\ h' = sf_free(s, p) /\ live' = Holding(RemoveAt(live, i), s.ret, r)
    BY DEF Realloc, Stop, Become, Without
<1>4. CASE size >= r
    BY <1>2, <1>3, <1>4
<1>5. CASE ~(size >= r)
    <2>1. size < r
        BY <1>2, <1>5
    <2>2. s = sf_realloc(h, live[i].p, r)
        OBVIOUS
    <2> HIDE DEF s
    <2>3. Moves(h, live, A, z, sf_free(s, live[i].p), Holding(RemoveAt(live, i), s.ret, r), TRUE, TRUE)
        BY <1>2, <1>3, <2>1, <2>2, GrowMoves
    <2> QED BY <1>3, <1>5, <2>3
<1> QED BY <1>4, <1>5

LEMMA ReallocatingZero ==
    ASSUME Careful, NEW A, NEW F, NEW z, GoodFor(h, live, A, F, z), status' = "ok",
           NEW i \in DOMAIN live, ReallocZero(i)
    PROVE  Moves(h, live, A, z, h', live', TRUE, TRUE)
<1> DEFINE s == sf_realloc(h, live[i].p, 0)
           size == SizeOf(At(h.mem, live[i].p - 8))
           seq2 == [live EXCEPT ![i].n = 0]
<1>1. MayResize(live[i].p, 0)
    BY DEF ReallocZero
<1>2. h' = s /\ live' = seq2
    BY DEF ReallocZero, Stop, Become
<1>3. size \in Nat /\ (size >= 0 => Moves(h, live, A, z, s, seq2, TRUE, TRUE))
    <2>1. 0 \in Nat
        OBVIOUS
    <2> QED BY <1>1, <2>1, Resizing
<1> HIDE DEF s, size, seq2
<1>4. size >= 0
    <2>1. size \in Nat
        BY <1>3
    <2> QED BY <2>1
<1>5. Moves(h, live, A, z, s, seq2, TRUE, TRUE)
    BY <1>3, <1>4, Zenon
<1> QED BY <1>2, <1>5

IsWrite == \E i \in DOMAIN live, v \in Values : Write(i, v)
IsMemalign == \E size \in Sizes, align \in Aligns : Memalign(size, align)

LEMMA Stepped ==
    ASSUME Careful, NEW A, NEW F, NEW z, GoodFor(h, live, A, F, z), Next, status' = "ok"
    PROVE  Moves(h, live, A, z, h', live', ~IsWrite, ~IsMemalign)
<1>1. ASSUME Moves(h, live, A, z, h', live', TRUE, TRUE)
      PROVE  Moves(h, live, A, z, h', live', ~IsWrite, ~IsMemalign)
    BY <1>1 DEF Moves
<1>2. ASSUME NEW size \in Sizes, Malloc(size)
      PROVE  Moves(h, live, A, z, h', live', TRUE, TRUE)
    <2>1. h' = sf_malloc(h, size) /\ live' = Holding(live, h'.ret, size) /\ MayAsk /\ size \in Nat
        BY <1>2, Requests DEF Malloc, Become
    <2>2. MayAskOf(h)
        BY <2>1, Asking
    <2>3. Moves(h, live, A, z, sf_malloc(h, size), Holding(live, sf_malloc(h, size).ret, size), TRUE, TRUE)
        BY <2>1, <2>2, MallocMoves
    <2> QED BY <2>1, <2>3
<1>3. ASSUME NEW size \in Sizes, NEW align \in Aligns, Memalign(size, align)
      PROVE  Moves(h, live, A, z, h', live', ~IsWrite, ~IsMemalign)
    <2>1. h' = sf_memalign(h, size, align) /\ live' = Holding(live, h'.ret, size) /\ MayAsk
          /\ size \in Nat /\ align \in Nat
        BY <1>3, Requests DEF Memalign, Become
    <2>2. MayAskOf(h)
        BY <2>1, Asking
    <2> DEFINE t == sf_memalign(h, size, align)
    <2>3. Moves(h, live, A, z, t, Holding(live, t.ret, size), TRUE, FALSE)
        BY <2>1, <2>2, MemalignMoves
    <2>4. Moves(h, live, A, z, h', live', TRUE, FALSE)
        BY <2>1, <2>3
    <2>5. IsMemalign
        BY <1>3 DEF IsMemalign
    <2> QED BY <2>4, <2>5 DEF Moves
<1>4. ASSUME NEW i \in DOMAIN live, NEW v \in Values, Write(i, v)
      PROVE  Moves(h, live, A, z, h', live', ~IsWrite, ~IsMemalign)
    <2>1. PICK a \in {live[i].p, live[i].p + live[i].n - 8} :
               live[i].n >= 8 /\ h' = [h EXCEPT !.mem = Put(h.mem, a, v)] /\ live' = live
        BY <1>4 DEF Write
    <2> DEFINE t == [h EXCEPT !.mem = Put(h.mem, a, v)]
    <2>2. Moves(h, live, A, z, t, live, FALSE, TRUE)
        BY <2>1, WriteMoves
    <2>3. Moves(h, live, A, z, h', live', FALSE, TRUE)
        BY <2>1, <2>2
    <2>4. IsWrite
        BY <1>4 DEF IsWrite
    <2> QED BY <2>3, <2>4 DEF Moves
<1>5. ASSUME NEW i \in DOMAIN live, Free(i) PROVE Moves(h, live, A, z, h', live', TRUE, TRUE)
    BY <1>5, Freeing
<1>6. ASSUME NEW i \in DOMAIN live, ReallocZero(i) PROVE Moves(h, live, A, z, h', live', TRUE, TRUE)
    BY <1>6, ReallocatingZero
<1>7. ASSUME NEW i \in DOMAIN live, NEW r \in Resizes \ {0}, Realloc(i, r)
      PROVE  Moves(h, live, A, z, h', live', TRUE, TRUE)
    BY <1>7, Requests, Reallocating
<1> QED BY <1>1, <1>2, <1>3, <1>4, <1>5, <1>6, <1>7 DEF Next

-----------------------------------------------------------------------------
(* The heap of a careful program at every moment: some A, F and z describe    *)
(* it and what the program holds.  It is inductive as it stands.               *)
IInv == status = "ok" => \E A, F, z : GoodFor(h, live, A, F, z)

LEMMA InitGood == Init => IInv
<1> SUFFICES ASSUME Init PROVE GoodFor(h, live, {}, {}, <<>>)
    BY DEF IInv
<1> QED BY DEF Init, GoodFor, Record, Errnos, Null

LEMMA StepGood == ASSUME Careful, IInv, [Next]_vars PROVE IInv'
<1> SUFFICES ASSUME status' = "ok" PROVE \E A, F, z : GoodFor(h', live', A, F, z)
    BY DEF IInv
<1>1. CASE UNCHANGED vars
    BY <1>1 DEF IInv, vars
<1>2. CASE Next
    <2>1. status = "ok"
        BY <1>2 DEF Next, Malloc, Memalign, Free, ReallocZero, Realloc, Write, Call
    <2>2. PICK A, F, z : GoodFor(h, live, A, F, z)
        BY <2>1 DEF IInv
    <2>3. Moves(h, live, A, z, h', live', ~IsWrite, ~IsMemalign)
        BY <1>2, <2>2, Stepped
    <2> QED BY <2>3 DEF Moves
<1> QED BY <1>1, <1>2

\* A careful program keeps the heap sound for ever: under every sequence of
\* its calls of sf_malloc, sf_free, sf_realloc and sf_memalign and of writes
\* to its payloads, the headers tile the heap, they and the footers agree
\* with what is free, no two free blocks are neighbours, the free lists are
\* rings of the free blocks of their classes, and each allocation is an
\* allocated block of its own with room for the bytes asked for.
THEOREM HeapSound == ASSUME Careful PROVE Spec => []IInv
<1>1. IInv /\ [Next]_vars => IInv'
    BY StepGood
<1> QED BY <1>1, InitGood, PTL DEF Spec

-----------------------------------------------------------------------------
(* The properties of the model. *)
LEMMA Within ==
    ASSUME NEW A, NEW F, NEW z, GoodFor(h, live, A, F, z), NEW i \in DOMAIN live
    PROVE  /\ live[i].p \in Nat /\ live[i].n \in Nat /\ live[i].p >= Start + 48
           /\ live[i].p + live[i].n <= h.end - 8
           /\ \A j \in DOMAIN live : i # j => \/ live[i].p + live[i].n <= live[j].p
                                              \/ live[j].p + live[j].n <= live[i].p
<1>1. \A j \in DOMAIN live : live[j].p \in Nat /\ live[j].n \in Nat
    <2>1. live \in Seq(Allocation)
        BY DEF GoodFor
    <2>2. \A j \in DOMAIN live : live[j] \in Allocation
        BY <2>1
    <2> QED BY <2>2 DEF Allocation
<1>2. h.end # Start /\ Big(h) /\ Heap(h.mem, h.end - 8, A, F, z) /\ Holds(live, A, z)
    BY DEF GoodFor
<1>3. h.end \in Nat /\ Start \in Nat /\ Bottom = Start + 40
    BY <1>2 DEF Big, Bottom, Start
<1>4. Facts(h.end - 8, A, F, z)
    BY <1>2, HeapFacts
<1> DEFINE e == h.end - 8
<1>5. ASSUME NEW j \in DOMAIN live, NEW b, b = live[j].p - 8
      PROVE  /\ b \in A /\ b \in Nat /\ z[b] \in Nat /\ b >= Bottom /\ b + z[b] <= e
             /\ live[j].n <= z[b] - 8 /\ live[j].p = b + 8
    <2>1. b \in A /\ live[j].n <= z[b] - 8
        BY <1>2, <1>5 DEF Holds
    <2>2. b \in Nat /\ z[b] \in Nat /\ b >= Bottom /\ b + z[b] <= e
        BY <1>4, <2>1 DEF Facts
    <2> QED BY <1>1, <1>5, <2>1, <2>2
<1>6. PICK b : b = live[i].p - 8
    OBVIOUS
<1>7. /\ b \in A /\ b \in Nat /\ z[b] \in Nat /\ b >= Bottom /\ b + z[b] <= e
      /\ live[i].n <= z[b] - 8 /\ live[i].p = b + 8
    BY <1>5, <1>6
<1>8. live[i].p >= Start + 48 /\ live[i].p + live[i].n <= h.end - 8
    <2> HIDE DEF e
    <2>1. live[i].p + live[i].n <= b + z[b] /\ e \in Int
        BY <1>1, <1>3, <1>7 DEF e
    <2>2. live[i].p + live[i].n <= e
        BY <1>1, <1>7, <2>1
    <2>3. live[i].p >= Start + 48
        BY <1>3, <1>7
    <2> QED BY <2>2, <2>3 DEF e
<1>9. ASSUME NEW j \in DOMAIN live, i # j
      PROVE  live[i].p + live[i].n <= live[j].p \/ live[j].p + live[j].n <= live[i].p
    <2>1. PICK c : c = live[j].p - 8
        OBVIOUS
    <2>2. c \in A /\ c \in Nat /\ z[c] \in Nat /\ live[j].n <= z[c] - 8 /\ live[j].p = c + 8
        BY <1>5, <2>1
    <2>3. b # c
        <3>1. live[i].p # live[j].p
            BY <1>2, <1>9 DEF Holds
        <3> QED BY <1>7, <2>2, <3>1
    <2>4. b + z[b] <= c \/ c + z[c] <= b
        BY <1>4, <1>7, <2>2, <2>3 DEF Facts
    <2> QED BY <1>1, <1>7, <2>2, <2>4
<1> QED BY <1>1, <1>8, <1>9

LEMMA GoodSeparate == IInv => Separate
<1> SUFFICES ASSUME IInv, status = "ok" PROVE
        /\ \A i \in DOMAIN live : Bytes(live[i]) \subseteq Start + 48 .. h.end - 9
        /\ \A i, j \in DOMAIN live : i # j => Bytes(live[i]) \cap Bytes(live[j]) = {}
    BY DEF Separate
<1>1. PICK A, F, z : GoodFor(h, live, A, F, z)
    BY DEF IInv
<1>2. Start \in Nat
    BY DEF Start
<1>3. \A i \in DOMAIN live : h.end \in Nat
    BY <1>1 DEF GoodFor, Big
<1>4. ASSUME NEW i \in DOMAIN live PROVE Bytes(live[i]) \subseteq Start + 48 .. h.end - 9
    BY <1>1, <1>2, <1>3, <1>4, Within DEF Bytes
<1>5. ASSUME NEW i \in DOMAIN live, NEW j \in DOMAIN live, i # j
      PROVE  Bytes(live[i]) \cap Bytes(live[j]) = {}
    BY <1>1, <1>5, Within DEF Bytes
<1> QED BY <1>4, <1>5

\* The allocations a careful program holds share no byte, and each lies
\* between the first header and the epilogue: sf_malloc, sf_realloc and
\* sf_memalign never hand out the same memory twice.
THEOREM AllocationsApart == ASSUME Careful PROVE Spec => []Separate
<1>1. Spec => []IInv
    BY HeapSound
<1> QED BY <1>1, GoodSeparate, PTL

LEMMA Room ==
    ASSUME NEW s, NEW seq, NEW A, NEW F, NEW z, GoodFor(s, seq, A, F, z), NEW i \in DOMAIN seq,
           NEW b, b = seq[i].p - 8, NEW a \in Bytes(seq[i])
    PROVE  b \in A /\ a \in Nat /\ b < a /\ a < b + z[b]
<1>1. seq[i].p \in Nat /\ seq[i].n \in Nat
    <2>1. seq \in Seq(Allocation)
        BY DEF GoodFor
    <2>2. seq[i] \in Allocation
        BY <2>1
    <2> QED BY <2>2 DEF Allocation
<1>2. Holds(seq, A, z) /\ A \subseteq Nat
    BY GoodHolds
<1>3. b \in A /\ seq[i].n <= z[b] - 8 /\ b \in Nat
    BY <1>2 DEF Holds
<1>4. z[b] \in Nat
    <2>1. s.end # Start
        BY DEF GoodFor
    <2>2. Heap(s.mem, s.end - 8, A, F, z)
        BY <2>1 DEF GoodFor
    <2>3. Facts(s.end - 8, A, F, z)
        BY <2>2, HeapFacts
    <2> QED BY <1>3, <2>3 DEF Facts
<1>5. a \in Int /\ seq[i].p <= a /\ a <= seq[i].p + seq[i].n - 1
    BY <1>1 DEF Bytes
<1> QED BY <1>1, <1>3, <1>4, <1>5

LEMMA StepKeeps ==
    ASSUME Careful, IInv, Next, status' = "ok", ~IsWrite,
           NEW i \in DOMAIN live, NEW j \in DOMAIN live', live'[j].p = live[i].p,
           NEW a \in Bytes(live[i]) \cap Bytes(live'[j])
    PROVE  At(h'.mem, a) = At(h.mem, a)
<1>1. status = "ok"
    BY DEF Next, Malloc, Memalign, Free, ReallocZero, Realloc, Write, Call
<1>2. PICK A, F, z : GoodFor(h, live, A, F, z)
    BY <1>1 DEF IInv
<1>3. Moves(h, live, A, z, h', live', ~IsWrite, ~IsMemalign)
    BY <1>2, Stepped
<1>4. PICK A2, F2, z2 : GoodFor(h', live', A2, F2, z2) /\ Keeps(h.mem, h'.mem, A, z, A2, z2)
    BY <1>3 DEF Moves
<1>5. PICK b : b = live[i].p - 8 /\ b = live'[j].p - 8
    OBVIOUS
<1>6. b \in A /\ a \in Nat /\ b < a /\ a < b + z[b]
    BY <1>2, <1>5, Room
<1>7. b \in A2 /\ a < b + z2[b]
    BY <1>4, <1>5, Room
<1> QED BY <1>4, <1>6, <1>7 DEF Keeps

\* No call of the allocator writes a byte of an allocation that a careful
\* program holds across it, whatever it merges, splits or unlinks: what the
\* program wrote is there until it writes again or gives the memory back.
THEOREM PayloadsKept == ASSUME Careful PROVE Spec => PayloadKept
<1>1. Spec => []IInv
    BY HeapSound
<1>2. IInv /\ [Next]_vars =>
        [ (status' = "ok" /\ ~\E i \in DOMAIN live, v \in Values : Write(i, v)) =>
             \A i \in DOMAIN live, j \in DOMAIN live' :
                live'[j].p = live[i].p =>
                  \A a \in Bytes(live[i]) \cap Bytes(live'[j]) :
                     At(h'.mem, a) = At(h.mem, a) ]_vars
    <2>1. (~\E i \in DOMAIN live, v \in Values : Write(i, v)) => ~IsWrite
        BY DEF IsWrite
    <2> QED BY <2>1, StepKeeps
<1> QED BY <1>1, <1>2, PTL DEF Spec, PayloadKept

-----------------------------------------------------------------------------
(* The walk over the headers (Blocks) visits the blocks of the heap and its   *)
(* epilogue, and nothing else.                                                 *)
Walk(m, N, f) == f = [k \in 0 .. N |-> IF k = 0 THEN Start + 40 ELSE Hop(m, f[k - 1])]

LEMMA Walks ==
    ASSUME NEW m, NEW N \in Nat, NEW f, f = CHOOSE g : Walk(m, N, g)
    PROVE  /\ DOMAIN f = 0 .. N
           /\ f[0] = Bottom
           /\ \A k \in Nat : k + 1 \in 0 .. N => f[k + 1] = Hop(m, f[k])
<1>1. ASSUME NEW k \in Nat, NEW g, Walk(m, k, g) PROVE \E g2 : Walk(m, k + 1, g2)
    <2> DEFINE g2 == [i \in 0 .. k + 1 |-> IF i = 0 THEN Start + 40 ELSE Hop(m, g[i - 1])]
    <2>1. \A i \in 0 .. k : g2[i] = g[i]
        BY <1>1 DEF Walk
    <2>2. \A i \in 0 .. k + 1 : i # 0 => i - 1 \in 0 .. k
        OBVIOUS
    <2>3. \A i \in 0 .. k + 1 : g2[i] = IF i = 0 THEN Start + 40 ELSE Hop(m, g2[i - 1])
        BY <2>1, <2>2
    <2>4. DOMAIN g2 = 0 .. k + 1 /\ g2 = [i \in 0 .. k + 1 |-> g2[i]]
        OBVIOUS
    <2> HIDE DEF g2
    <2>5. Walk(m, k + 1, g2)
        BY <2>3, <2>4 DEF Walk
    <2> QED BY <2>5
<1>2. \E g : Walk(m, 0, g)
    <2> DEFINE g == [k \in 0 .. 0 |-> Start + 40]
    <2>1. g = [k \in 0 .. 0 |-> IF k = 0 THEN Start + 40 ELSE Hop(m, g[k - 1])]
        OBVIOUS
    <2> HIDE DEF g
    <2> QED BY <2>1 DEF Walk
<1> DEFINE S == {k \in Nat : ~\E g : Walk(m, k, g)}
<1>3. S = {}
    <2>1. SUFFICES ASSUME S # {} PROVE FALSE
        OBVIOUS
    <2>2. PICK k \in S : \A j \in S : k <= j
        BY <2>1, LeastNat
    <2>3. k \in Nat /\ k # 0
        BY <1>2
    <2>4. k - 1 \in Nat /\ k - 1 \notin S /\ (k - 1) + 1 = k
        BY <2>2, <2>3
    <2> QED BY <1>1, <2>2, <2>4
<1>4. Walk(m, N, f)
    BY <1>3
<1>5. DOMAIN f = 0 .. N /\ \A k \in 0 .. N : f[k] = IF k = 0 THEN Bottom ELSE Hop(m, f[k - 1])
    BY <1>4 DEF Walk, Bottom
<1>6. \A k \in Nat : k + 1 # 0 /\ (k + 1) - 1 = k
    OBVIOUS
<1> QED BY <1>5, <1>6

LEMMA BlocksAre ==
    ASSUME NEW s, Big(s), NEW A, NEW F, NEW z, Heap(s.mem, s.end - 8, A, F, z)
    PROVE  Blocks(s) = A \cup F \cup {s.end - 8}
<1> DEFINE e == s.end - 8
           m == s.mem
           N == (s.end - Start) \div 32
           B == A \cup F
           f == CHOOSE g : Walk(m, N, g)
<1>1. /\ s.end \in Nat /\ Start \in Nat /\ s.end >= Start /\ e \in Nat /\ s.end = e + 8
      /\ Bottom = Start + 40 /\ Bottom \in Nat
    BY SfmmAssumption, HeapFacts, SentinelWords DEF Big, Facts, Start, Bottom
<1>2. N \in Nat /\ s.end - Start < 32 * N + 32
    BY <1>1
<1>3. Blocks(s) = {f[k] : k \in DOMAIN f}
    BY DEF Blocks, Walk
<1>4. Facts(e, A, F, z) /\ HeaderFacts(m, e, A, F, z)
    BY HeapFacts, Headers
<1>5. \A b \in B : b \in Nat /\ z[b] \in Nat /\ z[b] >= 32 /\ b >= Bottom /\ b + z[b] <= e
                   /\ b + z[b] \in B \cup {e}
    BY <1>4 DEF Facts
<1>6. Bottom \in B /\ \A b, c \in B : b # c => b + z[b] <= c \/ c + z[c] <= b
    BY <1>4 DEF Facts
<1>7. Hop(m, e) = e /\ \A b \in B : Hop(m, b) = b + z[b]
    <2>1. Hop(m, e) = e + 0
        BY <1>4, Epilogue DEF Hop, HeaderFacts
    <2> QED BY <1>1, <1>4, <2>1 DEF Hop, HeaderFacts
<1> HIDE DEF e, m, N, B, f
<1>8. /\ DOMAIN f = 0 .. N /\ f[0] = Bottom
      /\ \A k \in Nat : k + 1 \in 0 .. N => f[k + 1] = Hop(m, f[k])
    BY <1>2, Walks DEF f
<1>9. \A k \in 0 .. N : f[k] \in B \cup {e}
    <2> DEFINE S == {k \in Nat : k \in 0 .. N /\ f[k] \notin B \cup {e}}
    <2>1. S = {}
        <3>1. SUFFICES ASSUME S # {} PROVE FALSE
            OBVIOUS
        <3>2. PICK k \in S : \A j \in S : k <= j
            BY <3>1, LeastNat
        <3>3. k \in Nat /\ k # 0 /\ k \in 0 .. N
            BY <1>6, <1>8
        <3>4. k - 1 \in Nat /\ k - 1 \in 0 .. N /\ k - 1 \notin S /\ (k - 1) + 1 = k
            BY <1>2, <3>2, <3>3
        <3>5. f[k] = Hop(m, f[k - 1]) /\ f[k - 1] \in B \cup {e}
            BY <1>8, <3>3, <3>4
        <3>6. f[k] \in B \cup {e}
            BY <1>5, <1>7, <3>5
        <3> QED BY <3>2, <3>6
    <2> QED BY <1>2, <2>1
<1>10. ASSUME NEW b \in B \cup {e}, \A k \in 0 .. N : f[k] # b PROVE FALSE
    <2> DEFINE S == {k \in Nat : k \in 0 .. N /\ ~(f[k] < b /\ f[k] >= Bottom + 32 * k)}
    <2>1. b \in Nat /\ b >= Bottom /\ b <= e
        BY <1>1, <1>5, <1>6
    <2>2. S = {}
        <3>1. SUFFICES ASSUME S # {} PROVE FALSE
            OBVIOUS
        <3>2. PICK k \in S : \A j \in S : k <= j
            BY <3>1, LeastNat
        <3>3. k \in Nat /\ k \in 0 .. N
            OBVIOUS
        <3>4. k # 0
            <4>1. 0 \in 0 .. N /\ Bottom # b
                BY <1>2, <1>8, <1>10
            <4>2. f[0] < b /\ f[0] >= Bottom + 32 * 0
                BY <1>1, <1>8, <2>1, <4>1
            <4> QED BY <3>2, <4>2
        <3>5. k - 1 \in Nat /\ k - 1 \in 0 .. N /\ k - 1 \notin S /\ (k - 1) + 1 = k
            BY <1>2, <3>2, <3>3, <3>4
        <3> DEFINE c == f[k - 1]
        <3>6. c < b /\ c >= Bottom + 32 * (k - 1) /\ c \in B \cup {e} /\ f[k] = Hop(m, c) /\ f[k] # b
            BY <1>8, <1>9, <1>10, <3>3, <3>5
        <3> HIDE DEF c
        <3>7. c \in B
            BY <1>1, <2>1, <3>6
        <3>8. f[k] = c + z[c] /\ c \in Nat /\ z[c] \in Nat /\ z[c] >= 32
            BY <1>5, <1>7, <3>6, <3>7
        <3>9. c + z[c] <= b
            <4>1. CASE b = e
                BY <1>5, <3>7, <4>1
            <4>2. CASE b \in B
                <5>1. b \in Nat /\ z[b] \in Nat
                    BY <1>5, <4>2
                <5>2. c + z[c] <= b \/ b + z[b] <= c
                    BY <1>6, <3>6, <3>7, <3>8, <4>2, <5>1
                <5> QED BY <3>6, <3>8, <5>1, <5>2
            <4> QED BY <4>1, <4>2
        <3>10. f[k] < b /\ f[k] >= Bottom + 32 * k
            BY <1>1, <2>1, <3>3, <3>6, <3>8, <3>9
        <3> QED BY <3>2, <3>10
    <2>3. N \in 0 .. N /\ N \notin S
        BY <1>2, <2>2
    <2>4. f[N] < b /\ f[N] >= Bottom + 32 * N /\ f[N] \in B \cup {e}
        BY <1>2, <1>9, <2>3
    <2>5. f[N] \in Nat
        BY <1>1, <1>5, <2>4
    <2> QED BY <1>1, <1>2, <2>1, <2>4, <2>5
<1>11. Blocks(s) = B \cup {e}
    BY <1>3, <1>8, <1>9, <1>10
<1> QED BY <1>11 DEF B, e

LEMMA GoodReady ==
    ASSUME IInv, Ready
    PROVE  \E A, F, z : GoodFor(h, live, A, F, z) /\ Big(h) /\ Heap(h.mem, h.end - 8, A, F, z)
<1>1. status = "ok" /\ h.end > Start /\ Start \in Nat
    BY DEF Ready, Start
<1>2. PICK A, F, z : GoodFor(h, live, A, F, z)
    BY <1>1 DEF IInv
<1>3. h.end # Start
    <2>1. SUFFICES ASSUME h.end = Start PROVE FALSE
        OBVIOUS
    <2> QED BY <1>1, <2>1
<1> QED BY <1>2, <1>3 DEF GoodFor

LEMMA GoodCoalesced == IInv => Coalesced
<1> SUFFICES ASSUME IInv, Ready PROVE
      /\ h.end - 8 \in Blocks(h)
      /\ \A b \in Blocks(h) \ {h.end - 8} :
            /\ SizeOf(At(h.mem, b)) >= 32 /\ EndOf(b) <= h.end - 8
            /\ IsFree(b) => /\ At(h.mem, EndOf(b) - 8) = At(h.mem, b)
                            /\ ~IsFree(EndOf(b))
            /\ EndOf(b) # h.end - 8 =>
                  PrevAllocd(At(h.mem, EndOf(b))) = Allocd(At(h.mem, b))
    BY DEF Coalesced
<1>1. PICK A, F, z : GoodFor(h, live, A, F, z) /\ Big(h) /\ Heap(h.mem, h.end - 8, A, F, z)
    BY GoodReady
<1>2. Blocks(h) = A \cup F \cup {h.end - 8}
    BY <1>1, BlocksAre
<1> DEFINE e == h.end - 8
<1>3. /\ Facts(e, A, F, z) /\ HeaderFacts(h.mem, e, A, F, z) /\ \A b \in F : b + z[b] \notin F
      /\ \A b \in F : At(h.mem, b + z[b] - 8) = z[b] + 2
    BY <1>1, HeapFacts, Headers DEF Heap, Words
<1>4. /\ e \notin A \cup F /\ A \cap F = {}
      /\ \A b \in A \cup F : /\ b \in Nat /\ z[b] \in Nat /\ z[b] >= 32 /\ b + z[b] <= e
                             /\ b + z[b] \in A \cup F \cup {e}
      /\ \A b, c \in A \cup F : b # c => b + z[b] <= c \/ c + z[c] <= b
    BY <1>3 DEF Facts
<1>5. \A b \in A \cup F : /\ SizeOf(At(h.mem, b)) = z[b] /\ EndOf(b) = b + z[b]
                          /\ Allocd(At(h.mem, b)) <=> b \in A
                          /\ PrevAllocd(At(h.mem, b)) <=> Behind(F, z, b) = 2
    BY <1>3 DEF HeaderFacts, EndOf
<1>6. \A b \in A \cup F \cup {e} : IsFree(b) <=> b \in F
    BY <1>4, <1>5 DEF IsFree
<1>7. ASSUME NEW b \in A \cup F
      PROVE  /\ SizeOf(At(h.mem, b)) >= 32 /\ EndOf(b) <= e
             /\ IsFree(b) => At(h.mem, EndOf(b) - 8) = At(h.mem, b) /\ ~IsFree(EndOf(b))
             /\ EndOf(b) # e => PrevAllocd(At(h.mem, EndOf(b))) = Allocd(At(h.mem, b))
    <2>1. SizeOf(At(h.mem, b)) >= 32 /\ EndOf(b) <= e
        BY <1>4, <1>5
    <2>2. IsFree(b) => At(h.mem, EndOf(b) - 8) = At(h.mem, b) /\ ~IsFree(EndOf(b))
        <3>1. ASSUME b \in F PROVE At(h.mem, EndOf(b) - 8) = z[b] + 2 /\ At(h.mem, b) = z[b] + 2
            <4>1. At(h.mem, b + z[b] - 8) = z[b] + 2 /\ At(h.mem, b) = z[b] + 2
                BY <1>3, <3>1 DEF HeaderFacts
            <4>2. EndOf(b) = b + z[b]
                BY <1>5
            <4>3. EndOf(b) - 8 = b + z[b] - 8
                BY <1>4, <4>2
            <4> QED BY <4>1, <4>3, Zenon
        <3>2. ASSUME b \in F PROVE ~IsFree(EndOf(b))
            BY <1>3, <1>4, <1>5, <1>6, <3>2
        <3> QED BY <1>6, <3>1, <3>2
    <2>3. ASSUME EndOf(b) # e PROVE PrevAllocd(At(h.mem, EndOf(b))) <=> Allocd(At(h.mem, b))
        <3> DEFINE c == b + z[b]
        <3>1. c \in A \cup F /\ EndOf(b) = c
            BY <1>4, <1>5, <2>3
        <3>2. CASE b \in F
            <4>1. Behind(F, z, c) = 0
                BY <3>2 DEF Behind
            <4> QED BY <1>4, <1>5, <3>1, <3>2, <4>1
        <3>3. CASE b \notin F
            <4>1. ASSUME NEW d \in F, d + z[d] = c PROVE FALSE
                <5>1. b \in Nat /\ z[b] \in Nat /\ d \in Nat /\ z[d] \in Nat /\ z[b] >= 32 /\ z[d] >= 32
                    BY <1>4
                <5>2. b + z[b] <= d \/ d + z[d] <= b
                    BY <1>4, <3>3
                <5> QED BY <4>1, <5>1, <5>2
            <4>2. Behind(F, z, c) = 2
                BY <4>1 DEF Behind
            <4> QED BY <1>5, <3>1, <3>3, <4>2
        <3> QED BY <3>2, <3>3
    <2>4. EndOf(b) # e => PrevAllocd(At(h.mem, EndOf(b))) = Allocd(At(h.mem, b))
        BY <2>3 DEF PrevAllocd, Allocd
    <2> QED BY <2>1, <2>2, <2>4
<1>8. Blocks(h) \ {e} \subseteq A \cup F
    BY <1>2
<1> QED BY <1>2, <1>7, <1>8

\* The headers of a careful program's heap tile it up to the epilogue, each
\* tells whether the block before it is allocated, a free block repeats its
\* header as its footer, and no two free blocks are neighbours: sf_free, the
\* splits and gen_mem leave no gap, no stale bit and nothing to merge.
THEOREM HeapCoalesced == ASSUME Careful PROVE Spec => []Coalesced
<1>1. Spec => []IInv
    BY HeapSound
<1> QED BY <1>1, GoodCoalesced, PTL

-----------------------------------------------------------------------------
(* No allocated block is lost. *)
LEMMA HeldIsOwned ==
    ASSUME NEW s, NEW seq, NEW A, NEW F, NEW z, GoodFor(s, seq, A, F, z), s.end # Start
    PROVE  Held(s, seq) <=> Owned(seq, A)
<1>1. Big(s) /\ Heap(s.mem, s.end - 8, A, F, z) /\ seq \in Seq(Allocation)
    BY DEF GoodFor
<1> DEFINE e == s.end - 8
<1>2. Blocks(s) = A \cup F \cup {e} /\ Facts(e, A, F, z) /\ HeaderFacts(s.mem, e, A, F, z)
    BY <1>1, BlocksAre, HeapFacts, Headers
<1>3. Blocks(s) \ {e} = A \cup F /\ \A b \in A \cup F : Allocd(At(s.mem, b)) <=> b \in A
    BY <1>2 DEF Facts, HeaderFacts
<1>4. \A q : q \in {x.p : x \in ToSet(seq)} <=> \E i \in DOMAIN seq : seq[i].p = q
    BY DEF ToSet
<1> QED BY <1>3, <1>4 DEF Held, Owned

\* After any call but sf_memalign every allocated block of the heap is one the
\* program holds, if that was so before: sf_malloc, sf_free and sf_realloc lose
\* no memory (sf_memalign does, when it returns NULL for the block it took).
THEOREM AllocationsHeld == ASSUME Careful PROVE Spec => HeldKept
<1>1. Spec => []IInv
    BY HeapSound
<1>2. ASSUME IInv, Next, Ready, status' = "ok", Held(h, live), ~IsMemalign
      PROVE  Held(h', live')
    <2>1. status = "ok" /\ h.end > Start
        BY <1>2 DEF Ready
    <2>2. PICK A, F, z : GoodFor(h, live, A, F, z) /\ Big(h)
        BY <1>2, GoodReady
    <2>3. Owned(live, A)
        BY <1>2, <2>2, BigEnd, HeldIsOwned
    <2>4. Moves(h, live, A, z, h', live', ~IsWrite, ~IsMemalign)
        BY <1>2, <2>2, Stepped
    <2>5. PICK A2, F2, z2 : GoodFor(h', live', A2, F2, z2) /\ Owned(live', A2)
        BY <1>2, <2>3, <2>4 DEF Moves
    <2>6. h'.end # Start
        BY <2>2, <2>4, BigEnd DEF Moves
    <2> QED BY <2>5, <2>6, HeldIsOwned
<1>3. IInv /\ [Next]_vars =>
        [ Ready /\ status' = "ok" /\ Held(h, live) =>
            \/ Held(h', live')
            \/ \E size \in Sizes, align \in Aligns : Memalign(size, align) ]_vars
    BY <1>2 DEF IsMemalign
<1> QED BY <1>1, <1>3, PTL DEF Spec, HeldKept

-----------------------------------------------------------------------------
(* The walk along the links of a free list (Ring) meets every block in it.    *)
Rounds(m, first, N, f) ==
    f = [k \in 0 .. N |-> IF k = 0 THEN first ELSE Onward(m, f[k - 1])]
Round(m, first, N) == CHOOSE f : Rounds(m, first, N, f)

LEMMA RoundsOn ==
    ASSUME NEW m, NEW first, NEW N \in Nat, NEW f, f = Round(m, first, N)
    PROVE  /\ DOMAIN f = 0 .. N
           /\ f[0] = first
           /\ \A k \in Nat : k + 1 \in 0 .. N => f[k + 1] = Onward(m, f[k])
<1>1. ASSUME NEW k \in Nat, NEW g, Rounds(m, first, k, g) PROVE \E g2 : Rounds(m, first, k + 1, g2)
    <2> DEFINE g2 == [i \in 0 .. k + 1 |-> IF i = 0 THEN first ELSE Onward(m, g[i - 1])]
    <2>1. \A i \in 0 .. k : g2[i] = g[i]
        BY <1>1 DEF Rounds
    <2>2. \A i \in 0 .. k + 1 : i # 0 => i - 1 \in 0 .. k
        OBVIOUS
    <2>3. \A i \in 0 .. k + 1 : g2[i] = IF i = 0 THEN first ELSE Onward(m, g2[i - 1])
        BY <2>1, <2>2
    <2>4. DOMAIN g2 = 0 .. k + 1 /\ g2 = [i \in 0 .. k + 1 |-> g2[i]]
        OBVIOUS
    <2> HIDE DEF g2
    <2>5. Rounds(m, first, k + 1, g2)
        BY <2>3, <2>4 DEF Rounds
    <2> QED BY <2>5
<1>2. \E g : Rounds(m, first, 0, g)
    <2> DEFINE g == [k \in 0 .. 0 |-> first]
    <2>1. g = [k \in 0 .. 0 |-> IF k = 0 THEN first ELSE Onward(m, g[k - 1])]
        OBVIOUS
    <2> HIDE DEF g
    <2> QED BY <2>1 DEF Rounds
<1> DEFINE S == {k \in Nat : ~\E g : Rounds(m, first, k, g)}
<1>3. S = {}
    <2>1. SUFFICES ASSUME S # {} PROVE FALSE
        OBVIOUS
    <2>2. PICK k \in S : \A j \in S : k <= j
        BY <2>1, LeastNat
    <2>3. k \in Nat /\ k # 0
        BY <1>2
    <2>4. k - 1 \in Nat /\ k - 1 \notin S /\ (k - 1) + 1 = k
        BY <2>2, <2>3
    <2> QED BY <1>1, <2>2, <2>4
<1>4. Rounds(m, first, N, f)
    BY <1>3 DEF Round
<1>5. DOMAIN f = 0 .. N /\ \A k \in 0 .. N : f[k] = IF k = 0 THEN first ELSE Onward(m, f[k - 1])
    BY <1>4 DEF Rounds
<1>6. \A k \in Nat : k + 1 # 0 /\ (k + 1) - 1 = k
    OBVIOUS
<1> QED BY <1>5, <1>6

\* What holds the sentinel and follows the links holds the whole list.
LEMMA ClosedRing ==
    ASSUME NEW m, NEW F, NEW list \in [F -> Lists], Linked(m, list), Apart(F), NEW i \in Lists,
           NEW C, C \subseteq InList(list, i), Sentinel(i) \in C, \A x \in C : NextLink(m, x) \in C
    PROVE  C = InList(list, i)
<1>1. SUFFICES ASSUME InList(list, i) \ C # {} PROVE FALSE
    OBVIOUS
<1>2. PICK rank, top : Ranks(m, list, rank, top)
    BY DEF Linked
<1>3. top \in Nat /\ rank \in [F -> 0 .. top]
    BY <1>2 DEF Ranks
<1> DEFINE out == {x \in F : list[x] = i /\ x \notin C}
           S == {top - rank[b] : b \in out}
<1>4. S \subseteq Nat /\ S # {}
    <2>1. out # {}
        BY <1>1 DEF InList
    <2> QED BY <1>3, <2>1
<1>5. PICK least \in S : \A k \in S : least <= k
    BY <1>4, LeastNat
<1>6. PICK b \in F : list[b] = i /\ b \notin C /\ least = top - rank[b]
    OBVIOUS
<1>7. PrevLink(m, b) \in InList(list, i) /\ NextLink(m, PrevLink(m, b)) = b
    BY <1>6, NoLoop
<1>8. PrevLink(m, b) \in F /\ list[PrevLink(m, b)] = i /\ PrevLink(m, b) \notin C
    BY <1>6, <1>7 DEF InList
<1>9. rank[b] < rank[PrevLink(m, b)]
    BY <1>2, <1>7, <1>8 DEF Ranks
<1>10. top - rank[PrevLink(m, b)] \in S
    BY <1>8
<1> HIDE DEF S
<1> QED BY <1>3, <1>5, <1>6, <1>8, <1>9, <1>10

LEMMA RingIs ==
    ASSUME NEW m, NEW F, NEW list \in [F -> Lists], Linked(m, list), Apart(F), NEW i \in Lists,
           NEW N \in Nat, IsFiniteSet(F), Cardinality(F) + 1 <= N,
           NEW f, f = Round(m, {Sentinel(i)}, N)
    PROVE  f[N] = InList(list, i)
<1> DEFINE L == InList(list, i)
<1>1. /\ f[0] = {Sentinel(i)}
      /\ \A k \in Nat : k + 1 \in 0 .. N => f[k + 1] = Onward(m, f[k])
    <2> DEFINE first == {Sentinel(i)}
    <2>1. f = Round(m, first, N)
        OBVIOUS
    <2> HIDE DEF first
    <2>2. f[0] = first /\ \A k \in Nat : k + 1 \in 0 .. N => f[k + 1] = Onward(m, f[k])
        BY <2>1, RoundsOn
    <2> QED BY <2>2 DEF first
<1>2. Sentinel(i) \in L /\ \A x \in L : NextLink(m, x) \in L
    BY DEF InList, Linked, Rings
<1>3. IsFiniteSet(L) /\ Cardinality(L) <= N /\ Cardinality(L) \in Nat
    <2> DEFINE G == {b \in F : list[b] = i}
    <2>1. IsFiniteSet(G) /\ Cardinality(G) <= Cardinality(F)
        <3>1. G \in SUBSET F
            OBVIOUS
        <3> HIDE DEF G
        <3> QED BY <3>1, FS_Subset
    <2>2. L = G \cup {Sentinel(i)}
        BY DEF InList
    <2> HIDE DEF G, L
    <2>3. IsFiniteSet(L) /\ Cardinality(L) <= Cardinality(G) + 1
        <3>1. Cardinality(G) \in Nat
            BY <2>1, FS_CardinalityType
        <3>2. \A x : /\ IsFiniteSet(G \cup {x})
                    /\ Cardinality(G \cup {x}) = IF x \in G THEN Cardinality(G) ELSE Cardinality(G) + 1
            BY <2>1, FS_AddElement
        <3>3. ASSUME NEW x PROVE IsFiniteSet(G \cup {x}) /\ Cardinality(G \cup {x}) <= Cardinality(G) + 1
            <4>1. \/ Cardinality(G \cup {x}) = Cardinality(G)
                  \/ Cardinality(G \cup {x}) = Cardinality(G) + 1
                BY <3>2, Zenon
            <4>2. Cardinality(G \cup {x}) <= Cardinality(G) + 1
                BY <3>1, <4>1
            <4> QED BY <3>2, <4>2
        <3> QED BY <2>2, <3>3
    <2>4. Cardinality(L) \in Nat /\ Cardinality(G) \in Nat /\ Cardinality(F) \in Nat
        BY <2>1, <2>3, FS_CardinalityType
    <2> QED BY <2>1, <2>3, <2>4
<1> HIDE DEF L
<1> DEFINE P(k) == f[k] \subseteq L /\ Sentinel(i) \in f[k] /\ (f[k] # L => Cardinality(f[k]) >= k + 1)
           S == {k \in Nat : k \in 0 .. N /\ ~P(k)}
<1>4. P(0)
    <2>1. Cardinality({Sentinel(i)}) = 1
        BY FS_Singleton
    <2>2. Cardinality(f[0]) = 1
        BY <1>1, <2>1
    <2> QED BY <1>1, <1>2, <2>2
<1>5. ASSUME NEW k \in Nat, k + 1 \in 0 .. N, P(k) PROVE P(k + 1)
    <2>1. f[k + 1] = f[k] \cup {NextLink(m, x) : x \in f[k]}
        BY <1>1, <1>5 DEF Onward
    <2>2. f[k + 1] \subseteq L /\ Sentinel(i) \in f[k + 1]
        BY <1>2, <1>5, <2>1
    <2>3. ASSUME f[k + 1] # L PROVE Cardinality(f[k + 1]) >= (k + 1) + 1
        <3>1. f[k] # L
            BY <1>2, <2>1, <2>2, <2>3
        <3>2. PICK x \in f[k] : NextLink(m, x) \notin f[k]
            BY <1>5, <3>1, ClosedRing DEF L
        <3>3. IsFiniteSet(f[k]) /\ IsFiniteSet(f[k + 1])
            BY <1>3, <1>5, <2>2, FS_Subset
        <3>4. Cardinality(f[k] \cup {NextLink(m, x)}) = Cardinality(f[k]) + 1
            <4> DEFINE C == f[k]
                       y == NextLink(m, x)
            <4>1. IsFiniteSet(C) /\ y \notin C
                BY <3>2, <3>3
            <4> HIDE DEF C, y
            <4>2. Cardinality(C \cup {y}) = IF y \in C THEN Cardinality(C) ELSE Cardinality(C) + 1
                BY <4>1, FS_AddElement
            <4>3. Cardinality(C \cup {y}) = Cardinality(C) + 1
                BY <4>1, <4>2, Zenon
            <4> QED BY <4>3 DEF C, y
        <3>5. Cardinality(f[k] \cup {NextLink(m, x)}) <= Cardinality(f[k + 1])
            <4>1. f[k] \cup {NextLink(m, x)} \in SUBSET f[k + 1]
                BY <2>1
            <4> QED BY <3>3, <4>1, FS_Subset
        <3>6. Cardinality(f[k]) \in Nat /\ Cardinality(f[k + 1]) \in Nat
            BY <3>3, FS_CardinalityType
        <3>7. Cardinality(f[k]) >= k + 1
            BY <1>5, <3>1
        <3> QED BY <3>4, <3>5, <3>6, <3>7
    <2> QED BY <2>2, <2>3
<1>6. S = {}
    <2>1. SUFFICES ASSUME S # {} PROVE FALSE
        OBVIOUS
    <2> HIDE DEF P
    <2>2. PICK k \in S : \A j \in S : k <= j
        BY <2>1, LeastNat
    <2>3. k \in Nat /\ k # 0 /\ k \in 0 .. N /\ ~P(k)
        BY <1>4
    <2>4. k - 1 \in Nat /\ k - 1 \in 0 .. N /\ k - 1 \notin S /\ (k - 1) + 1 = k
        BY <2>2, <2>3
    <2>5. P(k - 1)
        BY <2>4
    <2> QED BY <1>5, <2>3, <2>4, <2>5
<1>7. P(N)
    <2> HIDE DEF P
    <2>1. N \in 0 .. N
        OBVIOUS
    <2> QED BY <1>6, <2>1
<1>8. SUFFICES ASSUME f[N] # L PROVE FALSE
    BY DEF L
<1>9. Cardinality(f[N]) >= N + 1 /\ Cardinality(f[N]) <= Cardinality(L) /\ IsFiniteSet(f[N])
    BY <1>3, <1>7, <1>8, FS_Subset
<1>10. Cardinality(f[N]) \in Nat
    BY <1>9, FS_CardinalityType
<1> QED BY <1>3, <1>9, <1>10

LEMMA OneClass ==
    ASSUME NEW n \in Nat, n >= 32
    PROVE  get_index(n) = CHOOSE i \in 0 .. 6 : InClass(n, i)
<1>1. get_index(n) \in 0 .. 6 /\ InClass(n, get_index(n))
    BY IndexMatchesClass
<1>2. ASSUME NEW i \in 0 .. 6, NEW j \in 0 .. 6, InClass(n, i), InClass(n, j) PROVE i = j
    BY <1>2 DEF InClass
<1> HIDE DEF get_index
<1> QED BY <1>1, <1>2

LEMMA GoodListed == IInv => Listed
<1> SUFFICES ASSUME IInv, Ready, NEW i \in Lists PROVE
      /\ Ring(i) = {Sentinel(i)} \cup {b \in Blocks(h) : IsFree(b) /\ ClassOf(b) = i}
      /\ \A b \in Ring(i) : PrevLink(h.mem, NextLink(h.mem, b)) = b
    BY DEF Listed
<1>1. PICK A, F, z : GoodFor(h, live, A, F, z) /\ Big(h) /\ Heap(h.mem, h.end - 8, A, F, z)
    BY GoodReady
<1> DEFINE e == h.end - 8
           list == ListOf(e, F, z)
           N == Cardinality(Blocks(h))
           f == Round(h.mem, {Sentinel(i)}, N)
<1>2. Blocks(h) = A \cup F \cup {e}
    BY <1>1, BlocksAre
<1>3. Facts(e, A, F, z) /\ HeaderFacts(h.mem, e, A, F, z) /\ Linked(h.mem, list)
    BY <1>1, HeapFacts, Headers DEF Heap
<1>4. /\ e \in Nat /\ e \notin A \cup F /\ A \cap F = {} /\ Apart(F) /\ list \in [F -> Lists]
      /\ \A b \in A \cup F : b \in Nat /\ z[b] \in Nat /\ z[b] >= 32 /\ b + z[b] <= e
    BY <1>3 DEF Facts
<1>5. \A b \in A \cup F : /\ SizeOf(At(h.mem, b)) = z[b] /\ EndOf(b) = b + z[b]
                          /\ Allocd(At(h.mem, b)) <=> b \in A
    BY <1>3 DEF HeaderFacts, EndOf
<1>6. {b \in Blocks(h) : IsFree(b) /\ ClassOf(b) = i} = {b \in F : list[b] = i}
    <2>1. \A b \in Blocks(h) : IsFree(b) <=> b \in F
        BY <1>2, <1>4, <1>5 DEF IsFree
    <2>2. ASSUME NEW b \in F PROVE ClassOf(b) = list[b]
        <3>1. list[b] = IF b + z[b] = e THEN 7 ELSE get_index(z[b])
            BY DEF ListOf, Class, Wild
        <3>2. get_index(z[b]) = CHOOSE j \in 0 .. 6 : InClass(z[b], j)
            BY <1>4, OneClass
        <3>3. SizeOf(At(h.mem, b)) = z[b] /\ EndOf(b) = b + z[b]
            BY <1>5
        <3> QED BY <3>1, <3>2, <3>3, Zenon DEF ClassOf
    <2> HIDE DEF list
    <2> QED BY <1>2, <2>1, <2>2
<1>7. InList(list, i) = {Sentinel(i)} \cup {b \in Blocks(h) : IsFree(b) /\ ClassOf(b) = i}
    <2>1. DOMAIN list = F
        BY DEF ListOf
    <2> HIDE DEF list
    <2> QED BY <1>6, <2>1 DEF InList
<1>8. IsFiniteSet(F) /\ N \in Nat /\ Cardinality(F) + 1 <= N
    <2>1. \A b \in A \cup F \cup {e} : b \in Nat /\ b <= e
        BY <1>4
    <2>2. IsFiniteSet(A \cup F \cup {e})
        <3> DEFINE B == A \cup F \cup {e}
        <3>1. B \in SUBSET Nat /\ \A b \in B : b <= e
            BY <2>1
        <3> HIDE DEF B
        <3>2. IsFiniteSet(B)
            BY <1>4, <3>1, FS_BoundedSetOfNaturals
        <3> QED BY <3>2 DEF B
    <2>3. IsFiniteSet(F) /\ IsFiniteSet(F \cup {e}) /\ Cardinality(F \cup {e}) <= Cardinality(A \cup F \cup {e})
        <3> DEFINE B == A \cup F \cup {e}
                   G == F \cup {e}
        <3>1. F \in SUBSET B /\ G \in SUBSET B /\ IsFiniteSet(B)
            BY <2>2
        <3> HIDE DEF B, G
        <3>2. IsFiniteSet(F) /\ IsFiniteSet(G) /\ Cardinality(G) <= Cardinality(B)
            BY <3>1, FS_Subset
        <3> QED BY <3>2 DEF B, G
    <2>4. Cardinality(F \cup {e}) = Cardinality(F) + 1
        <3>1. e \notin F
            BY <1>4
        <3> HIDE DEF e
        <3>2. Cardinality(F \cup {e}) = IF e \in F THEN Cardinality(F) ELSE Cardinality(F) + 1
            BY <2>3, FS_AddElement
        <3> QED BY <3>1, <3>2, Zenon
    <2>5. N = Cardinality(A \cup F \cup {e})
        BY <1>2
    <2>6. N \in Nat
        BY <2>2, <2>5, FS_CardinalityType
    <2> HIDE DEF N
    <2> QED BY <2>3, <2>4, <2>5, <2>6
<1>9. Ring(i) = f[N]
    BY DEF Ring, Round, Rounds
<1>10. Ring(i) = InList(list, i)
    <2> HIDE DEF list, N, f
    <2>1. f = Round(h.mem, {Sentinel(i)}, N)
        BY DEF f
    <2> QED BY <1>3, <1>4, <1>8, <1>9, <2>1, RingIs
<1>11. \A b \in InList(list, i) : PrevLink(h.mem, NextLink(h.mem, b)) = b
    BY <1>3 DEF Linked, Rings
<1> QED BY <1>7, <1>10, <1>11

\* The links of each free list of a careful program's heap form one ring
\* through its sentinel, forwards and backwards, with every free block of the
\* class on it and no other: what the splits, sf_free and norm_alloc unlink
\* and link again is never lost, nor left in a list where it does not belong.
THEOREM FreeBlocksListed == ASSUME Careful PROVE Spec => []Listed
<1>1. Spec => []IInv
    BY HeapSound
<1> QED BY <1>1, GoodListed, PTL
=============================================================================
