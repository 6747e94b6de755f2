------------------------------ MODULE SfmmSizes ------------------------------
(***************************************************************************)
(* The arithmetic of the allocator of hw3 (src/hw3/src/sfmm.c): the size   *)
(* of the block a request gets, the free list of a size, and the unsigned  *)
(* comparison that decides whether a block is split.                       *)
(***************************************************************************)
EXTENDS Integers

\* Mutant of get_index: the upper bound of the second list is left out of it.
get_index_exclusive(n) ==
    IF n = 32 THEN 0 ELSE IF n < 64 THEN 1 ELSE IF n <= 128 THEN 2 ELSE 3

\* The free list of a block of n bytes.
get_index(n) ==
    IF n = 32 THEN 0
    ELSE IF n <= 64 THEN 1
    ELSE IF n <= 128 THEN 2
    ELSE IF n <= 256 THEN 3
    ELSE IF n <= 512 THEN 4
    ELSE IF n <= 1024 THEN 5
    ELSE 6

\* The classes of the comment before NUM_FREE_LISTS in sfmm.h, for M = 32.
InClass(n, i) ==
    /\ i = 0 => n = 32
    /\ i = 1 => n > 32 /\ n <= 64
    /\ i = 2 => n > 64 /\ n <= 128
    /\ i = 3 => n > 128 /\ n <= 256
    /\ i = 4 => n > 256 /\ n <= 512
    /\ i = 5 => n > 512 /\ n <= 1024
    /\ i = 6 => n > 1024

\* A request with its header, at least 32, rounded up to a multiple of 16.  The
\* code computes it in an int, which cuts off what it cannot hold: for a request
\* that is not FitsInt the block is another one.
BlockSize(n) ==
    LET v == IF n + 8 < 32 THEN 32 ELSE n + 8
    IN  IF v % 16 = 0 THEN v ELSE v + (16 - (v % 16))

INT_MAX == 2147483647
FitsInt(n) == n + 8 + 15 <= INT_MAX

\* a - b >= 32 for size_t: a difference below zero is a huge number.
Splittable(a, b) == a - b \notin 0 .. 31
=============================================================================
