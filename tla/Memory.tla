------------------------------- MODULE Memory --------------------------------
(***************************************************************************)
(* The memory allocator of Xinu: meminit, getmem, getstk, freemem and      *)
(* freestk, on the address-ordered free list memlist.  Addresses and sizes *)
(* are unsigned words: arithmetic is modulo W.                             *)
(***************************************************************************)
EXTENDS Integers, Sequences, SequencesExt, FiniteSets

CONSTANTS W,           \* number of values of a uint32
          MB,          \* block unit, 8 bytes in memory.h
          WORD,        \* sizeof(uint32)
          Ends,        \* addresses where the kernel image may end (&end)
          MAXHEAP,     \* highest valid heap address (setsegs)
          HOLESTART, HOLEEND, NULLSTK,
          Sizes,       \* sizes callers ask for
          MaxBlocks    \* bound on the blocks handed out at a time

ASSUME LayoutAssumption ==
    /\ W \in Nat /\ MB \in Nat \ {0} /\ W % MB = 0 /\ WORD \in 1..MB
    /\ HOLESTART % MB = 0 /\ HOLEEND % MB = 0
    /\ {MAXHEAP, HOLESTART, HOLEEND, NULLSTK} \cup Ends \cup Sizes \subseteq 1..(W - 1)

VARIABLES minheap,     \* start of the heap
          memlist,     \* the free list: a sequence of blocks [addr, len]
          mlength,     \* memlist.mlength
          held         \* what callers got and have not freed: the pointer,
                       \* the size they asked for, and getstk or getmem
memvars == <<minheap, memlist, mlength, held>>

BugRoundDown(x) == (x % W) - ((x % W) % MB)
roundmb(x) == LET y == (MB - 1 + x) % W IN y - (y % MB)
truncmb(x) == (x % W) - ((x % W) % MB)

Blk(a, n) == [addr |-> a, len |-> n]
Top(b) == (b.addr + b.len) % W

\* The list that meminit makes: two blocks around the hole, or one.
FirstList(end) ==
    IF MAXHEAP + 1 > HOLESTART
    THEN << Blk(roundmb(end), truncmb(HOLESTART - end - WORD)),
            Blk(HOLEEND, truncmb(MAXHEAP - HOLEEND - NULLSTK)) >>
    ELSE << Blk(roundmb(end), truncmb(MAXHEAP - end - NULLSTK)) >>

meminit ==
    /\ minheap \in Ends
    /\ memlist = FirstList(minheap)
    /\ mlength = 0                           \* meminit does not set it
    /\ held = {}

\* The free list with the block at i taken out, or replaced by b.
Without(i) == RemoveAt(memlist, i)
With(i, b) == [memlist EXCEPT ![i] = b]

\* The first and the last block that n bytes fit in.
Fits(n) == {i \in 1..Len(memlist) : memlist[i].len >= n}
FirstFit(n) == CHOOSE i \in Fits(n) : \A j \in Fits(n) : i <= j
LastFit(n) == CHOOSE i \in Fits(n) : \A j \in Fits(n) : i >= j

\* getmem: the bottom of the first block that is large enough.
getmem(n) ==
    LET nbytes == roundmb(n)
        i == FirstFit(nbytes)
        b == memlist[i]
    IN  /\ n # 0 /\ Fits(nbytes) # {}
        /\ memlist' = IF b.len = nbytes THEN Without(i)
                      ELSE With(i, Blk((b.addr + nbytes) % W, b.len - nbytes))
        /\ mlength' = (mlength - nbytes) % W
        /\ held' = held \cup {[ptr |-> b.addr, n |-> n, stk |-> FALSE]}
        /\ UNCHANGED minheap

\* getstk: the top of the last block that is large enough; the pointer is to
\* the highest word.
getstk(n) ==
    LET nbytes == roundmb(n)
        i == LastFit(nbytes)
        b == memlist[i]
    IN  /\ n # 0 /\ Fits(nbytes) # {}
        /\ memlist' = IF b.len = nbytes THEN Without(i) ELSE With(i, Blk(b.addr, b.len - nbytes))
        /\ mlength' = (mlength - nbytes) % W
        /\ held' = held \cup {[ptr |-> (Top(b) - WORD) % W, n |-> n, stk |-> TRUE]}
        /\ UNCHANGED minheap

\* freemem's walk stops at the first free block not below a.
NextFree(a) ==
    CHOOSE i \in 1..(Len(memlist) + 1) :
        /\ \A j \in 1..(i - 1) : memlist[j].addr < a
        /\ i <= Len(memlist) => memlist[i].addr >= a

\* Its tests: the block starts in the heap and overlaps no neighbour.
Accepted(a, n) ==
    LET i == NextFree(a)
    IN  /\ n # 0 /\ minheap <= a /\ a <= MAXHEAP
        /\ i > 1 => a >= Top(memlist[i - 1])
        /\ i <= Len(memlist) => (a + roundmb(n)) % W <= memlist[i].addr

\* The free list after the block is linked in and coalesced with the block
\* before it and with the block after it.
BugNoMerge(a, nbytes) == InsertAt(memlist, NextFree(a), Blk(a, nbytes))
Linked(a, nbytes) ==
    LET i == NextFree(a)
        low == IF i > 1 /\ Top(memlist[i - 1]) = a THEN i - 1 ELSE i
        b == IF low < i THEN Blk(memlist[low].addr, memlist[low].len + nbytes)
             ELSE Blk(a, nbytes)
        joins == i <= Len(memlist) /\ Top(b) = memlist[i].addr
    IN  SubSeq(memlist, 1, low - 1)
        \o <<IF joins THEN Blk(b.addr, b.len + memlist[i].len) ELSE b>>
        \o SubSeq(memlist, IF joins THEN i + 1 ELSE i, Len(memlist))

freemem(a, n) ==
    /\ Accepted(a, n)
    /\ memlist' = Linked(a, roundmb(n))
    /\ mlength' = (mlength + roundmb(n)) % W

\* freestk finds the block's address from the pointer to its highest word.
StackAddr(p, len) == (p - roundmb(len) + WORD) % W
AddrOf(h) == IF h.stk THEN StackAddr(h.ptr, h.n) ELSE h.ptr
release(h) ==
    /\ freemem(AddrOf(h), h.n)
    /\ held' = held \ {h}
    /\ UNCHANGED minheap

MayTake == Cardinality(held) < MaxBlocks
MemNext ==
    \/ \E n \in Sizes : MayTake /\ getmem(n)
    \/ \E n \in Sizes : MayTake /\ getstk(n)
    \/ \E h \in held : release(h)
MemSpec == meminit /\ [][MemNext]_memvars
-----------------------------------------------------------------------------
Cells(a, n) == a .. (a + n - 1)
ListCells(l) == UNION {Cells(l[i].addr, l[i].len) : i \in 1..Len(l)}
HeldCells(h) == Cells(AddrOf(h), roundmb(h.n))
Arena == ListCells(FirstList(minheap))

\* The free list is in order of address, its blocks are not empty, and no two
\* of them touch: freemem.c coalesces whatever is adjacent, in every order of
\* freeing.
Coalesced ==
    \A i \in 1..Len(memlist) :
        /\ memlist[i].len > 0
        /\ i < Len(memlist) => memlist[i].addr + memlist[i].len < memlist[i + 1].addr

\* Every cell of the heap is on the free list or in exactly one block that a
\* caller has, and memlist.mlength has followed every change: nothing is lost
\* and nothing is given twice (getmem.c, getstk.c, freemem.c).
Partition ==
    /\ ListCells(memlist) \cup UNION {HeldCells(h) : h \in held} = Arena
    /\ \A h \in held : HeldCells(h) \cap ListCells(memlist) = {}
    /\ \A g, h \in held : g # h => HeldCells(g) \cap HeldCells(h) = {}
    /\ (mlength + Cardinality(Arena)) % W = Cardinality(ListCells(memlist)) % W

\* The free list is right in both respects after every sequence of calls.
FreeListSound == Coalesced /\ Partition

\* Whatever is handed out lies in the heap (memory.h:28-29: minheap is the
\* "Start of heap", maxheap the "Highest valid heap address").
HeldInHeap == \A h \in held : HeldCells(h) \subseteq minheap..MAXHEAP

\* The allocator is a Heap on the cells that meminit put on the list.
H == INSTANCE Heap WITH Arenas <- {ListCells(FirstList(e)) : e \in Ends},
                        free <- ListCells(memlist),
                        given <- {HeldCells(h) : h \in held}
IsHeap == H!Spec
==============================================================================
