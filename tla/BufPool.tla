------------------------------- MODULE BufPool -------------------------------
(***************************************************************************)
(* Buffer pools (system/bufinit.c, mkbufpool.c, getbuf.c, freebuf.c).       *)
(* Processes as in Ports: a process that has been let through a wait        *)
(* continues at any later time.                                             *)
(***************************************************************************)
EXTENDS Sem

CONSTANTS BufProcs,
          NBPOOLS,     \* size of buftab
          BufSizes,    \* sizes given to mkbufpool, in bytes
          BufCounts,   \* numbers of buffers given to mkbufpool
          BufMem,      \* bytes that getmem can hand out
          BufSems,     \* semaphores that are left in semtab
          BufKills,    \* bound on the number of processes killed
          BP_MINB, BP_MAXB, BP_MAXN

ASSUME BufArgsAssumption == BufSizes \subseteq Int /\ BufCounts \subseteq Int
ASSUME BufLimitsAssumption ==
    /\ {NBPOOLS, BufMem, BufSems, BP_MINB, BP_MAXB, BP_MAXN} \subseteq Nat
    /\ IsFiniteSet(BufProcs)

VARIABLES buftab,      \* the pools made: free list, semaphore, shape
          bufid,       \* the word in front of each buffer: pool id or link
          bufmem, bufsems,
          bufheld,     \* buffers that each process holds
          bufwait,     \* the pool whose getbuf a process is in, or NoPool
          bufkilled, buflost
bufvars == <<buftab, bufid, bufmem, bufsems, bufheld, bufwait, bufkilled, buflost>>

NoPool == -1
nbpools == Len(buftab)                \* pool ids are 0 .. nbpools - 1
Pool(i) == buftab[i + 1]
PoolIds == 0..(nbpools - 1)
Buf(i, k) == [pool |-> i, num |-> k]
AllBufs == [pool : 0..(NBPOOLS - 1), num : 1..BP_MAXN]

bufinit ==
    /\ buftab = << >> /\ bufid = [b \in AllBufs |-> "link"]
    /\ bufmem = BufMem /\ bufsems = BufSems
    /\ bufheld = [p \in BufProcs |-> {}] /\ bufwait = [p \in BufProcs |-> NoPool]
    /\ bufkilled = 0 /\ buflost = [i \in 0..(NBPOOLS - 1) |-> 0]

BufIdle(p) == bufwait[p] = NoPool
BufAwake(p) == bufwait[p] # NoPool /\ ~Waits(Pool(bufwait[p]).sem, p)

\* A buffer has its size rounded to whole words, and a word for the pool id.
PoolBytes(size, n) == n * (4 * ((size + 3) \div 4) + 4)

PoolWithoutSem(bytes) == bufmem' = bufmem

mkbufpool(p, size, n) ==
    /\ BufIdle(p)
    /\ size >= BP_MINB /\ size <= BP_MAXB /\ n >= 1 /\ n <= BP_MAXN /\ nbpools < NBPOOLS
    /\ PoolBytes(size, n) <= bufmem                    \* getmem succeeds
    /\ \/ /\ bufsems = 0                               \* semcreate fails
          /\ PoolWithoutSem(PoolBytes(size, n)) /\ UNCHANGED <<buftab, bufsems>>
       \/ /\ bufsems > 0 /\ bufsems' = bufsems - 1
          /\ bufmem' = bufmem - PoolBytes(size, n)
          /\ buftab' = Append(buftab, [free |-> [k \in 1..n |-> Buf(nbpools, k)],
                                       sem |-> SemNew(n), size |-> size, n |-> n])
    /\ UNCHANGED <<bufid, bufheld, bufwait, bufkilled, buflost>>

\* A pool gets another list and another state of its semaphore.
PoolBecomes(i, free, s) ==
    buftab' = [buftab EXCEPT ![i + 1] = [@ EXCEPT !.free = free, !.sem = s]]

\* getbuf after its wait: the list is not tested for NULL.
BufTake(p, i, s) ==
    LET b == Head(Pool(i).free) IN
    /\ PoolBecomes(i, Tail(Pool(i).free), s)
    /\ bufid' = [bufid EXCEPT ![b] = i]
    /\ bufheld' = [bufheld EXCEPT ![p] = @ \cup {b}]

getbuf(p, i) ==
    /\ BufIdle(p) /\ i \in PoolIds
    /\ \/ /\ Passes(Pool(i).sem)
          /\ BufTake(p, i, P(Pool(i).sem, p)) /\ UNCHANGED bufwait
       \/ /\ ~Passes(Pool(i).sem)
          /\ PoolBecomes(i, Pool(i).free, P(Pool(i).sem, p))
          /\ bufwait' = [bufwait EXCEPT ![p] = i]
          /\ UNCHANGED <<bufid, bufheld>>
    /\ UNCHANGED <<bufmem, bufsems, bufkilled, buflost>>
getbufRest(p) ==
    /\ BufAwake(p)
    /\ BufTake(p, bufwait[p], Pool(bufwait[p]).sem)
    /\ bufwait' = [bufwait EXCEPT ![p] = NoPool]
    /\ UNCHANGED <<bufmem, bufsems, bufkilled, buflost>>

\* The pool is the one named in front of the buffer; the word becomes the
\* link of the free list.  A buffer may be freed by a process that was
\* handed it by another.
BugSignalFirst(p, b) ==                \* signal without putting the buffer back
    /\ BufIdle(p) /\ bufid[b] \in PoolIds
    /\ LET i == bufid[b] IN PoolBecomes(i, Pool(i).free, V(Pool(i).sem))
    /\ bufid' = [bufid EXCEPT ![b] = "link"]
    /\ bufheld' = [q \in BufProcs |-> bufheld[q] \ {b}]
    /\ UNCHANGED <<bufmem, bufsems, bufwait, bufkilled, buflost>>
freebuf(p, b) ==
    /\ BufIdle(p) /\ bufid[b] \in PoolIds
    /\ LET i == bufid[b] IN PoolBecomes(i, <<b>> \o Pool(i).free, V(Pool(i).sem))
    /\ bufid' = [bufid EXCEPT ![b] = "link"]
    /\ bufheld' = [q \in BufProcs |-> bufheld[q] \ {b}]
    /\ UNCHANGED <<bufmem, bufsems, bufwait, bufkilled, buflost>>

\* kill: what the process holds is never given back; a permit it was let
\* through with is gone.
bufkill(p) ==
    /\ bufkilled < BufKills /\ bufkilled' = bufkilled + 1
    /\ bufwait[p] # NoPool
    /\ LET i == bufwait[p] IN
       /\ PoolBecomes(i, Pool(i).free, Leave(Pool(i).sem, p))
       /\ buflost' = IF BufAwake(p) THEN [buflost EXCEPT ![i] = @ + 1] ELSE buflost
    /\ bufwait' = [bufwait EXCEPT ![p] = NoPool]
    /\ UNCHANGED <<bufid, bufmem, bufsems, bufheld>>

BufHeld == UNION {bufheld[p] : p \in BufProcs}
BufNext ==
    \E p \in BufProcs :
        \/ \E size \in BufSizes, n \in BufCounts : mkbufpool(p, size, n)
        \/ \E i \in PoolIds : getbuf(p, i)
        \/ \E b \in BufHeld : freebuf(p, b)
        \/ getbufRest(p) \/ bufkill(p)
BufSpec == bufinit /\ [][BufNext]_bufvars
-----------------------------------------------------------------------------
\* Every buffer of a pool is on the pool's own list or held by one process,
\* never both, and the semaphore counts the list less what the processes that
\* have been let through are about to take: getbuf.c:31 unlinks the first
\* buffer without a test, and getbuf.c:30 does not look at what wait returned.
\* And the memory of the pools is what getmem has handed out: a pool that could
\* not get its semaphore gives its memory back (mkbufpool.c:40).
PoolMemory == UNION {{i} \X (1..PoolBytes(Pool(i).size, Pool(i).n)) : i \in PoolIds}
BuffersConserved ==
    /\ bufmem + Cardinality(PoolMemory) = BufMem
    /\ \A p, q \in BufProcs : bufheld[p] \cap bufheld[q] # {} => p = q
    /\ \A i \in PoolIds :
        LET free == Pool(i).free
            held == {b \in BufHeld : b.pool = i}
            awake == {p \in BufProcs : bufwait[p] = i /\ BufAwake(p)} IN
        /\ NoDup(free) /\ ToSet(free) \cap held = {}
        /\ ToSet(free) \cup held = {Buf(i, k) : k \in 1..Pool(i).n}
        /\ Pool(i).sem.val + Cardinality(awake) + buflost[i] = Len(free)
==============================================================================
