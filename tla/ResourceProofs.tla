--------------------------- MODULE ResourceProofs -----------------------------
(***************************************************************************)
(* Buffer pools, the memory allocator, ports and paging, in this order.    *)
(* No buffer is lost, handed out twice or taken from an empty list, for    *)
(* every number of processes, pools and buffers; no cell of the heap is    *)
(* lost or handed out twice, for every layout of memory and every sequence *)
(* of calls; the message nodes of the ports are conserved and their        *)
(* permits account for the messages, for every number of processes, ports  *)
(* and nodes; and the identity map of the pages is right, for every size   *)
(* of the directory and the tables and every place of their area.          *)
(***************************************************************************)
EXTENDS BufPool, Memory, Ports, Paging, SemProofs

\* Buffer pools.  The shape of the tables.
PoolRecords == [free : Seq(AllBufs), sem : SemRecords(BufProcs), size : Nat, n : 1..BP_MAXN]
BufTypeOK ==
    /\ buftab \in Seq(PoolRecords) /\ Len(buftab) <= NBPOOLS
    /\ bufid \in [AllBufs -> {"link"} \cup Int]
    /\ bufmem \in Int /\ bufsems \in Nat
    /\ bufheld \in [BufProcs -> SUBSET AllBufs]
    /\ bufwait \in [BufProcs -> {NoPool} \cup PoolIds]
    /\ bufkilled \in Nat /\ buflost \in [0..(NBPOOLS - 1) -> Nat]

\* getmem has handed out the memory of the pools, and nothing else.
PoolsPaid == IsFiniteSet(PoolMemory) /\ bufmem + Cardinality(PoolMemory) = BufMem

\* A buffer has at most one holder, and the word in front of it is its pool.
Holders ==
    /\ \A p, q \in BufProcs, b \in AllBufs : b \in bufheld[p] /\ b \in bufheld[q] => p = q
    /\ \A b \in BufHeld : bufid[b] = b.pool /\ b.pool \in PoolIds

\* A pool that has not been made has lost no permit.
Unmade == \A i \in 0..(NBPOOLS - 1) : i \notin PoolIds => buflost[i] = 0

\* The buffers of a pool are on its list or held, and its semaphore counts the
\* list: permits left, permits taken by those let through, permits lost by kill.
Holds(i, b) == b \in BufHeld /\ b.pool = i
Stocked(i) ==
    /\ NoDup(Pool(i).free)
    /\ \A b \in AllBufs :
         /\ ~(OnQueue(Pool(i).free, b) /\ Holds(i, b))
         /\ OnQueue(Pool(i).free, b) \/ Holds(i, b) <=> b.pool = i /\ b.num <= Pool(i).n
BufCallers(i) == {p \in BufProcs : bufwait[p] = i}
Metered(i) ==
    /\ Serving(Pool(i).sem, BufCallers(i))
    /\ Taken(Pool(i).sem, BufCallers(i)) + buflost[i] = Len(Pool(i).free)

\* The inductive invariant.
BufInv ==
    /\ BufTypeOK /\ PoolsPaid /\ Holders /\ Unmade
    /\ \A i \in PoolIds : Stocked(i) /\ Metered(i)
-----------------------------------------------------------------------------
LEMMA BufTypes ==
    ASSUME BufTypeOK, NEW i \in PoolIds
    PROVE  /\ i \in 0..(NBPOOLS - 1) /\ i \in Int /\ i # NoPool
           /\ Pool(i) \in PoolRecords /\ Pool(i).free \in Seq(AllBufs)
           /\ Pool(i).sem \in SemRecords(BufProcs) /\ Pool(i).n \in 1..BP_MAXN
           /\ Pool(i).size \in Nat /\ buflost[i] \in Nat
<1>1. Len(buftab) \in Nat /\ Len(buftab) <= NBPOOLS /\ NBPOOLS \in Nat
  BY BufLimitsAssumption DEF BufTypeOK
<1>2. i \in 0..(NBPOOLS - 1) /\ i \in Int /\ i # NoPool /\ i + 1 \in 1..Len(buftab)
  BY <1>1 DEF PoolIds, nbpools, NoPool
<1>3. Pool(i) \in PoolRecords BY <1>2 DEF Pool, BufTypeOK
<1>4. QED BY <1>2, <1>3 DEF PoolRecords, BufTypeOK

LEMMA BufCallersFinite == ASSUME NEW i PROVE IsFiniteSet(BufCallers(i))
<1>1. BufCallers(i) \subseteq BufProcs BY DEF BufCallers
<1>2. QED BY <1>1, BufLimitsAssumption, FS_Subset

\* What PoolBecomes changes.
LEMMA PoolChanges ==
    ASSUME BufTypeOK, NEW i \in PoolIds, NEW f \in Seq(AllBufs),
           NEW s \in SemRecords(BufProcs), PoolBecomes(i, f, s)
    PROVE  /\ buftab' \in Seq(PoolRecords) /\ Len(buftab') = Len(buftab)
           /\ PoolIds' = PoolIds /\ PoolMemory' = PoolMemory
           /\ \A j \in PoolIds : j # i => Pool(j)' = Pool(j)
           /\ Pool(i)'.free = f /\ Pool(i)'.sem = s /\ Pool(i)'.n = Pool(i).n
<1>1. Len(buftab) \in Nat /\ buftab \in [1..Len(buftab) -> PoolRecords] BY DEF BufTypeOK
<1>2. i + 1 \in 1..Len(buftab) /\ \A j \in PoolIds : j + 1 \in 1..Len(buftab) /\ j \in Int
  BY <1>1 DEF PoolIds, nbpools
<1> DEFINE r == [Pool(i) EXCEPT !.free = f, !.sem = s]
<1>3. Pool(i) \in PoolRecords BY BufTypes
<1>4. /\ r \in PoolRecords /\ r.free = f /\ r.sem = s
      /\ r.n = Pool(i).n /\ r.size = Pool(i).size
  BY <1>3 DEF PoolRecords
<1>5. buftab' = [buftab EXCEPT ![i + 1] = r] BY <1>2, <1>1 DEF PoolBecomes, Pool
<1> HIDE DEF r
<1>6. /\ buftab' \in [1..Len(buftab) -> PoolRecords] /\ buftab' \in Seq(PoolRecords)
      /\ Len(buftab') = Len(buftab)
  <2>1. \A N \in Nat : \A g \in [1..N -> PoolRecords] : g \in Seq(PoolRecords) /\ Len(g) = N
    OBVIOUS
  <2>2. buftab' \in [1..Len(buftab) -> PoolRecords] BY <1>1, <1>4, <1>5
  <2>3. QED BY <1>1, <2>1, <2>2, Zenon
<1>7. buftab'[i + 1] = r /\ \A j \in PoolIds : j # i => buftab'[j + 1] = buftab[j + 1]
  BY <1>1, <1>2, <1>5
<1>8. Pool(i)' = r /\ \A j \in PoolIds : j # i => Pool(j)' = Pool(j)
  BY <1>7 DEF Pool
<1>9. PoolIds' = PoolIds BY <1>6 DEF PoolIds, nbpools
<1>10. \A j \in PoolIds : Pool(j)'.n = Pool(j).n /\ Pool(j)'.size = Pool(j).size
  BY <1>4, <1>8
<1>11. PoolMemory' = PoolMemory BY <1>9, <1>10 DEF PoolMemory
<1>12. QED BY <1>4, <1>6, <1>8, <1>9, <1>11

LEMMA InHeld ==
    /\ \A b : b \in BufHeld <=> \E p \in BufProcs : b \in bufheld[p]
    /\ \A b : b \in BufHeld' <=> \E p \in BufProcs : b \in bufheld'[p]
  BY DEF BufHeld

\* A pool that a step leaves alone.
LEMMA PoolSame ==
    ASSUME NEW j, Stocked(j), Metered(j), Pool(j)' = Pool(j),
           \A b \in AllBufs : b.pool = j => (b \in BufHeld' <=> b \in BufHeld),
           BufCallers(j)' = BufCallers(j), buflost'[j] = buflost[j]
    PROVE  Stocked(j)' /\ Metered(j)'
<1>1. \A b \in AllBufs : Holds(j, b)' <=> Holds(j, b) BY DEF Holds
<1>2. Stocked(j)' BY <1>1 DEF Stocked
<1>3. QED BY <1>2 DEF Metered

\* A step that concerns the pool i only.
LEMMA PoolStep ==
    ASSUME BufInv, NEW i \in PoolIds, BufTypeOK', Holders', Stocked(i)', Metered(i)',
           bufmem' = bufmem, PoolIds' = PoolIds, PoolMemory' = PoolMemory,
           \A b \in AllBufs : b.pool # i => (b \in BufHeld' <=> b \in BufHeld),
           \A j \in PoolIds : j # i => Pool(j)' = Pool(j) /\ BufCallers(j)' = BufCallers(j),
           \A j \in 0..(NBPOOLS - 1) : j # i => buflost'[j] = buflost[j]
    PROVE  BufInv'
<1>1. PoolsPaid' BY DEF BufInv, PoolsPaid
<1>2. Unmade' BY DEF BufInv, Unmade
<1>3. ASSUME NEW j \in PoolIds PROVE Stocked(j)' /\ Metered(j)'
  <2>1. CASE j = i BY <2>1
  <2>2. CASE j # i
    <3>1. Stocked(j) /\ Metered(j) /\ j \in 0..(NBPOOLS - 1) BY BufTypes DEF BufInv
    <3>2. QED BY <2>2, <3>1, PoolSame
  <2>3. QED BY <2>1, <2>2
<1>4. QED BY <1>1, <1>2, <1>3 DEF BufInv

\* Unlinking the first buffer: it is one of the pool, which nobody holds.
LEMMA TakeStocked ==
    ASSUME BufTypeOK, Holders, NEW i \in PoolIds, Stocked(i), NEW p \in BufProcs,
           NEW s \in SemRecords(BufProcs), Pool(i).free # << >>, BufTake(p, i, s)
    PROVE  /\ buftab' \in Seq(PoolRecords) /\ Len(buftab') = Len(buftab)
           /\ PoolIds' = PoolIds /\ PoolMemory' = PoolMemory
           /\ \A j \in PoolIds : j # i => Pool(j)' = Pool(j)
           /\ Len(Pool(i).free) \in Nat /\ Len(Pool(i)'.free) = Len(Pool(i).free) - 1
           /\ Pool(i)'.sem = s
           /\ bufid' \in [AllBufs -> {"link"} \cup Int] /\ bufheld' \in [BufProcs -> SUBSET AllBufs]
           /\ Holders' /\ Stocked(i)'
           /\ \A b \in AllBufs : b.pool # i => (b \in BufHeld' <=> b \in BufHeld)
<1> DEFINE f == Pool(i).free
           h == Head(f)
<1>1. f \in Seq(AllBufs) /\ NoDup(f) /\ f # << >> /\ i \in Int BY BufTypes DEF Stocked
<1>2. /\ Tail(f) \in Seq(AllBufs) /\ Len(f) \in Nat /\ Len(Tail(f)) = Len(f) - 1
      /\ h \in AllBufs /\ OnQueue(f, h) /\ NoDup(Tail(f))
      /\ \A x : OnQueue(Tail(f), x) <=> OnQueue(f, x) /\ x # h
  <2>1. h \in AllBufs /\ Len(f) \in Nat /\ Len(Tail(f)) = Len(f) - 1 BY <1>1
  <2>2. QED BY <1>1, <2>1, DequeueQueue, Zenon
<1>3. PoolBecomes(i, Tail(f), s) BY DEF BufTake
<1>4. /\ bufid' = [bufid EXCEPT ![h] = i]
      /\ bufheld' = [bufheld EXCEPT ![p] = bufheld[p] \cup {h}]
  BY DEF BufTake
<1> HIDE DEF h
<1>5. /\ buftab' \in Seq(PoolRecords) /\ Len(buftab') = Len(buftab)
      /\ PoolIds' = PoolIds /\ PoolMemory' = PoolMemory
      /\ \A j \in PoolIds : j # i => Pool(j)' = Pool(j)
      /\ Pool(i)'.free = Tail(f) /\ Pool(i)'.sem = s /\ Pool(i)'.n = Pool(i).n
  BY <1>2, <1>3, PoolChanges
<1> HIDE DEF f
<1>6. /\ bufid' \in [AllBufs -> {"link"} \cup Int] /\ bufheld' \in [BufProcs -> SUBSET AllBufs]
      /\ bufid'[h] = i /\ \A b \in AllBufs : b # h => bufid'[b] = bufid[b]
      /\ \A q \in BufProcs, b \in AllBufs : b \in bufheld'[q] <=> b \in bufheld[q] \/ (q = p /\ b = h)
  BY <1>1, <1>2, <1>4 DEF BufTypeOK
<1>7. \A b \in AllBufs : b \in BufHeld' <=> b \in BufHeld \/ b = h BY <1>6, InHeld
<1>8. /\ h.pool = i /\ ~Holds(i, h) /\ h \notin BufHeld
      /\ \A b \in AllBufs : OnQueue(f, b) \/ Holds(i, b) <=> b.pool = i /\ b.num <= Pool(i).n
      /\ \A b \in AllBufs : ~(OnQueue(f, b) /\ Holds(i, b))
  BY <1>2 DEF Stocked, Holds, f
<1>9. Holders'
  <2>1. \A q \in BufProcs : h \notin bufheld[q] BY <1>8, InHeld
  <2>2. ASSUME NEW q \in BufProcs, NEW r \in BufProcs, NEW b \in AllBufs,
               b \in bufheld'[q], b \in bufheld'[r]
        PROVE  q = r
    BY <1>6, <2>1, <2>2 DEF Holders
  <2>3. ASSUME NEW b \in BufHeld' PROVE bufid'[b] = b.pool /\ b.pool \in PoolIds
    <3>1. b \in AllBufs BY <1>6, InHeld
    <3>2. CASE b = h BY <1>6, <1>8, <3>2
    <3>3. CASE b # h BY <1>6, <1>7, <3>1, <3>3 DEF Holders
    <3>4. QED BY <3>2, <3>3
  <2>4. QED BY <1>5, <2>2, <2>3 DEF Holders
<1>10. Stocked(i)'
  <2>1. \A b \in AllBufs : Holds(i, b)' <=> Holds(i, b) \/ b = h BY <1>7, <1>8 DEF Holds
  <2>2. QED BY <1>2, <1>5, <1>8, <2>1 DEF Stocked
<1>11. QED BY <1>2, <1>5, <1>6, <1>7, <1>8, <1>9, <1>10 DEF f
-----------------------------------------------------------------------------
LEMMA MakeBlocked ==
    ASSUME BufInv, NEW i \in PoolIds, NEW p \in BufProcs, BufIdle(p), ~Passes(Pool(i).sem),
           PoolBecomes(i, Pool(i).free, P(Pool(i).sem, p)),
           bufwait' = [bufwait EXCEPT ![p] = i],
           UNCHANGED <<bufid, bufheld, bufmem, bufsems, bufkilled, buflost>>
    PROVE  BufInv'
<1> DEFINE s == Pool(i).sem
           f == Pool(i).free
           C == BufCallers(i)
<1>1. BufTypeOK /\ Stocked(i) /\ Metered(i) /\ Holders BY DEF BufInv
<1>2. s \in SemRecords(BufProcs) /\ f \in Seq(AllBufs) /\ i # NoPool /\ i \in Int
  BY <1>1, BufTypes
<1>3. P(s, p) \in SemRecords(BufProcs) BY <1>2, PSem
<1>4. /\ buftab' \in Seq(PoolRecords) /\ Len(buftab') = Len(buftab)
      /\ PoolIds' = PoolIds /\ PoolMemory' = PoolMemory
      /\ \A j \in PoolIds : j # i => Pool(j)' = Pool(j)
      /\ Pool(i)'.free = f /\ Pool(i)'.sem = P(s, p) /\ Pool(i)'.n = Pool(i).n
  BY <1>1, <1>2, <1>3, PoolChanges
<1>5. bufwait' \in [BufProcs -> {NoPool} \cup PoolIds'] BY <1>1, <1>4 DEF BufTypeOK
<1>6. BufTypeOK' BY <1>1, <1>4, <1>5 DEF BufTypeOK
<1>7. BufHeld' = BufHeld BY DEF BufHeld
<1>8. Holders' BY <1>1, <1>4, <1>7 DEF Holders
<1>9. Stocked(i)' BY <1>1, <1>4, <1>7 DEF Stocked, Holds
<1>10. /\ p \notin C /\ BufCallers(i)' = C \cup {p}
       /\ \A j \in PoolIds : j # i => BufCallers(j)' = BufCallers(j)
  BY <1>1, <1>2, BufTypes DEF BufCallers, BufTypeOK, BufIdle
<1>11. Metered(i)'
  <2>1. Serving(s, C) /\ Taken(s, C) + buflost[i] = Len(f) BY <1>1 DEF Metered
  <2>2. Serving(P(s, p), C \cup {p}) /\ Taken(P(s, p), C \cup {p}) = Taken(s, C)
    BY <1>2, <1>10, <2>1, BufCallersFinite, TakenBlock
  <2>3. QED BY <1>4, <1>10, <2>1, <2>2 DEF Metered
<1>12. QED BY <1>4, <1>6, <1>7, <1>8, <1>9, <1>10, <1>11, PoolStep

\* A permit, or a process that has been let through, means a buffer on the list.
LEMMA GetPasses ==
    ASSUME BufInv, NEW i \in PoolIds, NEW p \in BufProcs, BufIdle(p), Passes(Pool(i).sem),
           BufTake(p, i, P(Pool(i).sem, p)),
           UNCHANGED <<bufwait, bufmem, bufsems, bufkilled, buflost>>
    PROVE  BufInv'
<1> DEFINE s == Pool(i).sem
           f == Pool(i).free
           C == BufCallers(i)
<1>1. BufTypeOK /\ Stocked(i) /\ Metered(i) /\ Holders BY DEF BufInv
<1>2. s \in SemRecords(BufProcs) /\ f \in Seq(AllBufs) /\ buflost[i] \in Nat
  BY <1>1, BufTypes
<1>3. /\ Serving(s, C) /\ Taken(s, C) + buflost[i] = Len(f)
      /\ P(s, p) \in SemRecords(BufProcs) /\ Taken(s, C) \in Int
      /\ Serving(P(s, p), C) /\ Taken(P(s, p), C) = Taken(s, C) - 1
  BY <1>1, <1>2, BufCallersFinite, TakenPass, TakenInt, PSem DEF Metered
<1>4. f # << >>
  <2>1. s.val \in Nat /\ s.val > 0 BY <1>3 DEF Serving, Passes
  <2>2. Cardinality(Awake(s, C)) \in Nat BY BufCallersFinite, AwakeFinite
  <2>3. Len(f) > 0 BY <1>2, <1>3, <2>1, <2>2, SMTT(30) DEF Taken
  <2>4. QED BY <2>3
<1>5. /\ buftab' \in Seq(PoolRecords) /\ Len(buftab') = Len(buftab)
      /\ PoolIds' = PoolIds /\ PoolMemory' = PoolMemory
      /\ \A j \in PoolIds : j # i => Pool(j)' = Pool(j)
      /\ Len(f) \in Nat /\ Len(Pool(i)'.free) = Len(f) - 1 /\ Pool(i)'.sem = P(s, p)
      /\ bufid' \in [AllBufs -> {"link"} \cup Int] /\ bufheld' \in [BufProcs -> SUBSET AllBufs]
      /\ Holders' /\ Stocked(i)'
      /\ \A b \in AllBufs : b.pool # i => (b \in BufHeld' <=> b \in BufHeld)
  BY <1>1, <1>3, <1>4, TakeStocked
<1>6. BufTypeOK' BY <1>1, <1>5 DEF BufTypeOK
<1>7. \A j : BufCallers(j)' = BufCallers(j) BY DEF BufCallers
<1>8. Metered(i)' BY <1>2, <1>3, <1>5, <1>7, SMTT(30) DEF Metered
<1>9. QED BY <1>5, <1>6, <1>7, <1>8, PoolStep

LEMMA GetbufInv == ASSUME BufInv, NEW i \in PoolIds, NEW p \in BufProcs, getbuf(p, i) PROVE BufInv'
<1>1. CASE Passes(Pool(i).sem) BY <1>1, GetPasses DEF getbuf
<1>2. CASE ~Passes(Pool(i).sem) BY <1>2, MakeBlocked DEF getbuf
<1>3. QED BY <1>1, <1>2

LEMMA GetbufRestInv == ASSUME BufInv, NEW p \in BufProcs, getbufRest(p) PROVE BufInv'
<1>1. PICK i \in PoolIds : bufwait[p] = i BY DEF BufInv, BufTypeOK, getbufRest, BufAwake
<1> DEFINE s == Pool(i).sem
           f == Pool(i).free
           C == BufCallers(i)
<1>2. BufTypeOK /\ Stocked(i) /\ Metered(i) /\ Holders BY DEF BufInv
<1>3. /\ s \in SemRecords(BufProcs) /\ f \in Seq(AllBufs) /\ buflost[i] \in Nat /\ i # NoPool
      /\ \A j \in PoolIds : j # NoPool
  BY <1>2, BufTypes
<1>4. /\ BufTake(p, i, s) /\ ~Waits(s, p) /\ bufwait' = [bufwait EXCEPT ![p] = NoPool]
      /\ UNCHANGED <<bufmem, bufsems, bufkilled, buflost>>
  BY <1>1 DEF getbufRest, BufAwake
<1>5. p \in C BY <1>1 DEF BufCallers
<1>6. /\ Serving(s, C) /\ Taken(s, C) + buflost[i] = Len(f) /\ Taken(s, C) \in Int
      /\ Serving(s, C \ {p}) /\ Taken(s, C \ {p}) = Taken(s, C) - 1
  BY <1>2, <1>3, <1>4, <1>5, BufCallersFinite, TakenGone, TakenInt DEF Metered
<1>7. f # << >>
  <2>1. s.val \in Nat /\ Cardinality(Awake(s, C)) \in Nat /\ IsFiniteSet(Awake(s, C))
    BY <1>6, BufCallersFinite, AwakeFinite DEF Serving
  <2>2. p \in Awake(s, C) BY <1>4, <1>5 DEF Awake
  <2>3. Cardinality(Awake(s, C)) # 0 BY <2>1, <2>2, FS_EmptySet
  <2>4. Len(f) > 0 BY <1>3, <1>6, <2>1, <2>3, SMTT(30) DEF Taken
  <2>5. QED BY <2>4
<1>8. /\ buftab' \in Seq(PoolRecords) /\ Len(buftab') = Len(buftab)
      /\ PoolIds' = PoolIds /\ PoolMemory' = PoolMemory
      /\ \A j \in PoolIds : j # i => Pool(j)' = Pool(j)
      /\ Len(f) \in Nat /\ Len(Pool(i)'.free) = Len(f) - 1 /\ Pool(i)'.sem = s
      /\ bufid' \in [AllBufs -> {"link"} \cup Int] /\ bufheld' \in [BufProcs -> SUBSET AllBufs]
      /\ Holders' /\ Stocked(i)'
      /\ \A b \in AllBufs : b.pool # i => (b \in BufHeld' <=> b \in BufHeld)
  BY <1>2, <1>3, <1>4, <1>7, TakeStocked
<1>9. bufwait' \in [BufProcs -> {NoPool} \cup PoolIds'] BY <1>2, <1>4, <1>8 DEF BufTypeOK
<1>10. BufTypeOK' BY <1>2, <1>4, <1>8, <1>9 DEF BufTypeOK
<1>11. /\ BufCallers(i)' = C \ {p}
       /\ \A j \in PoolIds : j # i => BufCallers(j)' = BufCallers(j)
  BY <1>1, <1>2, <1>3, <1>4 DEF BufCallers, BufTypeOK
<1>12. Metered(i)' BY <1>3, <1>4, <1>6, <1>8, <1>11 DEF Metered
<1>13. QED BY <1>4, <1>8, <1>10, <1>11, <1>12, PoolStep

\* The buffer goes back to its own pool, whoever frees it.
LEMMA FreebufInv ==
    ASSUME BufInv, NEW p \in BufProcs, NEW b \in BufHeld, freebuf(p, b) PROVE BufInv'
<1>1. BufTypeOK /\ Holders BY DEF BufInv
<1>2. PICK i \in PoolIds : i = bufid[b] BY DEF freebuf
<1>3. b \in AllBufs /\ b.pool = i BY <1>1, <1>2, InHeld DEF Holders, BufTypeOK
<1> DEFINE s == Pool(i).sem
           f == Pool(i).free
           C == BufCallers(i)
<1>4. /\ Stocked(i) /\ Metered(i) /\ s \in SemRecords(BufProcs) /\ f \in Seq(AllBufs)
      /\ buflost[i] \in Nat
  BY <1>1, BufTypes DEF BufInv
<1>5. ~OnQueue(f, b) /\ NoDup(f) BY <1>3, <1>4 DEF Stocked, Holds
<1>6. /\ <<b>> \o f \in Seq(AllBufs) /\ NoDup(<<b>> \o f)
      /\ \A x : OnQueue(<<b>> \o f, x) <=> x = b \/ OnQueue(f, x)
  BY <1>3, <1>4, <1>5, PushQueue, Zenon
<1>7. Len(<<b>> \o f) = Len(f) + 1 /\ Len(f) \in Nat BY <1>3, <1>4
<1>8. /\ Serving(s, C) /\ Taken(s, C) + buflost[i] = Len(f) /\ Taken(s, C) \in Int
      /\ V(s) \in SemRecords(BufProcs)
      /\ Serving(V(s), C) /\ Taken(V(s), C) = Taken(s, C) + 1
  BY <1>4, BufCallersFinite, TakenV, TakenInt, VSem DEF Metered
<1>9. /\ PoolBecomes(i, <<b>> \o f, V(s))
      /\ bufid' = [bufid EXCEPT ![b] = "link"]
      /\ bufheld' = [q \in BufProcs |-> bufheld[q] \ {b}]
      /\ UNCHANGED <<bufmem, bufsems, bufwait, bufkilled, buflost>>
  BY <1>2 DEF freebuf
<1>10. /\ buftab' \in Seq(PoolRecords) /\ Len(buftab') = Len(buftab)
       /\ PoolIds' = PoolIds /\ PoolMemory' = PoolMemory
       /\ \A j \in PoolIds : j # i => Pool(j)' = Pool(j)
       /\ Pool(i)'.free = <<b>> \o f /\ Pool(i)'.sem = V(s) /\ Pool(i)'.n = Pool(i).n
  BY <1>1, <1>6, <1>8, <1>9, PoolChanges
<1>11. /\ bufid' \in [AllBufs -> {"link"} \cup Int] /\ bufheld' \in [BufProcs -> SUBSET AllBufs]
       /\ \A x \in AllBufs : x # b => bufid'[x] = bufid[x]
       /\ \A q \in BufProcs : bufheld'[q] = bufheld[q] \ {b}
  BY <1>1, <1>9 DEF BufTypeOK
<1>12. \A x : x \in BufHeld' <=> x \in BufHeld /\ x # b BY <1>11, InHeld
<1>13. BufTypeOK' BY <1>1, <1>9, <1>10, <1>11 DEF BufTypeOK
<1>14. Holders'
  <2>1. \A x : x \in BufHeld' => x \in AllBufs BY <1>11, InHeld
  <2>2. \A x \in BufHeld' : bufid'[x] = x.pool /\ x.pool \in PoolIds
    BY <1>1, <1>11, <1>12, <2>1 DEF Holders
  <2>3. QED BY <1>1, <1>10, <1>11, <2>2 DEF Holders
<1>15. Stocked(i)'
  <2>1. \A x \in AllBufs : Holds(i, x)' <=> Holds(i, x) /\ x # b BY <1>12 DEF Holds
  <2>2. Holds(i, b) BY <1>3 DEF Holds
  <2>3. QED BY <1>4, <1>6, <1>10, <2>1, <2>2 DEF Stocked
<1>16. \A j : BufCallers(j)' = BufCallers(j) BY <1>9 DEF BufCallers
<1>17. Metered(i)' BY <1>4, <1>7, <1>8, <1>9, <1>10, <1>16, SMTT(30) DEF Metered
<1>18. \A x \in AllBufs : x.pool # i => (x \in BufHeld' <=> x \in BufHeld) BY <1>3, <1>12
<1>19. QED BY <1>9, <1>10, <1>13, <1>14, <1>15, <1>16, <1>17, <1>18, PoolStep

\* A process killed in getbuf leaves the queue, or takes its permit with it.
LEMMA KillCount ==
    ASSUME NEW s \in SemRecords(BufProcs), NEW C, IsFiniteSet(C), Serving(s, C), NEW p \in C,
           NEW lost \in Nat
    PROVE  /\ Leave(s, p) \in SemRecords(BufProcs) /\ Serving(Leave(s, p), C \ {p})
           /\ Taken(Leave(s, p), C \ {p}) + (IF Waits(s, p) THEN lost ELSE lost + 1)
                = Taken(s, C) + lost
<1>1. Leave(s, p) \in SemRecords(BufProcs) /\ (~Waits(s, p) => Leave(s, p) = s)
  BY LeaveSem DEF Serving
<1>2. Taken(s, C) \in Int BY TakenInt
<1>3. CASE Waits(s, p)
  <2>1. Serving(Leave(s, p), C \ {p}) /\ Taken(Leave(s, p), C \ {p}) = Taken(s, C)
    BY <1>3, TakenLeave
  <2>2. QED BY <1>1, <1>2, <1>3, <2>1
<1>4. CASE ~Waits(s, p)
  <2>1. Serving(s, C \ {p}) /\ Taken(s, C \ {p}) = Taken(s, C) - 1 BY <1>4, TakenGone
  <2>2. Leave(s, p) = s BY <1>1, <1>4
  <2>3. QED BY <1>1, <1>2, <1>4, <2>1, <2>2
<1>5. QED BY <1>3, <1>4

LEMMA BufkillInv == ASSUME BufInv, NEW p \in BufProcs, bufkill(p) PROVE BufInv'
<1>1. PICK i \in PoolIds : bufwait[p] = i BY DEF BufInv, BufTypeOK, bufkill
<1> DEFINE s == Pool(i).sem
           f == Pool(i).free
           C == BufCallers(i)
           lost == IF Waits(s, p) THEN buflost[i] ELSE buflost[i] + 1
<1>2. BufTypeOK /\ Stocked(i) /\ Metered(i) /\ Holders BY DEF BufInv
<1>3. /\ s \in SemRecords(BufProcs) /\ f \in Seq(AllBufs) /\ buflost[i] \in Nat /\ i # NoPool
      /\ i \in 0..(NBPOOLS - 1) /\ \A j \in PoolIds : j # NoPool
  BY <1>2, BufTypes
<1>4. /\ PoolBecomes(i, f, Leave(s, p)) /\ bufwait' = [bufwait EXCEPT ![p] = NoPool]
      /\ bufkilled' = bufkilled + 1 /\ UNCHANGED <<bufid, bufmem, bufsems, bufheld>>
  BY <1>1 DEF bufkill
<1>5. buflost' = [buflost EXCEPT ![i] = lost]
  <2>1. BufAwake(p) <=> ~Waits(s, p) BY <1>1, <1>3 DEF BufAwake
  <2>2. buflost' = IF BufAwake(p) THEN [buflost EXCEPT ![i] = buflost[i] + 1] ELSE buflost
    BY <1>1 DEF bufkill
  <2>3. [buflost EXCEPT ![i] = buflost[i]] = buflost BY <1>2, <1>3 DEF BufTypeOK
  <2>4. QED BY <2>1, <2>2, <2>3
<1>6. lost \in Nat BY <1>3
<1>7. p \in C BY <1>1 DEF BufCallers
<1>8. /\ Leave(s, p) \in SemRecords(BufProcs) /\ Serving(Leave(s, p), C \ {p})
      /\ Taken(Leave(s, p), C \ {p}) + lost = Taken(s, C) + buflost[i]
  BY <1>2, <1>3, <1>7, BufCallersFinite, KillCount DEF Metered
<1> HIDE DEF lost
<1>9. /\ buftab' \in Seq(PoolRecords) /\ Len(buftab') = Len(buftab)
      /\ PoolIds' = PoolIds /\ PoolMemory' = PoolMemory
      /\ \A j \in PoolIds : j # i => Pool(j)' = Pool(j)
      /\ Pool(i)'.free = f /\ Pool(i)'.sem = Leave(s, p) /\ Pool(i)'.n = Pool(i).n
  BY <1>2, <1>3, <1>4, <1>8, PoolChanges
<1>10. /\ bufwait' \in [BufProcs -> {NoPool} \cup PoolIds'] /\ bufkilled' \in Nat
  BY <1>2, <1>4, <1>9 DEF BufTypeOK
<1>11. /\ buflost' \in [0..(NBPOOLS - 1) -> Nat] /\ buflost'[i] = lost
       /\ \A j \in 0..(NBPOOLS - 1) : j # i => buflost'[j] = buflost[j]
  BY <1>2, <1>3, <1>5, <1>6 DEF BufTypeOK
<1>12. BufTypeOK' BY <1>2, <1>4, <1>9, <1>10, <1>11 DEF BufTypeOK
<1>13. BufHeld' = BufHeld BY <1>4 DEF BufHeld
<1>14. Holders' BY <1>2, <1>4, <1>9, <1>13 DEF Holders
<1>15. Stocked(i)' BY <1>2, <1>9, <1>13 DEF Stocked, Holds
<1>16. /\ BufCallers(i)' = C \ {p}
       /\ \A j \in PoolIds : j # i => BufCallers(j)' = BufCallers(j)
  BY <1>1, <1>2, <1>3, <1>4 DEF BufCallers, BufTypeOK
<1>17. Metered(i)' BY <1>2, <1>8, <1>9, <1>11, <1>16 DEF Metered
<1>18. QED BY <1>4, <1>9, <1>11, <1>12, <1>13, <1>14, <1>15, <1>16, <1>17, PoolStep
-----------------------------------------------------------------------------
LEMMA PoolBytesNat ==
    ASSUME NEW size \in Nat, NEW n \in Nat
    PROVE  PoolBytes(size, n) \in Nat
<1> DEFINE each == 4 * ((size + 3) \div 4) + 4
<1>1. each \in Nat OBVIOUS
<1>2. \A a, b \in Nat : a * b \in Nat OBVIOUS
<1>3. PoolBytes(size, n) = n * each BY DEF PoolBytes
<1> HIDE DEF each
<1>4. QED BY <1>1, <1>2, <1>3

\* A new pool has all its buffers on its list, and a permit for each.
LEMMA NewPool ==
    ASSUME NEW i \in 0..(NBPOOLS - 1), NEW n \in 1..BP_MAXN,
           NEW free, free = [k \in 1..n |-> Buf(i, k)]
    PROVE  /\ free \in Seq(AllBufs) /\ Len(free) = n /\ NoDup(free)
           /\ \A b \in AllBufs : OnQueue(free, b) <=> b.pool = i /\ b.num <= n
<1>1. BP_MAXN \in Nat BY BufLimitsAssumption
<1>2. \A k \in 1..n : Buf(i, k) \in AllBufs /\ Buf(i, k).pool = i /\ Buf(i, k).num = k
  BY <1>1 DEF AllBufs, Buf
<1>3. /\ free \in Seq(AllBufs) /\ Len(free) = n
      /\ \A k \in 1..n : free[k] = Buf(i, k)
  BY <1>1, <1>2
<1>4. NoDup(free) BY <1>2, <1>3 DEF NoDup
<1>5. ASSUME NEW b \in AllBufs PROVE OnQueue(free, b) <=> b.pool = i /\ b.num <= n
  <2>1. ASSUME OnQueue(free, b) PROVE b.pool = i /\ b.num <= n
    <3>1. PICK k \in 1..n : b = Buf(i, k) BY <1>3, <2>1 DEF OnQueue
    <3>2. k <= n BY <1>1
    <3>3. QED BY <1>2, <3>1, <3>2
  <2>2. ASSUME b.pool = i, b.num <= n PROVE OnQueue(free, b)
    <3>1. b.num \in 1..n /\ b = Buf(i, b.num) BY <1>1, <2>2 DEF AllBufs, Buf
    <3>2. QED BY <1>3, <3>1 DEF OnQueue
  <2>3. QED BY <2>1, <2>2
<1>6. QED BY <1>3, <1>4, <1>5

\* The pools made, one of them new, and what getmem has handed out.
LEMMA MadePools ==
    ASSUME BufTypeOK, NEW i \in Nat, i = nbpools, NEW r \in PoolRecords,
           buftab' = Append(buftab, r)
    PROVE  /\ buftab' \in Seq(PoolRecords) /\ Len(buftab') = i + 1
           /\ PoolIds' = PoolIds \cup {i} /\ i \notin PoolIds
           /\ Pool(i)' = r /\ \A j \in PoolIds : Pool(j)' = Pool(j)
           /\ PoolMemory' = PoolMemory \cup ({i} \X (1..PoolBytes(r.size, r.n)))
           /\ PoolMemory \cap ({i} \X (1..PoolBytes(r.size, r.n))) = {}
<1>1. buftab \in Seq(PoolRecords) /\ i = Len(buftab) BY DEF BufTypeOK, nbpools
<1>2. /\ buftab' \in Seq(PoolRecords) /\ Len(buftab') = i + 1 /\ buftab'[i + 1] = r
      /\ \A k \in 1..i : buftab'[k] = buftab[k]
  BY <1>1
<1>3. PoolIds = 0..(i - 1) /\ PoolIds' = 0..i BY <1>1, <1>2 DEF PoolIds, nbpools
<1>4. PoolIds' = PoolIds \cup {i} /\ i \notin PoolIds BY <1>1, <1>3
<1>5. buftab'[i + 1] = r /\ \A j \in PoolIds : buftab'[j + 1] = buftab[j + 1]
  BY <1>1, <1>2, <1>3
<1>6. Pool(i)' = r /\ \A j \in PoolIds : Pool(j)' = Pool(j) BY <1>5 DEF Pool
<1> DEFINE M(j) == {j} \X (1..PoolBytes(Pool(j).size, Pool(j).n))
           new == {i} \X (1..PoolBytes(r.size, r.n))
<1>7. PoolMemory = UNION {M(j) : j \in PoolIds}
      /\ PoolMemory' = UNION {M(j)' : j \in PoolIds'}
  BY DEF PoolMemory
<1>8. M(i)' = new /\ \A j \in PoolIds : M(j)' = M(j) BY <1>6
<1>9. \A x : x \in PoolMemory => \E j \in PoolIds : x \in M(j) BY <1>7
<1>10. PoolMemory \cap new = {} BY <1>4, <1>9
<1> HIDE DEF M, new
<1>11. PoolMemory' = PoolMemory \cup new BY <1>4, <1>7, <1>8
<1>12. QED BY <1>2, <1>4, <1>6, <1>10, <1>11 DEF new

\* getmem hands out what the new pool needs.
LEMMA PoolsPay ==
    ASSUME PoolsPaid, BufTypeOK, NEW i, NEW bytes \in Nat,
           PoolMemory' = PoolMemory \cup ({i} \X (1..bytes)),
           PoolMemory \cap ({i} \X (1..bytes)) = {},
           bufmem' = bufmem - bytes
    PROVE  PoolsPaid'
<1> DEFINE new == {i} \X (1..bytes)
<1>1. IsFiniteSet({i}) /\ Cardinality({i}) = 1 BY FS_Singleton
<1>2. IsFiniteSet(1..bytes) /\ Cardinality(1..bytes) = bytes
  <2>1. 1 \in Int /\ bytes \in Int OBVIOUS
  <2>2. IsFiniteSet(1..bytes) /\ Cardinality(1..bytes) = IF 1 > bytes THEN 0 ELSE bytes - 1 + 1
    BY <2>1, FS_Interval
  <2>3. QED BY <2>2
<1>3. IsFiniteSet(new) /\ Cardinality(new) = bytes
  <2>1. IsFiniteSet(new) /\ Cardinality(new) = Cardinality({i}) * Cardinality(1..bytes)
    BY <1>1, <1>2, FS_Product
  <2>2. QED BY <1>1, <1>2, <2>1
<1>4. IsFiniteSet(PoolMemory) /\ bufmem + Cardinality(PoolMemory) = BufMem BY DEF PoolsPaid
<1>5. Cardinality(PoolMemory) \in Nat BY <1>4, FS_CardinalityType
<1> HIDE DEF new
<1>6. /\ IsFiniteSet(PoolMemory \cup new)
      /\ Cardinality(PoolMemory \cup new) =
           Cardinality(PoolMemory) + Cardinality(new) - Cardinality(PoolMemory \cap new)
  BY <1>3, <1>4, FS_Union
<1>7. PoolMemory' = PoolMemory \cup new /\ Cardinality(PoolMemory \cap new) = 0
  BY FS_EmptySet DEF new
<1>8. Cardinality(PoolMemory)' = Cardinality(PoolMemory) + bytes
  <2>1. Cardinality(PoolMemory \cup new) = Cardinality(PoolMemory) + bytes
    BY <1>3, <1>5, <1>6, <1>7
  <2>2. Cardinality(PoolMemory)' = Cardinality(PoolMemory \cup new) BY <1>7, Zenon
  <2>3. QED BY <2>1, <2>2
<1>9. bufmem \in Int BY DEF BufTypeOK
<1>10. bufmem' + Cardinality(PoolMemory)' = BufMem BY <1>4, <1>5, <1>8, <1>9
<1>11. QED BY <1>6, <1>7, <1>10 DEF PoolsPaid

LEMMA MkbufpoolInv ==
    ASSUME BufInv, NEW p \in BufProcs, NEW size \in BufSizes, NEW n \in BufCounts,
           mkbufpool(p, size, n)
    PROVE  BufInv'
<1>1. BufTypeOK /\ PoolsPaid /\ Holders /\ Unmade BY DEF BufInv
<1>2. size \in Nat /\ n \in 1..BP_MAXN /\ n \in Nat
  <2>1. size >= BP_MINB /\ n >= 1 /\ n <= BP_MAXN BY DEF mkbufpool
  <2>2. size \in Int /\ n \in Int BY BufArgsAssumption
  <2>3. BP_MINB \in Nat /\ BP_MAXN \in Nat BY BufLimitsAssumption
  <2>4. QED BY <2>1, <2>2, <2>3
<1>3. CASE buftab' = buftab /\ bufmem' = bufmem /\ bufsems' = bufsems
  <2>1. UNCHANGED bufvars BY <1>3 DEF mkbufpool, bufvars
  <2>2. PoolIds' = PoolIds /\ PoolMemory' = PoolMemory /\ BufHeld' = BufHeld
        /\ \A j : Pool(j)' = Pool(j) /\ BufCallers(j)' = BufCallers(j)
    BY <2>1 DEF bufvars, PoolIds, nbpools, PoolMemory, Pool, BufHeld, BufCallers
  <2>3. BufTypeOK' BY <1>1, <2>1, <2>2 DEF BufTypeOK, bufvars
  <2>4. PoolsPaid' /\ Holders' /\ Unmade'
    BY <1>1, <2>1, <2>2 DEF PoolsPaid, Holders, Unmade, bufvars
  <2>5. \A j \in PoolIds : Stocked(j)' /\ Metered(j)'
    BY <2>1, <2>2 DEF BufInv, Stocked, Holds, Metered, bufvars
  <2>6. QED BY <2>2, <2>3, <2>4, <2>5 DEF BufInv
<1>4. CASE bufsems > 0
  <2>1. PICK i \in Nat : i = nbpools BY <1>1 DEF BufTypeOK, nbpools
  <2> DEFINE free == [k \in 1..n |-> Buf(i, k)]
             r == [free |-> free, sem |-> SemNew(n), size |-> size, n |-> n]
             bytes == PoolBytes(size, n)
  <2>2. CASE /\ bufsems' = bufsems - 1 /\ bufmem' = bufmem - bytes
             /\ buftab' = Append(buftab, r)
    <3>1. i < NBPOOLS /\ i \in 0..(NBPOOLS - 1) /\ NBPOOLS \in Nat
      BY <2>1, BufLimitsAssumption DEF mkbufpool
    <3>2. /\ free \in Seq(AllBufs) /\ Len(free) = n /\ NoDup(free)
          /\ \A b \in AllBufs : OnQueue(free, b) <=> b.pool = i /\ b.num <= n
      BY <1>2, <3>1, NewPool
    <3> HIDE DEF free
    <3>3. /\ SemNew(n) \in SemRecords(BufProcs) /\ Serving(SemNew(n), {})
          /\ Taken(SemNew(n), {}) = n
      BY <1>2, TakenNew
    <3>4. /\ r \in PoolRecords /\ r.free = free /\ r.sem = SemNew(n)
          /\ r.size = size /\ r.n = n
      BY <1>2, <3>2, <3>3 DEF PoolRecords
    <3> HIDE DEF r, bytes
    <3>5. /\ buftab' \in Seq(PoolRecords) /\ Len(buftab') = i + 1
          /\ PoolIds' = PoolIds \cup {i} /\ i \notin PoolIds
          /\ Pool(i)' = r /\ \A j \in PoolIds : Pool(j)' = Pool(j)
          /\ PoolMemory' = PoolMemory \cup ({i} \X (1..PoolBytes(r.size, r.n)))
          /\ PoolMemory \cap ({i} \X (1..PoolBytes(r.size, r.n))) = {}
      BY <1>1, <2>1, <2>2, <3>4, MadePools
    <3>6. bytes \in Nat /\ PoolBytes(r.size, r.n) = bytes
      BY <1>2, <3>4, PoolBytesNat DEF bytes
    <3>7. PoolsPaid' BY <1>1, <2>2, <3>5, <3>6, PoolsPay
    <3>8. UNCHANGED <<bufid, bufheld, bufwait, bufkilled, buflost>> BY DEF mkbufpool
    <3>9. bufwait' \in [BufProcs -> {NoPool} \cup PoolIds']
      BY <1>1, <3>5, <3>8 DEF BufTypeOK
    <3>10. bufmem' \in Int /\ bufsems' \in Nat BY <1>1, <1>4, <2>2, <3>6 DEF BufTypeOK
    <3>11. Len(buftab') <= NBPOOLS BY <3>1, <3>5
    <3>12. BufTypeOK' BY <1>1, <3>5, <3>8, <3>9, <3>10, <3>11 DEF BufTypeOK
    <3>13. BufHeld' = BufHeld /\ \A j : BufCallers(j)' = BufCallers(j)
      BY <3>8 DEF BufHeld, BufCallers
    <3>14. Holders' /\ Unmade' BY <1>1, <3>5, <3>8, <3>13 DEF Holders, Unmade
    <3>15. ASSUME NEW j \in PoolIds PROVE Stocked(j)' /\ Metered(j)'
      <4>1. Stocked(j) /\ Metered(j) BY DEF BufInv
      <4>2. QED BY <3>5, <3>8, <3>13, <4>1, PoolSame
    <3>16. Stocked(i)'
      <4>1. \A b \in AllBufs : ~Holds(i, b)' BY <1>1, <3>5, <3>13 DEF Holders, Holds
      <4>2. QED BY <3>2, <3>4, <3>5, <4>1 DEF Stocked
    <3>17. Metered(i)'
      <4>1. BufCallers(i) = {} 
        BY <1>1, <2>1, <3>5 DEF BufCallers, BufTypeOK, NoPool
      <4>2. buflost[i] = 0 BY <1>1, <3>1, <3>5 DEF Unmade
      <4>3. Serving(r.sem, {}) /\ Taken(r.sem, {}) + 0 = Len(r.free)
        BY <1>2, <3>2, <3>3, <3>4
      <4>4. QED BY <3>5, <3>8, <3>13, <4>1, <4>2, <4>3 DEF Metered
    <3>18. QED BY <3>5, <3>7, <3>12, <3>14, <3>15, <3>16, <3>17 DEF BufInv
  <2>3. QED BY <1>4, <2>1, <2>2 DEF mkbufpool
<1>5. QED BY <1>3, <1>4 DEF mkbufpool, PoolWithoutSem

LEMMA InitBuffers == ASSUME bufinit PROVE BufInv
<1>1. Len(buftab) = 0 /\ buftab \in Seq(PoolRecords) /\ PoolIds = {}
  BY DEF bufinit, PoolIds, nbpools
<1>2. BufTypeOK BY <1>1, BufLimitsAssumption DEF bufinit, BufTypeOK
<1>3. PoolMemory = {} BY <1>1 DEF PoolMemory
<1>4. PoolsPaid
  <2>1. bufmem = BufMem /\ BufMem \in Nat BY BufLimitsAssumption DEF bufinit
  <2>2. QED BY <1>3, <2>1, FS_EmptySet DEF PoolsPaid
<1>5. \A b : b \notin BufHeld BY InHeld DEF bufinit
<1>6. Holders /\ Unmade BY <1>5 DEF Holders, Unmade, bufinit
<1>7. QED BY <1>1, <1>2, <1>4, <1>6 DEF BufInv

LEMMA NextBuffers == ASSUME BufInv, [BufNext]_bufvars PROVE BufInv'
<1>1. CASE BufNext BY <1>1, MkbufpoolInv, GetbufInv, FreebufInv, GetbufRestInv, BufkillInv DEF BufNext
<1>2. CASE UNCHANGED bufvars
  <2>1. PoolIds' = PoolIds /\ PoolMemory' = PoolMemory /\ BufHeld' = BufHeld
        /\ \A j : Pool(j)' = Pool(j) /\ BufCallers(j)' = BufCallers(j)
    BY <1>2 DEF bufvars, PoolIds, nbpools, PoolMemory, Pool, BufHeld, BufCallers
  <2>2. BufTypeOK' BY <1>2, <2>1 DEF BufInv, BufTypeOK, bufvars
  <2>3. PoolsPaid' /\ Holders' /\ Unmade'
    BY <1>2, <2>1 DEF BufInv, PoolsPaid, Holders, Unmade, bufvars
  <2>4. \A j \in PoolIds : Stocked(j)' /\ Metered(j)'
    BY <1>2, <2>1 DEF BufInv, Stocked, Holds, Metered, bufvars
  <2>5. QED BY <2>1, <2>2, <2>3, <2>4 DEF BufInv
<1>3. QED BY <1>1, <1>2

LEMMA BuffersFollow == ASSUME BufInv PROVE BuffersConserved
<1>1. BufTypeOK /\ PoolsPaid /\ Holders BY DEF BufInv
<1>2. ASSUME NEW p \in BufProcs, NEW q \in BufProcs, bufheld[p] \cap bufheld[q] # {}
      PROVE  p = q
  BY <1>1, <1>2 DEF Holders, BufTypeOK
<1>3. ASSUME NEW i \in PoolIds
      PROVE  LET free == Pool(i).free
                 taken == {b \in BufHeld : b.pool = i}
                 awake == {p \in BufProcs : bufwait[p] = i /\ BufAwake(p)} IN
             /\ NoDup(free) /\ ToSet(free) \cap taken = {}
             /\ ToSet(free) \cup taken = {Buf(i, k) : k \in 1..Pool(i).n}
             /\ Pool(i).sem.val + Cardinality(awake) + buflost[i] = Len(free)
  <2> DEFINE free == Pool(i).free
             taken == {b \in BufHeld : b.pool = i}
             awake == {p \in BufProcs : bufwait[p] = i /\ BufAwake(p)}
             all == {Buf(i, k) : k \in 1..Pool(i).n}
  <2>1. /\ i \in 0..(NBPOOLS - 1) /\ i # NoPool /\ free \in Seq(AllBufs)
        /\ Pool(i).n \in 1..BP_MAXN /\ Stocked(i) /\ Metered(i) /\ BP_MAXN \in Nat
    BY <1>1, BufTypes, BufLimitsAssumption DEF BufInv
  <2>2. /\ \A b : b \in ToSet(free) <=> OnQueue(free, b)
        /\ \A b \in ToSet(free) : b \in AllBufs
    BY <2>1 DEF ToSet, OnQueue
  <2>3. \A b \in BufHeld : b \in AllBufs BY <1>1, InHeld DEF BufTypeOK
  <2>4. \A b : b \in taken <=> Holds(i, b) /\ b \in AllBufs BY <2>3 DEF Holds
  <2>5. \A b \in AllBufs : b \in all <=> b.pool = i /\ b.num <= Pool(i).n
    <3>1. ASSUME NEW b \in AllBufs, b.pool = i, b.num <= Pool(i).n PROVE b \in all
      <4>1. b.num \in 1..Pool(i).n /\ b = Buf(i, b.num) BY <2>1, <3>1 DEF AllBufs, Buf
      <4>2. QED BY <4>1
    <3>2. QED BY <2>1, <3>1 DEF Buf
  <2>6. \A b \in all : b \in AllBufs BY <2>1 DEF AllBufs, Buf
  <2> HIDE DEF free, taken, all
  <2>7. ToSet(free) \cap taken = {} /\ ToSet(free) \cup taken = all
    <3>1. \A b \in AllBufs : ~(b \in ToSet(free) /\ b \in taken)
          /\ (b \in ToSet(free) \/ b \in taken <=> b \in all)
      BY <2>1, <2>2, <2>4, <2>5 DEF Stocked, free
    <3>2. QED BY <2>2, <2>4, <2>6, <3>1
  <2>8. awake = Awake(Pool(i).sem, BufCallers(i))
    BY <2>1 DEF Awake, BufCallers, BufAwake
  <2>9. Pool(i).sem.val + Cardinality(awake) + buflost[i] = Len(free)
    BY <2>1, <2>8 DEF Metered, Taken, free
  <2>10. NoDup(free) BY <2>1 DEF Stocked, free
  <2>11. QED BY <2>7, <2>9, <2>10 DEF free, taken, all
<1>4. QED BY <1>1, <1>2, <1>3 DEF BuffersConserved, PoolsPaid

\* Every buffer is on the list of its pool or held by one process, each list is
\* as long as its semaphore says (getbuf.c:31 takes the first buffer without a
\* test), and the pools have the memory that getmem gave.
THEOREM BuffersAreConserved == BufSpec => []BuffersConserved
<1>1. BufSpec => []BufInv
  <2>1. bufinit => BufInv BY InitBuffers
  <2>2. BufInv /\ [BufNext]_bufvars => BufInv' BY NextBuffers
  <2>3. QED BY <2>1, <2>2, PTL DEF BufSpec
<1>2. BufInv => BuffersConserved BY BuffersFollow
<1>3. QED BY <1>1, <1>2, PTL
-----------------------------------------------------------------------------
(***************************************************************************)
(* The memory allocator, for every layout of memory and every sequence of   *)
(* calls.  The heap must lie within the words of the machine and each of    *)
(* the blocks that meminit makes must have room for one unit; the size of a *)
(* request must not wrap when it is rounded up.                             *)
(***************************************************************************)
HeapFits ==
    /\ \A n \in Sizes : n + MB <= W
    /\ HOLESTART + MB <= HOLEEND /\ MB <= NULLSTK
    /\ \A end \in Ends :
         IF MAXHEAP + 1 > HOLESTART
         THEN end + WORD + MB <= HOLESTART /\ HOLEEND + NULLSTK + MB <= MAXHEAP
         ELSE end + NULLSTK + MB <= MAXHEAP

\* A free list in order, with a gap between any two blocks.
Blocks == [addr : 0..(W - 1), len : 1..W]
Below(b, c) == b.addr + b.len < c.addr
Tidy(l) ==
    /\ l \in Seq(Blocks)
    /\ \A i \in 1..Len(l) : l[i].addr + l[i].len < W
    /\ \A i, j \in 1..Len(l) : i < j => Below(l[i], l[j])

\* What callers have: the pointer, the size, and which call it came from.
Requests == [ptr : Int, n : Sizes, stk : BOOLEAN]

\* The inductive invariant.
MemInv ==
    /\ minheap \in Ends /\ Tidy(memlist)
    /\ held \subseteq Requests
    /\ mlength = (Cardinality(ListCells(memlist)) - Cardinality(Arena)) % W
    /\ ListCells(memlist) \cup UNION {HeldCells(h) : h \in held} = Arena
    /\ \A h \in held : HeldCells(h) \cap ListCells(memlist) = {}
    /\ \A g, h \in held : g # h => HeldCells(g) \cap HeldCells(h) = {}

\* Arithmetic on words.
LEMMA Words ==
    /\ W \in Nat \ {0} /\ MB \in Nat \ {0} /\ WORD \in Nat \ {0} /\ MB <= W
    /\ {MAXHEAP, HOLESTART, HOLEEND, NULLSTK} \subseteq 1..(W - 1)
    /\ Ends \subseteq 1..(W - 1) /\ Sizes \subseteq 1..(W - 1)
  BY LayoutAssumption

LEMMA ModUnique ==
    ASSUME NEW q \in Int, NEW r \in Int, 0 <= r, r < W
    PROVE  (W * q + r) % W = r
<1>1. W \in Nat \ {0} BY Words
<1> DEFINE z == W * q + r
           p == z \div W
           s == z % W
<1>2. z \in Int /\ p \in Int /\ s \in Int /\ 0 <= s /\ s < W /\ z = W * p + s BY <1>1
<1> HIDE DEF p, s
<1>3. W * q + r = W * p + s BY <1>2
<1>4. \A d \in Int : (d >= 1 => W * d >= W) /\ (d <= -1 => W * d <= -W) BY <1>1
<1>5. W * (q - p) = s - r BY <1>1, <1>2, <1>3
<1>6. ~(q - p >= 1) /\ ~(q - p <= -1) BY <1>1, <1>2, <1>4, <1>5
<1>7. q = p BY <1>2, <1>6
<1>8. QED BY <1>1, <1>2, <1>3, <1>7 DEF s

LEMMA ModShift ==
    ASSUME NEW x \in Int, NEW y \in Int
    PROVE  ((x % W) + y) % W = (x + y) % W
<1>1. W \in Nat \ {0} BY Words
<1>2. PICK q, r \in Int : x = W * q + r /\ r = x % W BY <1>1
<1>3. PICK p, s \in Int : r + y = W * p + s /\ s = (r + y) % W /\ 0 <= s /\ s < W BY <1>1
<1>4. x + y = W * (q + p) + s BY <1>1, <1>2, <1>3, SMTT(30)
<1>5. (W * (q + p) + s) % W = s BY <1>3, ModUnique
<1>6. QED BY <1>2, <1>3, <1>4, <1>5

LEMMA ModSmall == ASSUME NEW x \in 0..(W - 1) PROVE x % W = x
  BY Words

\* Rounding, of what does not wrap.
LEMMA RoundUp ==
    ASSUME NEW n \in 1..(W - MB)
    PROVE  roundmb(n) \in n..(n + MB - 1)
<1>1. W \in Nat \ {0} /\ MB \in Nat \ {0} BY Words
<1> DEFINE y == MB - 1 + n
<1>2. y \in 0..(W - 1) /\ y % W = y BY <1>1, ModSmall
<1>3. roundmb(n) = y - (y % MB) BY <1>2 DEF roundmb
<1>4. y % MB \in 0..(MB - 1) BY <1>1, <1>2
<1>5. QED BY <1>1, <1>3, <1>4

LEMMA RoundDown ==
    ASSUME NEW n \in MB..(W - 1)
    PROVE  truncmb(n) \in 1..n
<1>1. W \in Nat \ {0} /\ MB \in Nat \ {0} BY Words
<1>2. n % W = n BY <1>1, ModSmall
<1>3. truncmb(n) = n - (n % MB) BY <1>2 DEF truncmb
<1>4. n % MB \in 0..(MB - 1) BY <1>1
<1>5. QED BY <1>1, <1>3, <1>4
-----------------------------------------------------------------------------
\* Free lists.
LEMMA BlockIs ==
    /\ \A b \in Blocks : b.addr \in Int /\ b.len \in Int /\ b.addr >= 0 /\ b.len > 0
    /\ \A a \in 0..(W - 1), n \in 1..W :
         Blk(a, n) \in Blocks /\ Blk(a, n).addr = a /\ Blk(a, n).len = n
  BY DEF Blocks, Blk

LEMMA InList ==
    ASSUME NEW l, Tidy(l)
    PROVE  \A c : c \in ListCells(l) <=>
              c \in Int /\ \E i \in 1..Len(l) : l[i].addr <= c /\ c < l[i].addr + l[i].len
<1>1. \A i \in 1..Len(l) : l[i].addr \in Int /\ l[i].len \in Int
  <2>1. \A i \in 1..Len(l) : l[i] \in Blocks BY DEF Tidy
  <2>2. QED BY <2>1, BlockIs
<1>2. \A a, n \in Int : \A c : c \in a..(a + n - 1) <=> c \in Int /\ a <= c /\ c < a + n
  OBVIOUS
<1>3. QED BY <1>1, <1>2 DEF ListCells, Cells

\* Every operation cuts a list into what lies before lo and what lies from hi
\* on, and puts nothing or one block between the two.
Spliced(l, lo, mid, hi) == SubSeq(l, 1, lo - 1) \o mid \o SubSeq(l, hi, Len(l))

HasParts(r, l, lo, mid, hi, S) ==
    /\ r \in Seq(S) /\ Len(r) = lo - 1 + Len(mid) + Len(l) - hi + 1
    /\ \A j \in 1..(lo - 1) : r[j] = l[j]
    /\ \A j \in 1..Len(mid) : r[lo - 1 + j] = mid[j]
    /\ \A j \in hi..Len(l) : r[lo - 1 + Len(mid) + j - hi + 1] = l[j]

LEMMA SplicedIs ==
    ASSUME NEW S, NEW l \in Seq(S), NEW lo \in 1..(Len(l) + 1), NEW hi \in 1..(Len(l) + 1),
           lo <= hi, NEW mid \in Seq(S)
    PROVE  HasParts(Spliced(l, lo, mid, hi), l, lo, mid, hi, S)
<1> DEFINE a == SubSeq(l, 1, lo - 1)
           b == SubSeq(l, hi, Len(l))
           c == a \o mid
<1>1. /\ a \in Seq(S) /\ Len(a) = lo - 1 /\ Len(l) \in Nat /\ Len(mid) \in Nat
      /\ \A j \in 1..(lo - 1) : a[j] = l[j]
  OBVIOUS
<1>2. /\ b \in Seq(S) /\ Len(b) = Len(l) - hi + 1
      /\ \A j \in 1..(Len(l) - hi + 1) : b[j] = l[j + hi - 1]
  OBVIOUS
<1> HIDE DEF a, b
<1>3. /\ c \in Seq(S) /\ Len(c) = lo - 1 + Len(mid)
      /\ \A j \in 1..(lo - 1) : c[j] = l[j]
      /\ \A j \in 1..Len(mid) : c[lo - 1 + j] = mid[j]
  BY <1>1, SMTT(30)
<1> HIDE DEF c
<1>4. /\ c \o b \in Seq(S) /\ Len(c \o b) = Len(c) + Len(b)
      /\ \A j \in 1..Len(c) : (c \o b)[j] = c[j]
      /\ \A j \in 1..Len(b) : (c \o b)[Len(c) + j] = b[j]
  <2>1. \A u, v \in Seq(S) :
          /\ u \o v \in Seq(S) /\ Len(u \o v) = Len(u) + Len(v)
          /\ \A j \in 1..Len(u) : (u \o v)[j] = u[j]
          /\ \A j \in 1..Len(v) : (u \o v)[Len(u) + j] = v[j]
    OBVIOUS
  <2>2. QED BY <1>2, <1>3, <2>1, Zenon
<1>5. ASSUME NEW j \in hi..Len(l)
      PROVE  (c \o b)[lo - 1 + Len(mid) + j - hi + 1] = l[j]
  <2>1. j - hi + 1 \in 1..Len(b) BY <1>1, <1>2
  <2>2. (c \o b)[Len(c) + (j - hi + 1)] = b[j - hi + 1] BY <1>4, <2>1
  <2>3. b[j - hi + 1] = l[(j - hi + 1) + hi - 1] BY <1>2, <2>1
  <2>4. (j - hi + 1) + hi - 1 = j
        /\ Len(c) + (j - hi + 1) = lo - 1 + Len(mid) + j - hi + 1
    BY <1>1, <1>3
  <2>5. QED BY <2>2, <2>3, <2>4
<1>6. Spliced(l, lo, mid, hi) = c \o b BY DEF Spliced, a, b, c
<1>7. c \o b \in Seq(S) /\ Len(c \o b) = lo - 1 + Len(mid) + Len(l) - hi + 1
  BY <1>1, <1>2, <1>3, <1>4
<1>8. /\ \A j \in 1..(lo - 1) : (c \o b)[j] = l[j]
      /\ \A j \in 1..Len(mid) : (c \o b)[lo - 1 + j] = mid[j]
  <2>1. \A j \in 1..(lo - 1) : j \in 1..Len(c) BY <1>1, <1>3
  <2>2. \A j \in 1..Len(mid) : lo - 1 + j \in 1..Len(c) BY <1>1, <1>3
  <2>3. QED BY <1>3, <1>4, <2>1, <2>2
<1>9. HasParts(c \o b, l, lo, mid, hi, S) BY <1>5, <1>7, <1>8, Zenon DEF HasParts
<1>10. QED BY <1>6, <1>9

\* The block, if there is one, is clear of both sides.
Between(l, lo, mid, hi) ==
    /\ lo \in 1..(Len(l) + 1) /\ hi \in 1..(Len(l) + 1) /\ lo <= hi
    /\ mid \in Seq(Blocks) /\ Len(mid) <= 1
    /\ \A k \in 1..Len(mid) :
         /\ mid[k].addr + mid[k].len < W
         /\ \A j \in 1..(lo - 1) : Below(l[j], mid[k])
         /\ \A j \in hi..Len(l) : Below(mid[k], l[j])

SplicedCells(l, lo, mid, hi) ==
    {c \in Int : \/ \E j \in 1..Len(l) : /\ j < lo \/ j >= hi
                                         /\ l[j].addr <= c /\ c < l[j].addr + l[j].len
                 \/ \E k \in 1..Len(mid) : mid[k].addr <= c /\ c < mid[k].addr + mid[k].len}

LEMMA SplicedTidy ==
    ASSUME NEW l, Tidy(l), NEW lo, NEW mid, NEW hi, Between(l, lo, mid, hi)
    PROVE  /\ Tidy(Spliced(l, lo, mid, hi))
           /\ ListCells(Spliced(l, lo, mid, hi)) = SplicedCells(l, lo, mid, hi)
<1> DEFINE r == Spliced(l, lo, mid, hi)
           In(b, c) == b.addr <= c /\ c < b.addr + b.len
<1>1. l \in Seq(Blocks) /\ mid \in Seq(Blocks) BY DEF Tidy, Between
<1>2. \A s \in Seq(Blocks) : Len(s) \in Nat OBVIOUS
<1>3. PICK N \in Nat : N = Len(l) BY <1>1, <1>2
<1>4. PICK m \in Nat : m = Len(mid) /\ m <= 1 BY <1>1, <1>2 DEF Between
<1>5. lo \in 1..(N + 1) /\ hi \in 1..(N + 1) /\ lo <= hi /\ (m = 0 \/ m = 1)
  BY <1>3, <1>4 DEF Between
<1>6. /\ r \in Seq(Blocks) /\ Len(r) = lo - 1 + m + N - hi + 1
      /\ \A j \in 1..(lo - 1) : r[j] = l[j]
      /\ \A j \in 1..m : r[lo - 1 + j] = mid[j]
      /\ \A j \in hi..N : r[lo - 1 + m + j - hi + 1] = l[j]
  <2>1. lo \in 1..(Len(l) + 1) /\ hi \in 1..(Len(l) + 1) /\ lo <= hi BY DEF Between
  <2>2. HasParts(r, l, lo, mid, hi, Blocks) BY <1>1, <2>1, SplicedIs
  <2> HIDE DEF r
  <2>3. QED BY <1>3, <1>4, <2>2 DEF HasParts
<1> HIDE DEF r
<1>7. PICK R \in Int : R = Len(r) BY <1>1, <1>2, <1>6
<1>8. R = lo - 1 + m + N - hi + 1 BY <1>6, <1>7
<1>9. ASSUME NEW p \in 1..R
      PROVE  \/ p < lo /\ p \in 1..N /\ r[p] = l[p]
             \/ p = lo /\ m = 1 /\ r[p] = mid[1]
             \/ \E j \in hi..N : p = lo - 1 + m + j - hi + 1 /\ r[p] = l[j]
  <2>1. CASE p < lo
    <3>1. p \in 1..(lo - 1) /\ p \in 1..N BY <1>5, <2>1
    <3>2. QED BY <1>6, <2>1, <3>1
  <2>2. CASE p = lo /\ m = 1
    <3>1. lo - 1 + 1 = p /\ 1 \in 1..m BY <1>5, <2>2
    <3>2. QED BY <1>6, <2>2, <3>1
  <2>3. CASE p >= lo + m
    <3>1. PICK j \in Int : j = p - lo - m + hi BY <1>5
    <3>2. j \in hi..N /\ p = lo - 1 + m + j - hi + 1 BY <1>5, <1>8, <2>3, <3>1
    <3>3. QED BY <1>6, <3>2
  <2>4. QED BY <1>5, <2>1, <2>2, <2>3
<1>10. \A k \in 1..m : /\ mid[k].addr + mid[k].len < W
                       /\ \A j \in 1..(lo - 1) : Below(l[j], mid[k])
                       /\ \A j \in hi..N : Below(mid[k], l[j])
  BY <1>3, <1>4 DEF Between
<1>11. \A i \in 1..N : l[i].addr + l[i].len < W BY <1>3 DEF Tidy
<1>12. \A i, j \in 1..N : i < j => Below(l[i], l[j]) BY <1>3 DEF Tidy
<1>13. \A j \in hi..N : j \in 1..N BY <1>5
<1>14. \A p \in 1..R : r[p].addr + r[p].len < W
  BY <1>9, <1>10, <1>11, <1>13
<1>15. ASSUME NEW p \in 1..R, NEW q \in 1..R, p < q PROVE Below(r[p], r[q])
  <2>1. CASE p < lo /\ p \in 1..N /\ r[p] = l[p]
    <3>1. CASE q < lo /\ q \in 1..N /\ r[q] = l[q] BY <1>12, <1>15, <2>1, <3>1
    <3>2. CASE q = lo /\ m = 1 /\ r[q] = mid[1]
      <4>1. p \in 1..(lo - 1) /\ 1 \in 1..m BY <1>5, <2>1, <3>2
      <4>2. QED BY <1>10, <2>1, <3>2, <4>1
    <3>3. CASE \E j \in hi..N : r[q] = l[j]
      <4>1. PICK j \in hi..N : r[q] = l[j] BY <3>3
      <4>2. p < j /\ j \in 1..N BY <1>5, <2>1
      <4>3. QED BY <1>12, <2>1, <4>1, <4>2
    <3>4. QED BY <1>9, <3>1, <3>2, <3>3
  <2>2. CASE p = lo /\ m = 1 /\ r[p] = mid[1]
    <3>1. ~(q < lo) /\ q # lo BY <1>5, <1>15, <2>2
    <3>2. PICK j \in hi..N : r[q] = l[j] BY <1>9, <3>1
    <3>3. 1 \in 1..m BY <2>2
    <3>4. QED BY <1>10, <2>2, <3>2, <3>3
  <2>3. CASE \E j \in hi..N : p = lo - 1 + m + j - hi + 1 /\ r[p] = l[j]
    <3>1. PICK j \in hi..N : p = lo - 1 + m + j - hi + 1 /\ r[p] = l[j] BY <2>3
    <3>2. ~(q < lo) /\ ~(q = lo /\ m = 1) BY <1>5, <1>15, <3>1
    <3>3. PICK k \in hi..N : q = lo - 1 + m + k - hi + 1 /\ r[q] = l[k] BY <1>9, <3>2
    <3>4. j < k /\ j \in 1..N /\ k \in 1..N BY <1>5, <1>15, <3>1, <3>3
    <3>5. QED BY <1>12, <3>1, <3>3, <3>4
  <2>4. QED BY <1>9, <2>1, <2>2, <2>3
<1>16. Tidy(r) BY <1>6, <1>7, <1>14, <1>15 DEF Tidy
<1> HIDE DEF In
<1>17. ASSUME NEW c
       PROVE  (\E p \in 1..R : In(r[p], c)) <=>
                 \/ \E j \in 1..N : (j < lo \/ j >= hi) /\ In(l[j], c)
                 \/ \E k \in 1..m : In(mid[k], c)
  <2>1. ASSUME NEW p \in 1..R, In(r[p], c)
        PROVE  \/ \E j \in 1..N : (j < lo \/ j >= hi) /\ In(l[j], c)
               \/ \E k \in 1..m : In(mid[k], c)
    <3>1. CASE p < lo /\ p \in 1..N /\ r[p] = l[p] BY <2>1, <3>1
    <3>2. CASE p = lo /\ m = 1 /\ r[p] = mid[1]
      <4>1. 1 \in 1..m BY <3>2
      <4>2. QED BY <2>1, <3>2, <4>1
    <3>3. CASE \E j \in hi..N : r[p] = l[j]
      <4>1. PICK j \in hi..N : r[p] = l[j] BY <3>3
      <4>2. j \in 1..N /\ j >= hi BY <1>5
      <4>3. QED BY <2>1, <4>1, <4>2
    <3>4. QED BY <1>9, <3>1, <3>2, <3>3
  <2>2. ASSUME NEW j \in 1..N, j < lo \/ j >= hi, In(l[j], c)
        PROVE  \E p \in 1..R : In(r[p], c)
    <3>1. CASE j < lo
      <4>1. j \in 1..R /\ j \in 1..(lo - 1) BY <1>5, <1>8, <3>1
      <4>2. r[j] = l[j] BY <1>6, <4>1
      <4>3. QED BY <2>2, <4>1, <4>2
    <3>2. CASE j >= hi
      <4>1. PICK p \in Int : p = lo - 1 + m + j - hi + 1 BY <1>5
      <4>2. p \in 1..R /\ j \in hi..N BY <1>5, <1>8, <3>2, <4>1
      <4>3. r[p] = l[j] BY <1>6, <4>1, <4>2
      <4>4. QED BY <2>2, <4>2, <4>3
    <3>3. QED BY <2>2, <3>1, <3>2
  <2>3. ASSUME NEW k \in 1..m, In(mid[k], c) PROVE \E p \in 1..R : In(r[p], c)
    <3>1. PICK p \in Int : p = lo - 1 + k BY <1>5
    <3>2. p \in 1..R BY <1>5, <1>8, <3>1
    <3>3. r[p] = mid[k] BY <1>6, <3>1
    <3>4. QED BY <2>3, <3>2, <3>3
  <2>4. QED BY <2>1, <2>2, <2>3
<1>18. \A c : c \in ListCells(r) <=> c \in Int /\ \E p \in 1..R : In(r[p], c)
  BY <1>7, <1>16, InList DEF In
<1>19. \A c : c \in ListCells(r) <=>
          c \in Int /\ \/ \E j \in 1..N : (j < lo \/ j >= hi) /\ In(l[j], c)
                       \/ \E k \in 1..m : In(mid[k], c)
  BY <1>17, <1>18
<1>20. ListCells(r) = SplicedCells(l, lo, mid, hi) BY <1>3, <1>4, <1>19 DEF In, SplicedCells
<1>21. QED BY <1>16, <1>20 DEF r

\* A block taken out of the list, or replaced, is a list cut around it.
LEMMA RemovedIs ==
    ASSUME NEW S, NEW l \in Seq(S), NEW i \in 1..Len(l)
    PROVE  RemoveAt(l, i) = Spliced(l, i, << >>, i + 1)
<1>1. \A s \in Seq(S) : s \o << >> = s OBVIOUS
<1>2. SubSeq(l, 1, i - 1) \in Seq(S) OBVIOUS
<1>3. QED BY <1>1, <1>2 DEF RemoveAt, Spliced

LEMMA ReplacedIs ==
    ASSUME NEW S, NEW l \in Seq(S), NEW i \in 1..Len(l), NEW b \in S,
           NEW e \in Seq(S), Len(e) = Len(l),
           \A j \in 1..Len(l) : e[j] = IF j = i THEN b ELSE l[j]
    PROVE  e = Spliced(l, i, <<b>>, i + 1)
<1> DEFINE r == Spliced(l, i, <<b>>, i + 1)
<1>1. /\ <<b>> \in Seq(S) /\ Len(<<b>>) = 1 /\ <<b>>[1] = b /\ Len(l) \in Nat
      /\ i \in 1..(Len(l) + 1) /\ i + 1 \in 1..(Len(l) + 1) /\ i <= i + 1
  OBVIOUS
<1>2. HasParts(r, l, i, <<b>>, i + 1, S) BY <1>1, SplicedIs
<1> HIDE DEF r
<1>3. r \in Seq(S) /\ Len(r) = Len(l) BY <1>1, <1>2 DEF HasParts
<1>4. ASSUME NEW j \in 1..Len(l) PROVE r[j] = IF j = i THEN b ELSE l[j]
  <2>1. CASE j < i BY <1>2, <2>1 DEF HasParts
  <2>2. CASE j = i
    <3>1. r[i - 1 + 1] = b BY <1>1, <1>2 DEF HasParts
    <3>2. QED BY <2>2, <3>1
  <2>3. CASE j > i
    <3>1. j \in (i + 1)..Len(l) BY <2>3
    <3>2. r[i - 1 + 1 + j - (i + 1) + 1] = l[j] BY <1>1, <1>2, <3>1 DEF HasParts
    <3>3. i - 1 + 1 + j - (i + 1) + 1 = j OBVIOUS
    <3>4. QED BY <2>3, <3>2, <3>3
  <2>4. QED BY <2>1, <2>2, <2>3
<1>5. e = [j \in 1..Len(l) |-> e[j]] OBVIOUS
<1>6. r = [j \in 1..Len(l) |-> r[j]] BY <1>3
<1>7. e = r BY <1>4, <1>5, <1>6
<1>8. QED BY <1>7 DEF r

\* The bottom or the top of a block is handed out.
CutOff(l, i, a, nb) ==
    IF l[i].len = nb THEN RemoveAt(l, i)
    ELSE [l EXCEPT ![i] = Blk(IF a = l[i].addr THEN a + nb ELSE l[i].addr, l[i].len - nb)]

LEMMA Shrunk ==
    ASSUME NEW l, Tidy(l), NEW i \in 1..Len(l), NEW a \in Int, NEW nb \in Int,
           1 <= nb, nb <= l[i].len,
           a = l[i].addr \/ a + nb = l[i].addr + l[i].len,
           NEW r, r = CutOff(l, i, a, nb)
    PROVE  /\ Tidy(r) /\ ListCells(r) = ListCells(l) \ Cells(a, nb)
           /\ Cells(a, nb) \subseteq ListCells(l)
<1>1. l \in Seq(Blocks) /\ l[i] \in Blocks /\ W \in Nat BY Words DEF Tidy
<1>2. PICK x \in 0..(W - 1), n \in 1..W : l[i].addr = x /\ l[i].len = n BY <1>1 DEF Blocks
<1>3. x + n < W /\ nb <= n /\ (a = x \/ a + nb = x + n) BY <1>2 DEF Tidy
<1>4. PICK N \in Nat : N = Len(l) BY <1>1
<1>5. /\ \A j \in 1..N : j < i => l[j].addr + l[j].len < x
      /\ \A j \in 1..N : i < j => x + n < l[j].addr
      /\ \A j \in 1..N : l[j].addr \in Int /\ l[j].len \in Int
  <2>1. \A j \in 1..N : l[j] \in Blocks BY <1>1, <1>4, SMTT(30)
  <2>2. \A j \in 1..N : l[j].addr \in Int /\ l[j].len \in Int BY <2>1, BlockIs
  <2>3. /\ \A j \in 1..N : j < i => Below(l[j], l[i])
        /\ \A j \in 1..N : i < j => Below(l[i], l[j])
    BY <1>4 DEF Tidy
  <2>4. QED BY <1>2, <2>2, <2>3 DEF Below
<1>6. PICK low \in Int, left \in Int : low = (IF a = x THEN a + nb ELSE x) /\ left = n - nb
  OBVIOUS
<1> DEFINE b == Blk(low, left)
           mid == IF n = nb THEN << >> ELSE <<b>>
<1>7. b.addr = low /\ b.len = left /\ (n # nb => b \in Blocks)
  <2>1. b.addr = low /\ b.len = left BY DEF Blk
  <2>2. n # nb => low \in 0..(W - 1) /\ left \in 1..W BY <1>1, <1>3, <1>6, SMTT(30)
  <2>3. QED BY <2>1, <2>2 DEF Blk, Blocks
<1>8. n # nb => /\ x <= low /\ low + left <= x + n
                /\ \A c \in Int : low <= c /\ c < low + left <=>
                                  x <= c /\ c < x + n /\ ~(a <= c /\ c < a + nb)
  BY <1>3, <1>6
<1>9. r = Spliced(l, i, mid, i + 1)
  <2>1. CASE n = nb
    <3>1. r = RemoveAt(l, i) BY <1>2, <2>1 DEF CutOff
    <3>2. QED BY <1>1, <2>1, <3>1, RemovedIs
  <2>2. CASE n # nb
    <3>1. r = [l EXCEPT ![i] = b] BY <1>2, <1>6, <2>2 DEF CutOff
    <3> HIDE DEF b
    <3>2. b \in Blocks BY <1>7, <2>2
    <3>3. /\ r \in Seq(Blocks) /\ Len(r) = Len(l)
          /\ \A j \in 1..Len(l) : r[j] = IF j = i THEN b ELSE l[j]
      <4>1. \A s \in Seq(Blocks) : s \in [1..Len(s) -> Blocks] BY SMTT(30)
      <4>2. l \in [1..N -> Blocks] /\ i \in 1..N BY <1>1, <1>4, <4>1
      <4>3. /\ r \in [1..N -> Blocks]
            /\ \A j \in 1..N : r[j] = IF j = i THEN b ELSE l[j]
        BY <3>1, <3>2, <4>2
      <4>4. \A g \in [1..N -> Blocks] : g \in Seq(Blocks) /\ Len(g) = N OBVIOUS
      <4>5. QED BY <1>4, <4>3, <4>4
    <3>4. r = Spliced(l, i, <<b>>, i + 1) BY <1>1, <3>2, <3>3, ReplacedIs, Zenon
    <3>5. QED BY <2>2, <3>4
  <2>3. QED BY <2>1, <2>2
<1> HIDE DEF b
<1>10. /\ mid \in Seq(Blocks) /\ Len(mid) <= 1
       /\ \A k \in 1..Len(mid) : k = 1 /\ n # nb /\ mid[k] = b
       /\ n # nb => 1 \in 1..Len(mid)
  BY <1>7
<1> HIDE DEF mid
<1>11. Between(l, i, mid, i + 1)
  <2>1. i \in 1..(Len(l) + 1) /\ i + 1 \in 1..(Len(l) + 1) /\ i <= i + 1 BY <1>4
  <2>2. ASSUME NEW k \in 1..Len(mid)
        PROVE  /\ mid[k].addr + mid[k].len < W
               /\ \A j \in 1..(i - 1) : Below(l[j], mid[k])
               /\ \A j \in (i + 1)..Len(l) : Below(mid[k], l[j])
    <3>1. mid[k] = b /\ n # nb BY <1>10
    <3>2. b.addr + b.len < W BY <1>1, <1>3, <1>7, <1>8, <3>1
    <3>3. ASSUME NEW j \in 1..(i - 1) PROVE Below(l[j], b)
      <4>1. j \in 1..N /\ j < i BY <1>4, SMTT(30)
      <4>2. l[j].addr + l[j].len < x /\ l[j].addr \in Int /\ l[j].len \in Int BY <1>5, <4>1
      <4>3. QED BY <1>7, <1>8, <3>1, <4>2, SMTT(30) DEF Below
    <3>4. ASSUME NEW j \in (i + 1)..Len(l) PROVE Below(b, l[j])
      <4>1. j \in 1..N /\ i < j BY <1>4
      <4>2. x + n < l[j].addr /\ l[j].addr \in Int BY <1>5, <4>1
      <4>3. QED BY <1>7, <1>8, <3>1, <4>2, SMTT(30) DEF Below
    <3>5. QED BY <3>1, <3>2, <3>3, <3>4
  <2>3. QED BY <1>10, <2>1, <2>2 DEF Between
<1>12. Tidy(r) /\ ListCells(r) = SplicedCells(l, i, mid, i + 1)
  BY <1>9, <1>11, SplicedTidy, Zenon
<1>13. \A c : c \in ListCells(l) <=>
          c \in Int /\ \E j \in 1..N : l[j].addr <= c /\ c < l[j].addr + l[j].len
  BY <1>4, InList
<1>14. \A c : c \in Cells(a, nb) <=> c \in Int /\ a <= c /\ c < a + nb BY SMTT(30) DEF Cells
<1>15. ASSUME NEW c \in Int
       PROVE  c \in ListCells(r) <=>
                c \in ListCells(l) /\ ~(a <= c /\ c < a + nb)
  <2>1. c \in ListCells(r) <=>
          \/ \E j \in 1..N : (j < i \/ j > i) /\ l[j].addr <= c /\ c < l[j].addr + l[j].len
          \/ x <= c /\ c < x + n /\ ~(a <= c /\ c < a + nb)
    <3>1. (\E k \in 1..Len(mid) : mid[k].addr <= c /\ c < mid[k].addr + mid[k].len) <=>
             x <= c /\ c < x + n /\ ~(a <= c /\ c < a + nb)
      <4>1. CASE n = nb
        <5>1. a = x BY <1>3, <4>1
        <5>2. QED BY <1>10, <4>1, <5>1
      <4>2. CASE n # nb
        <5>1. b.addr <= c /\ c < b.addr + b.len <=>
                x <= c /\ c < x + n /\ ~(a <= c /\ c < a + nb)
          BY <1>7, <1>8, <4>2
        <5>2. 1 \in 1..Len(mid) /\ \A k \in 1..Len(mid) : mid[k] = b BY <1>10, <4>2
        <5>3. QED BY <5>1, <5>2
      <4>3. QED BY <4>1, <4>2
    <3>2. \A j \in 1..N : j >= i + 1 <=> j > i OBVIOUS
    <3>3. QED BY <1>4, <1>12, <3>1, <3>2 DEF SplicedCells
  <2>2. \A j \in 1..N : (j < i \/ j > i) /\ l[j].addr <= c /\ c < l[j].addr + l[j].len
                          => ~(a <= c /\ c < a + nb)
    <3> TAKE j \in 1..N
    <3>1. x <= a /\ a + nb <= x + n BY <1>3
    <3>2. PICK u, v \in Int : u = l[j].addr /\ v = l[j].len BY <1>5
    <3>3. (j < i => u + v < x) /\ (i < j => x + n < u) BY <1>5, <3>2
    <3>4. j > i <=> i < j BY <1>4
    <3>5. j < i => (u <= c /\ c < u + v => ~(a <= c /\ c < a + nb)) BY <3>1, <3>3
    <3>6. j > i => (u <= c /\ c < u + v => ~(a <= c /\ c < a + nb)) BY <3>1, <3>3, <3>4
    <3>7. QED BY <3>2, <3>5, <3>6
  <2>3. \A j \in 1..N : j = i \/ j < i \/ j > i BY <1>4
  <2>4. i \in 1..N BY <1>4
  <2>5. QED BY <1>2, <1>13, <2>1, <2>2, <2>3, <2>4
<1>16. ListCells(r) = ListCells(l) \ Cells(a, nb)
  <2>1. \A c \in ListCells(r) : c \in Int BY <1>12 DEF SplicedCells
  <2>2. QED BY <1>13, <1>14, <1>15, <2>1
<1>17. Cells(a, nb) \subseteq ListCells(l)
  <2>1. \A c \in Int : a <= c /\ c < a + nb => x <= c /\ c < x + n BY <1>3
  <2>2. i \in 1..N BY <1>4
  <2>3. QED BY <1>2, <1>13, <1>14, <2>1, <2>2
<1>18. QED BY <1>12, <1>16, <1>17

\* A block of nb bytes at a fits in front of the block at i.  It joins the block
\* before it (the result begins at s, in place p) and the block after it (the
\* result ends at e, and the list goes on from q) where they touch.
Gap(l, a, nb, i) ==
    /\ i \in 1..(Len(l) + 1)
    /\ i > 1 => l[i - 1].addr + l[i - 1].len <= a
    /\ i <= Len(l) => a + nb <= l[i].addr
JoinsLow(l, a, i, p, s) ==
    \/ p = i /\ s = a /\ (i > 1 => l[i - 1].addr + l[i - 1].len # a)
    \/ i > 1 /\ p = i - 1 /\ s = l[i - 1].addr /\ l[i - 1].addr + l[i - 1].len = a
JoinsHigh(l, top, i, q, e) ==
    \/ q = i /\ e = top /\ (i <= Len(l) => l[i].addr # top)
    \/ i <= Len(l) /\ q = i + 1 /\ e = l[i].addr + l[i].len /\ l[i].addr = top
JoinsIn(l, a, nb, mid, p, q) ==
    /\ Between(l, p, mid, q)
    /\ SplicedCells(l, p, mid, q) = ListCells(l) \cup Cells(a, nb)

LEMMA JoinedTidy ==
    ASSUME NEW l, Tidy(l), NEW a \in Nat, NEW nb \in Nat, 1 <= nb, a + nb < W,
           NEW i, Gap(l, a, nb, i),
           NEW p \in Int, NEW s \in Int, JoinsLow(l, a, i, p, s),
           NEW q \in Int, NEW e \in Int, NEW top, top = a + nb, JoinsHigh(l, top, i, q, e),
           NEW mid, mid = <<Blk(s, e - s)>>
    PROVE  JoinsIn(l, a, nb, mid, p, q)
<1>1. l \in Seq(Blocks) /\ W \in Nat BY Words DEF Tidy
<1>2. \A r \in Seq(Blocks) : Len(r) \in Nat /\ \A j \in 1..Len(r) : r[j] \in Blocks BY SMTT(30)
<1>3. PICK N \in Nat : N = Len(l) BY <1>1, <1>2
<1>4. \A j \in 1..N : l[j].addr \in Int /\ l[j].len \in Int /\ l[j].addr >= 0 /\ l[j].len > 0
  BY <1>1, <1>2, <1>3, BlockIs
\* Where the blocks begin and end.
<1>5. PICK f \in [1..N -> Int], t \in [1..N -> Int] :
        \A j \in 1..N : f[j] = l[j].addr /\ t[j] = l[j].addr + l[j].len
  <2>1. [j \in 1..N |-> l[j].addr] \in [1..N -> Int] BY <1>4
  <2>2. [j \in 1..N |-> l[j].addr + l[j].len] \in [1..N -> Int] BY <1>4
  <2>3. QED BY <2>1, <2>2
<1>6. /\ \A j \in 1..N : 0 <= f[j] /\ f[j] < t[j] /\ t[j] < W
      /\ \A j, k \in 1..N : j < k => t[j] < f[k]
  <2>1. \A j \in 1..N : l[j].addr + l[j].len < W BY <1>3 DEF Tidy
  <2>2. \A j, k \in 1..N : j < k => l[j].addr + l[j].len < l[k].addr
    BY <1>3 DEF Tidy, Below
  <2>3. \A j \in 1..N : l[j].addr < l[j].addr + l[j].len BY <1>4, SMTT(30)
  <2>4. QED BY <1>4, <1>5, <2>1, <2>2, <2>3
<1>7. /\ i \in 1..(N + 1) /\ (i > 1 => t[i - 1] <= a) /\ (i <= N => a + nb <= f[i])
  <2>1. i \in 1..(N + 1) BY <1>3 DEF Gap
  <2>2. (i > 1 => i - 1 \in 1..N) /\ (i <= N => i \in 1..N) BY <2>1
  <2>3. QED BY <1>3, <1>5, <2>1, <2>2 DEF Gap
<1>8. i \in Int /\ 1 <= i /\ i <= N + 1 BY <1>7
<1>9. \/ p = i /\ s = a /\ (i > 1 => t[i - 1] < a)
      \/ i > 1 /\ p = i - 1 /\ s = f[i - 1] /\ t[i - 1] = a
  <2>1. CASE i > 1
    <3>1. i - 1 \in 1..N BY <1>8, <2>1
    <3>2. /\ t[i - 1] = l[i - 1].addr + l[i - 1].len /\ t[i - 1] \in Int /\ t[i - 1] <= a
          /\ f[i - 1] = l[i - 1].addr
      BY <1>5, <1>7, <2>1, <3>1
    <3>3. QED BY <2>1, <3>2, SMTT(30) DEF JoinsLow
  <2>2. CASE ~(i > 1) BY <2>2 DEF JoinsLow
  <2>3. QED BY <2>1, <2>2
<1>10. \/ q = i /\ e = a + nb /\ (i <= N => a + nb < f[i])
       \/ i <= N /\ q = i + 1 /\ e = t[i] /\ f[i] = a + nb
  <2>1. CASE i <= N
    <3>1. i \in 1..N BY <1>8, <2>1
    <3>2. /\ t[i] = l[i].addr + l[i].len /\ f[i] \in Int /\ a + nb <= f[i]
          /\ f[i] = l[i].addr
      BY <1>5, <1>7, <2>1, <3>1
    <3>3. QED BY <1>3, <2>1, <3>2, SMTT(30) DEF JoinsHigh
  <2>2. CASE ~(i <= N) BY <1>3, <2>2 DEF JoinsHigh
  <2>3. QED BY <2>1, <2>2
<1>11. /\ p \in 1..(N + 1) /\ p <= i /\ 0 <= s /\ s <= a
       /\ q \in 1..(N + 1) /\ p <= q /\ i <= q /\ a + nb <= e /\ e < W
  <2>1. p \in 1..(N + 1) /\ p <= i /\ 0 <= s /\ s <= a
    <3>1. CASE p = i /\ s = a BY <1>8, <3>1
    <3>2. CASE i > 1 /\ p = i - 1 /\ s = f[i - 1] /\ t[i - 1] = a
      <4>1. i - 1 \in 1..N BY <1>8, <3>2
      <4>2. 0 <= s /\ s < a BY <1>6, <3>2, <4>1
      <4>3. QED BY <1>8, <3>2, <4>2, SMTT(30)
    <3>3. QED BY <1>9, <3>1, <3>2
  <2>2. q \in 1..(N + 1) /\ i <= q /\ a + nb <= e /\ e < W
    <3>1. CASE q = i /\ e = a + nb BY <1>8, <3>1
    <3>2. CASE i <= N /\ q = i + 1 /\ e = t[i] /\ f[i] = a + nb
      <4>1. i \in 1..N BY <1>8, <3>2
      <4>2. e \in Int /\ a + nb < e /\ e < W BY <1>6, <3>2, <4>1
      <4>3. QED BY <1>8, <3>2, <4>2
    <3>3. QED BY <1>10, <3>1, <3>2
  <2>3. QED BY <1>8, <2>1, <2>2
<1>12. \A j \in 1..N : j < p => t[j] < s
  <2> SUFFICES ASSUME NEW j \in 1..N, j < p PROVE t[j] < s
    OBVIOUS
  <2>1. j \in Int /\ p \in Int /\ p <= i /\ (p = i \/ p = i - 1) BY <1>9, <1>11
  <2>2. i > 1 /\ i - 1 \in 1..N /\ j <= i - 1 BY <1>8, <2>1
  <2>3. t[j] \in Int /\ t[i - 1] \in Int /\ f[i - 1] \in Int /\ f[i - 1] < t[i - 1]
    BY <1>6, <2>2
  <2>4. j = i - 1 \/ t[j] < f[i - 1] BY <1>6, <2>1, <2>2, SMTT(30)
  <2>5. CASE p = i /\ s = a /\ t[i - 1] < a BY <2>3, <2>4, <2>5, SMTT(30)
  <2>6. CASE p = i - 1 /\ s = f[i - 1]
    <3>1. j # i - 1 BY <2>1, <2>6
    <3>2. QED BY <2>4, <2>6, <3>1
  <2>7. QED BY <1>9, <2>2, <2>5, <2>6
<1>13. \A j \in 1..N : j >= q => e < f[j]
  <2> SUFFICES ASSUME NEW j \in 1..N, j >= q PROVE e < f[j]
    OBVIOUS
  <2>1. j \in Int /\ q \in Int /\ j <= N /\ (q = i \/ q = i + 1) BY <1>10, <1>11
  <2>2. i \in 1..N /\ i <= j BY <1>8, <2>1, SMTT(30)
  <2>3. t[i] \in Int /\ f[i] \in Int /\ f[j] \in Int /\ f[i] < t[i] BY <1>6, <2>2
  <2>4. j = i \/ t[i] < f[j] BY <1>6, <2>1, <2>2, SMTT(30)
  <2>5. CASE q = i /\ e = a + nb /\ a + nb < f[i] BY <2>3, <2>4, <2>5, SMTT(30)
  <2>6. CASE q = i + 1 /\ e = t[i]
    <3>1. j # i BY <2>1, <2>6, SMTT(30)
    <3>2. QED BY <2>4, <2>6, <3>1
  <2>7. i <= N BY <2>2
  <2>8. QED BY <1>10, <2>5, <2>6, <2>7
<1> DEFINE new == Blk(s, e - s)
<1>14. new \in Blocks /\ new.addr = s /\ new.len = e - s /\ s + (e - s) = e
  <2>1. s \in 0..(W - 1) /\ e - s \in 1..W BY <1>1, <1>11
  <2>2. QED BY <2>1, BlockIs
<1> HIDE DEF new
<1>15. Between(l, p, <<new>>, q)
  <2>1. <<new>> \in Seq(Blocks) /\ Len(<<new>>) = 1 /\ \A k \in 1..1 : <<new>>[k] = new
    BY <1>14
  <2>2. new.addr + new.len < W BY <1>11, <1>14
  <2>3. ASSUME NEW j \in 1..(p - 1) PROVE Below(l[j], new)
    <3>1. j \in 1..N /\ j < p BY <1>11
    <3>2. QED BY <1>5, <1>12, <1>14, <3>1 DEF Below
  <2>4. ASSUME NEW j \in q..N PROVE Below(new, l[j])
    <3>1. j \in 1..N /\ j >= q BY <1>11
    <3>2. QED BY <1>5, <1>13, <1>14, <3>1 DEF Below
  <2>5. QED BY <1>3, <1>11, <2>1, <2>2, <2>3, <2>4, SMTT(30) DEF Between
<1>16. \A c : c \in ListCells(l) <=> c \in Int /\ \E j \in 1..N : f[j] <= c /\ c < t[j]
  <2>1. \A c : c \in ListCells(l) <=>
          c \in Int /\ \E j \in 1..N : l[j].addr <= c /\ c < l[j].addr + l[j].len
    BY <1>3, InList
  <2>2. QED BY <1>5, <2>1
<1>17. \A c : c \in SplicedCells(l, p, <<new>>, q) <=>
          c \in Int /\ \/ \E j \in 1..N : (j < p \/ j >= q) /\ f[j] <= c /\ c < t[j]
                       \/ s <= c /\ c < e
  <2>1. Len(<<new>>) = 1 /\ <<new>>[1] = new OBVIOUS
  <2>2. \A c : (\E k \in 1..1 : <<new>>[k].addr <= c /\ c < <<new>>[k].addr + <<new>>[k].len)
                 <=> s <= c /\ c < e
    BY <1>14, <2>1, SMTT(30)
  <2>3. \A c : c \in SplicedCells(l, p, <<new>>, q) <=>
          c \in Int /\ \/ \E j \in 1..N : /\ j < p \/ j >= q
                                          /\ l[j].addr <= c /\ c < l[j].addr + l[j].len
                       \/ s <= c /\ c < e
    BY <1>3, <2>1, <2>2 DEF SplicedCells
  <2>4. QED BY <1>5, <2>3
<1>18. \A c : c \in Cells(a, nb) <=> c \in Int /\ a <= c /\ c < a + nb BY SMTT(30) DEF Cells
<1>19. ASSUME NEW c \in Int
       PROVE  c \in SplicedCells(l, p, <<new>>, q) <=> c \in ListCells(l) \/ c \in Cells(a, nb)
  <2> DEFINE In(j) == f[j] <= c /\ c < t[j]
  <2>1. s <= c /\ c < a <=> \E j \in 1..N : p <= j /\ j < i /\ In(j)
    <3>1. CASE p = i /\ s = a BY <1>8, <3>1
    <3>2. CASE i > 1 /\ p = i - 1 /\ s = f[i - 1] /\ t[i - 1] = a
      <4>1. p \in 1..N /\ \A j \in 1..N : p <= j /\ j < i <=> j = p BY <1>8, <3>2, SMTT(30)
      <4>2. QED BY <3>2, <4>1
    <3>3. QED BY <1>9, <3>1, <3>2
  <2>2. a + nb <= c /\ c < e <=> \E j \in 1..N : i <= j /\ j < q /\ In(j)
    <3>1. CASE q = i /\ e = a + nb BY <1>7, <3>1
    <3>2. CASE i <= N /\ q = i + 1 /\ e = t[i] /\ f[i] = a + nb
      <4>1. i \in 1..N /\ \A j \in 1..N : i <= j /\ j < q <=> j = i BY <1>8, <3>2, SMTT(30)
      <4>2. QED BY <3>2, <4>1
    <3>3. QED BY <1>10, <3>1, <3>2
  <2> HIDE DEF In
  <2>3. s <= c /\ c < e <=> (s <= c /\ c < a) \/ (a <= c /\ c < a + nb) \/ (a + nb <= c /\ c < e)
    BY <1>11, SMTT(30)
  <2>4. \A j \in 1..N : p <= j /\ j < q <=> (p <= j /\ j < i) \/ (i <= j /\ j < q)
    <3>1. p \in Int /\ q \in Int /\ p <= i /\ i <= q BY <1>11
    <3>2. QED BY <1>8, <3>1, SMTT(30)
  <2>5. s <= c /\ c < e <=> (\E j \in 1..N : p <= j /\ j < q /\ In(j)) \/ (a <= c /\ c < a + nb)
    BY <2>1, <2>2, <2>3, <2>4
  <2>6. \A j \in 1..N : j < p \/ j >= q \/ (p <= j /\ j < q) BY <1>11
  <2>7. c \in ListCells(l) <=> \E j \in 1..N : In(j) BY <1>16 DEF In
  <2>8. c \in SplicedCells(l, p, <<new>>, q) <=>
          (\E j \in 1..N : (j < p \/ j >= q) /\ In(j)) \/ (s <= c /\ c < e)
    BY <1>17 DEF In
  <2>9. QED BY <1>18, <2>5, <2>6, <2>7, <2>8
<1>20. SplicedCells(l, p, <<new>>, q) = ListCells(l) \cup Cells(a, nb)
  <2>1. \A c : c \in SplicedCells(l, p, <<new>>, q) => c \in Int BY <1>17
  <2>2. \A c : c \in ListCells(l) \cup Cells(a, nb) => c \in Int BY <1>16, <1>18
  <2>3. QED BY <1>19, <2>1, <2>2
<1>21. QED BY <1>15, <1>20 DEF new, JoinsIn

\* What the walk of freemem and the two searches find.
LEMMA NextFreeIs ==
    ASSUME Tidy(memlist), NEW a \in Int
    PROVE  /\ NextFree(a) \in 1..(Len(memlist) + 1)
           /\ NextFree(a) <= Len(memlist) => memlist[NextFree(a)].addr >= a
<1>1. memlist \in Seq(Blocks) BY DEF Tidy
<1>2. \A r \in Seq(Blocks) : Len(r) \in Nat /\ \A j \in 1..Len(r) : r[j] \in Blocks OBVIOUS
<1>3. PICK N \in Nat : N = Len(memlist) BY <1>1, <1>2
<1>4. \A j \in 1..N : memlist[j].addr \in Int BY <1>1, <1>2, <1>3, BlockIs
<1> DEFINE T == {i \in 1..(N + 1) : i <= N => memlist[i].addr >= a}
           Stop(i) == /\ \A j \in 1..(i - 1) : memlist[j].addr < a
                      /\ i <= N => memlist[i].addr >= a
<1>5. PICK m \in T : \A y \in T : m <= y
  <2>1. N + 1 \in T /\ T \subseteq Nat OBVIOUS
  <2> HIDE DEF T
  <2>2. QED BY <2>1, LeastNat, Zenon
<1>6. ASSUME NEW j \in 1..(m - 1) PROVE memlist[j].addr < a
  <2>1. j \in 1..N /\ ~(m <= j) BY <1>5
  <2>2. j \notin T BY <1>5, <2>1
  <2>3. ~(memlist[j].addr >= a) BY <2>1, <2>2
  <2>4. QED BY <1>4, <2>1, <2>3
<1>7. m \in 1..(N + 1) /\ Stop(m) BY <1>5, <1>6
<1>8. NextFree(a) = CHOOSE i \in 1..(N + 1) : Stop(i) BY <1>3 DEF NextFree
<1> HIDE DEF Stop
<1>9. NextFree(a) \in 1..(N + 1) /\ Stop(NextFree(a)) BY <1>7, <1>8, Zenon
<1>10. QED BY <1>3, <1>9 DEF Stop

LEMMA FitIs ==
    ASSUME Tidy(memlist), NEW n, Fits(n) # {}
    PROVE  FirstFit(n) \in Fits(n) /\ LastFit(n) \in Fits(n)
<1>1. memlist \in Seq(Blocks) BY DEF Tidy
<1>2. PICK N \in Nat : N = Len(memlist) BY <1>1
<1>3. Fits(n) \subseteq 1..N BY <1>2 DEF Fits
<1>4. \E i \in Fits(n) : \A j \in Fits(n) : i <= j
  <2>1. Fits(n) \subseteq Nat BY <1>3
  <2>2. QED BY <2>1, LeastNat, Zenon
<1>5. \E i \in Fits(n) : \A j \in Fits(n) : i >= j
  <2> DEFINE T == {N - j : j \in Fits(n)}
  <2>1. T \subseteq Nat /\ T # {} BY <1>3
  <2>2. PICK m \in T : \A y \in T : m <= y
    <3> HIDE DEF T
    <3>1. QED BY <2>1, LeastNat, Zenon
  <2>3. PICK i \in Fits(n) : m = N - i OBVIOUS
  <2>4. ASSUME NEW j \in Fits(n) PROVE i >= j
    <3>1. m <= N - j BY <2>2
    <3>2. i \in Int /\ j \in Int BY <1>3
    <3>3. QED BY <2>3, <3>1, <3>2
  <2>5. QED BY <2>4
<1>6. FirstFit(n) \in Fits(n) BY <1>4, Zenon DEF FirstFit
<1>7. LastFit(n) \in Fits(n) BY <1>5, Zenon DEF LastFit
<1>8. QED BY <1>6, <1>7

\* What freemem links in is in order, and adds exactly the cells of the block.
LEMMA LinkedIs ==
    ASSUME Tidy(memlist), NEW a \in Nat, NEW nb \in Nat, 1 <= nb, a + nb < W,
           Gap(memlist, a, nb, NextFree(a))
    PROVE  /\ Tidy(Linked(a, nb))
           /\ ListCells(Linked(a, nb)) = ListCells(memlist) \cup Cells(a, nb)
<1>1. memlist \in Seq(Blocks) /\ W \in Nat BY Words DEF Tidy
<1>2. \A r \in Seq(Blocks) : Len(r) \in Nat /\ \A j \in 1..Len(r) : r[j] \in Blocks OBVIOUS
<1>3. PICK N \in Nat : N = Len(memlist) BY <1>1, <1>2
<1>4. \A j \in 1..N : /\ memlist[j].addr \in Int /\ memlist[j].addr >= 0
                      /\ memlist[j].len \in Int /\ memlist[j].len > 0
  BY <1>1, <1>2, <1>3, BlockIs
<1>5. \A j \in 1..N : memlist[j].addr + memlist[j].len < W BY <1>3 DEF Tidy
<1>6. \A j \in 1..N : Top(memlist[j]) = memlist[j].addr + memlist[j].len
  <2> TAKE j \in 1..N
  <2>1. memlist[j].addr + memlist[j].len \in 0..(W - 1) BY <1>1, <1>4, <1>5, SMTT(30)
  <2>2. QED BY <2>1, ModSmall DEF Top
<1>7. PICK i \in 1..(N + 1) : i = NextFree(a)
  <2>1. NextFree(a) \in 1..(N + 1) BY <1>3, NextFreeIs
  <2>2. QED BY <2>1
<1>8. /\ i \in Int /\ 1 <= i /\ i <= N + 1
      /\ i > 1 => i - 1 \in 1..N
      /\ i <= N => i \in 1..N
  BY <1>7
<1> DEFINE touches == i > 1 /\ memlist[i - 1].addr + memlist[i - 1].len = a
<1>9. PICK p \in Int, s \in Int : /\ p = (IF touches THEN i - 1 ELSE i)
                                  /\ s = (IF touches THEN memlist[i - 1].addr ELSE a)
  <2>1. (IF touches THEN i - 1 ELSE i) \in Int BY <1>8
  <2>2. (IF touches THEN memlist[i - 1].addr ELSE a) \in Int BY <1>4, <1>8
  <2>3. QED BY <2>1, <2>2
<1>10. JoinsLow(memlist, a, i, p, s) BY <1>9 DEF JoinsLow
<1> DEFINE meets == i <= N /\ memlist[i].addr = a + nb
<1>11. PICK q \in Int, e \in Int :
         /\ q = (IF meets THEN i + 1 ELSE i)
         /\ e = (IF meets THEN memlist[i].addr + memlist[i].len ELSE a + nb)
  <2>1. (IF meets THEN i + 1 ELSE i) \in Int BY <1>8
  <2>2. (IF meets THEN memlist[i].addr + memlist[i].len ELSE a + nb) \in Int BY <1>4, <1>8
  <2>3. QED BY <2>1, <2>2
<1>12. JoinsHigh(memlist, a + nb, i, q, e) BY <1>3, <1>11 DEF JoinsHigh
<1>13. PICK mid, top : mid = <<Blk(s, e - s)>> /\ top = a + nb OBVIOUS
<1>14. JoinsIn(memlist, a, nb, mid, p, q)
  <2>1. Gap(memlist, a, nb, i) /\ JoinsHigh(memlist, top, i, q, e) BY <1>7, <1>12, <1>13
  <2>2. QED BY <2>1, <1>10, <1>13, JoinedTidy
<1>15. Linked(a, nb) = Spliced(memlist, p, mid, q)
  <2> DEFINE low == IF i > 1 /\ Top(memlist[i - 1]) = a THEN i - 1 ELSE i
             b == IF low < i THEN Blk(memlist[low].addr, memlist[low].len + nb)
                  ELSE Blk(a, nb)
             joins == i <= Len(memlist) /\ Top(b) = memlist[i].addr
             c == IF joins THEN Blk(b.addr, b.len + memlist[i].len) ELSE b
  <2>1. Linked(a, nb) = SubSeq(memlist, 1, low - 1) \o <<c>>
                        \o SubSeq(memlist, IF joins THEN i + 1 ELSE i, Len(memlist))
    BY <1>7 DEF Linked
  <2>2. low = p /\ (low < i <=> touches) BY <1>6, <1>8, <1>9
  <2>3. b = Blk(s, a + nb - s)
    <3>1. CASE touches
      <4>1. memlist[i - 1].len + nb = a + nb - memlist[i - 1].addr BY <1>4, <1>8, <3>1
      <4>2. QED BY <1>9, <2>2, <3>1, <4>1
    <3>2. CASE ~touches
      <4>1. nb = a + nb - a OBVIOUS
      <4>2. QED BY <1>9, <2>2, <3>2, <4>1
    <3>3. QED BY <3>1, <3>2
  <2> HIDE DEF low, b
  <2>4. b.addr = s /\ b.len = a + nb - s BY <2>3 DEF Blk
  <2>5. Top(b) = a + nb
    <3>1. s + (a + nb - s) = a + nb /\ a + nb \in 0..(W - 1) BY <1>1
    <3>2. QED BY <2>4, <3>1, ModSmall DEF Top
  <2>6. joins <=> meets BY <1>3, <2>5
  <2>7. c = Blk(s, e - s)
    <3>1. CASE meets
      <4>1. (a + nb - s) + memlist[i].len = e - s BY <1>4, <1>8, <1>11, <3>1
      <4>2. QED BY <2>4, <2>6, <3>1, <4>1
    <3>2. CASE ~meets BY <1>11, <2>3, <2>6, <3>2
    <3>3. QED BY <3>1, <3>2
  <2>8. q = IF joins THEN i + 1 ELSE i BY <1>11, <2>6
  <2> HIDE DEF joins, c
  <2>9. QED BY <1>13, <2>1, <2>2, <2>7, <2>8 DEF Spliced
<1>16. QED BY <1>14, <1>15, SplicedTidy DEF JoinsIn
-----------------------------------------------------------------------------
\* The arena: its cells are words, and none is the highest word.
LEMMA ArenaIs ==
    ASSUME HeapFits, NEW end \in Ends
    PROVE  /\ Tidy(FirstList(end))
           /\ IsFiniteSet(ListCells(FirstList(end)))
           /\ \A c \in ListCells(FirstList(end)) : c \in Nat /\ c + 1 < W
<1>1. /\ W \in Nat \ {0} /\ MB \in Nat \ {0} /\ WORD \in Nat \ {0}
      /\ MAXHEAP \in 1..(W - 1) /\ HOLESTART \in 1..(W - 1) /\ HOLEEND \in 1..(W - 1)
      /\ NULLSTK \in 1..(W - 1) /\ end \in 1..(W - 1)
  BY Words
<1>2. HOLESTART + MB <= HOLEEND /\ MB <= NULLSTK BY DEF HeapFits
<1>3. PICK r \in Int : r = roundmb(end) /\ end <= r /\ r <= end + MB - 1
  <2>1. end \in 1..(W - MB)
    <3>1. CASE MAXHEAP + 1 > HOLESTART
      <4>1. end + WORD + MB <= HOLESTART BY <3>1 DEF HeapFits
      <4>2. QED BY <1>1, <4>1
    <3>2. CASE ~(MAXHEAP + 1 > HOLESTART)
      <4>1. end + NULLSTK + MB <= MAXHEAP BY <3>2 DEF HeapFits
      <4>2. QED BY <1>1, <4>1
    <3>3. QED BY <3>1, <3>2
  <2>2. roundmb(end) \in end..(end + MB - 1) BY <2>1, RoundUp
  <2>3. QED BY <1>1, <2>2
<1>4. Tidy(FirstList(end))
  <2>1. CASE MAXHEAP + 1 > HOLESTART
    <3>1. end + WORD + MB <= HOLESTART /\ HOLEEND + NULLSTK + MB <= MAXHEAP
      BY <2>1 DEF HeapFits
    <3> DEFINE u == HOLESTART - end - WORD
               v == MAXHEAP - HOLEEND - NULLSTK
    <3>2. u \in MB..(W - 1) /\ v \in MB..(W - 1) BY <1>1, <3>1
    <3>3. PICK m, n \in Int : /\ m = truncmb(u) /\ 1 <= m /\ m <= u
                              /\ n = truncmb(v) /\ 1 <= n /\ n <= v
      <4>1. truncmb(u) \in 1..u /\ truncmb(v) \in 1..v BY <3>2, RoundDown
      <4>2. QED BY <1>1, <4>1
    <3>4. /\ r \in 0..(W - 1) /\ m \in 1..W /\ HOLEEND \in 0..(W - 1) /\ n \in 1..W
          /\ r + m < HOLEEND /\ HOLEEND + n < W
      BY <1>1, <1>2, <1>3, <3>1, <3>3
    <3>5. PICK b, c \in Blocks : /\ b = Blk(r, m) /\ b.addr = r /\ b.len = m
                                 /\ c = Blk(HOLEEND, n) /\ c.addr = HOLEEND /\ c.len = n
      BY <3>4, BlockIs
    <3>6. FirstList(end) = <<b, c>> BY <1>3, <2>1, <3>3, <3>5 DEF FirstList
    <3>7. <<b, c>> \in Seq(Blocks) /\ Len(<<b, c>>) = 2 /\ <<b, c>>[1] = b /\ <<b, c>>[2] = c
      OBVIOUS
    <3>8. \A i \in 1..2 : <<b, c>>[i].addr + <<b, c>>[i].len < W
      <4>1. b.addr + b.len < W /\ c.addr + c.len < W BY <1>1, <3>4, <3>5
      <4>2. \A i \in 1..2 : i = 1 \/ i = 2 OBVIOUS
      <4>3. QED BY <3>7, <4>1, <4>2
    <3>9. \A i, j \in 1..2 : i < j => Below(<<b, c>>[i], <<b, c>>[j])
      <4>1. Below(b, c) BY <3>4, <3>5 DEF Below
      <4>2. \A i, j \in 1..2 : i < j => i = 1 /\ j = 2 OBVIOUS
      <4>3. QED BY <3>7, <4>1, <4>2
    <3>10. QED BY <3>6, <3>7, <3>8, <3>9 DEF Tidy
  <2>2. CASE ~(MAXHEAP + 1 > HOLESTART)
    <3>1. end + NULLSTK + MB <= MAXHEAP BY <2>2 DEF HeapFits
    <3> DEFINE u == MAXHEAP - end - NULLSTK
    <3>2. u \in MB..(W - 1) BY <1>1, <3>1
    <3>3. PICK m \in Int : m = truncmb(u) /\ 1 <= m /\ m <= u
      <4>1. truncmb(u) \in 1..u BY <3>2, RoundDown
      <4>2. QED BY <1>1, <4>1
    <3>4. r \in 0..(W - 1) /\ m \in 1..W /\ r + m < W
      BY <1>1, <1>2, <1>3, <3>1, <3>3
    <3>5. PICK b \in Blocks : b = Blk(r, m) /\ b.addr = r /\ b.len = m
      BY <3>4, BlockIs
    <3>6. FirstList(end) = <<b>> BY <1>3, <2>2, <3>3, <3>5 DEF FirstList
    <3>7. <<b>> \in Seq(Blocks) /\ Len(<<b>>) = 1 /\ <<b>>[1] = b OBVIOUS
    <3>8. b.addr + b.len < W BY <3>4, <3>5
    <3>9. \A i \in 1..1 : i = 1 OBVIOUS
    <3>10. QED BY <3>6, <3>7, <3>8, <3>9 DEF Tidy
  <2>3. QED BY <2>1, <2>2
<1>5. ASSUME NEW c \in ListCells(FirstList(end)) PROVE c \in Nat /\ c + 1 < W
  <2> DEFINE l == FirstList(end)
  <2>1. l \in Seq(Blocks) BY <1>4 DEF Tidy
  <2>2. \A i \in 1..Len(l) : l[i] \in Blocks BY <2>1
  <2>3. c \in Int /\ \E i \in 1..Len(l) : l[i].addr <= c /\ c < l[i].addr + l[i].len
    BY <1>4, InList
  <2>4. PICK i \in 1..Len(l) : l[i].addr <= c /\ c < l[i].addr + l[i].len BY <2>3
  <2>5. l[i].addr \in Int /\ l[i].addr >= 0 /\ l[i].len \in Int BY <2>2, BlockIs
  <2>6. l[i].addr + l[i].len < W BY <1>4 DEF Tidy
  <2>7. PICK x, n \in Int : x = l[i].addr /\ n = l[i].len BY <2>5
  <2>8. 0 <= x /\ x <= c /\ c < x + n /\ x + n < W BY <2>4, <2>5, <2>6, <2>7
  <2>9. QED BY <1>1, <2>3, <2>7, <2>8, SMTT(30)
<1>6. IsFiniteSet(0..(W - 1)) BY <1>1, FS_Interval
<1>7. ListCells(FirstList(end)) \subseteq 0..(W - 1)
  <2>1. \A c \in Nat : c + 1 < W => c \in 0..(W - 1) BY <1>1
  <2>2. QED BY <1>5, <2>1
<1>8. QED BY <1>4, <1>5, <1>6, <1>7, FS_Subset

\* The cells of a block, and what they add to or take from a set of cells.
LEMMA CellsAre ==
    ASSUME NEW a \in Int, NEW nb \in Int, 1 <= nb
    PROVE  /\ IsFiniteSet(Cells(a, nb)) /\ Cardinality(Cells(a, nb)) = nb
           /\ Cells(a, nb) # {}
<1>1. a + nb - 1 \in Int /\ ~(a > a + nb - 1) /\ a + nb - 1 - a + 1 = nb OBVIOUS
<1>2. /\ IsFiniteSet(a..(a + nb - 1))
      /\ Cardinality(a..(a + nb - 1)) = a + nb - 1 - a + 1
  BY <1>1, FS_Interval
<1>3. a \in a..(a + nb - 1) OBVIOUS
<1>4. QED BY <1>1, <1>2, <1>3 DEF Cells

\* What a call of getmem or getstk does: the nb bytes at a are h's.
Takes(a, nb, h) ==
    /\ Cells(a, nb) \subseteq ListCells(memlist)
    /\ Tidy(memlist') /\ ListCells(memlist') = ListCells(memlist) \ Cells(a, nb)
    /\ h \in Requests /\ HeldCells(h) = Cells(a, nb) /\ held' = held \cup {h}
    /\ mlength' = (mlength - nb) % W /\ minheap' = minheap

\* And what a call of freemem or freestk does.
Returns(a, nb, h) ==
    /\ Tidy(memlist') /\ ListCells(memlist') = ListCells(memlist) \cup Cells(a, nb)
    /\ h \in held /\ HeldCells(h) = Cells(a, nb) /\ held' = held \ {h}
    /\ mlength' = (mlength + nb) % W /\ minheap' = minheap

LEMMA SizeIs ==
    ASSUME HeapFits, NEW n \in Sizes
    PROVE  roundmb(n) \in Nat /\ 1 <= roundmb(n)
<1>1. n \in 1..(W - MB) BY Words DEF HeapFits
<1>2. roundmb(n) \in n..(n + MB - 1) BY <1>1, RoundUp
<1>3. n \in Int /\ n >= 1 /\ MB \in Int BY <1>1, Words
<1>4. QED BY <1>2, <1>3

LEMMA FittingBlock ==
    ASSUME Tidy(memlist), NEW nb \in Nat, NEW i \in Fits(nb)
    PROVE  /\ i \in 1..Len(memlist) /\ memlist[i] \in Blocks
           /\ memlist[i].addr \in Nat /\ memlist[i].len \in Nat
           /\ nb <= memlist[i].len /\ memlist[i].addr + memlist[i].len < W
           /\ Top(memlist[i]) = memlist[i].addr + memlist[i].len
<1>1. memlist \in Seq(Blocks) BY DEF Tidy
<1>2. i \in 1..Len(memlist) /\ memlist[i].len >= nb BY DEF Fits
<1>3. memlist[i] \in Blocks BY <1>1, <1>2
<1>4. memlist[i].addr \in Nat /\ memlist[i].len \in Nat BY <1>3, BlockIs
<1>5. memlist[i].addr + memlist[i].len < W BY <1>2 DEF Tidy
<1>6. memlist[i].addr + memlist[i].len \in 0..(W - 1) BY <1>4, <1>5, Words
<1>7. QED BY <1>2, <1>3, <1>4, <1>5, <1>6, ModSmall DEF Top

LEMMA GetmemTakes ==
    ASSUME HeapFits, MemInv, NEW n \in Sizes, getmem(n)
    PROVE  \E a \in Nat, nb \in Nat, h \in Requests : 1 <= nb /\ Takes(a, nb, h)
<1>1. PICK nb \in Nat : nb = roundmb(n) /\ 1 <= nb BY SizeIs
<1>2. Tidy(memlist) /\ Fits(nb) # {} BY <1>1 DEF MemInv, getmem
<1>3. PICK i \in Fits(nb) : i = FirstFit(nb) BY <1>2, FitIs
<1>4. /\ i \in 1..Len(memlist) /\ memlist[i] \in Blocks
      /\ memlist[i].addr \in Nat /\ memlist[i].len \in Nat
      /\ nb <= memlist[i].len /\ memlist[i].addr + memlist[i].len < W
  BY <1>2, FittingBlock
<1>5. PICK a \in Nat : a = memlist[i].addr BY <1>4
<1>6. PICK r : r = memlist' OBVIOUS
<1>7. r = CutOff(memlist, i, a, nb)
  <2>1. r = IF memlist[i].len = nb THEN RemoveAt(memlist, i)
            ELSE [memlist EXCEPT ![i] = Blk((a + nb) % W, memlist[i].len - nb)]
    BY <1>1, <1>3, <1>5, <1>6 DEF getmem, Without, With
  <2>2. (a + nb) % W = a + nb
    <3>1. PICK y \in Nat : y = memlist[i].len BY <1>4
    <3>2. nb <= y /\ a + y < W /\ W \in Nat BY <1>4, <1>5, <3>1, Words
    <3>3. a + nb \in 0..(W - 1) BY <3>2
    <3>4. QED BY <3>3, ModSmall
  <2>3. QED BY <1>5, <2>1, <2>2 DEF CutOff
<1>8. /\ Tidy(r) /\ ListCells(r) = ListCells(memlist) \ Cells(a, nb)
      /\ Cells(a, nb) \subseteq ListCells(memlist)
  BY <1>1, <1>2, <1>4, <1>5, <1>7, Shrunk
<1>9. PICK h : h = [ptr |-> a, n |-> n, stk |-> FALSE] OBVIOUS
<1>10. h \in Requests /\ HeldCells(h) = Cells(a, nb)
  <2>1. a \in Int OBVIOUS
  <2>2. h.ptr = a /\ h.n = n /\ h.stk = FALSE BY <1>9
  <2>3. h \in Requests BY <1>9, <2>1 DEF Requests
  <2>4. QED BY <1>1, <2>2, <2>3 DEF HeldCells, AddrOf
<1>11. /\ held' = held \cup {h} /\ mlength' = (mlength - nb) % W /\ minheap' = minheap
  BY <1>1, <1>3, <1>5, <1>9 DEF getmem
<1>12. Takes(a, nb, h) BY <1>6, <1>8, <1>10, <1>11 DEF Takes
<1>13. QED BY <1>1, <1>10, <1>12

LEMMA GetstkTakes ==
    ASSUME HeapFits, MemInv, NEW n \in Sizes, getstk(n)
    PROVE  \E a \in Nat, nb \in Nat, h \in Requests : 1 <= nb /\ Takes(a, nb, h)
<1>1. PICK nb \in Nat : nb = roundmb(n) /\ 1 <= nb BY SizeIs
<1>2. Tidy(memlist) /\ Fits(nb) # {} BY <1>1 DEF MemInv, getstk
<1>3. PICK i \in Fits(nb) : i = LastFit(nb) BY <1>2, FitIs
<1>4. /\ i \in 1..Len(memlist) /\ memlist[i] \in Blocks
      /\ memlist[i].addr \in Nat /\ memlist[i].len \in Nat
      /\ nb <= memlist[i].len /\ memlist[i].addr + memlist[i].len < W
      /\ Top(memlist[i]) = memlist[i].addr + memlist[i].len
  BY <1>2, FittingBlock
<1>5. PICK t \in Nat : t = memlist[i].addr + memlist[i].len BY <1>4
<1>6. PICK a \in Nat : a = t - nb
  <2>1. t - nb \in Nat
    <3>1. PICK x \in Nat, y \in Nat : x = memlist[i].addr /\ y = memlist[i].len BY <1>4
    <3>2. t = x + y /\ nb <= y BY <1>4, <1>5, <3>1
    <3>3. QED BY <3>2
  <2>2. QED BY <2>1
<1>7. a + nb = memlist[i].addr + memlist[i].len /\ a + nb = t BY <1>5, <1>6
<1>8. PICK r : r = memlist' OBVIOUS
<1>9. r = CutOff(memlist, i, a, nb)
  <2>1. r = IF memlist[i].len = nb THEN RemoveAt(memlist, i)
            ELSE [memlist EXCEPT ![i] = Blk(memlist[i].addr, memlist[i].len - nb)]
    BY <1>1, <1>3, <1>8 DEF getstk, Without, With
  <2>2. memlist[i].len # nb => a # memlist[i].addr BY <1>4, <1>7, SMTT(30)
  <2>3. QED BY <2>1, <2>2 DEF CutOff
<1>10. /\ Tidy(r) /\ ListCells(r) = ListCells(memlist) \ Cells(a, nb)
       /\ Cells(a, nb) \subseteq ListCells(memlist)
  BY <1>1, <1>2, <1>4, <1>7, <1>9, Shrunk
<1>11. PICK ptr \in Int : ptr = (t - WORD) % W
  <2>1. t - WORD \in Int /\ W \in Nat \ {0} BY Words
  <2>2. (t - WORD) % W \in Int BY <2>1
  <2>3. QED BY <2>2
<1>12. PICK h : h = [ptr |-> ptr, n |-> n, stk |-> TRUE] OBVIOUS
<1>13. h \in Requests /\ HeldCells(h) = Cells(a, nb)
  <2>1. h.ptr = ptr /\ h.n = n /\ h.stk = TRUE BY <1>12
  <2>2. h \in Requests BY <1>12 DEF Requests
  <2>3. (ptr - nb + WORD) % W = a
    <3>1. t - WORD \in Int /\ WORD - nb \in Int BY Words
    <3>2. PICK x \in Int : x = t - WORD BY <3>1
    <3>3. PICK y \in Int : y = WORD - nb BY <3>1
    <3>4. ((x % W) + y) % W = (x + y) % W BY ModShift
    <3>5. ptr = x % W /\ ptr - nb + WORD = ptr + y BY <1>11, <3>2, <3>3, Words
    <3>6. x + y = a BY <1>6, <3>2, <3>3, Words
    <3>7. a \in 0..(W - 1) BY <1>1, <1>4, <1>5, <1>7, Words, SMTT(30)
    <3>8. QED BY <3>4, <3>5, <3>6, <3>7, ModSmall
  <2>4. QED BY <1>1, <2>1, <2>2, <2>3 DEF HeldCells, AddrOf, StackAddr
<1>14. /\ held' = held \cup {h} /\ mlength' = (mlength - nb) % W /\ minheap' = minheap
  BY <1>1, <1>3, <1>4, <1>5, <1>11, <1>12 DEF getstk
<1>15. Takes(a, nb, h) BY <1>8, <1>10, <1>13, <1>14 DEF Takes
<1>16. QED BY <1>1, <1>13, <1>15

\* A block that somebody has lies in the arena, so its end does not wrap.
LEMMA HeldIs ==
    ASSUME HeapFits, MemInv, NEW h \in held
    PROVE  /\ AddrOf(h) \in Nat /\ roundmb(h.n) \in Nat /\ 1 <= roundmb(h.n)
           /\ AddrOf(h) + roundmb(h.n) < W
<1>1. h \in Requests /\ minheap \in Ends BY DEF MemInv
<1>2. h.n \in Sizes /\ h.ptr \in Int BY <1>1 DEF Requests
<1>3. PICK nb \in Nat : nb = roundmb(h.n) /\ 1 <= nb BY <1>2, SizeIs
<1>4. AddrOf(h) \in Int
  <2>1. W \in Nat \ {0} /\ h.ptr - nb + WORD \in Int BY <1>2, Words
  <2>2. (h.ptr - nb + WORD) % W \in Int BY <2>1
  <2>3. QED BY <1>2, <1>3, <2>2 DEF AddrOf, StackAddr
<1>5. PICK a \in Int : a = AddrOf(h) BY <1>4
<1>6. Cells(a, nb) \subseteq Arena BY <1>3, <1>5 DEF MemInv, HeldCells
<1>7. \A c \in Arena : c \in Nat /\ c + 1 < W BY <1>1, ArenaIs DEF Arena
<1>8. a \in Cells(a, nb) /\ a + nb - 1 \in Cells(a, nb) BY <1>3 DEF Cells
<1>9. a \in Nat /\ a + nb - 1 + 1 < W BY <1>6, <1>7, <1>8
<1>10. a + nb - 1 + 1 = a + nb OBVIOUS
<1>11. QED BY <1>3, <1>5, <1>9, <1>10

LEMMA ReleaseReturns ==
    ASSUME HeapFits, MemInv, NEW h \in held, release(h)
    PROVE  \E a \in Nat, nb \in Nat : 1 <= nb /\ Returns(a, nb, h)
<1>1. PICK a \in Nat, nb \in Nat :
        a = AddrOf(h) /\ nb = roundmb(h.n) /\ 1 <= nb /\ a + nb < W
  BY HeldIs
<1>2. Tidy(memlist) BY DEF MemInv
<1>3. memlist \in Seq(Blocks) BY <1>2 DEF Tidy
<1>4. PICK i : i = NextFree(a) OBVIOUS
<1>5. i \in 1..(Len(memlist) + 1) BY <1>2, <1>4, NextFreeIs
<1>6. PICK N \in Nat : N = Len(memlist) BY <1>3
<1>7. /\ i > 1 => a >= Top(memlist[i - 1])
      /\ i <= N => (a + nb) % W <= memlist[i].addr
  BY <1>1, <1>4, <1>6 DEF release, freemem, Accepted
<1>8. (a + nb) % W = a + nb
  <2>1. a + nb \in 0..(W - 1) BY <1>1, Words
  <2>2. QED BY <2>1, ModSmall
<1>9. i > 1 => memlist[i - 1].addr + memlist[i - 1].len <= a
  <2> HAVE i > 1
  <2>1. i - 1 \in 1..N BY <1>5, <1>6
  <2>2. PICK b \in Blocks : b = memlist[i - 1] BY <1>3, <1>6, <2>1
  <2>3. PICK x \in Int, n \in Int : x = b.addr /\ n = b.len /\ 0 <= x /\ n > 0 BY BlockIs
  <2>4. x + n < W BY <1>2, <1>6, <2>1, <2>2, <2>3 DEF Tidy
  <2>5. x + n \in 0..(W - 1) BY <2>3, <2>4, Words
  <2>6. Top(b) = x + n BY <2>3, <2>5, ModSmall DEF Top
  <2>7. QED BY <1>7, <2>2, <2>3, <2>5, <2>6
<1>10. Gap(memlist, a, nb, i) BY <1>5, <1>6, <1>7, <1>8, <1>9 DEF Gap
<1>11. PICK r : r = memlist' OBVIOUS
<1>12. r = Linked(a, nb) BY <1>1, <1>11 DEF release, freemem
<1>13. Tidy(r) /\ ListCells(r) = ListCells(memlist) \cup Cells(a, nb)
  BY <1>1, <1>2, <1>4, <1>10, <1>12, LinkedIs
<1>14. HeldCells(h) = Cells(a, nb) BY <1>1 DEF HeldCells
<1>15. /\ held' = held \ {h} /\ mlength' = (mlength + nb) % W /\ minheap' = minheap
  BY <1>1 DEF release, freemem
<1>16. Returns(a, nb, h) BY <1>11, <1>13, <1>14, <1>15 DEF Returns
<1>17. QED BY <1>1, <1>16

\* The sets of cells in a state that satisfies the invariant.
LEMMA ArenaParts ==
    ASSUME HeapFits, MemInv
    PROVE  /\ IsFiniteSet(Arena) /\ Cardinality(Arena) \in Int
           /\ IsFiniteSet(ListCells(memlist)) /\ Cardinality(ListCells(memlist)) \in Int
           /\ W \in Nat \ {0}
<1>1. IsFiniteSet(Arena) BY ArenaIs DEF MemInv, Arena
<1>2. ListCells(memlist) \subseteq Arena BY DEF MemInv
<1>3. IsFiniteSet(ListCells(memlist)) BY <1>1, <1>2, FS_Subset
<1>4. QED BY <1>1, <1>3, FS_CardinalityType, Words

LEMMA TakesKeeps ==
    ASSUME HeapFits, MemInv, NEW a \in Nat, NEW nb \in Nat, 1 <= nb, NEW h, Takes(a, nb, h)
    PROVE  MemInv'
<1> DEFINE C == Cells(a, nb)
           L == ListCells(memlist)
<1>1. /\ IsFiniteSet(C) /\ Cardinality(C) = nb BY CellsAre
<1>2. /\ C \subseteq L /\ ListCells(memlist)' = L \ C /\ Tidy(memlist)'
      /\ h \in Requests /\ HeldCells(h) = C /\ held' = held \cup {h}
      /\ mlength' = (mlength - nb) % W /\ minheap' = minheap
  BY DEF Takes
<1>3. /\ minheap \in Ends /\ held \subseteq Requests
      /\ mlength = (Cardinality(L) - Cardinality(Arena)) % W
      /\ L \cup UNION {HeldCells(g) : g \in held} = Arena
      /\ \A g \in held : HeldCells(g) \cap L = {}
      /\ \A f, g \in held : f # g => HeldCells(f) \cap HeldCells(g) = {}
  BY DEF MemInv
<1>4. Arena' = Arena BY <1>2 DEF Arena
<1>5. mlength' = (Cardinality(L \ C) - Cardinality(Arena)) % W
  <2>1. Cardinality(L \ C) = Cardinality(L) - nb
    <3>1. L \cap C = C BY <1>2
    <3>2. Cardinality(L \ C) = Cardinality(L) - Cardinality(L \cap C)
      BY ArenaParts, FS_Difference
    <3>3. QED BY <1>1, <3>1, <3>2
  <2>2. PICK x, y, k \in Int : x = Cardinality(L) /\ y = Cardinality(Arena) /\ k = 0 - nb
    BY ArenaParts
  <2> DEFINE z == x - y
  <2>3. z \in Int /\ mlength = z % W BY <1>3, <2>2
  <2>4. ((z % W) + k) % W = (z + k) % W BY <2>3, ModShift
  <2>5. (z % W) - nb = (z % W) + k
    <3>1. z % W \in Int BY <2>3, ArenaParts
    <3>2. QED BY <2>2, <3>1
  <2>6. z + k = (x - nb) - y BY <2>2
  <2>7. QED BY <1>2, <2>1, <2>2, <2>3, <2>4, <2>5, <2>6
<1>6. (L \ C) \cup UNION {HeldCells(g) : g \in held \cup {h}} = Arena
  <2>1. UNION {HeldCells(g) : g \in held \cup {h}}
            = (UNION {HeldCells(g) : g \in held}) \cup C
    BY <1>2
  <2>2. QED BY <1>2, <1>3, <2>1
<1>7. \A g \in held \cup {h} : HeldCells(g) \cap (L \ C) = {} BY <1>2, <1>3
<1>8. \A f, g \in held \cup {h} : f # g => HeldCells(f) \cap HeldCells(g) = {} BY <1>2, <1>3
<1>9. held \cup {h} \subseteq Requests BY <1>2, <1>3
<1> HIDE DEF C, L
<1>10. QED BY <1>2, <1>3, <1>4, <1>5, <1>6, <1>7, <1>8, <1>9 DEF MemInv

LEMMA ReturnsKeeps ==
    ASSUME HeapFits, MemInv, NEW a \in Nat, NEW nb \in Nat, 1 <= nb, NEW h, Returns(a, nb, h)
    PROVE  MemInv'
<1> DEFINE C == Cells(a, nb)
           L == ListCells(memlist)
<1>1. /\ IsFiniteSet(C) /\ Cardinality(C) = nb BY CellsAre
<1>2. /\ ListCells(memlist)' = L \cup C /\ Tidy(memlist)'
      /\ h \in held /\ HeldCells(h) = C /\ held' = held \ {h}
      /\ mlength' = (mlength + nb) % W /\ minheap' = minheap
  BY DEF Returns
<1>3. /\ minheap \in Ends /\ held \subseteq Requests
      /\ mlength = (Cardinality(L) - Cardinality(Arena)) % W
      /\ L \cup UNION {HeldCells(g) : g \in held} = Arena
      /\ \A g \in held : HeldCells(g) \cap L = {}
      /\ \A f, g \in held : f # g => HeldCells(f) \cap HeldCells(g) = {}
  BY DEF MemInv
<1>4. Arena' = Arena BY <1>2 DEF Arena
<1>5. mlength' = (Cardinality(L \cup C) - Cardinality(Arena)) % W
  <2>1. Cardinality(L \cup C) = Cardinality(L) + nb
    <3>1. L \cap C = {} BY <1>2, <1>3
    <3>2. Cardinality(L \cup C) = Cardinality(L) + Cardinality(C) - Cardinality(L \cap C)
      BY <1>1, ArenaParts, FS_Union
    <3>3. Cardinality(L \cap C) = 0 BY <3>1, FS_EmptySet
    <3>4. QED BY <1>1, <3>2, <3>3, ArenaParts
  <2>2. PICK x, y \in Int : x = Cardinality(L) /\ y = Cardinality(Arena) BY ArenaParts
  <2> DEFINE z == x - y
  <2>3. z \in Int /\ mlength = z % W BY <1>3, <2>2
  <2>4. ((z % W) + nb) % W = (z + nb) % W BY <2>3, ModShift
  <2>5. z + nb = (x + nb) - y OBVIOUS
  <2>6. QED BY <1>2, <2>1, <2>2, <2>3, <2>4, <2>5
<1>6. (L \cup C) \cup UNION {HeldCells(g) : g \in held \ {h}} = Arena
  <2>1. (UNION {HeldCells(g) : g \in held \ {h}}) \cup C = UNION {HeldCells(g) : g \in held}
    BY <1>2
  <2>2. QED BY <1>3, <2>1
<1>7. \A g \in held \ {h} : HeldCells(g) \cap (L \cup C) = {} BY <1>2, <1>3
<1>8. \A f, g \in held \ {h} : f # g => HeldCells(f) \cap HeldCells(g) = {} BY <1>3
<1>9. held \ {h} \subseteq Requests BY <1>3
<1> HIDE DEF C, L
<1>10. QED BY <1>2, <1>3, <1>4, <1>5, <1>6, <1>7, <1>8, <1>9 DEF MemInv

LEMMA InitMemory == ASSUME HeapFits, meminit PROVE MemInv
<1>1. /\ minheap \in Ends /\ memlist = FirstList(minheap) /\ mlength = 0 /\ held = {}
  BY DEF meminit
<1>2. Tidy(memlist) /\ IsFiniteSet(Arena) BY <1>1, ArenaIs DEF Arena
<1>3. ListCells(memlist) = Arena BY <1>1 DEF Arena
<1>4. mlength = (Cardinality(ListCells(memlist)) - Cardinality(Arena)) % W
  <2>1. PICK k \in Int : k = Cardinality(Arena) BY <1>2, FS_CardinalityType
  <2>2. k - k = 0 /\ 0 \in 0..(W - 1) BY Words
  <2>3. 0 % W = 0 BY <2>2, ModSmall
  <2>4. QED BY <1>1, <1>3, <2>1, <2>2, <2>3
<1>5. UNION {HeldCells(h) : h \in held} = {} BY <1>1
<1>6. QED BY <1>1, <1>2, <1>3, <1>4, <1>5 DEF MemInv

LEMMA StepIs ==
    ASSUME HeapFits, MemInv, MemNext
    PROVE  \E a \in Nat, nb \in Nat, h \in Requests : 1 <= nb /\ (Takes(a, nb, h) \/ Returns(a, nb, h))
<1>1. ASSUME NEW n \in Sizes, getmem(n)
      PROVE  \E a \in Nat, nb \in Nat, h \in Requests : 1 <= nb /\ Takes(a, nb, h)
  BY <1>1, GetmemTakes
<1>2. ASSUME NEW n \in Sizes, getstk(n)
      PROVE  \E a \in Nat, nb \in Nat, h \in Requests : 1 <= nb /\ Takes(a, nb, h)
  BY <1>2, GetstkTakes
<1>3. ASSUME NEW h \in held, release(h)
      PROVE  \E a \in Nat, nb \in Nat : 1 <= nb /\ Returns(a, nb, h)
  BY <1>3, ReleaseReturns
<1>4. held \subseteq Requests BY DEF MemInv
<1>5. QED BY <1>1, <1>2, <1>3, <1>4 DEF MemNext

LEMMA NextMemory == ASSUME HeapFits, MemInv, [MemNext]_memvars PROVE MemInv'
<1>1. CASE MemNext
  <2>1. PICK a \in Nat, nb \in Nat, h \in Requests : 1 <= nb /\ (Takes(a, nb, h) \/ Returns(a, nb, h))
    BY <1>1, StepIs
  <2>2. CASE Takes(a, nb, h) BY <2>1, <2>2, TakesKeeps
  <2>3. CASE Returns(a, nb, h) BY <2>1, <2>3, ReturnsKeeps
  <2>4. QED BY <2>1, <2>2, <2>3
<1>2. CASE UNCHANGED memvars
  <2>1. minheap' = minheap /\ memlist' = memlist /\ mlength' = mlength /\ held' = held
    BY <1>2 DEF memvars
  <2>2. ListCells(memlist)' = ListCells(memlist) /\ Arena' = Arena BY <2>1 DEF Arena
  <2>3. Tidy(memlist)' <=> Tidy(memlist) BY <2>1
  <2>4. QED BY <2>1, <2>2, <2>3 DEF MemInv
<1>3. QED BY <1>1, <1>2

LEMMA FreeListFollows == ASSUME HeapFits, MemInv PROVE FreeListSound
<1>1. Tidy(memlist) BY DEF MemInv
<1>2. Coalesced
  <2>1. memlist \in Seq(Blocks) BY <1>1 DEF Tidy
  <2>2. Len(memlist) \in Nat /\ \A i \in 1..Len(memlist) : memlist[i] \in Blocks BY <2>1
  <2>3. \A i \in 1..Len(memlist) : memlist[i].len > 0 BY <2>2, BlockIs
  <2>4. ASSUME NEW i \in 1..Len(memlist), i < Len(memlist)
        PROVE  memlist[i].addr + memlist[i].len < memlist[i + 1].addr
    <3>1. i + 1 \in 1..Len(memlist) /\ i < i + 1 BY <2>2, <2>4
    <3>2. QED BY <1>1, <3>1 DEF Tidy, Below
  <2>5. QED BY <2>3, <2>4 DEF Coalesced
<1>3. (mlength + Cardinality(Arena)) % W = Cardinality(ListCells(memlist)) % W
  <2>1. PICK x, y \in Int : x = Cardinality(ListCells(memlist)) /\ y = Cardinality(Arena)
    BY ArenaParts
  <2> DEFINE z == x - y
  <2>2. z \in Int /\ mlength = z % W BY <2>1 DEF MemInv
  <2>3. ((z % W) + y) % W = (z + y) % W BY <2>2, ModShift
  <2>4. z + y = x OBVIOUS
  <2>5. QED BY <2>1, <2>2, <2>3, <2>4
<1>4. Partition BY <1>3 DEF Partition, MemInv
<1>5. QED BY <1>2, <1>4 DEF FreeListSound

LEMMA MemoryIsInvariant == ASSUME HeapFits PROVE MemSpec => []MemInv
<1>1. meminit => MemInv BY InitMemory
<1>2. MemInv /\ [MemNext]_memvars => MemInv' BY NextMemory
<1>3. QED BY <1>1, <1>2, PTL DEF MemSpec

\* Every cell of the heap is on the free list or in exactly one block that a
\* caller has, the list is in order and coalesced, and its length is what the
\* calls left of it (getmem.c, getstk.c, freemem.c).
THEOREM FreeListIsSound == ASSUME HeapFits PROVE MemSpec => []FreeListSound
<1>1. MemInv => FreeListSound BY FreeListFollows
<1>2. QED BY <1>1, MemoryIsInvariant, PTL

\* A step of the allocator is a step of the heap.
LEMMA MemorySteps ==
    ASSUME HeapFits, MemInv, [MemNext]_memvars
    PROVE  H!Next \/ UNCHANGED <<ListCells(memlist), {HeldCells(h) : h \in held}>>
<1> DEFINE F == ListCells(memlist)
           G == {HeldCells(h) : h \in held}
<1>1. ASSUME NEW a \in Nat, NEW nb \in Nat, NEW h, 1 <= nb, Takes(a, nb, h) PROVE H!Take
  <2>1. PICK high \in Int : high = a + nb - 1 OBVIOUS
  <2>2. Cells(a, nb) = a..high /\ a <= high /\ a \in a..high /\ high \in a..high
    BY <1>1, <2>1 DEF Cells
  <2>3. a..high \subseteq F /\ F' = F \ (a..high) BY <1>1, <2>2 DEF Takes
  <2>4. G' = G \cup {a..high} BY <1>1, <2>2 DEF Takes
  <2>5. a \in F /\ high \in F BY <2>2, <2>3
  <2> HIDE DEF F, G
  <2>6. \E low, top \in F : /\ low <= top /\ low..top \subseteq F
                            /\ F' = F \ (low..top) /\ G' = G \cup {low..top}
    BY <2>2, <2>3, <2>4, <2>5
  <2>7. QED BY <2>6 DEF H!Take, F, G
<1>2. ASSUME NEW a \in Nat, NEW nb \in Nat, NEW h, 1 <= nb, Returns(a, nb, h)
      PROVE  H!GiveBack
  <2>1. PICK b : b = HeldCells(h) OBVIOUS
  <2>2. /\ b = Cells(a, nb) /\ b # {} /\ h \in held /\ held' = held \ {h} /\ F' = F \cup b
    BY <1>2, <2>1, CellsAre DEF Returns
  <2>3. \A g \in held : g # h => HeldCells(g) # b BY <2>1, <2>2 DEF MemInv
  <2>4. G' = {HeldCells(g) : g \in held \ {h}} BY <2>2
  <2>5. G' = G \ {b} BY <2>1, <2>3, <2>4
  <2>6. b \in G BY <2>1, <2>2
  <2>7. QED BY <2>2, <2>5, <2>6 DEF H!GiveBack
<1>3. CASE MemNext
  <2>1. PICK a \in Nat, nb \in Nat, h \in Requests : 1 <= nb /\ (Takes(a, nb, h) \/ Returns(a, nb, h))
    BY <1>3, StepIs
  <2>2. QED BY <1>1, <1>2, <2>1 DEF H!Next
<1>4. CASE UNCHANGED memvars BY <1>4 DEF memvars
<1>5. QED BY <1>3, <1>4

\* Every behaviour of the allocator is a behaviour of a heap: it hands out
\* runs of cells that nobody has, and what comes back is free again.
THEOREM HeapIsImplemented == ASSUME HeapFits PROVE MemSpec => IsHeap
<1>1. meminit => H!Init
  <2> HAVE meminit
  <2>1. minheap \in Ends /\ memlist = FirstList(minheap) /\ held = {} BY DEF meminit
  <2>2. QED BY <2>1 DEF H!Init
<1>2. MemInv /\ [MemNext]_memvars
        => [H!Next]_<<ListCells(memlist), {HeldCells(h) : h \in held}>>
  BY MemorySteps
<1>3. QED BY <1>1, <1>2, MemoryIsInvariant, PTL DEF MemSpec, IsHeap, H!Spec
-----------------------------------------------------------------------------
\* Ports.  The shape of the tables.
PtClearOps == {"dispose", "clearRecv", "clearState"}
PtEnds == {"PT_ALLOC", "PT_FREE"}
PtArgs == PtMsgs \cup PtEnds \cup {0}
PtRests == [op : {"idle", "send", "recv"} \cup PtClearOps, port : PortIds, seq : Nat, arg : PtArgs]
PtTypeOK ==
    /\ ptstate \in [PortIds -> {"PT_FREE", "PT_ALLOC", "PT_LIMBO"}]
    /\ ptseq \in [PortIds -> Nat] /\ ptmaxcnt \in [PortIds -> Nat]
    /\ ptssem \in [PortIds -> SemRecords(PtProcs)]
    /\ ptrsem \in [PortIds -> SemRecords(PtProcs)]
    /\ ptqueue \in [PortIds -> Seq([node : 1..PtNodes, msg : PtArgs])]
    /\ ptfree \in Seq(1..PtNodes) /\ ptnextid \in PortIds /\ ptsems \in Nat
    /\ ptpc \in [PtProcs -> PtRests]
    /\ ptpanic \in BOOLEAN /\ ptkilled \in Nat
    /\ ptlost \in [PortIds -> [s : Nat, r : Nat]]

\* The processes that are in send or receive on the port as it is now.  Only
\* they wait on its semaphores, of which ptcreate may have failed to get one.
Callers(q, op) ==
    {p \in PtProcs : ptpc[p].op = op /\ ptpc[p].port = q /\ PtSame(q, ptpc[p].seq)}
Serves(s, C) == (s = NoSem /\ C = {}) \/ Serving(s, C)
Paired(q) == ptrsem[q] # NoSem => ptssem[q] # NoSem
Counted(q) ==
    ~ptpanic /\ ptssem[q] # NoSem /\ ptrsem[q] # NoSem =>
        /\ Taken(ptssem[q], Callers(q, "send")) + Len(ptqueue[q]) + ptlost[q].s = ptmaxcnt[q]
        /\ Taken(ptrsem[q], Callers(q, "recv")) + ptlost[q].r = Len(ptqueue[q])

Open(q) ==
    ptstate[q] = "PT_ALLOC" =>
        /\ Serves(ptssem[q], Callers(q, "send")) /\ Serves(ptrsem[q], Callers(q, "recv"))
        /\ Paired(q) /\ Counted(q)
Closed(q) == ptstate[q] = "PT_FREE" => ptqueue[q] = << >>

\* What _ptclear has done so far: there is one such call to a port in limbo.
Clears(p, q) == ptpc[p].op \in PtClearOps /\ ptpc[p].port = q
Clearing(p, q) ==
    Clears(p, q) =>
        /\ ptstate[q] = "PT_LIMBO" /\ \A r \in PtProcs : Clears(r, q) => r = p
        /\ ptpc[p].arg \in PtEnds /\ (ptpc[p].arg = "PT_ALLOC" => Paired(q))
        /\ ptpc[p].op # "dispose" =>
             ptqueue[q] = << >> /\ ptssem[q] \in {NoSem, SemNew(ptmaxcnt[q])}
        /\ ptpc[p].op = "clearState" => ptrsem[q] \in {NoSem, SemNew(0)}

\* A call belongs to the port as it is, or to an earlier one.
Past(p, q) ==
    ptpc[p].op \in {"send", "recv"} /\ ptpc[p].port = q =>
        ptpc[p].seq <= ptseq[q] /\ (ptstate[q] # "PT_ALLOC" => ptpc[p].seq < ptseq[q])

\* A semaphore, in whatever state its port is.
Sound(s) == s = NoSem \/ (s.val \in Nat /\ NoDup(s.queue))
Port(q) ==
    /\ Sound(ptssem[q]) /\ Sound(ptrsem[q]) /\ Open(q) /\ Closed(q)
    /\ \A p \in PtProcs : Clearing(p, q) /\ Past(p, q)

\* The inductive invariant.
PtInv == PtTypeOK /\ NodesConserved /\ \A q \in PortIds : Port(q)
-----------------------------------------------------------------------------
\* A step that moves nodes between the free list and the port q only.
Lists == -1..(NPORTS - 1)
LEMMA NodesMove ==
    ASSUME NodesConserved, NEW q \in PortIds,
           \A b \in PortIds \ {q} : PtList(b)' = PtList(b),
           PtList(-1)' \in Seq(1..PtNodes), NoDup(PtList(-1)'),
           PtList(q)' \in Seq(1..PtNodes), NoDup(PtList(q)'),
           \A n \in 1..PtNodes : ~(OnQueue(PtList(-1)', n) /\ OnQueue(PtList(q)', n)),
           \A n \in 1..PtNodes : OnQueue(PtList(-1)', n) \/ OnQueue(PtList(q)', n) <=>
                                 OnQueue(PtList(-1), n) \/ OnQueue(PtList(q), n)
    PROVE  NodesConserved'
<1>1. q \in Lists /\ -1 \in Lists /\ q # -1 /\ Lists = PortIds \cup {-1}
  BY PtSizesAssumption DEF PortIds, Lists
<1>2. \A a \in Lists : PtList(a)' \in Seq(1..PtNodes) /\ NoDup(PtList(a)')
  BY <1>1 DEF NodesConserved, Lists
<1>3. ASSUME NEW n \in 1..PtNodes
      PROVE  \E a \in Lists : \A b \in Lists : OnQueue(PtList(b)', n) <=> a = b
  <2>1. PICK a \in Lists : \A b \in Lists : OnQueue(PtList(b), n) <=> a = b
    BY DEF NodesConserved, Lists
  <2>2. CASE a \notin {-1, q}
    <3>1. \A b \in Lists : OnQueue(PtList(b)', n) <=> a = b BY <1>1, <2>1, <2>2
    <3>2. QED BY <3>1
  <2>3. CASE a \in {-1, q}
    <3>1. OnQueue(PtList(-1)', n) \/ OnQueue(PtList(q)', n) BY <1>1, <2>1, <2>3
    <3>2. \A b \in Lists \ {-1, q} : ~OnQueue(PtList(b)', n) BY <1>1, <2>1, <2>3
    <3>3. QED BY <1>1, <3>1, <3>2
  <2>4. QED BY <2>2, <2>3
<1>4. QED BY <1>2, <1>3 DEF NodesConserved, Lists
-----------------------------------------------------------------------------
LEMMA PtTypes ==
    ASSUME PtTypeOK, NEW q \in PortIds
    PROVE  /\ ptssem[q] \in SemRecords(PtProcs) /\ ptrsem[q] \in SemRecords(PtProcs)
           /\ ptqueue[q] \in Seq([node : 1..PtNodes, msg : PtArgs]) /\ ptmaxcnt[q] \in Nat
           /\ ptseq[q] \in Nat /\ ptlost[q].s \in Nat /\ ptlost[q].r \in Nat
  BY DEF PtTypeOK

LEMMA CallersFinite == ASSUME NEW q, NEW op PROVE IsFiniteSet(Callers(q, op))
<1>1. Callers(q, op) \subseteq PtProcs BY DEF Callers
<1>2. QED BY <1>1, PtSizesAssumption, FS_Subset

\* The nodes of a list of messages.
Messages == [node : 1..PtNodes, msg : PtArgs]
LEMMA NodesOfList ==
    ASSUME NEW list \in Seq(Messages)
    PROVE  /\ NodesOf(list) \in Seq(1..PtNodes)
           /\ \A k \in Messages : NodesOf(Append(list, k)) = Append(NodesOf(list), k.node)
           /\ list # << >> => /\ NodesOf(list) # << >>
                              /\ Head(NodesOf(list)) = Head(list).node
                              /\ NodesOf(Tail(list)) = Tail(NodesOf(list))
<1>1. DOMAIN list = 1..Len(list) /\ Len(list) \in Nat
      /\ \A j \in 1..Len(list) : list[j] \in Messages
  OBVIOUS
<1>2. \A j \in 1..Len(list) : list[j].node \in 1..PtNodes BY <1>1 DEF Messages
<1>3. NodesOf(list) = [j \in 1..Len(list) |-> list[j].node] BY <1>1 DEF NodesOf
<1>4. NodesOf(list) \in Seq(1..PtNodes) /\ Len(NodesOf(list)) = Len(list)
      /\ \A j \in 1..Len(list) : NodesOf(list)[j] = list[j].node
  BY <1>1, <1>2, <1>3
<1>5. ASSUME NEW k \in Messages PROVE NodesOf(Append(list, k)) = Append(NodesOf(list), k.node)
  <2>1. NodesOf(Append(list, k)) = [j \in 1..(Len(list) + 1) |-> Append(list, k)[j].node]
    BY <1>1 DEF NodesOf
  <2>2. \A j \in 1..(Len(list) + 1) :
          Append(list, k)[j].node = IF j = Len(list) + 1 THEN k.node ELSE list[j].node
    BY <1>1
  <2>3. k.node \in 1..PtNodes BY DEF Messages
  <2>4. QED BY <1>1, <1>4, <2>1, <2>2, <2>3
<1>6. ASSUME list # << >>
      PROVE  /\ NodesOf(list) # << >> /\ Head(NodesOf(list)) = Head(list).node
             /\ NodesOf(Tail(list)) = Tail(NodesOf(list))
  <2>1. Len(list) > 0 /\ Head(list) = list[1] BY <1>1, <1>6
  <2>2. NodesOf(list) # << >> /\ Head(NodesOf(list)) = NodesOf(list)[1] BY <1>4, <2>1
  <2>3. NodesOf(Tail(list)) = [j \in 1..(Len(list) - 1) |-> Tail(list)[j].node]
    BY <1>1, <2>1 DEF NodesOf
  <2>4. \A j \in 1..(Len(list) - 1) : Tail(list)[j].node = NodesOf(list)[j + 1]
    BY <1>1, <1>4, <2>1
  <2>5. Tail(NodesOf(list)) = [j \in 1..(Len(list) - 1) |-> NodesOf(list)[j + 1]]
    <3> DEFINE t == Tail(NodesOf(list))
    <3>1. /\ t \in Seq(1..PtNodes) /\ Len(t) = Len(list) - 1
          /\ \A j \in 1..Len(t) : t[j] = NodesOf(list)[j + 1]
      BY <1>1, <1>4, <2>1
    <3> HIDE DEF t
    <3>2. t = [j \in 1..Len(t) |-> t[j]] BY <3>1
    <3>3. QED BY <3>1, <3>2 DEF t
  <2>6. NodesOf(Tail(list)) = Tail(NodesOf(list)) BY <2>3, <2>4, <2>5
  <2>7. QED BY <1>4, <2>1, <2>2, <2>6
<1>7. QED BY <1>4, <1>5, <1>6

LEMMA PtListIs ==
    ASSUME NEW q \in PortIds
    PROVE  /\ PtList(q) = NodesOf(ptqueue[q]) /\ PtList(q)' = NodesOf(ptqueue'[q])
           /\ PtList(-1) = ptfree /\ PtList(-1)' = ptfree'
  BY PtSizesAssumption DEF PtList, PortIds

LEMMA ListsApart ==
    ASSUME NodesConserved, NEW q \in PortIds
    PROVE  /\ NoDup(PtList(q)) /\ NoDup(PtList(-1))
           /\ \A n \in 1..PtNodes : ~(OnQueue(PtList(-1), n) /\ OnQueue(PtList(q), n))
<1>1. q \in -1..(NPORTS - 1) /\ -1 \in -1..(NPORTS - 1) /\ q # -1
  BY PtSizesAssumption DEF PortIds
<1>2. QED BY <1>1 DEF NodesConserved

\* The port r is not touched, and the process p is not in a call to it.
SamePort(r) ==
    /\ ptstate'[r] = ptstate[r] /\ ptseq'[r] = ptseq[r] /\ ptmaxcnt'[r] = ptmaxcnt[r]
    /\ ptssem'[r] = ptssem[r] /\ ptrsem'[r] = ptrsem[r]
    /\ ptqueue'[r] = ptqueue[r] /\ ptlost'[r] = ptlost[r]
Elsewhere(p, r) == ptpc[p].port # r \/ ptpc[p].op \notin {"send", "recv"}
                   \/ ptseq[r] # ptpc[p].seq
LEMMA PortFrame ==
    ASSUME NEW r, Port(r), SamePort(r), ~ptpanic' => ~ptpanic, NEW p \in PtProcs,
           \A x \in PtProcs : x # p => ptpc'[x] = ptpc[x],
           ptpc'[p].op = "idle" \/ ptpc'[p].port # r, Elsewhere(p, r)
    PROVE  Port(r)'
<1>1. Callers(r, "send")' = Callers(r, "send") /\ Callers(r, "recv")' = Callers(r, "recv")
  BY DEF Callers, PtSame, SamePort, Elsewhere
<1>2. Open(r)' BY <1>1 DEF Port, Open, Counted, Paired, SamePort
<1>3. Closed(r)' BY DEF Port, Closed, SamePort
<1>4. \A x \in PtProcs : Clears(x, r)' => Clears(x, r) /\ x # p
  BY DEF Clears, PtClearOps
<1>5. ASSUME NEW x \in PtProcs PROVE Clearing(x, r)'
  <2>1. Clears(x, r)' => Clears(x, r) /\ ptpc'[x] = ptpc[x] BY <1>4
  <2>2. Paired(r) => Paired(r)' BY DEF Paired, SamePort
  <2>3. QED BY <1>4, <2>1, <2>2 DEF Port, Clearing, SamePort
<1>6. ASSUME NEW x \in PtProcs PROVE Past(x, r)'
  <2>1. x # p \/ ptpc'[p].op = "idle" \/ ptpc'[p].port # r OBVIOUS
  <2>2. QED BY <2>1 DEF Port, Past, SamePort
<1>7. Sound(ptssem'[r]) /\ Sound(ptrsem'[r]) BY DEF Port, SamePort
<1>8. QED BY <1>2, <1>3, <1>5, <1>6, <1>7 DEF Port
-----------------------------------------------------------------------------
\* The steps that relink nodes.
LEMMA PutNode ==
    ASSUME PtTypeOK, NodesConserved, NEW q \in PortIds, ptfree # << >>, NEW m \in PtArgs,
           ptfree' = Tail(ptfree),
           ptqueue' = [ptqueue EXCEPT ![q] = Append(@, [node |-> Head(ptfree), msg |-> m])]
    PROVE  NodesConserved'
<1> DEFINE h == Head(ptfree)
           k == [node |-> h, msg |-> m]
           list == ptqueue[q]
<1>1. ptfree \in Seq(1..PtNodes) /\ list \in Seq(Messages) BY PtTypes DEF PtTypeOK, Messages
<1>2. /\ NoDup(NodesOf(list)) /\ NoDup(ptfree)
      /\ \A n \in 1..PtNodes : ~(OnQueue(ptfree, n) /\ OnQueue(NodesOf(list), n))
  BY PtListIs, ListsApart
<1>3. /\ h \in 1..PtNodes /\ Tail(ptfree) \in Seq(1..PtNodes) /\ OnQueue(ptfree, h)
      /\ NoDup(Tail(ptfree))
      /\ \A x : OnQueue(Tail(ptfree), x) <=> OnQueue(ptfree, x) /\ x # h
  BY <1>1, <1>2, DequeueQueue, Zenon
<1>4. ptqueue'[q] = Append(list, k) BY DEF PtTypeOK
<1> HIDE DEF h
<1>5. k \in Messages /\ k.node = h BY <1>3 DEF Messages
<1> HIDE DEF k
<1>6. NodesOf(ptqueue'[q]) = Append(NodesOf(list), h) /\ NodesOf(list) \in Seq(1..PtNodes)
  BY <1>1, <1>4, <1>5, NodesOfList
<1> HIDE DEF list
<1>7. ~OnQueue(NodesOf(list), h) BY <1>2, <1>3
<1>8. /\ Append(NodesOf(list), h) \in Seq(1..PtNodes) /\ NoDup(Append(NodesOf(list), h))
      /\ \A x : OnQueue(Append(NodesOf(list), h), x) <=> OnQueue(NodesOf(list), x) \/ x = h
  BY <1>2, <1>3, <1>6, <1>7, EnqueueQueue, Zenon DEF enqueue
<1>9. \A b \in PortIds \ {q} : PtList(b)' = PtList(b)
  BY DEF PtList, PtTypeOK, PortIds
<1>10. QED
  BY <1>2, <1>3, <1>6, <1>8, <1>9, PtListIs, NodesMove DEF list

LEMMA TakeNode ==
    ASSUME PtTypeOK, NodesConserved, NEW q \in PortIds, ptqueue[q] # << >>, PtTake(q)
    PROVE  NodesConserved'
<1> DEFINE list == ptqueue[q]
           h == Head(list).node
<1>1. ptfree \in Seq(1..PtNodes) /\ list \in Seq(Messages) BY PtTypes DEF PtTypeOK, Messages
<1>2. /\ NoDup(NodesOf(list)) /\ NoDup(ptfree)
      /\ \A n \in 1..PtNodes : ~(OnQueue(ptfree, n) /\ OnQueue(NodesOf(list), n))
  BY PtListIs, ListsApart
<1>3. /\ NodesOf(list) \in Seq(1..PtNodes) /\ NodesOf(list) # << >>
      /\ Head(NodesOf(list)) = h /\ NodesOf(Tail(list)) = Tail(NodesOf(list))
  BY <1>1, NodesOfList
<1>4. ptqueue'[q] = Tail(list) /\ ptfree' = <<h>> \o ptfree BY DEF PtTypeOK, PtTake
<1> HIDE DEF h, list
<1>5. /\ Tail(NodesOf(list)) \in Seq(1..PtNodes) /\ OnQueue(NodesOf(list), h)
      /\ NoDup(Tail(NodesOf(list))) /\ h \in 1..PtNodes
      /\ \A x : OnQueue(Tail(NodesOf(list)), x) <=> OnQueue(NodesOf(list), x) /\ x # h
  BY <1>2, <1>3, DequeueQueue, Zenon
<1>6. /\ <<h>> \o ptfree \in Seq(1..PtNodes) /\ NoDup(<<h>> \o ptfree)
      /\ \A x : OnQueue(<<h>> \o ptfree, x) <=> x = h \/ OnQueue(ptfree, x)
  <2>1. ~OnQueue(ptfree, h) BY <1>2, <1>5
  <2>2. QED BY <1>1, <1>2, <1>5, <2>1, PushQueue, Zenon
<1>7. \A b \in PortIds \ {q} : PtList(b)' = PtList(b)
  BY DEF PtList, PtTypeOK, PortIds, PtTake
<1>8. QED
  BY <1>2, <1>3, <1>4, <1>5, <1>6, <1>7, PtListIs, NodesMove DEF list

LEMMA FreeNodes ==
    ASSUME PtTypeOK, NodesConserved, NEW q \in PortIds, PtFreeList(q)
    PROVE  NodesConserved'
<1> DEFINE list == ptqueue[q]
           c == NodesOf(list) \o ptfree
<1>1. ptfree \in Seq(1..PtNodes) /\ NodesOf(list) \in Seq(1..PtNodes)
  BY PtTypes, NodesOfList DEF PtTypeOK, Messages
<1>2. /\ NoDup(NodesOf(list)) /\ NoDup(ptfree)
      /\ \A n \in 1..PtNodes : ~(OnQueue(NodesOf(list), n) /\ OnQueue(ptfree, n))
  BY PtListIs, ListsApart
<1>3. ptqueue'[q] = << >> /\ ptfree' = c BY DEF PtTypeOK, PtFreeList
<1>4. /\ c \in Seq(1..PtNodes) /\ NoDup(c)
      /\ \A x : OnQueue(c, x) <=> OnQueue(NodesOf(list), x) \/ OnQueue(ptfree, x)
  BY <1>1, <1>2, ConcatQueue, Zenon
<1>5. NodesOf(<< >>) = << >> BY DEF NodesOf
<1>6. << >> \in Seq(1..PtNodes) /\ NoDup(<< >>) /\ \A x : ~OnQueue(<< >>, x)
  BY DEF NoDup, OnQueue
<1>7. \A b \in PortIds \ {q} : PtList(b)' = PtList(b)
  BY DEF PtList, PtTypeOK, PortIds, PtFreeList
<1> HIDE DEF c, list
<1>8. QED
  BY <1>3, <1>4, <1>5, <1>6, <1>7, PtListIs, NodesMove DEF list
-----------------------------------------------------------------------------
\* What a step of the process p does to the port that it uses.
LEMMA CallersAfter ==
    ASSUME PtTypeOK, NEW q, NEW p \in PtProcs, NEW k, ptpc' = [ptpc EXCEPT ![p] = k],
           ptstate'[q] = ptstate[q], ptseq'[q] = ptseq[q]
    PROVE  /\ Callers(q, "send")' = IF k.op = "send" /\ k.port = q /\ PtSame(q, k.seq)
                                    THEN Callers(q, "send") \cup {p}
                                    ELSE Callers(q, "send") \ {p}
           /\ Callers(q, "recv")' = IF k.op = "recv" /\ k.port = q /\ PtSame(q, k.seq)
                                    THEN Callers(q, "recv") \cup {p}
                                    ELSE Callers(q, "recv") \ {p}
<1>1. \A x \in PtProcs : ptpc'[x] = IF x = p THEN k ELSE ptpc[x] BY DEF PtTypeOK
<1>2. Callers(q, "send")' =
        {x \in PtProcs : ptpc'[x].op = "send" /\ ptpc'[x].port = q /\ PtSame(q, ptpc'[x].seq)}
  BY DEF Callers, PtSame
<1>3. Callers(q, "recv")' =
        {x \in PtProcs : ptpc'[x].op = "recv" /\ ptpc'[x].port = q /\ PtSame(q, ptpc'[x].seq)}
  BY DEF Callers, PtSame
<1>4. QED BY <1>1, <1>2, <1>3 DEF Callers

LEMMA ServesIs ==
    ASSUME NEW s, NEW C
    PROVE  /\ Serves(s, C) /\ s # NoSem => Serving(s, C)
           /\ Serving(s, C) => Serves(s, C) /\ s # NoSem
  BY DEF Serves, Serving, NoSem

\* The port stays allocated.
LEMMA OpenPort ==
    ASSUME NEW q \in PortIds, PtTypeOK, Port(q), ptstate[q] = "PT_ALLOC", Open(q)',
           ptstate'[q] = ptstate[q], ptseq'[q] = ptseq[q], NEW p \in PtProcs,
           \A x \in PtProcs : x # p => ptpc'[x] = ptpc[x],
           ptpc'[p].op \notin PtClearOps,
           ptpc'[p].op \in {"send", "recv"} => ptpc'[p].seq = ptseq[q]
    PROVE  Port(q)'
<1>1. \A x \in PtProcs : ~Clears(x, q)
  BY DEF Port, Clearing
<1>2. \A x \in PtProcs : ~Clears(x, q)' BY <1>1 DEF Clears
<1>3. \A x \in PtProcs : Clearing(x, q)' BY <1>2 DEF Clearing
<1>4. ptseq[q] \in Nat BY PtTypes
<1>5. ASSUME NEW x \in PtProcs PROVE Past(x, q)'
  <2>1. CASE x = p BY <1>4, <2>1 DEF Past
  <2>2. CASE x # p BY <2>2 DEF Port, Past
  <2>3. QED BY <2>1, <2>2
<1>6. Closed(q)' BY DEF Closed
<1>7. Sound(ptssem'[q]) /\ Sound(ptrsem'[q]) BY DEF Open, Serves, Serving, Sound
<1>8. QED BY <1>3, <1>5, <1>6, <1>7 DEF Port

\* Whoever puts a message has taken one permit of ptssem.
LEMMA PutOpen ==
    ASSUME PtTypeOK, NEW q \in PortIds, Open(q), ptstate[q] = "PT_ALLOC", ~ptpanic,
           NEW m \in PtArgs, PtPut(q, m), ptssem[q] # NoSem,
           Serving(ptssem'[q], Callers(q, "send")'),
           Taken(ptssem'[q], Callers(q, "send")') = Taken(ptssem[q], Callers(q, "send")) - 1,
           Callers(q, "recv")' = Callers(q, "recv"),
           ptmaxcnt'[q] = ptmaxcnt[q], ptlost'[q] = ptlost[q]
    PROVE  Open(q)'
<1> DEFINE CS == Callers(q, "send")
           CR == Callers(q, "recv")
<1>1. Serves(ptssem'[q], CS') /\ ptssem'[q] # NoSem
  BY ServesIs
<1>2. /\ Serves(ptrsem[q], CR) /\ ptrsem[q] \in SemRecords(PtProcs) /\ IsFiniteSet(CR)
  BY PtTypes, CallersFinite DEF Open
<1>3. CASE ptfree = << >>
  <2>1. ptpanic' /\ ptrsem' = ptrsem BY <1>3 DEF PtPut
  <2>2. QED BY <1>1, <1>2, <2>1 DEF Open, Paired, Counted
<1>4. CASE ptfree # << >>
  <2>1. /\ ptrsem' = [ptrsem EXCEPT ![q] = IF @ = NoSem THEN @ ELSE V(@)]
        /\ ptqueue' = [ptqueue EXCEPT ![q] = Append(@, [node |-> Head(ptfree), msg |-> m])]
        /\ ptpanic' = ptpanic
    BY <1>4 DEF PtPut
  <2>2. Len(ptqueue'[q]) = Len(ptqueue[q]) + 1 /\ Len(ptqueue[q]) \in Nat
    BY <2>1, PtTypes DEF PtTypeOK
  <2>3. CASE ptrsem[q] = NoSem
    <3>1. ptrsem'[q] = NoSem BY <2>1, <2>3 DEF PtTypeOK
    <3>2. QED BY <1>1, <1>2, <2>3, <3>1 DEF Open, Paired, Counted
  <2>4. CASE ptrsem[q] # NoSem
    <3>1. ptrsem'[q] = V(ptrsem[q]) BY <2>1, <2>4 DEF PtTypeOK
    <3>2. Serving(ptrsem[q], CR) BY <1>2, <2>4, ServesIs
    <3>3. Serving(ptrsem'[q], CR) /\ Taken(ptrsem'[q], CR) = Taken(ptrsem[q], CR) + 1
      BY <1>2, <3>1, <3>2, TakenV, Zenon
    <3>4. Serves(ptrsem'[q], CR) BY <3>3, ServesIs
    <3>5. /\ Taken(ptssem[q], CS) + Len(ptqueue[q]) + ptlost[q].s = ptmaxcnt[q]
          /\ Taken(ptrsem[q], CR) + ptlost[q].r = Len(ptqueue[q])
      BY <2>4 DEF Open, Counted
    <3>6. Taken(ptssem[q], CS) \in Int /\ Taken(ptrsem[q], CR) \in Int
          /\ ptlost[q].s \in Int /\ ptlost[q].r \in Int
      BY PtTypes, CallersFinite, TakenInt, SMTT(30)
    <3> HIDE DEF CS, CR
    <3>7. /\ Taken(ptssem'[q], CS') + Len(ptqueue'[q]) + ptlost'[q].s = ptmaxcnt'[q]
          /\ Taken(ptrsem'[q], CR) + ptlost'[q].r = Len(ptqueue'[q])
      <4>1. Taken(ptssem'[q], CS') = Taken(ptssem[q], CS) - 1 BY DEF CS
      <4>2. ptlost'[q].s = ptlost[q].s /\ ptlost'[q].r = ptlost[q].r OBVIOUS
      <4>3. Taken(ptssem'[q], CS') + Len(ptqueue'[q]) = Taken(ptssem[q], CS) + Len(ptqueue[q])
        BY <2>2, <3>6, <4>1, SMTT(30)
      <4>4. QED BY <2>2, <3>3, <3>5, <3>6, <4>2, <4>3, SMTT(30)
    <3>8. CR' = CR BY DEF CR
    <3>9. Counted(q)' BY <3>7, <3>8 DEF Counted, CS, CR
    <3>10. Paired(q)' BY <1>1 DEF Paired
    <3>11. QED BY <1>1, <3>4, <3>8, <3>9, <3>10 DEF Open, CS, CR
  <2>5. QED BY <2>3, <2>4
<1>5. QED BY <1>3, <1>4

\* Whoever takes a message has taken one permit of ptrsem; then there is a
\* message.
LEMMA MessageThere ==
    ASSUME PtTypeOK, NEW q \in PortIds, Open(q), ptstate[q] = "PT_ALLOC", ~ptpanic,
           ptrsem[q] # NoSem,
           ptrsem[q].val > 0 \/ \E p \in Callers(q, "recv") : ~Waits(ptrsem[q], p)
    PROVE  ptqueue[q] # << >>
<1> DEFINE CR == Callers(q, "recv")
           n == Cardinality(Awake(ptrsem[q], CR))
<1>1. Taken(ptrsem[q], CR) + ptlost[q].r = Len(ptqueue[q]) BY DEF Open, Paired, Counted
<1>2. ptrsem[q].val \in Nat BY ServesIs DEF Open, Serving
<1>3. IsFiniteSet(Awake(ptrsem[q], CR)) /\ n \in Nat BY AwakeFinite, CallersFinite
<1>4. Awake(ptrsem[q], CR) # {} => n # 0 BY <1>3, FS_EmptySet
<1>5. n > 0 \/ ptrsem[q].val > 0
  <2>1. CASE ptrsem[q].val > 0 BY <2>1
  <2>2. CASE \E p \in CR : ~Waits(ptrsem[q], p)
    <3>1. Awake(ptrsem[q], CR) # {} BY <2>2 DEF Awake
    <3>2. QED BY <1>3, <1>4, <3>1
  <2>3. QED BY <2>1, <2>2
<1>6. Taken(ptrsem[q], CR) = ptrsem[q].val + n BY DEF Taken
<1> HIDE DEF n
<1>7. ptlost[q].r \in Nat BY PtTypes
<1>8. Len(ptqueue[q]) > 0 BY <1>1, <1>2, <1>3, <1>5, <1>6, <1>7, SMTT(30)
<1>9. QED BY <1>8

LEMMA TakeOpen ==
    ASSUME PtTypeOK, NEW q \in PortIds, Open(q), ptstate[q] = "PT_ALLOC", ~ptpanic,
           PtTake(q), UNCHANGED ptpanic, ptqueue[q] # << >>, ptrsem[q] # NoSem,
           Serving(ptrsem'[q], Callers(q, "recv")'),
           Taken(ptrsem'[q], Callers(q, "recv")') = Taken(ptrsem[q], Callers(q, "recv")) - 1,
           Callers(q, "send")' = Callers(q, "send"),
           ptmaxcnt'[q] = ptmaxcnt[q], ptlost'[q] = ptlost[q]
    PROVE  Open(q)'
<1> DEFINE CS == Callers(q, "send")
           CR == Callers(q, "recv")
<1>1. Serves(ptrsem'[q], CR') BY ServesIs
<1>2. Serves(ptssem[q], CS) /\ ptssem[q] # NoSem /\ ptssem[q] \in SemRecords(PtProcs)
      /\ IsFiniteSet(CS)
  BY PtTypes, CallersFinite DEF Open, Paired
<1>3. Serving(ptssem[q], CS) BY <1>2, ServesIs
<1>4. ptssem'[q] = V(ptssem[q]) BY DEF PtTake, PtTypeOK
<1>5. Serving(ptssem'[q], CS) /\ Taken(ptssem'[q], CS) = Taken(ptssem[q], CS) + 1
  BY <1>2, <1>3, <1>4, TakenV, Zenon
<1>6. Serves(ptssem'[q], CS) /\ ptssem'[q] # NoSem BY <1>5, ServesIs
<1>7. Len(ptqueue'[q]) = Len(ptqueue[q]) - 1 /\ Len(ptqueue[q]) \in Nat
  BY PtTypes DEF PtTake, PtTypeOK
<1>8. /\ Taken(ptssem[q], CS) + Len(ptqueue[q]) + ptlost[q].s = ptmaxcnt[q]
      /\ Taken(ptrsem[q], CR) + ptlost[q].r = Len(ptqueue[q])
  BY <1>2 DEF Open, Counted
<1>9. Taken(ptssem[q], CS) \in Int /\ Taken(ptrsem[q], CR) \in Int
      /\ ptlost[q].s \in Int /\ ptlost[q].r \in Int
  BY PtTypes, CallersFinite, TakenInt, SMTT(30)
<1>10. Taken(ptrsem'[q], CR') = Taken(ptrsem[q], CR) - 1 /\ CS' = CS OBVIOUS
<1> HIDE DEF CS, CR
<1>11. /\ Taken(ptssem'[q], CS) + Len(ptqueue'[q]) + ptlost'[q].s = ptmaxcnt'[q]
       /\ Taken(ptrsem'[q], CR') + ptlost'[q].r = Len(ptqueue'[q])
  <2>1. ptlost'[q].s = ptlost[q].s /\ ptlost'[q].r = ptlost[q].r OBVIOUS
  <2>2. Taken(ptssem'[q], CS) + Len(ptqueue'[q]) = Taken(ptssem[q], CS) + Len(ptqueue[q])
    BY <1>5, <1>7, <1>9, SMTT(30)
  <2>3. QED BY <1>7, <1>8, <1>9, <1>10, <2>1, <2>2, SMTT(30)
<1>12. Counted(q)' BY <1>10, <1>11 DEF Counted, CS, CR
<1>13. Paired(q)' BY <1>6 DEF Paired
<1>14. QED BY <1>1, <1>6, <1>10, <1>12, <1>13 DEF Open, CS, CR
-----------------------------------------------------------------------------
\* What the two halves of ptsend and ptrecv leave to the rest of the state.
LEMMA HeadAndTail ==
    ASSUME NEW S, NEW list \in Seq(S), list # << >>
    PROVE  Head(list) \in S /\ Tail(list) \in Seq(S)
  OBVIOUS

LEMMA NodesSame ==
    ASSUME NodesConserved, UNCHANGED <<ptfree, ptqueue>>
    PROVE  NodesConserved'
  BY DEF NodesConserved, PtList

LEMMA PutMoves ==
    ASSUME PtTypeOK, NodesConserved, NEW q \in PortIds, NEW m \in PtArgs, PtPut(q, m)
    PROVE  /\ ptfree' \in Seq(1..PtNodes) /\ ptqueue' \in [PortIds -> Seq(Messages)]
           /\ ptrsem' \in [PortIds -> SemRecords(PtProcs)] /\ ptpanic' \in BOOLEAN
           /\ NodesConserved' /\ (~ptpanic' => ~ptpanic)
           /\ \A r \in PortIds \ {q} : ptqueue'[r] = ptqueue[r] /\ ptrsem'[r] = ptrsem[r]
<1>1. /\ ptfree \in Seq(1..PtNodes) /\ ptqueue \in [PortIds -> Seq(Messages)]
      /\ ptrsem \in [PortIds -> SemRecords(PtProcs)] /\ ptpanic \in BOOLEAN
  BY DEF PtTypeOK, Messages
<1>2. CASE ptfree = << >>
  <2>1. UNCHANGED <<ptfree, ptqueue, ptrsem>> /\ ptpanic' BY <1>2 DEF PtPut
  <2>2. NodesConserved' BY <2>1, NodesSame
  <2>3. ptpanic' = TRUE BY <1>2 DEF PtPut
  <2>4. QED BY <1>1, <2>1, <2>2, <2>3
<1>3. CASE ptfree # << >>
  <2> DEFINE k == [node |-> Head(ptfree), msg |-> m]
             s == IF ptrsem[q] = NoSem THEN ptrsem[q] ELSE V(ptrsem[q])
  <2>1. /\ ptfree' = Tail(ptfree) /\ ptqueue' = [ptqueue EXCEPT ![q] = Append(@, k)]
        /\ ptrsem' = [ptrsem EXCEPT ![q] = s] /\ ptpanic' = ptpanic
    BY <1>3 DEF PtPut
  <2>2. k \in Messages /\ Tail(ptfree) \in Seq(1..PtNodes)
    <3>1. Head(ptfree) \in 1..PtNodes /\ Tail(ptfree) \in Seq(1..PtNodes)
      BY <1>1, <1>3, HeadAndTail, Zenon
    <3>2. QED BY <3>1 DEF Messages
  <2>3. s \in SemRecords(PtProcs) BY <1>1, VSem
  <2>4. NodesConserved' BY <1>3, <2>1, PutNode
  <2> HIDE DEF k, s
  <2>5. Append(ptqueue[q], k) \in Seq(Messages) BY <1>1, <2>2
  <2>6. ptqueue' \in [PortIds -> Seq(Messages)] /\ ptrsem' \in [PortIds -> SemRecords(PtProcs)]
    BY <1>1, <2>1, <2>3, <2>5
  <2>7. QED BY <1>1, <2>1, <2>2, <2>4, <2>6
<1>4. QED BY <1>2, <1>3

LEMMA TakeMoves ==
    ASSUME PtTypeOK, NodesConserved, NEW q \in PortIds, ptqueue[q] # << >>, PtTake(q)
    PROVE  /\ ptfree' \in Seq(1..PtNodes) /\ ptqueue' \in [PortIds -> Seq(Messages)]
           /\ ptssem' \in [PortIds -> SemRecords(PtProcs)] /\ NodesConserved'
           /\ \A r \in PortIds \ {q} : ptqueue'[r] = ptqueue[r] /\ ptssem'[r] = ptssem[r]
<1>1. /\ ptfree \in Seq(1..PtNodes) /\ ptqueue \in [PortIds -> Seq(Messages)]
      /\ ptssem \in [PortIds -> SemRecords(PtProcs)]
  BY DEF PtTypeOK, Messages
<1>2. V(ptssem[q]) \in SemRecords(PtProcs) BY <1>1, VSem
<1>3. Head(ptqueue[q]).node \in 1..PtNodes /\ Tail(ptqueue[q]) \in Seq(Messages)
  <2>1. Head(ptqueue[q]) \in Messages /\ Tail(ptqueue[q]) \in Seq(Messages) BY <1>1
  <2>2. QED BY <2>1 DEF Messages
<1>4. <<Head(ptqueue[q]).node>> \o ptfree \in Seq(1..PtNodes) BY <1>1, <1>3
<1>5. NodesConserved' BY TakeNode
<1>6. /\ ptqueue' \in [PortIds -> Seq(Messages)] /\ ptfree' \in Seq(1..PtNodes)
      /\ ptssem' \in [PortIds -> SemRecords(PtProcs)]
  BY <1>1, <1>2, <1>3, <1>4 DEF PtTake
<1>7. \A r \in PortIds \ {q} : ptqueue'[r] = ptqueue[r] /\ ptssem'[r] = ptssem[r]
  BY <1>1 DEF PtTake
<1>8. QED BY <1>5, <1>6, <1>7

\* All ports but q are as they were.
LEMMA Others ==
    ASSUME \A r \in PortIds : Port(r), NEW q, \A r \in PortIds \ {q} : SamePort(r),
           ~ptpanic' => ~ptpanic, NEW p \in PtProcs,
           \A x \in PtProcs : x # p => ptpc'[x] = ptpc[x],
           ptpc'[p].op = "idle" \/ ptpc'[p].port = q,
           ptpc[p].op = "idle" \/ ptpc[p].port = q, Port(q)'
    PROVE  \A r \in PortIds : Port(r)'
<1> SUFFICES ASSUME NEW r \in PortIds, r # q PROVE Port(r)'
  OBVIOUS
<1>1. Elsewhere(p, r) BY DEF Elsewhere
<1>2. ptpc'[p].op = "idle" \/ ptpc'[p].port # r OBVIOUS
<1>3. QED BY <1>1, <1>2, PortFrame

LEMMA NotSame ==
    ASSUME NEW q, NEW p \in PtProcs, Port(q), ptseq[q] \in Nat, ptpc[p].op \in {"send", "recv"},
           ptpc[p].seq \in Nat, ptpc[p].port = q, ~PtSame(q, ptpc[p].seq)
    PROVE  Elsewhere(p, q)
<1>1. ptstate[q] # "PT_ALLOC" => ptpc[p].seq < ptseq[q] BY DEF Port, Past
<1>2. QED BY <1>1 DEF PtSame, Elsewhere
-----------------------------------------------------------------------------
\* ptsend and ptrecv.
LEMMA IdlePcs ==
    ASSUME PtTypeOK, NEW p \in PtProcs, NEW k \in PtRests, PtGo(p, k)
    PROVE  /\ ptpc' \in [PtProcs -> PtRests] /\ ptpc'[p] = k
           /\ \A x \in PtProcs : x # p => ptpc'[x] = ptpc[x]
  BY DEF PtTypeOK, PtGo

LEMMA IdleRest == PtIdle \in PtRests /\ PtIdle.op = "idle"
<1>1. 0 \in PortIds BY PtSizesAssumption DEF PortIds
<1>2. QED BY <1>1 DEF PtIdle, PtRests, PtArgs

LEMMA NotCalling ==
    ASSUME NEW p, ptpc[p].op = "idle", NEW q, NEW op \in {"send", "recv"}
    PROVE  p \notin Callers(q, op)
  BY DEF Callers

LEMMA SendInv ==
    ASSUME PtInv, NEW p \in PtProcs, NEW q \in PortIds, NEW m \in PtMsgs, ptsend(p, q, m)
    PROVE  PtInv'
<1> DEFINE CS == Callers(q, "send")
           s == ptssem[q]
<1>1. /\ PtTypeOK /\ NodesConserved /\ Port(q) /\ Open(q) /\ ~ptpanic
      /\ ptstate[q] = "PT_ALLOC" /\ s # NoSem /\ ptpc[p].op = "idle" /\ m \in PtArgs
      /\ UNCHANGED <<ptstate, ptseq, ptmaxcnt, ptnextid, ptsems, ptkilled, ptlost>>
      /\ ptssem' = [ptssem EXCEPT ![q] = P(s, p)]
  BY DEF PtInv, Port, ptsend, PtIn, PtArgs
<1>2. s \in SemRecords(PtProcs) /\ IsFiniteSet(CS) /\ ptseq[q] \in Nat
  BY <1>1, PtTypes, CallersFinite
<1>3. Serving(s, CS) BY <1>1, ServesIs DEF Open
<1>4. P(s, p) \in SemRecords(PtProcs) BY <1>2, PSem
<1>5. /\ ptssem' \in [PortIds -> SemRecords(PtProcs)] /\ ptssem'[q] = P(s, p)
      /\ \A r \in PortIds \ {q} : ptssem'[r] = ptssem[r]
  BY <1>1, <1>4 DEF PtTypeOK
<1> HIDE DEF s
<1>6. CASE Passes(s) /\ PtPut(q, m) /\ UNCHANGED ptpc
  <2>1. /\ ptfree' \in Seq(1..PtNodes) /\ ptqueue' \in [PortIds -> Seq(Messages)]
        /\ ptrsem' \in [PortIds -> SemRecords(PtProcs)] /\ ptpanic' \in BOOLEAN
        /\ NodesConserved' /\ (~ptpanic' => ~ptpanic)
        /\ \A r \in PortIds \ {q} : ptqueue'[r] = ptqueue[r] /\ ptrsem'[r] = ptrsem[r]
    BY <1>1, <1>6, PutMoves
  <2>2. PtTypeOK' BY <1>1, <1>5, <1>6, <2>1 DEF PtTypeOK, Messages
  <2>3. \A op : Callers(q, op)' = Callers(q, op) BY <1>1, <1>6 DEF Callers, PtSame
  <2>4. Serving(P(s, p), CS) /\ Taken(P(s, p), CS) = Taken(s, CS) - 1
    BY <1>2, <1>3, <1>6, TakenPass
  <2>5. /\ Serving(ptssem'[q], Callers(q, "send")')
        /\ Taken(ptssem'[q], Callers(q, "send")') = Taken(ptssem[q], Callers(q, "send")) - 1
    BY <1>5, <2>3, <2>4 DEF s
  <2>6. Open(q)' BY <1>1, <1>6, <2>3, <2>5, PutOpen DEF s
  <2>7. Port(q)' BY <1>1, <1>6, <2>6, OpenPort DEF PtClearOps
  <2>8. \A r \in PortIds \ {q} : SamePort(r) BY <1>1, <1>5, <2>1 DEF SamePort
  <2>9. \A r \in PortIds : Port(r) BY DEF PtInv
  <2>10. \A r \in PortIds : Port(r)' BY <1>1, <1>6, <2>1, <2>7, <2>8, <2>9, Others
  <2>11. QED BY <2>1, <2>2, <2>10 DEF PtInv
<1>7. CASE /\ ~Passes(s) /\ PtGo(p, PtAt("send", q, ptseq[q], m))
           /\ UNCHANGED <<ptfree, ptqueue, ptrsem, ptpanic>>
  <2> DEFINE k == PtAt("send", q, ptseq[q], m)
  <2>1. k \in PtRests /\ k.op = "send" /\ k.port = q /\ k.seq = ptseq[q]
    BY <1>1, <1>2 DEF PtAt, PtRests
  <2>2. PtGo(p, k) BY <1>7
  <2> HIDE DEF k
  <2>3. /\ ptpc' \in [PtProcs -> PtRests] /\ ptpc'[p] = k
        /\ \A x \in PtProcs : x # p => ptpc'[x] = ptpc[x]
    BY <1>1, <2>1, <2>2, IdlePcs
  <2>4. PtTypeOK' BY <1>1, <1>5, <1>7, <2>3 DEF PtTypeOK
  <2>5. p \notin Callers(q, "send") /\ p \notin Callers(q, "recv") BY <1>1, NotCalling
  <2>6. ptpc' = [ptpc EXCEPT ![p] = k] BY <2>2 DEF PtGo
  <2>7. Callers(q, "send")' = CS \cup {p}
    <3>1. PtSame(q, k.seq) BY <1>1, <2>1 DEF PtSame
    <3>2. ptstate'[q] = ptstate[q] /\ ptseq'[q] = ptseq[q] BY <1>1
    <3>3. QED BY <1>1, <2>1, <2>6, <3>1, <3>2, CallersAfter, Zenon
  <2>8. Callers(q, "recv")' = Callers(q, "recv")
    <3>1. Callers(q, "recv")' = Callers(q, "recv") \ {p}
      BY <1>1, <2>1, <2>6, CallersAfter
    <3>2. QED BY <2>5, <3>1
  <2>9. Serving(P(s, p), CS \cup {p}) /\ Taken(P(s, p), CS \cup {p}) = Taken(s, CS)
    BY <1>2, <1>3, <1>7, <2>5, TakenBlock
  <2>10. Serves(ptssem'[q], Callers(q, "send")') /\ ptssem'[q] # NoSem
    BY <1>5, <2>7, <2>9, ServesIs
  <2>11. Taken(ptssem'[q], Callers(q, "send")') = Taken(ptssem[q], Callers(q, "send"))
    BY <1>5, <2>7, <2>9 DEF s
  <2> HIDE DEF CS
  <2>12. Open(q)'
    <3>1. Counted(q)' BY <1>1, <1>7, <2>8, <2>11 DEF Open, Counted, s
    <3>2. QED BY <1>1, <1>7, <2>8, <2>10, <3>1 DEF Open, Paired
  <2>13. Port(q)' BY <1>1, <2>1, <2>3, <2>12, OpenPort DEF PtClearOps
  <2>14. \A r \in PortIds \ {q} : SamePort(r) BY <1>1, <1>5, <1>7 DEF SamePort
  <2>15. \A r \in PortIds : Port(r) BY DEF PtInv
  <2>16. \A r \in PortIds : Port(r)' BY <1>1, <1>7, <2>1, <2>3, <2>13, <2>14, <2>15, Others
  <2>17. NodesConserved' BY <1>1, <1>7, NodesSame
  <2>18. QED BY <2>4, <2>16, <2>17 DEF PtInv
<1>8. QED BY <1>6, <1>7 DEF ptsend, s

\* A process in a call that is over, or that was for an earlier port, touches
\* no port when it goes on.
LEMMA StaleInv ==
    ASSUME PtInv, NEW p \in PtProcs, ptpc[p].op \in {"send", "recv"},
           ~PtSame(ptpc[p].port, ptpc[p].seq), PtGo(p, PtIdle),
           UNCHANGED <<ptstate, ptseq, ptmaxcnt, ptssem, ptrsem, ptqueue, ptfree, ptnextid,
                       ptsems, ptpanic, ptlost>>,
           ptkilled' \in Nat
    PROVE  PtInv'
<1> DEFINE q == ptpc[p].port
<1>1. PtTypeOK /\ NodesConserved /\ \A r \in PortIds : Port(r) BY DEF PtInv
<1>2. q \in PortIds /\ ptpc[p].seq \in Nat BY <1>1 DEF PtTypeOK, PtRests
<1>3. ptseq[q] \in Nat BY <1>1, <1>2, PtTypes
<1>4. Elsewhere(p, q) BY <1>1, <1>2, <1>3, NotSame
<1>5. /\ ptpc' \in [PtProcs -> PtRests] /\ ptpc'[p] = PtIdle /\ ptpc'[p].op = "idle"
      /\ \A x \in PtProcs : x # p => ptpc'[x] = ptpc[x]
  BY <1>1, IdleRest, IdlePcs
<1>6. PtTypeOK' BY <1>1, <1>5 DEF PtTypeOK
<1>7. NodesConserved' BY <1>1, NodesSame
<1>8. \A r \in PortIds : SamePort(r) BY DEF SamePort
<1>9. ASSUME NEW r \in PortIds PROVE Port(r)'
  <2>1. Elsewhere(p, r) BY <1>4 DEF Elsewhere
  <2>2. QED BY <1>1, <1>5, <1>8, <2>1, PortFrame
<1>10. QED BY <1>6, <1>7, <1>9 DEF PtInv

LEMMA SendRestInv ==
    ASSUME PtInv, NEW p \in PtProcs, ptsendRest(p)
    PROVE  PtInv'
<1>1. PtTypeOK /\ NodesConserved /\ \A r \in PortIds : Port(r) BY DEF PtInv
<1>2. PICK q \in PortIds, m \in PtArgs : q = ptpc[p].port /\ m = ptpc[p].arg
  BY <1>1 DEF PtTypeOK, PtRests
<1> DEFINE CS == Callers(q, "send")
           s == ptssem[q]
<1>3. ptpc[p].port = q /\ ptpc[p].op = "send" /\ ~ptpanic /\ ~Waits(s, p)
  BY <1>2 DEF ptsendRest, PtIn, PtBlocked
<1>4. /\ UNCHANGED <<ptstate, ptseq, ptmaxcnt, ptssem, ptnextid, ptsems, ptkilled, ptlost>>
      /\ PtGo(p, PtIdle)
  BY DEF ptsendRest
<1>5. /\ ptpc' \in [PtProcs -> PtRests] /\ ptpc'[p] = PtIdle /\ ptpc'[p].op = "idle"
      /\ \A x \in PtProcs : x # p => ptpc'[x] = ptpc[x]
  BY <1>1, <1>4, IdleRest, IdlePcs
<1>6. CASE ~PtSame(q, ptpc[p].seq) /\ UNCHANGED <<ptfree, ptqueue, ptrsem, ptpanic>>
  <2>1. ptkilled' \in Nat BY <1>1, <1>4 DEF PtTypeOK
  <2>2. QED BY <1>3, <1>4, <1>6, <2>1, StaleInv
<1>7. CASE PtSame(q, ptpc[p].seq) /\ PtPut(q, m)
  <2>1. p \in CS BY <1>3, <1>7 DEF Callers
  <2> HIDE DEF s
  <2>2. /\ ptfree' \in Seq(1..PtNodes) /\ ptqueue' \in [PortIds -> Seq(Messages)]
        /\ ptrsem' \in [PortIds -> SemRecords(PtProcs)] /\ ptpanic' \in BOOLEAN
        /\ NodesConserved' /\ (~ptpanic' => ~ptpanic)
        /\ \A r \in PortIds \ {q} : ptqueue'[r] = ptqueue[r] /\ ptrsem'[r] = ptrsem[r]
    BY <1>1, <1>3, <1>7, PutMoves
  <2>3. PtTypeOK' BY <1>1, <1>4, <1>5, <2>2 DEF PtTypeOK, Messages
  <2>4. ptpc' = [ptpc EXCEPT ![p] = PtIdle] /\ ptstate'[q] = ptstate[q] /\ ptseq'[q] = ptseq[q]
    BY <1>4 DEF PtGo
  <2>5. Callers(q, "send")' = CS \ {p} /\ Callers(q, "recv")' = Callers(q, "recv") \ {p}
    BY <1>1, <2>4, IdleRest, CallersAfter, Zenon
  <2>6. p \notin Callers(q, "recv") BY <1>3 DEF Callers
  <2>7. Callers(q, "recv")' = Callers(q, "recv") BY <2>5, <2>6
  <2>8. /\ Port(q) /\ Open(q) /\ ptstate[q] = "PT_ALLOC" /\ Serves(s, CS)
    BY <1>1, <1>3, <1>7 DEF Port, Open, PtSame, s
  <2>9. s # NoSem /\ Serving(s, CS) BY <2>1, <2>8, ServesIs DEF Serves
  <2>10. s \in SemRecords(PtProcs) /\ IsFiniteSet(CS)
    BY <1>1, <1>3, PtTypes, CallersFinite DEF s
  <2>11. Serving(s, CS \ {p}) /\ Taken(s, CS \ {p}) = Taken(s, CS) - 1
    BY <1>3, <2>1, <2>9, <2>10, TakenGone
  <2>12. ptssem'[q] = s /\ ptssem[q] = s BY <1>4 DEF s
  <2>13. /\ Serving(ptssem'[q], Callers(q, "send")')
         /\ Taken(ptssem'[q], Callers(q, "send")') = Taken(ptssem[q], Callers(q, "send")) - 1
    BY <2>5, <2>11, <2>12
  <2>14. ptmaxcnt'[q] = ptmaxcnt[q] /\ ptlost'[q] = ptlost[q] BY <1>4
  <2>15. Open(q)'
    BY <1>1, <1>3, <1>7, <2>7, <2>8, <2>9, <2>12, <2>13, <2>14, PutOpen
  <2>16. Port(q)' BY <1>1, <1>3, <1>5, <2>4, <2>8, <2>15, OpenPort DEF PtClearOps
  <2>17. \A r \in PortIds \ {q} : SamePort(r) BY <1>4, <2>2 DEF SamePort
  <2>18. \A r \in PortIds : Port(r)' BY <1>1, <1>5, <2>2, <1>3, <2>16, <2>17, Others
  <2>19. QED BY <2>2, <2>3, <2>18 DEF PtInv
<1>8. QED BY <1>2, <1>6, <1>7 DEF ptsendRest

LEMMA RecvInv ==
    ASSUME PtInv, NEW p \in PtProcs, NEW q \in PortIds, ptrecv(p, q)
    PROVE  PtInv'
<1> DEFINE CR == Callers(q, "recv")
           s == ptrsem[q]
<1>1. /\ PtTypeOK /\ NodesConserved /\ Port(q) /\ Open(q) /\ ~ptpanic
      /\ ptstate[q] = "PT_ALLOC" /\ s # NoSem /\ ptpc[p].op = "idle"
      /\ UNCHANGED <<ptstate, ptseq, ptmaxcnt, ptnextid, ptsems, ptpanic, ptkilled, ptlost>>
      /\ ptrsem' = [ptrsem EXCEPT ![q] = P(s, p)]
  BY DEF PtInv, Port, ptrecv, PtIn
<1>2. s \in SemRecords(PtProcs) /\ IsFiniteSet(CR) /\ ptseq[q] \in Nat
  BY <1>1, PtTypes, CallersFinite
<1>3. Serving(s, CR) BY <1>1, ServesIs DEF Open
<1>4. P(s, p) \in SemRecords(PtProcs) BY <1>2, PSem
<1>5. /\ ptrsem' \in [PortIds -> SemRecords(PtProcs)] /\ ptrsem'[q] = P(s, p)
      /\ \A r \in PortIds \ {q} : ptrsem'[r] = ptrsem[r]
  BY <1>1, <1>4 DEF PtTypeOK
<1> HIDE DEF s
<1>6. CASE Passes(s) /\ PtTake(q) /\ UNCHANGED ptpc
  <2>1. ptqueue[q] # << >>
    <3>1. ptrsem[q].val > 0 /\ ptrsem[q] # NoSem BY <1>1, <1>6 DEF Passes, s
    <3>2. QED BY <1>1, <3>1, MessageThere
  <2>2. /\ ptfree' \in Seq(1..PtNodes) /\ ptqueue' \in [PortIds -> Seq(Messages)]
        /\ ptssem' \in [PortIds -> SemRecords(PtProcs)] /\ NodesConserved'
        /\ \A r \in PortIds \ {q} : ptqueue'[r] = ptqueue[r] /\ ptssem'[r] = ptssem[r]
    BY <1>1, <1>6, <2>1, TakeMoves
  <2>3. PtTypeOK' BY <1>1, <1>5, <1>6, <2>2 DEF PtTypeOK, Messages
  <2>4. \A op : Callers(q, op)' = Callers(q, op) BY <1>1, <1>6 DEF Callers, PtSame
  <2>5. Serving(P(s, p), CR) /\ Taken(P(s, p), CR) = Taken(s, CR) - 1
    BY <1>2, <1>3, <1>6, TakenPass
  <2>6. /\ Serving(ptrsem'[q], Callers(q, "recv")')
        /\ Taken(ptrsem'[q], Callers(q, "recv")') = Taken(ptrsem[q], Callers(q, "recv")) - 1
    BY <1>5, <2>4, <2>5 DEF s
  <2>7. Open(q)' BY <1>1, <1>6, <2>1, <2>4, <2>6, TakeOpen DEF s
  <2>8. Port(q)' BY <1>1, <1>6, <2>7, OpenPort DEF PtClearOps
  <2>9. \A r \in PortIds \ {q} : SamePort(r) BY <1>1, <1>5, <2>2 DEF SamePort
  <2>10. \A r \in PortIds : Port(r) BY DEF PtInv
  <2>11. \A r \in PortIds : Port(r)' BY <1>1, <1>6, <2>8, <2>9, <2>10, Others
  <2>12. QED BY <2>2, <2>3, <2>11 DEF PtInv
<1>7. CASE /\ ~Passes(s) /\ PtGo(p, PtAt("recv", q, ptseq[q], 0))
           /\ UNCHANGED <<ptfree, ptqueue, ptssem>>
  <2> DEFINE k == PtAt("recv", q, ptseq[q], 0)
  <2>1. k \in PtRests /\ k.op = "recv" /\ k.port = q /\ k.seq = ptseq[q]
    BY <1>1, <1>2 DEF PtAt, PtRests, PtArgs
  <2>2. PtGo(p, k) BY <1>7
  <2> HIDE DEF k
  <2>3. /\ ptpc' \in [PtProcs -> PtRests] /\ ptpc'[p] = k
        /\ \A x \in PtProcs : x # p => ptpc'[x] = ptpc[x]
    BY <1>1, <2>1, <2>2, IdlePcs
  <2>4. PtTypeOK' BY <1>1, <1>5, <1>7, <2>3 DEF PtTypeOK
  <2>5. p \notin Callers(q, "send") /\ p \notin Callers(q, "recv") BY <1>1, NotCalling
  <2>6. ptpc' = [ptpc EXCEPT ![p] = k] /\ ptstate'[q] = ptstate[q] /\ ptseq'[q] = ptseq[q]
    BY <1>1, <2>2 DEF PtGo
  <2>7. Callers(q, "recv")' = CR \cup {p}
    <3>1. PtSame(q, k.seq) BY <1>1, <2>1 DEF PtSame
    <3>2. QED BY <1>1, <2>1, <2>6, <3>1, CallersAfter, Zenon
  <2>8. Callers(q, "send")' = Callers(q, "send")
    <3>1. Callers(q, "send")' = Callers(q, "send") \ {p}
      BY <1>1, <2>1, <2>6, CallersAfter
    <3>2. QED BY <2>5, <3>1
  <2>9. Serving(P(s, p), CR \cup {p}) /\ Taken(P(s, p), CR \cup {p}) = Taken(s, CR)
    BY <1>2, <1>3, <1>7, <2>5, TakenBlock
  <2>10. Serves(ptrsem'[q], Callers(q, "recv")') /\ ptrsem'[q] # NoSem
    BY <1>5, <2>7, <2>9, ServesIs
  <2>11. Taken(ptrsem'[q], Callers(q, "recv")') = Taken(ptrsem[q], Callers(q, "recv"))
    BY <1>5, <2>7, <2>9 DEF s
  <2> HIDE DEF CR
  <2>12. Open(q)'
    <3>1. Counted(q)' BY <1>1, <1>7, <2>8, <2>11 DEF Open, Counted, s
    <3>2. ptssem[q] # NoSem BY <1>1 DEF Open, Paired, s
    <3>3. QED BY <1>1, <1>7, <2>8, <2>10, <3>1, <3>2 DEF Open, Paired
  <2>13. Port(q)' BY <1>1, <2>1, <2>3, <2>12, OpenPort DEF PtClearOps
  <2>14. \A r \in PortIds \ {q} : SamePort(r) BY <1>1, <1>5, <1>7 DEF SamePort
  <2>15. \A r \in PortIds : Port(r) BY DEF PtInv
  <2>16. \A r \in PortIds : Port(r)' BY <1>1, <1>7, <2>1, <2>3, <2>13, <2>14, <2>15, Others
  <2>17. NodesConserved' BY <1>1, <1>7, NodesSame
  <2>18. QED BY <2>4, <2>16, <2>17 DEF PtInv
<1>8. QED BY <1>6, <1>7 DEF ptrecv, s

LEMMA RecvRestInv ==
    ASSUME PtInv, NEW p \in PtProcs, ptrecvRest(p)
    PROVE  PtInv'
<1>1. PtTypeOK /\ NodesConserved /\ \A r \in PortIds : Port(r) BY DEF PtInv
<1>2. PICK q \in PortIds : q = ptpc[p].port BY <1>1 DEF PtTypeOK, PtRests
<1> DEFINE CR == Callers(q, "recv")
           s == ptrsem[q]
<1>3. ptpc[p].port = q /\ ptpc[p].op = "recv" /\ ~ptpanic /\ ~Waits(s, p)
  BY <1>2 DEF ptrecvRest, PtIn, PtBlocked
<1>4. /\ UNCHANGED <<ptstate, ptseq, ptmaxcnt, ptrsem, ptnextid, ptsems, ptpanic, ptkilled,
                     ptlost>>
      /\ PtGo(p, PtIdle)
  BY DEF ptrecvRest
<1>5. /\ ptpc' \in [PtProcs -> PtRests] /\ ptpc'[p] = PtIdle /\ ptpc'[p].op = "idle"
      /\ \A x \in PtProcs : x # p => ptpc'[x] = ptpc[x]
  BY <1>1, <1>4, IdleRest, IdlePcs
<1>6. CASE ~PtSame(q, ptpc[p].seq) /\ UNCHANGED <<ptfree, ptqueue, ptssem>>
  <2>1. ptkilled' \in Nat BY <1>1, <1>4 DEF PtTypeOK
  <2>2. QED BY <1>3, <1>4, <1>6, <2>1, StaleInv
<1>7. CASE PtSame(q, ptpc[p].seq) /\ PtTake(q)
  <2>1. p \in CR BY <1>3, <1>7 DEF Callers
  <2>2. ~Waits(ptrsem[q], p) BY <1>3
  <2> HIDE DEF s
  <2>3. /\ Port(q) /\ Open(q) /\ ptstate[q] = "PT_ALLOC" /\ Serves(s, CR)
    BY <1>1, <1>3, <1>7 DEF Port, Open, PtSame, s
  <2>4. s # NoSem /\ Serving(s, CR) BY <2>1, <2>3, ServesIs DEF Serves
  <2>5. s \in SemRecords(PtProcs) /\ IsFiniteSet(CR)
    BY <1>1, <1>3, PtTypes, CallersFinite DEF s
  <2>6. ptqueue[q] # << >>
    <3>1. \E x \in Callers(q, "recv") : ~Waits(ptrsem[q], x) BY <2>1, <2>2
    <3>2. QED BY <1>1, <1>3, <2>3, <2>4, <3>1, MessageThere DEF s
  <2>7. /\ ptfree' \in Seq(1..PtNodes) /\ ptqueue' \in [PortIds -> Seq(Messages)]
        /\ ptssem' \in [PortIds -> SemRecords(PtProcs)] /\ NodesConserved'
        /\ \A r \in PortIds \ {q} : ptqueue'[r] = ptqueue[r] /\ ptssem'[r] = ptssem[r]
    BY <1>1, <1>3, <1>7, <2>6, TakeMoves
  <2>8. PtTypeOK' BY <1>1, <1>4, <1>5, <2>7 DEF PtTypeOK, Messages
  <2>9. ptpc' = [ptpc EXCEPT ![p] = PtIdle] /\ ptstate'[q] = ptstate[q] /\ ptseq'[q] = ptseq[q]
    BY <1>4 DEF PtGo
  <2>10. Callers(q, "recv")' = CR \ {p} /\ Callers(q, "send")' = Callers(q, "send") \ {p}
    BY <1>1, <2>9, IdleRest, CallersAfter, Zenon
  <2>11. p \notin Callers(q, "send") BY <1>3 DEF Callers
  <2>12. Callers(q, "send")' = Callers(q, "send") BY <2>10, <2>11
  <2>13. Serving(s, CR \ {p}) /\ Taken(s, CR \ {p}) = Taken(s, CR) - 1
    BY <1>3, <2>1, <2>4, <2>5, TakenGone
  <2>14. ptrsem'[q] = s /\ ptrsem[q] = s BY <1>4 DEF s
  <2>15. /\ Serving(ptrsem'[q], Callers(q, "recv")')
         /\ Taken(ptrsem'[q], Callers(q, "recv")') = Taken(ptrsem[q], Callers(q, "recv")) - 1
    BY <2>10, <2>13, <2>14
  <2>16. ptmaxcnt'[q] = ptmaxcnt[q] /\ ptlost'[q] = ptlost[q] /\ UNCHANGED ptpanic BY <1>4
  <2>17. Open(q)'
    BY <1>1, <1>3, <1>7, <2>3, <2>4, <2>6, <2>12, <2>14, <2>15, <2>16, TakeOpen
  <2>18. Port(q)' BY <1>1, <1>3, <1>5, <2>3, <2>9, <2>17, OpenPort DEF PtClearOps
  <2>19. \A r \in PortIds \ {q} : SamePort(r) BY <1>4, <2>7 DEF SamePort
  <2>20. \A r \in PortIds : Port(r)' BY <1>1, <1>4, <1>5, <1>3, <2>18, <2>19, Others
  <2>21. QED BY <2>7, <2>8, <2>20 DEF PtInv
<1>8. QED BY <1>2, <1>6, <1>7 DEF ptrecvRest
-----------------------------------------------------------------------------
\* kill.
LEMMA LeaveSound ==
    ASSUME NEW S, NEW s \in SemRecords(S), Sound(s), NEW p
    PROVE  /\ Leave(s, p) \in SemRecords(S) /\ Sound(Leave(s, p))
           /\ ~Waits(s, p) => Leave(s, p) = s
           /\ s = NoSem => Leave(s, p) = NoSem /\ ~Waits(s, p)
           /\ s # NoSem => Leave(s, p) # NoSem
           /\ \A n : s = SemNew(n) => Leave(s, p) = s
<1>1. ~Waits(s, p) => Leave(s, p) = s BY DEF Leave
<1>2. s.queue = << >> => ~Waits(s, p) BY DEF Waits, OnQueue
<1>3. CASE s = NoSem
  <2>1. s.queue = << >> BY <1>3 DEF NoSem
  <2>2. QED BY <1>1, <1>2, <1>3, <2>1 DEF Sound
<1>4. CASE s # NoSem
  <2>1. s.val \in Nat /\ NoDup(s.queue) BY <1>4 DEF Sound
  <2>2. /\ Leave(s, p) \in SemRecords(S) /\ Leave(s, p).val = s.val
        /\ NoDup(Leave(s, p).queue)
    BY <2>1, LeaveSem
  <2>3. Leave(s, p) # NoSem BY <2>1, <2>2 DEF NoSem
  <2>4. \A n : SemNew(n).queue = << >> BY DEF SemNew
  <2>5. QED BY <1>1, <1>2, <1>4, <2>1, <2>2, <2>3, <2>4 DEF Sound
<1>5. QED BY <1>3, <1>4

\* A semaphore of an allocated port that p does not use.
LEMMA NotWaiting ==
    ASSUME NEW s, NEW C, Serves(s, C), NEW p, p \notin C
    PROVE  ~Waits(s, p)
<1>1. CASE s = NoSem BY <1>1 DEF NoSem, Waits, OnQueue
<1>2. CASE s # NoSem BY <1>2, ServesIs, ServingWaits
<1>3. QED BY <1>1, <1>2

\* Whoever is killed in send or receive leaves its place, or takes its permit
\* along.
Gone(s, C, p, lost) ==
    /\ Serves(Leave(s, p), C \ {p}) /\ Leave(s, p) # NoSem
    /\ lost \in Nat
    /\ Taken(Leave(s, p), C \ {p}) + lost = Taken(s, C)
    /\ lost = IF Waits(s, p) THEN 0 ELSE 1
LEMMA KillTakes ==
    ASSUME NEW S, NEW s \in SemRecords(S), NEW C, IsFiniteSet(C), Serves(s, C),
           NEW p \in C
    PROVE  \E lost \in Nat : Gone(s, C, p, lost)
<1>1. Serving(s, C) /\ s # NoSem BY ServesIs DEF Serves
<1>2. s.val \in Nat /\ NoDup(s.queue) BY <1>1 DEF Serving
<1>3. Leave(s, p) # NoSem /\ (~Waits(s, p) => Leave(s, p) = s)
  BY <1>1, <1>2, LeaveSound DEF Sound
<1>4. Taken(s, C) \in Int BY TakenInt
<1>5. CASE Waits(s, p)
  <2>1. Serving(Leave(s, p), C \ {p}) /\ Taken(Leave(s, p), C \ {p}) = Taken(s, C)
    BY <1>1, <1>5, TakenLeave
  <2>2. Serves(Leave(s, p), C \ {p}) BY <2>1, ServesIs
  <2>3. Taken(Leave(s, p), C \ {p}) + 0 = Taken(s, C) BY <1>4, <2>1
  <2>4. Gone(s, C, p, 0) BY <1>3, <1>5, <2>2, <2>3 DEF Gone
  <2>5. QED BY <2>4
<1>6. CASE ~Waits(s, p)
  <2>1. Serving(s, C \ {p}) /\ Taken(s, C \ {p}) = Taken(s, C) - 1
    BY <1>1, <1>6, TakenGone
  <2>2. Leave(s, p) = s BY <1>3, <1>6
  <2>3. Serves(Leave(s, p), C \ {p}) BY <2>1, <2>2, ServesIs
  <2>4. Taken(Leave(s, p), C \ {p}) + 1 = Taken(s, C) BY <1>4, <2>1, <2>2
  <2>5. Gone(s, C, p, 1) BY <1>3, <1>6, <2>3, <2>4 DEF Gone
  <2>6. QED BY <2>5
<1>7. QED BY <1>5, <1>6

LEMMA KillInv ==
    ASSUME PtInv, NEW p \in PtProcs, ptkill(p)
    PROVE  PtInv'
<1>1. PtTypeOK /\ NodesConserved /\ \A r \in PortIds : Port(r) BY DEF PtInv
<1>2. PICK q \in PortIds : q = ptpc[p].port BY <1>1 DEF PtTypeOK, PtRests
<1> DEFINE ss == ptssem[q]
           rs == ptrsem[q]
           same == PtSame(q, ptpc[p].seq)
           waits == Waits(ss, p) \/ Waits(rs, p)
<1>3. /\ UNCHANGED <<ptstate, ptseq, ptmaxcnt, ptqueue, ptfree, ptnextid, ptsems, ptpanic>>
      /\ ptkilled' = ptkilled + 1 /\ PtGo(p, PtIdle) /\ ~ptpanic /\ ptpc[p].op # "idle"
      /\ ptssem' = [ptssem EXCEPT ![q] = Leave(ss, p)]
      /\ ptrsem' = [ptrsem EXCEPT ![q] = Leave(rs, p)]
      /\ ptlost' = IF waits \/ ~same THEN ptlost
                   ELSE IF ptpc[p].op = "send" THEN [ptlost EXCEPT ![q].s = @ + 1]
                   ELSE IF ptpc[p].op = "recv" THEN [ptlost EXCEPT ![q].r = @ + 1]
                   ELSE ptlost
  BY <1>2 DEF ptkill, PtBlocked
<1>4. /\ Port(q) /\ ss \in SemRecords(PtProcs) /\ rs \in SemRecords(PtProcs)
      /\ Sound(ss) /\ Sound(rs) /\ ptseq[q] \in Nat /\ ptpc[p].seq \in Nat
  BY <1>1, PtTypes DEF Port, PtTypeOK, PtRests
<1>5. /\ ptpc' \in [PtProcs -> PtRests] /\ ptpc'[p] = PtIdle /\ ptpc'[p].op = "idle"
      /\ \A x \in PtProcs : x # p => ptpc'[x] = ptpc[x]
  BY <1>1, <1>3, IdleRest, IdlePcs
<1>6. Leave(ss, p) \in SemRecords(PtProcs) /\ Leave(rs, p) \in SemRecords(PtProcs)
  BY <1>4, LeaveSound
<1>7. ptlost' \in [PortIds -> [s : Nat, r : Nat]]
      /\ \A r \in PortIds \ {q} : ptlost'[r] = ptlost[r]
  <2>1. ptlost \in [PortIds -> [s : Nat, r : Nat]] BY <1>1 DEF PtTypeOK
  <2>2. [ptlost EXCEPT ![q].s = @ + 1] \in [PortIds -> [s : Nat, r : Nat]] BY <2>1
  <2>3. [ptlost EXCEPT ![q].r = @ + 1] \in [PortIds -> [s : Nat, r : Nat]] BY <2>1
  <2>4. \A r \in PortIds \ {q} : [ptlost EXCEPT ![q].s = @ + 1][r] = ptlost[r]
                                 /\ [ptlost EXCEPT ![q].r = @ + 1][r] = ptlost[r]
    BY <2>1
  <2> HIDE DEF waits, same
  <2>5. QED BY <1>3, <2>1, <2>2, <2>3, <2>4
<1> HIDE DEF ss, rs, same, waits
<1>8. /\ ptssem' \in [PortIds -> SemRecords(PtProcs)] /\ ptssem'[q] = Leave(ss, p)
      /\ ptrsem' \in [PortIds -> SemRecords(PtProcs)] /\ ptrsem'[q] = Leave(rs, p)
      /\ \A r \in PortIds \ {q} : ptssem'[r] = ptssem[r] /\ ptrsem'[r] = ptrsem[r]
  BY <1>1, <1>3, <1>6 DEF PtTypeOK
<1>9. PtTypeOK'
  <2>1. UNCHANGED <<ptstate, ptseq, ptmaxcnt, ptqueue, ptfree, ptnextid, ptsems, ptpanic>>
    BY <1>3
  <2>2. ptkilled \in Nat /\ ptkilled' = ptkilled + 1 BY <1>1, <1>3 DEF PtTypeOK
  <2>3. ptkilled' \in Nat BY <2>2
  <2>4. QED BY <1>1, <1>5, <1>7, <1>8, <2>1, <2>3 DEF PtTypeOK
<1>10. NodesConserved' BY <1>1, <1>3, NodesSame
<1>11. \A r \in PortIds \ {q} : SamePort(r) BY <1>3, <1>7, <1>8 DEF SamePort
<1>12. Port(q)'
  <2>1. CASE ptstate[q] # "PT_ALLOC"
    <3>1. Open(q)' BY <1>3, <2>1 DEF Open
    <3>2. Closed(q)' BY <1>3, <1>4 DEF Port, Closed
    <3>3. Sound(ptssem'[q]) /\ Sound(ptrsem'[q]) BY <1>4, <1>8, LeaveSound
    <3>4. Paired(q) => Paired(q)' BY <1>4, <1>8, LeaveSound DEF Paired, ss, rs
    <3>5. \A x \in PtProcs : Clears(x, q)' => Clears(x, q) /\ ptpc'[x] = ptpc[x]
      BY <1>5 DEF Clears, PtClearOps
    <3>6. ptqueue'[q] = ptqueue[q] /\ ptmaxcnt'[q] = ptmaxcnt[q] /\ ptstate'[q] = ptstate[q]
      BY <1>3
    <3>7. \A n : ss \in {NoSem, SemNew(n)} => ptssem'[q] = ss BY <1>4, <1>8, LeaveSound
    <3>8. \A n : rs \in {NoSem, SemNew(n)} => ptrsem'[q] = rs BY <1>4, <1>8, LeaveSound
    <3>9. ASSUME NEW x \in PtProcs PROVE Clearing(x, q)'
      BY <1>4, <3>4, <3>5, <3>6, <3>7, <3>8 DEF Port, Clearing, ss, rs
    <3>10. ASSUME NEW x \in PtProcs PROVE Past(x, q)'
      <4>1. CASE x = p BY <1>5, <4>1 DEF Past
      <4>2. CASE x # p BY <1>3, <1>4, <1>5, <4>2 DEF Port, Past
      <4>3. QED BY <4>1, <4>2
    <3>11. QED BY <3>1, <3>2, <3>3, <3>9, <3>10 DEF Port
  <2>2. CASE ptstate[q] = "PT_ALLOC"
    <3>1. Serves(ss, Callers(q, "send")) /\ Serves(rs, Callers(q, "recv")) /\ Open(q)
      BY <1>4, <2>2 DEF Port, Open, ss, rs
    <3>2. ptpc[p].op \in {"send", "recv"}
      <4>1. ~Clears(p, q) BY <1>4, <2>2 DEF Port, Clearing
      <4>2. ptpc[p].op \in {"idle", "send", "recv"} \cup PtClearOps
        BY <1>1 DEF PtTypeOK, PtRests
      <4>3. QED BY <1>2, <1>3, <4>1, <4>2 DEF Clears
    <3>3. CASE ~same
      <4>1. Elsewhere(p, q) BY <1>2, <1>4, <3>2, <3>3, NotSame DEF same
      <4>2. p \notin Callers(q, "send") /\ p \notin Callers(q, "recv")
        BY <3>3 DEF Callers, same
      <4>3. Leave(ss, p) = ss /\ Leave(rs, p) = rs
        BY <1>4, <3>1, <4>2, NotWaiting, LeaveSound
      <4>4. ptlost' = ptlost BY <1>3, <3>3
      <4>5. SamePort(q) BY <1>3, <1>8, <4>3, <4>4 DEF SamePort, ss, rs
      <4>6. QED BY <1>3, <1>4, <1>5, <4>1, <4>5, PortFrame
    <3>4. CASE same
      <4>1. ptpc' = [ptpc EXCEPT ![p] = PtIdle] /\ ptstate'[q] = ptstate[q]
            /\ ptseq'[q] = ptseq[q]
        BY <1>3 DEF PtGo
      <4>2. /\ Callers(q, "send")' = Callers(q, "send") \ {p}
            /\ Callers(q, "recv")' = Callers(q, "recv") \ {p}
        BY <1>1, <4>1, IdleRest, CallersAfter, Zenon
      <4>3. /\ IsFiniteSet(Callers(q, "send")) /\ IsFiniteSet(Callers(q, "recv"))
            /\ ptlost \in [PortIds -> [s : Nat, r : Nat]]
            /\ ptlost[q].s \in Nat /\ ptlost[q].r \in Nat
            /\ ptmaxcnt[q] \in Nat /\ Len(ptqueue[q]) \in Nat
        <5>1. IsFiniteSet(Callers(q, "send")) /\ IsFiniteSet(Callers(q, "recv"))
          BY CallersFinite
        <5>2. /\ ptlost \in [PortIds -> [s : Nat, r : Nat]] /\ ptmaxcnt \in [PortIds -> Nat]
              /\ ptqueue \in [PortIds -> Seq(Messages)]
          BY <1>1 DEF PtTypeOK, Messages
        <5>3. QED BY <5>1, <5>2
      <4>4. Taken(ss, Callers(q, "send")) \in Int /\ Taken(rs, Callers(q, "recv")) \in Int
        BY <1>4, <4>3, TakenInt
      <4>5. ~ptpanic' /\ ptmaxcnt'[q] = ptmaxcnt[q] /\ ptqueue'[q] = ptqueue[q]
        BY <1>3
      <4>6. ASSUME ptpc[p].op = "send" PROVE Open(q)'
        <5>1. p \in Callers(q, "send") /\ p \notin Callers(q, "recv")
          BY <1>2, <3>4, <4>6 DEF Callers, same
        <5>2. PICK lost \in Nat : Gone(ss, Callers(q, "send"), p, lost)
          BY <1>4, <3>1, <4>3, <5>1, KillTakes
        <5>3. ~Waits(rs, p) /\ Leave(rs, p) = rs BY <1>4, <3>1, <5>1, NotWaiting, LeaveSound
        <5>4. waits <=> Waits(ss, p) BY <5>3 DEF waits
        <5>5. ptlost'[q].s = ptlost[q].s + lost /\ ptlost'[q].r = ptlost[q].r
          BY <1>3, <3>4, <4>3, <4>6, <5>2, <5>4 DEF Gone
        <5>6. Callers(q, "recv")' = Callers(q, "recv") BY <4>2, <5>1
        <5>7. /\ Serves(ptssem'[q], Callers(q, "send")') /\ ptssem'[q] # NoSem
              /\ Taken(ptssem'[q], Callers(q, "send")') + lost = Taken(ss, Callers(q, "send"))
          BY <1>8, <4>2, <5>2 DEF Gone
        <5>8. Taken(ptssem'[q], Callers(q, "send")') \in Int
          BY <1>6, <1>8, <4>2, <4>3, FS_Subset, TakenInt
        <5>9. ptrsem'[q] = rs BY <1>8, <5>3
        <5>10. ss # NoSem BY <3>1, <5>1 DEF Serves, Serving, NoSem
        <5>11. Counted(q)'
          <6>1. rs # NoSem =>
                  /\ Taken(ss, Callers(q, "send")) + Len(ptqueue[q]) + ptlost[q].s = ptmaxcnt[q]
                  /\ Taken(rs, Callers(q, "recv")) + ptlost[q].r = Len(ptqueue[q])
            BY <1>3, <2>2, <3>1, <5>10 DEF Open, Counted, ss, rs
          <6>2. rs # NoSem =>
                  Taken(ptssem'[q], Callers(q, "send")') + Len(ptqueue[q]) + ptlost'[q].s
                    = ptmaxcnt[q]
            BY <4>3, <4>4, <5>5, <5>7, <5>8, <6>1, SMTT(30)
          <6>3. QED BY <4>5, <5>5, <5>6, <5>9, <6>1, <6>2 DEF Counted
        <5>12. QED BY <3>1, <5>6, <5>7, <5>9, <5>11 DEF Open, Paired
      <4>7. ASSUME ptpc[p].op = "recv" PROVE Open(q)'
        <5>1. p \in Callers(q, "recv") /\ p \notin Callers(q, "send")
          BY <1>2, <3>4, <4>7 DEF Callers, same
        <5>2. PICK lost \in Nat : Gone(rs, Callers(q, "recv"), p, lost)
          BY <1>4, <3>1, <4>3, <5>1, KillTakes
        <5>3. ~Waits(ss, p) /\ Leave(ss, p) = ss BY <1>4, <3>1, <5>1, NotWaiting, LeaveSound
        <5>4. waits <=> Waits(rs, p) BY <5>3 DEF waits
        <5>5. ptlost'[q].r = ptlost[q].r + lost /\ ptlost'[q].s = ptlost[q].s
          BY <1>3, <3>4, <4>3, <4>7, <5>2, <5>4 DEF Gone
        <5>6. Callers(q, "send")' = Callers(q, "send") BY <4>2, <5>1
        <5>7. /\ Serves(ptrsem'[q], Callers(q, "recv")') /\ ptrsem'[q] # NoSem
              /\ Taken(ptrsem'[q], Callers(q, "recv")') + lost = Taken(rs, Callers(q, "recv"))
          BY <1>8, <4>2, <5>2 DEF Gone
        <5>8. Taken(ptrsem'[q], Callers(q, "recv")') \in Int
          BY <1>6, <1>8, <4>2, <4>3, FS_Subset, TakenInt
        <5>9. ptssem'[q] = ss BY <1>8, <5>3
        <5>10. rs # NoSem /\ ss # NoSem
          BY <2>2, <3>1, <5>1 DEF Serves, Serving, NoSem, Open, Paired, ss, rs
        <5>11. Counted(q)'
          <6>1. /\ Taken(ss, Callers(q, "send")) + Len(ptqueue[q]) + ptlost[q].s = ptmaxcnt[q]
                /\ Taken(rs, Callers(q, "recv")) + ptlost[q].r = Len(ptqueue[q])
            BY <1>3, <2>2, <3>1, <5>10 DEF Open, Counted, ss, rs
          <6>2. Taken(ptrsem'[q], Callers(q, "recv")') + ptlost'[q].r = Len(ptqueue[q])
            BY <4>3, <4>4, <5>5, <5>7, <5>8, <6>1
          <6>3. QED BY <4>5, <5>5, <5>6, <5>9, <6>1, <6>2 DEF Counted
        <5>12. QED BY <3>1, <5>6, <5>7, <5>9, <5>10, <5>11 DEF Open, Paired
      <4>8. Open(q)' BY <3>2, <4>6, <4>7
      <4>9. QED BY <1>1, <1>4, <1>5, <2>2, <4>1, <4>8, OpenPort DEF PtClearOps
    <3>5. QED BY <3>3, <3>4
  <2>3. QED BY <2>1, <2>2
<1>13. \A r \in PortIds : Port(r)' BY <1>1, <1>2, <1>3, <1>5, <1>11, <1>12, Others
<1>14. QED BY <1>9, <1>10, <1>13 DEF PtInv
-----------------------------------------------------------------------------
\* _ptclear.
LEMMA Uncalled ==
    ASSUME NEW q, Port(q), ptseq[q] \in Nat, ptstate[q] # "PT_ALLOC",
           ptseq'[q] \in {ptseq[q], ptseq[q] + 1}, NEW p \in PtProcs,
           \A x \in PtProcs : x # p => ptpc'[x] = ptpc[x], ptpc'[p].op = "idle",
           \A x \in PtProcs : ptpc[x].seq \in Nat
    PROVE  Callers(q, "send")' = {} /\ Callers(q, "recv")' = {}
<1>1. \A x \in PtProcs : ptpc[x].op \in {"send", "recv"} /\ ptpc[x].port = q =>
        ptpc[x].seq < ptseq[q]
  BY DEF Port, Past
<1>2. \A x \in PtProcs : ptpc'[x].op \in {"send", "recv"} /\ ptpc'[x].port = q =>
        ptseq'[q] # ptpc'[x].seq
  BY <1>1
<1>3. QED BY <1>2 DEF Callers, PtSame

\* Semaphores that have just been made, of which one may be missing.
LEMMA FreshOpen ==
    ASSUME NEW q, NEW n \in Nat, ptmaxcnt'[q] = n,
           Callers(q, "send")' = {}, Callers(q, "recv")' = {},
           ptssem'[q] \in {NoSem, SemNew(n)}, ptrsem'[q] \in {NoSem, SemNew(0)}, Paired(q)',
           ptqueue'[q] = << >>, ptlost'[q] = [s |-> 0, r |-> 0]
    PROVE  Open(q)'
<1>1. /\ Serving(SemNew(n), {}) /\ Taken(SemNew(n), {}) = n
      /\ Serving(SemNew(0), {}) /\ Taken(SemNew(0), {}) = 0
  BY TakenNew
<1>2. Serves(NoSem, {}) BY DEF Serves
<1>3. Serves(ptssem'[q], {}) /\ Serves(ptrsem'[q], {}) BY <1>1, <1>2, ServesIs
<1>4. Len(ptqueue'[q]) = 0 /\ ptlost'[q].s = 0 /\ ptlost'[q].r = 0 OBVIOUS
<1>5. ptssem'[q] # NoSem => Taken(ptssem'[q], Callers(q, "send")') = n BY <1>1
<1>6. ptrsem'[q] # NoSem => Taken(ptrsem'[q], Callers(q, "recv")') = 0 BY <1>1
<1>7. Counted(q)' BY <1>4, <1>5, <1>6 DEF Counted
<1>8. QED BY <1>3, <1>7 DEF Open

LEMMA ClearInv ==
    ASSUME PtInv, NEW p \in PtProcs, NEW q \in PortIds, NEW to \in PtEnds, ptclear(p, q, to)
    PROVE  PtInv'
<1> DEFINE k == PtAt("dispose", q, Len(ptqueue[q]), to)
<1>1. PtTypeOK /\ NodesConserved /\ \A r \in PortIds : Port(r) BY DEF PtInv
<1>2. /\ ptpc[p].op = "idle" /\ ptstate[q] = "PT_ALLOC" /\ ~ptpanic
      /\ ptstate' = [ptstate EXCEPT ![q] = "PT_LIMBO"]
      /\ ptseq' = [ptseq EXCEPT ![q] = @ + 1]
      /\ UNCHANGED <<ptmaxcnt, ptssem, ptrsem, ptqueue, ptfree, ptnextid, ptsems, ptpanic,
                     ptkilled, ptlost>>
  BY DEF ptclear, PtIn
<1>3. Len(ptqueue[q]) \in Nat /\ ptseq[q] \in Nat BY <1>1, PtTypes
<1>4. k \in PtRests /\ k.op = "dispose" /\ k.port = q /\ k.arg = to
  BY <1>3 DEF PtAt, PtRests, PtArgs, PtClearOps
<1>5. PtGo(p, k) BY DEF ptclear
<1> HIDE DEF k
<1>6. /\ ptpc' \in [PtProcs -> PtRests] /\ ptpc'[p] = k
      /\ \A x \in PtProcs : x # p => ptpc'[x] = ptpc[x]
  BY <1>1, <1>4, <1>5, IdlePcs
<1>7. /\ ptstate' \in [PortIds -> {"PT_FREE", "PT_ALLOC", "PT_LIMBO"}]
      /\ ptseq' \in [PortIds -> Nat] /\ ptstate'[q] = "PT_LIMBO" /\ ptseq'[q] = ptseq[q] + 1
      /\ \A r \in PortIds \ {q} : ptstate'[r] = ptstate[r] /\ ptseq'[r] = ptseq[r]
  <2>1. /\ ptstate \in [PortIds -> {"PT_FREE", "PT_ALLOC", "PT_LIMBO"}]
        /\ ptseq \in [PortIds -> Nat]
    BY <1>1 DEF PtTypeOK
  <2>2. QED BY <1>2, <2>1
<1>8. PtTypeOK' BY <1>1, <1>2, <1>6, <1>7 DEF PtTypeOK
<1>9. NodesConserved' BY <1>1, <1>2, NodesSame
<1>10. \A r \in PortIds \ {q} : SamePort(r) BY <1>2, <1>7 DEF SamePort
<1>11. Port(q)'
  <2>1. Open(q)' /\ Closed(q)' BY <1>7 DEF Open, Closed
  <2>2. \A x \in PtProcs : ~Clears(x, q) BY <1>1, <1>2 DEF Port, Clearing
  <2>3. \A x \in PtProcs : Clears(x, q)' => x = p BY <1>6, <2>2 DEF Clears
  <2>4. Paired(q)' BY <1>1, <1>2 DEF Port, Open, Paired
  <2>5. \A x \in PtProcs : Clearing(x, q)' BY <1>4, <1>6, <1>7, <2>3, <2>4 DEF Clearing
  <2>6. ASSUME NEW x \in PtProcs PROVE Past(x, q)'
    <3>1. CASE x = p BY <1>4, <1>6, <3>1 DEF Past
    <3>2. CASE x # p
      <4>1. Past(x, q) /\ ptpc'[x] = ptpc[x] BY <1>1, <1>6, <3>2 DEF Port
      <4>2. ptpc[x].seq \in Nat BY <1>1 DEF PtTypeOK, PtRests
      <4>3. QED BY <1>3, <1>7, <4>1, <4>2 DEF Past
    <3>3. QED BY <3>1, <3>2
  <2>7. Sound(ptssem'[q]) /\ Sound(ptrsem'[q]) BY <1>1, <1>2 DEF Port
  <2>8. QED BY <2>1, <2>5, <2>6, <2>7 DEF Port
<1>12. \A r \in PortIds : Port(r)' BY <1>1, <1>2, <1>4, <1>6, <1>10, <1>11, Others
<1>13. QED BY <1>8, <1>9, <1>12 DEF PtInv

\* A step inside _ptclear, which leaves the port in limbo.
LEMMA ClearPort ==
    ASSUME NEW q \in PortIds, NEW p \in PtProcs, Port(q), Clears(p, q), Clears(p, q)',
           ptstate'[q] = ptstate[q], ptseq'[q] = ptseq[q],
           \A x \in PtProcs : x # p => ptpc'[x] = ptpc[x],
           ptpc'[p].arg = ptpc[p].arg, Sound(ptssem'[q]), Sound(ptrsem'[q]),
           ptpc[p].arg = "PT_ALLOC" => Paired(q)',
           ptpc'[p].op # "dispose" =>
               ptqueue'[q] = << >> /\ ptssem'[q] \in {NoSem, SemNew(ptmaxcnt'[q])},
           ptpc'[p].op = "clearState" => ptrsem'[q] \in {NoSem, SemNew(0)}
    PROVE  Port(q)'
<1>1. ptstate[q] = "PT_LIMBO" /\ ptpc[p].arg \in PtEnds
      /\ \A x \in PtProcs : Clears(x, q) => x = p
  BY DEF Port, Clearing
<1>2. Open(q)' /\ Closed(q)' BY <1>1 DEF Open, Closed
<1>3. \A x \in PtProcs : Clears(x, q)' => x = p BY <1>1 DEF Clears
<1>4. \A x \in PtProcs : Clearing(x, q)' BY <1>1, <1>3 DEF Clearing
<1>5. ASSUME NEW x \in PtProcs PROVE Past(x, q)'
  <2>1. CASE x = p BY <2>1 DEF Past, Clears, PtClearOps
  <2>2. CASE x # p BY <2>2 DEF Port, Past
  <2>3. QED BY <2>1, <2>2
<1>6. QED BY <1>2, <1>4, <1>5 DEF Port

LEMMA ClearStep ==
    ASSUME PtTypeOK, NEW q \in PortIds, NEW p \in PtProcs, Clears(p, q),
           NEW n \in Nat, NEW op \in PtClearOps,
           PtGo(p, [op |-> op, port |-> q, seq |-> n, arg |-> ptpc[p].arg])
    PROVE  /\ ptpc' \in [PtProcs -> PtRests] /\ Clears(p, q)'
           /\ \A x \in PtProcs : x # p => ptpc'[x] = ptpc[x]
           /\ ptpc'[p].op = op /\ ptpc'[p].port = q /\ ptpc'[p].arg = ptpc[p].arg
<1>1. PICK arg \in PtArgs : arg = ptpc[p].arg BY DEF PtTypeOK, PtRests
<1> DEFINE k == [op |-> op, port |-> q, seq |-> n, arg |-> arg]
<1>2. k \in PtRests /\ k.op = op /\ k.port = q /\ k.arg = ptpc[p].arg
  BY <1>1 DEF PtRests
<1>3. PtGo(p, k) BY <1>1
<1> HIDE DEF k
<1>4. /\ ptpc' \in [PtProcs -> PtRests] /\ ptpc'[p] = k
      /\ \A x \in PtProcs : x # p => ptpc'[x] = ptpc[x]
  BY <1>2, <1>3, IdlePcs
<1>5. QED BY <1>2, <1>4 DEF Clears

LEMMA DisposeInv ==
    ASSUME PtInv, NEW p \in PtProcs, ptdispose(p)
    PROVE  PtInv'
<1>1. PtTypeOK /\ NodesConserved /\ \A r \in PortIds : Port(r) BY DEF PtInv
<1>2. PICK q \in PortIds : q = ptpc[p].port BY <1>1 DEF PtTypeOK, PtRests
<1>3. /\ UNCHANGED <<ptstate, ptseq, ptmaxcnt, ptssem, ptrsem, ptqueue, ptfree, ptnextid,
                     ptsems, ptpanic, ptkilled, ptlost>>
      /\ ptpc[p].op = "dispose" /\ ptpc[p].seq > 0
      /\ PtGo(p, [ptpc[p] EXCEPT !.seq = @ - 1])
  BY DEF ptdispose, PtIn
<1>4. ptpc[p] \in PtRests /\ ptpc[p].seq \in Nat BY <1>1 DEF PtTypeOK, PtRests
<1>5. PICK n \in Nat : n = ptpc[p].seq - 1 BY <1>3, <1>4
<1>6. [ptpc[p] EXCEPT !.seq = @ - 1]
        = [op |-> "dispose", port |-> q, seq |-> n, arg |-> ptpc[p].arg]
  BY <1>2, <1>3, <1>4, <1>5 DEF PtRests
<1>7. Clears(p, q) BY <1>2, <1>3 DEF Clears, PtClearOps
<1>8. /\ ptpc' \in [PtProcs -> PtRests] /\ Clears(p, q)'
      /\ \A x \in PtProcs : x # p => ptpc'[x] = ptpc[x]
      /\ ptpc'[p].op = "dispose" /\ ptpc'[p].port = q /\ ptpc'[p].arg = ptpc[p].arg
  <2>1. "dispose" \in PtClearOps BY DEF PtClearOps
  <2>2. PtGo(p, [op |-> "dispose", port |-> q, seq |-> n, arg |-> ptpc[p].arg])
    BY <1>3, <1>6
  <2>3. QED BY <1>1, <1>7, <2>1, <2>2, ClearStep
<1>9. PtTypeOK' BY <1>1, <1>3, <1>8 DEF PtTypeOK
<1>10. NodesConserved' BY <1>1, <1>3, NodesSame
<1>11. \A r \in PortIds \ {q} : SamePort(r) BY <1>3 DEF SamePort
<1>12. Port(q)'
  <2>1. Sound(ptssem'[q]) /\ Sound(ptrsem'[q]) BY <1>1, <1>3 DEF Port
  <2>2. ptpc[p].arg = "PT_ALLOC" => Paired(q)'
    BY <1>1, <1>3, <1>7 DEF Port, Clearing, Paired
  <2>3. QED BY <1>1, <1>3, <1>7, <1>8, <2>1, <2>2, ClearPort
<1>13. \A r \in PortIds : Port(r)' BY <1>1, <1>2, <1>3, <1>8, <1>11, <1>12, Others
<1>14. QED BY <1>9, <1>10, <1>13 DEF PtInv

\* semreset or semdelete of a semaphore of the port in limbo.
LEMMA SemEnds ==
    ASSUME NEW s \in SemRecords(PtProcs), NEW to, NEW n \in Nat
    PROVE  /\ PtSemEnd(s, to, n) \in SemRecords(PtProcs) /\ Sound(PtSemEnd(s, to, n))
           /\ PtSemEnd(s, to, n) \in {NoSem, SemNew(n)}
           /\ to # "PT_FREE" => (PtSemEnd(s, to, n) = NoSem <=> s = NoSem)
           /\ PtSemBack(s, to) \in Nat
<1>1. SemNew(n) \in SemRecords(PtProcs) /\ Serving(SemNew(n), {}) BY TakenNew
<1>2. SemNew(n) # NoSem /\ Sound(SemNew(n)) BY <1>1 DEF Serving, NoSem, Sound
<1>3. NoSem \in SemRecords(PtProcs) BY DEF NoSem, SemRecords
<1>4. QED BY <1>1, <1>2, <1>3 DEF PtSemEnd, PtSemBack, Sound

LEMMA ClearSendInv ==
    ASSUME PtInv, NEW p \in PtProcs, ptclearSend(p)
    PROVE  PtInv'
<1>1. PtTypeOK /\ NodesConserved /\ \A r \in PortIds : Port(r) BY DEF PtInv
<1>2. PICK q \in PortIds, to \in PtArgs, n \in Nat :
        q = ptpc[p].port /\ to = ptpc[p].arg /\ n = ptmaxcnt[q]
  BY <1>1 DEF PtTypeOK, PtRests
<1>3. /\ UNCHANGED <<ptstate, ptseq, ptmaxcnt, ptrsem, ptnextid, ptpanic, ptkilled, ptlost>>
      /\ ptpc[p].op = "dispose" /\ ptpc[p].seq = 0 /\ PtFreeList(q)
      /\ ptssem' = [ptssem EXCEPT ![q] = PtSemEnd(ptssem[q], to, n)]
      /\ ptsems' = ptsems + PtSemBack(ptssem[q], to)
      /\ PtGo(p, [ptpc[p] EXCEPT !.op = "clearRecv"])
  BY <1>2 DEF ptclearSend, PtIn
<1>4. [ptpc[p] EXCEPT !.op = "clearRecv"]
        = [op |-> "clearRecv", port |-> q, seq |-> 0, arg |-> ptpc[p].arg]
  <2>1. ptpc[p] \in PtRests BY <1>1 DEF PtTypeOK
  <2>2. ptpc[p].port = q /\ ptpc[p].seq = 0 BY <1>2, <1>3
  <2>3. QED BY <2>1, <2>2 DEF PtRests
<1>5. Clears(p, q) BY <1>2, <1>3 DEF Clears, PtClearOps
<1>6. /\ ptpc' \in [PtProcs -> PtRests] /\ Clears(p, q)'
      /\ \A x \in PtProcs : x # p => ptpc'[x] = ptpc[x]
      /\ ptpc'[p].op = "clearRecv" /\ ptpc'[p].port = q /\ ptpc'[p].arg = ptpc[p].arg
  <2>1. "clearRecv" \in PtClearOps /\ 0 \in Nat BY DEF PtClearOps
  <2>2. PtGo(p, [op |-> "clearRecv", port |-> q, seq |-> 0, arg |-> ptpc[p].arg])
    BY <1>3, <1>4
  <2>3. QED BY <1>1, <1>5, <2>1, <2>2, ClearStep
<1> DEFINE s == PtSemEnd(ptssem[q], to, n)
<1>7. /\ s \in SemRecords(PtProcs) /\ Sound(s) /\ s \in {NoSem, SemNew(n)}
      /\ to # "PT_FREE" => (s = NoSem <=> ptssem[q] = NoSem)
      /\ PtSemBack(ptssem[q], to) \in Nat
  BY <1>1, PtTypes, SemEnds
<1>8. ptssem' = [ptssem EXCEPT ![q] = s] BY <1>3
<1> HIDE DEF s
<1>9. /\ ptssem' \in [PortIds -> SemRecords(PtProcs)] /\ ptssem'[q] = s
      /\ \A r \in PortIds \ {q} : ptssem'[r] = ptssem[r]
  BY <1>1, <1>7, <1>8 DEF PtTypeOK
<1>10. /\ ptqueue' \in [PortIds -> Seq(Messages)] /\ ptqueue'[q] = << >>
       /\ \A r \in PortIds \ {q} : ptqueue'[r] = ptqueue[r]
       /\ ptfree' \in Seq(1..PtNodes)
  <2>1. ptqueue \in [PortIds -> Seq(Messages)] /\ ptfree \in Seq(1..PtNodes)
    BY <1>1 DEF PtTypeOK, Messages
  <2>2. NodesOf(ptqueue[q]) \in Seq(1..PtNodes) BY <2>1, NodesOfList
  <2>3. << >> \in Seq(Messages) OBVIOUS
  <2>4. QED BY <1>3, <2>1, <2>2, <2>3 DEF PtFreeList
<1>11. ptsems' \in Nat
  <2>1. ptsems \in Nat BY <1>1 DEF PtTypeOK
  <2>2. QED BY <1>3, <1>7, <2>1
<1>12. PtTypeOK'
  <2>1. UNCHANGED <<ptstate, ptseq, ptmaxcnt, ptrsem, ptnextid, ptpanic, ptkilled, ptlost>>
    BY <1>3
  <2>2. QED BY <1>1, <1>6, <1>9, <1>10, <1>11, <2>1 DEF PtTypeOK, Messages
<1>13. NodesConserved' BY <1>1, <1>3, FreeNodes
<1>14. \A r \in PortIds \ {q} : SamePort(r) BY <1>3, <1>9, <1>10 DEF SamePort
<1>15. Port(q)'
  <2>1. Sound(ptssem'[q]) /\ Sound(ptrsem'[q]) BY <1>1, <1>3, <1>7, <1>9 DEF Port
  <2>2. ptpc[p].arg = "PT_ALLOC" => Paired(q)'
    BY <1>1, <1>2, <1>3, <1>5, <1>7, <1>9 DEF Port, Clearing, Paired
  <2>3. ptqueue'[q] = << >> /\ ptssem'[q] \in {NoSem, SemNew(ptmaxcnt'[q])}
    BY <1>2, <1>3, <1>7, <1>9, <1>10
  <2>4. ptpc'[p].op # "clearState" /\ ptstate'[q] = ptstate[q] /\ ptseq'[q] = ptseq[q]
    BY <1>3, <1>6
  <2>5. QED BY <1>1, <1>5, <1>6, <2>1, <2>2, <2>3, <2>4, ClearPort
<1>16. \A r \in PortIds : Port(r)' BY <1>1, <1>2, <1>3, <1>6, <1>14, <1>15, Others
<1>17. QED BY <1>12, <1>13, <1>16 DEF PtInv

LEMMA ClearRecvInv ==
    ASSUME PtInv, NEW p \in PtProcs, ptclearRecv(p)
    PROVE  PtInv'
<1>1. PtTypeOK /\ NodesConserved /\ \A r \in PortIds : Port(r) BY DEF PtInv
<1>2. PICK q \in PortIds, to \in PtArgs, n \in Nat :
        q = ptpc[p].port /\ to = ptpc[p].arg /\ n = ptpc[p].seq
  BY <1>1 DEF PtTypeOK, PtRests
<1>3. /\ UNCHANGED <<ptstate, ptseq, ptmaxcnt, ptssem, ptqueue, ptfree, ptnextid, ptpanic,
                     ptkilled, ptlost>>
      /\ ptpc[p].op = "clearRecv"
      /\ ptrsem' = [ptrsem EXCEPT ![q] = PtSemEnd(ptrsem[q], to, 0)]
      /\ ptsems' = ptsems + PtSemBack(ptrsem[q], to)
      /\ PtGo(p, [ptpc[p] EXCEPT !.op = "clearState"])
  BY <1>2 DEF ptclearRecv, PtIn
<1>4. [ptpc[p] EXCEPT !.op = "clearState"]
        = [op |-> "clearState", port |-> q, seq |-> n, arg |-> ptpc[p].arg]
  <2>1. ptpc[p] \in PtRests BY <1>1 DEF PtTypeOK
  <2>2. ptpc[p].port = q /\ ptpc[p].seq = n BY <1>2
  <2>3. QED BY <2>1, <2>2 DEF PtRests
<1>5. Clears(p, q) BY <1>2, <1>3 DEF Clears, PtClearOps
<1>6. /\ ptpc' \in [PtProcs -> PtRests] /\ Clears(p, q)'
      /\ \A x \in PtProcs : x # p => ptpc'[x] = ptpc[x]
      /\ ptpc'[p].op = "clearState" /\ ptpc'[p].port = q /\ ptpc'[p].arg = ptpc[p].arg
  <2>1. "clearState" \in PtClearOps BY DEF PtClearOps
  <2>2. PtGo(p, [op |-> "clearState", port |-> q, seq |-> n, arg |-> ptpc[p].arg])
    BY <1>3, <1>4
  <2>3. QED BY <1>1, <1>5, <2>1, <2>2, ClearStep
<1> DEFINE s == PtSemEnd(ptrsem[q], to, 0)
<1>7. /\ s \in SemRecords(PtProcs) /\ Sound(s) /\ s \in {NoSem, SemNew(0)}
      /\ to # "PT_FREE" => (s = NoSem <=> ptrsem[q] = NoSem)
      /\ PtSemBack(ptrsem[q], to) \in Nat
  BY <1>1, PtTypes, SemEnds
<1>8. ptrsem' = [ptrsem EXCEPT ![q] = s] BY <1>3
<1> HIDE DEF s
<1>9. /\ ptrsem' \in [PortIds -> SemRecords(PtProcs)] /\ ptrsem'[q] = s
      /\ \A r \in PortIds \ {q} : ptrsem'[r] = ptrsem[r]
  BY <1>1, <1>7, <1>8 DEF PtTypeOK
<1>10. ptsems' \in Nat
  <2>1. ptsems \in Nat BY <1>1 DEF PtTypeOK
  <2>2. QED BY <1>3, <1>7, <2>1
<1>11. PtTypeOK'
  <2>1. UNCHANGED <<ptstate, ptseq, ptmaxcnt, ptssem, ptqueue, ptfree, ptnextid, ptpanic,
                    ptkilled, ptlost>>
    BY <1>3
  <2>2. QED BY <1>1, <1>6, <1>9, <1>10, <2>1 DEF PtTypeOK
<1>12. NodesConserved' BY <1>1, <1>3, NodesSame
<1>13. \A r \in PortIds \ {q} : SamePort(r) BY <1>3, <1>9 DEF SamePort
<1>14. Port(q)'
  <2>1. Sound(ptssem'[q]) /\ Sound(ptrsem'[q]) BY <1>1, <1>3, <1>7, <1>9 DEF Port
  <2>2. ptpc[p].arg = "PT_ALLOC" => Paired(q)'
    BY <1>1, <1>2, <1>3, <1>5, <1>7, <1>9 DEF Port, Clearing, Paired
  <2>3. ptqueue'[q] = << >> /\ ptssem'[q] \in {NoSem, SemNew(ptmaxcnt'[q])}
    BY <1>1, <1>3, <1>5 DEF Port, Clearing
  <2>4. ptrsem'[q] \in {NoSem, SemNew(0)} /\ ptstate'[q] = ptstate[q] /\ ptseq'[q] = ptseq[q]
    BY <1>3, <1>7, <1>9
  <2>5. QED BY <1>1, <1>5, <1>6, <2>1, <2>2, <2>3, <2>4, ClearPort
<1>15. \A r \in PortIds : Port(r)' BY <1>1, <1>2, <1>3, <1>6, <1>13, <1>14, Others
<1>16. QED BY <1>11, <1>12, <1>15 DEF PtInv

LEMMA ClearStateInv ==
    ASSUME PtInv, NEW p \in PtProcs, ptclearState(p)
    PROVE  PtInv'
<1>1. PtTypeOK /\ NodesConserved /\ \A r \in PortIds : Port(r) BY DEF PtInv
<1>2. PICK q \in PortIds, to \in PtArgs, n \in Nat :
        q = ptpc[p].port /\ to = ptpc[p].arg /\ n = ptmaxcnt[q]
  BY <1>1 DEF PtTypeOK, PtRests
<1> DEFINE none == [s |-> 0, r |-> 0]
<1>3. /\ UNCHANGED <<ptseq, ptmaxcnt, ptssem, ptrsem, ptqueue, ptfree, ptsems, ptpanic,
                     ptkilled>>
      /\ ptpc[p].op = "clearState" /\ PtGo(p, PtIdle)
      /\ ptstate' = [ptstate EXCEPT ![q] = to]
      /\ ptnextid' = (IF to = "PT_FREE" THEN q ELSE ptnextid)
      /\ ptlost' = [ptlost EXCEPT ![q] = none]
  BY <1>2 DEF ptclearState, PtIn
<1>4. Clears(p, q) BY <1>2, <1>3 DEF Clears, PtClearOps
<1>5. /\ ptstate[q] = "PT_LIMBO" /\ \A x \in PtProcs : Clears(x, q) => x = p
      /\ to \in PtEnds /\ (to = "PT_ALLOC" => Paired(q))
      /\ ptqueue[q] = << >> /\ ptssem[q] \in {NoSem, SemNew(n)}
      /\ ptrsem[q] \in {NoSem, SemNew(0)}
  BY <1>1, <1>2, <1>3, <1>4 DEF Port, Clearing
<1>6. /\ ptpc' \in [PtProcs -> PtRests] /\ ptpc'[p] = PtIdle /\ ptpc'[p].op = "idle"
      /\ \A x \in PtProcs : x # p => ptpc'[x] = ptpc[x]
  BY <1>1, <1>3, IdleRest, IdlePcs
<1>7. /\ ptstate' \in [PortIds -> {"PT_FREE", "PT_ALLOC", "PT_LIMBO"}] /\ ptstate'[q] = to
      /\ \A r \in PortIds \ {q} : ptstate'[r] = ptstate[r]
  <2>1. ptstate \in [PortIds -> {"PT_FREE", "PT_ALLOC", "PT_LIMBO"}] BY <1>1 DEF PtTypeOK
  <2>2. to \in {"PT_FREE", "PT_ALLOC", "PT_LIMBO"} BY <1>5 DEF PtEnds
  <2>3. QED BY <1>3, <2>1, <2>2
<1>8. /\ ptlost' \in [PortIds -> [s : Nat, r : Nat]] /\ ptlost'[q] = none
      /\ \A r \in PortIds \ {q} : ptlost'[r] = ptlost[r]
  <2>1. ptlost \in [PortIds -> [s : Nat, r : Nat]] /\ none \in [s : Nat, r : Nat]
    BY <1>1 DEF PtTypeOK
  <2>2. ptlost' = [ptlost EXCEPT ![q] = none] BY <1>3
  <2> HIDE DEF none
  <2>3. QED BY <2>1, <2>2
<1>9. PtTypeOK'
  <2>1. UNCHANGED <<ptseq, ptmaxcnt, ptssem, ptrsem, ptqueue, ptfree, ptsems, ptpanic,
                    ptkilled>>
    BY <1>3
  <2>2. ptnextid' \in PortIds BY <1>1, <1>3 DEF PtTypeOK
  <2>3. QED BY <1>1, <1>6, <1>7, <1>8, <2>1, <2>2 DEF PtTypeOK
<1>10. NodesConserved' BY <1>1, <1>3, NodesSame
<1>11. \A r \in PortIds \ {q} : SamePort(r) BY <1>3, <1>7, <1>8 DEF SamePort
<1>12. Port(q)'
  <2>1. Sound(ptssem'[q]) /\ Sound(ptrsem'[q]) BY <1>1, <1>3 DEF Port
  <2>2. Closed(q)' BY <1>3, <1>5 DEF Closed
  <2>3. \A x \in PtProcs : ~Clears(x, q)'
    BY <1>5, <1>6 DEF Clears, PtClearOps
  <2>4. \A x \in PtProcs : Clearing(x, q)' BY <2>3 DEF Clearing
  <2>5. ASSUME NEW x \in PtProcs PROVE Past(x, q)'
    <3>1. CASE x = p BY <1>6, <3>1 DEF Past
    <3>2. CASE x # p
      <4>1. Past(x, q) /\ ptpc'[x] = ptpc[x] /\ ptseq'[q] = ptseq[q]
        BY <1>1, <1>3, <1>6, <3>2 DEF Port
      <4>2. QED BY <1>5, <1>7, <4>1 DEF Past
    <3>3. QED BY <3>1, <3>2
  <2>6. Open(q)'
    <3>1. CASE to = "PT_FREE" BY <1>7, <3>1 DEF Open
    <3>2. CASE to = "PT_ALLOC"
      <4>1. ptseq[q] \in Nat /\ \A x \in PtProcs : ptpc[x].seq \in Nat
        BY <1>1 DEF PtTypeOK, PtRests
      <4>2. Callers(q, "send")' = {} /\ Callers(q, "recv")' = {}
        BY <1>1, <1>3, <1>5, <1>6, <4>1, Uncalled
      <4>3. Paired(q)' BY <1>3, <1>5, <3>2 DEF Paired
      <4>4. /\ ptmaxcnt'[q] = n /\ ptssem'[q] \in {NoSem, SemNew(n)}
            /\ ptrsem'[q] \in {NoSem, SemNew(0)} /\ ptqueue'[q] = << >>
            /\ ptlost'[q] = [s |-> 0, r |-> 0]
        BY <1>2, <1>3, <1>5, <1>8
      <4>5. QED BY <4>2, <4>3, <4>4, FreshOpen
    <3>3. QED BY <1>5, <3>1, <3>2 DEF PtEnds
  <2>7. QED BY <2>1, <2>2, <2>4, <2>5, <2>6 DEF Port
<1>13. \A r \in PortIds : Port(r)' BY <1>1, <1>2, <1>3, <1>6, <1>11, <1>12, Others
<1>14. QED BY <1>9, <1>10, <1>13 DEF PtInv
-----------------------------------------------------------------------------
\* ptcreate.
LEMMA FirstFree ==
    ASSUME PtTypeOK, \E q \in PortIds : ptstate[q] = "PT_FREE"
    PROVE  PtFirstFree \in PortIds /\ ptstate[PtFirstFree] = "PT_FREE"
<1> DEFINE D(q) == (q - ptnextid) % NPORTS
           T == {D(q) : q \in {r \in PortIds : ptstate[r] = "PT_FREE"}}
<1>1. \A q \in PortIds : D(q) \in Nat
  <2>1. NPORTS \in Nat \ {0} /\ ptnextid \in Int /\ \A q \in PortIds : q \in Int
    BY PtSizesAssumption DEF PtTypeOK, PortIds
  <2>2. QED BY <2>1
<1>2. T \subseteq Nat /\ T # {} BY <1>1
<1>3. PICK d \in T : \A e \in T : d <= e BY <1>2, LeastNat, Zenon
<1>4. PICK q \in PortIds : ptstate[q] = "PT_FREE" /\ d = D(q) BY <1>3
<1>5. \A r \in PortIds : ptstate[r] = "PT_FREE" => D(q) <= D(r) BY <1>3, <1>4
<1>6. QED BY <1>4, <1>5 DEF PtFirstFree

LEMMA CreateInv ==
    ASSUME PtInv, NEW p \in PtProcs, NEW count \in PtCounts, ptcreate(p, count)
    PROVE  PtInv'
<1>1. PtTypeOK /\ NodesConserved /\ \A r \in PortIds : Port(r) BY DEF PtInv
<1>2. \E q \in PortIds : ptstate[q] = "PT_FREE" BY DEF ptcreate
<1>3. PICK q \in PortIds : q = PtFirstFree /\ ptstate[q] = "PT_FREE"
  BY <1>1, <1>2, FirstFree
<1> DEFINE none == [s |-> 0, r |-> 0]
           ss == IF ptsems > 0 THEN SemNew(count) ELSE NoSem
           rs == IF ptsems > 1 THEN SemNew(0) ELSE NoSem
<1>4. /\ UNCHANGED <<ptfree, ptpc, ptpanic, ptkilled>> /\ ptpc[p].op = "idle"
      /\ ptnextid' = (q + 1) % NPORTS
      /\ ptstate' = [ptstate EXCEPT ![q] = "PT_ALLOC"]
      /\ ptssem' = [ptssem EXCEPT ![q] = ss] /\ ptrsem' = [ptrsem EXCEPT ![q] = rs]
      /\ ptsems' = (IF ptsems > 1 THEN ptsems - 2 ELSE 0)
      /\ ptqueue' = [ptqueue EXCEPT ![q] = << >>]
      /\ ptseq' = [ptseq EXCEPT ![q] = @ + 1]
      /\ ptmaxcnt' = [ptmaxcnt EXCEPT ![q] = count]
      /\ ptlost' = [ptlost EXCEPT ![q] = none]
  BY <1>3 DEF ptcreate, PtIn
<1>5. count \in Nat BY PtCountsAssumption
<1>6. /\ SemNew(count) \in SemRecords(PtProcs) /\ SemNew(0) \in SemRecords(PtProcs)
      /\ NoSem \in SemRecords(PtProcs) /\ SemNew(count) # NoSem /\ Sound(NoSem)
      /\ Sound(SemNew(count)) /\ Sound(SemNew(0))
  <2>1. /\ SemNew(count) \in SemRecords(PtProcs) /\ Serving(SemNew(count), {})
        /\ SemNew(0) \in SemRecords(PtProcs) /\ Serving(SemNew(0), {})
    BY <1>5, TakenNew
  <2>2. QED BY <2>1 DEF Serving, Sound, NoSem, SemRecords
<1>7. /\ ss \in SemRecords(PtProcs) /\ rs \in SemRecords(PtProcs) /\ Sound(ss) /\ Sound(rs)
      /\ ss \in {NoSem, SemNew(count)} /\ rs \in {NoSem, SemNew(0)}
  BY <1>6
<1>8. rs # NoSem => ss # NoSem
  <2>1. ptsems \in Nat BY <1>1 DEF PtTypeOK
  <2>2. QED BY <1>6, <2>1
<1>9. PICK a \in SemRecords(PtProcs), b \in SemRecords(PtProcs) : a = ss /\ b = rs
  BY <1>7
<1> HIDE DEF ss, rs, none
<1>10. /\ ptssem' \in [PortIds -> SemRecords(PtProcs)] /\ ptssem'[q] = a
       /\ ptrsem' \in [PortIds -> SemRecords(PtProcs)] /\ ptrsem'[q] = b
       /\ \A r \in PortIds \ {q} : ptssem'[r] = ptssem[r] /\ ptrsem'[r] = ptrsem[r]
  BY <1>1, <1>4, <1>9 DEF PtTypeOK
<1>11. /\ ptstate' \in [PortIds -> {"PT_FREE", "PT_ALLOC", "PT_LIMBO"}]
       /\ ptseq' \in [PortIds -> Nat] /\ ptmaxcnt' \in [PortIds -> Nat]
       /\ ptstate'[q] = "PT_ALLOC" /\ ptseq'[q] = ptseq[q] + 1 /\ ptmaxcnt'[q] = count
       /\ \A r \in PortIds \ {q} : /\ ptstate'[r] = ptstate[r] /\ ptseq'[r] = ptseq[r]
                                   /\ ptmaxcnt'[r] = ptmaxcnt[r]
  <2>1. /\ ptstate \in [PortIds -> {"PT_FREE", "PT_ALLOC", "PT_LIMBO"}]
        /\ ptseq \in [PortIds -> Nat] /\ ptmaxcnt \in [PortIds -> Nat]
    BY <1>1 DEF PtTypeOK
  <2>2. QED BY <1>4, <1>5, <2>1
<1>12. ptqueue' = ptqueue /\ ptqueue[q] = << >>
  <2>1. ptqueue[q] = << >> BY <1>1, <1>3 DEF Port, Closed
  <2>2. ptqueue \in [PortIds -> Seq(Messages)] BY <1>1 DEF PtTypeOK, Messages
  <2>3. QED BY <1>4, <2>1, <2>2
<1>13. /\ ptlost' \in [PortIds -> [s : Nat, r : Nat]] /\ ptlost'[q] = [s |-> 0, r |-> 0]
       /\ \A r \in PortIds \ {q} : ptlost'[r] = ptlost[r]
  <2>1. ptlost \in [PortIds -> [s : Nat, r : Nat]] /\ none \in [s : Nat, r : Nat]
        /\ none = [s |-> 0, r |-> 0]
    BY <1>1 DEF PtTypeOK, none
  <2>2. QED BY <1>4, <2>1
<1>14. ptsems' \in Nat /\ ptnextid' \in PortIds
  <2>1. ptsems \in Nat BY <1>1 DEF PtTypeOK
  <2>2. ptsems' \in Nat BY <1>4, <2>1
  <2>3. ptnextid' \in PortIds BY <1>4, PtSizesAssumption DEF PortIds
  <2>4. QED BY <2>2, <2>3
<1>15. PtTypeOK' BY <1>1, <1>4, <1>10, <1>11, <1>12, <1>13, <1>14 DEF PtTypeOK
<1>16. NodesConserved' BY <1>1, <1>4, <1>12, NodesSame
<1>17. \A r \in PortIds \ {q} : SamePort(r)
  BY <1>10, <1>11, <1>12, <1>13 DEF SamePort
<1>18. Port(q)'
  <2>1. \A x \in PtProcs : ptpc[x].seq \in Nat BY <1>1 DEF PtTypeOK, PtRests
  <2>2. ptseq[q] \in Nat BY <1>1, PtTypes
  <2>3. Callers(q, "send")' = {} /\ Callers(q, "recv")' = {}
    BY <1>1, <1>3, <1>4, <1>11, <2>1, <2>2, Uncalled
  <2>4. Paired(q)' BY <1>8, <1>9, <1>10 DEF Paired
  <2>5. ptssem'[q] \in {NoSem, SemNew(count)} /\ ptrsem'[q] \in {NoSem, SemNew(0)}
    BY <1>7, <1>9, <1>10
  <2>6. ptqueue'[q] = << >> BY <1>12
  <2>7. Open(q)' BY <1>5, <1>11, <1>13, <2>3, <2>4, <2>5, <2>6, FreshOpen
  <2>8. Closed(q)' BY <2>6 DEF Closed
  <2>9. Sound(ptssem'[q]) /\ Sound(ptrsem'[q]) BY <1>7, <1>9, <1>10
  <2>10. \A x \in PtProcs : ~Clears(x, q) BY <1>1, <1>3 DEF Port, Clearing
  <2>11. \A x \in PtProcs : Clearing(x, q)' BY <1>4, <2>10 DEF Clearing, Clears
  <2>12. ASSUME NEW x \in PtProcs PROVE Past(x, q)'
    <3>1. Past(x, q) /\ ptpc'[x] = ptpc[x] BY <1>1, <1>4 DEF Port
    <3>2. QED BY <1>3, <1>11, <2>1, <2>2, <3>1 DEF Past
  <2>13. QED BY <2>7, <2>8, <2>9, <2>11, <2>12 DEF Port
<1>19. \A r \in PortIds : Port(r)' BY <1>1, <1>4, <1>17, <1>18, Others
<1>20. QED BY <1>15, <1>16, <1>19 DEF PtInv
-----------------------------------------------------------------------------
\* The invariant holds in every state.
LEMMA InitPorts == ASSUME ptinit PROVE PtInv
<1>1. /\ NoSem \in SemRecords(PtProcs) /\ Sound(NoSem) /\ 0 \in PortIds /\ PtSems \in Nat
      /\ << >> \in Seq(Messages) /\ PtNodes \in Nat
  BY PtSizesAssumption DEF NoSem, SemRecords, Sound, PortIds
<1>2. ptfree \in Seq(1..PtNodes) /\ Len(ptfree) = PtNodes
      /\ \A i \in 1..PtNodes : ptfree[i] = i
  BY <1>1 DEF ptinit
<1>3. /\ ptstate = [q \in PortIds |-> "PT_FREE"] /\ ptseq = [q \in PortIds |-> 0]
      /\ ptmaxcnt = [q \in PortIds |-> 0] /\ ptssem = [q \in PortIds |-> NoSem]
      /\ ptrsem = [q \in PortIds |-> NoSem] /\ ptqueue = [q \in PortIds |-> << >>]
      /\ ptnextid = 0 /\ ptsems = PtSems /\ ptpc = [p \in PtProcs |-> PtIdle]
      /\ ptpanic = FALSE /\ ptkilled = 0 /\ ptlost = [q \in PortIds |-> [s |-> 0, r |-> 0]]
  BY DEF ptinit
<1>4. PtTypeOK
  <2>1. ptqueue \in [PortIds -> Seq(Messages)] BY <1>1, <1>3
  <2>2. ptpc \in [PtProcs -> PtRests] BY <1>3, IdleRest
  <2>3. ptlost \in [PortIds -> [s : Nat, r : Nat]] BY <1>3
  <2>4. ptssem \in [PortIds -> SemRecords(PtProcs)] /\ ptrsem \in [PortIds -> SemRecords(PtProcs)]
    BY <1>1, <1>3
  <2>5. QED BY <1>1, <1>2, <1>3, <2>1, <2>2, <2>3, <2>4 DEF PtTypeOK, Messages
<1>5. NodesConserved
  <2>1. -1 \in Lists /\ \A a \in Lists : a # -1 => a \in PortIds
    BY PtSizesAssumption DEF Lists, PortIds
  <2>2. PtList(-1) = ptfree BY DEF PtList
  <2>3. \A a \in PortIds : PtList(a) = NodesOf(<< >>)
    BY <1>3 DEF PtList, PortIds
  <2>4. NodesOf(<< >>) = << >> BY DEF NodesOf
  <2>5. << >> \in Seq(1..PtNodes) /\ NoDup(<< >>) /\ \A n : ~OnQueue(<< >>, n)
    BY DEF NoDup, OnQueue
  <2>6. NoDup(ptfree) /\ \A n \in 1..PtNodes : OnQueue(ptfree, n)
    BY <1>2 DEF NoDup, OnQueue
  <2>7. \A a \in Lists : PtList(a) \in Seq(1..PtNodes) /\ NoDup(PtList(a))
    BY <1>2, <2>1, <2>2, <2>3, <2>4, <2>5, <2>6
  <2>8. \A n \in 1..PtNodes : \A b \in Lists : OnQueue(PtList(b), n) <=> -1 = b
    BY <2>1, <2>2, <2>3, <2>4, <2>5, <2>6
  <2>9. \A n \in 1..PtNodes : \E a \in Lists : \A b \in Lists : OnQueue(PtList(b), n) <=> a = b
    BY <2>1, <2>8
  <2>10. QED BY <2>7, <2>9 DEF NodesConserved, Lists
<1>6. ASSUME NEW q \in PortIds PROVE Port(q)
  <2>1. ptssem[q] = NoSem /\ ptrsem[q] = NoSem /\ ptstate[q] = "PT_FREE" /\ ptqueue[q] = << >>
    BY <1>3
  <2>2. \A p \in PtProcs : ptpc[p].op = "idle" BY <1>3, IdleRest
  <2>3. QED
    BY <1>1, <2>1, <2>2 DEF Port, Open, Closed, Clearing, Clears, PtClearOps, Past
<1>7. QED BY <1>4, <1>5, <1>6 DEF PtInv

LEMMA NextPorts == ASSUME PtInv, [PtNext]_ptvars PROVE PtInv'
<1>1. CASE UNCHANGED ptvars
  <2>1. UNCHANGED <<ptstate, ptseq, ptmaxcnt, ptssem, ptrsem, ptqueue, ptfree, ptnextid,
                    ptsems, ptpc, ptpanic, ptkilled, ptlost>>
    BY <1>1 DEF ptvars
  <2>2. PtTypeOK' BY <2>1 DEF PtInv, PtTypeOK
  <2>3. NodesConserved' BY <2>1, NodesSame DEF PtInv
  <2>4. \A q \in PortIds : Port(q)'
    <3> SUFFICES ASSUME NEW q \in PortIds PROVE Port(q)' OBVIOUS
    <3>1. Port(q) BY DEF PtInv
    <3>2. Callers(q, "send")' = Callers(q, "send") /\ Callers(q, "recv")' = Callers(q, "recv")
      BY <2>1 DEF Callers, PtSame
    <3>3. Open(q)' BY <2>1, <3>1, <3>2 DEF Port, Open, Paired, Counted
    <3>4. \A p \in PtProcs : Clearing(p, q)'
      BY <2>1, <3>1 DEF Port, Clearing, Clears, Paired
    <3>5. \A p \in PtProcs : Past(p, q)' BY <2>1, <3>1 DEF Port, Past
    <3>6. QED BY <2>1, <3>1, <3>3, <3>4, <3>5 DEF Port, Closed
  <2>5. QED BY <2>2, <2>3, <2>4 DEF PtInv
<1>2. CASE PtNext
  <2> SUFFICES ASSUME NEW p \in PtProcs,
                      \/ \E n \in PtCounts : ptcreate(p, n)
                      \/ \E q \in PortIds, m \in PtMsgs : ptsend(p, q, m)
                      \/ \E q \in PortIds : ptrecv(p, q) \/ ptreset(p, q) \/ ptdelete(p, q)
                      \/ ptsendRest(p) \/ ptrecvRest(p) \/ ptdispose(p)
                      \/ ptclearSend(p) \/ ptclearRecv(p) \/ ptclearState(p) \/ ptkill(p)
               PROVE  PtInv'
    BY <1>2 DEF PtNext
  <2>1. CASE \E n \in PtCounts : ptcreate(p, n) BY <2>1, CreateInv
  <2>2. CASE \E q \in PortIds, m \in PtMsgs : ptsend(p, q, m) BY <2>2, SendInv
  <2>3. CASE \E q \in PortIds : ptrecv(p, q) BY <2>3, RecvInv
  <2>4. CASE \E q \in PortIds : ptreset(p, q) \/ ptdelete(p, q)
    BY <2>4, ClearInv DEF ptreset, ptdelete, PtEnds
  <2>5. CASE ptsendRest(p) BY <2>5, SendRestInv
  <2>6. CASE ptrecvRest(p) BY <2>6, RecvRestInv
  <2>7. CASE ptdispose(p) BY <2>7, DisposeInv
  <2>8. CASE ptclearSend(p) BY <2>8, ClearSendInv
  <2>9. CASE ptclearRecv(p) BY <2>9, ClearRecvInv
  <2>10. CASE ptclearState(p) BY <2>10, ClearStateInv
  <2>11. CASE ptkill(p) BY <2>11, KillInv
  <2>12. QED
    BY <2>1, <2>2, <2>3, <2>4, <2>5, <2>6, <2>7, <2>8, <2>9, <2>10, <2>11
<1>3. QED BY <1>1, <1>2

\* ptcount of a port both of whose semaphores it has.
LEMMA PermitsCounted ==
    ASSUME PtInv, NEW q \in PortIds, PtReady(q)
    PROVE  /\ ptssem[q].val + Cardinality(PtAwake(q, "send")) + Len(ptqueue[q]) + ptlost[q].s
                = ptmaxcnt[q]
           /\ ptrsem[q].val + Cardinality(PtAwake(q, "recv")) + ptlost[q].r = Len(ptqueue[q])
<1>1. PtTypeOK /\ Port(q) /\ Open(q) BY DEF PtInv, Port
<1>2. ~ptpanic /\ ptstate[q] = "PT_ALLOC" /\ ptssem[q] # NoSem /\ ptrsem[q] # NoSem
  BY DEF PtReady
<1>3. Serves(ptssem[q], Callers(q, "send")) /\ Serves(ptrsem[q], Callers(q, "recv"))
  BY <1>1, <1>2 DEF Open
<1>4. /\ Taken(ptssem[q], Callers(q, "send")) + Len(ptqueue[q]) + ptlost[q].s = ptmaxcnt[q]
      /\ Taken(ptrsem[q], Callers(q, "recv")) + ptlost[q].r = Len(ptqueue[q])
  BY <1>1, <1>2 DEF Open, Counted
<1>5. PtAwake(q, "send") = Awake(ptssem[q], Callers(q, "send"))
  <2>1. \A p \in Callers(q, "send") : p \notin Callers(q, "recv") BY DEF Callers
  <2>2. \A p \in Callers(q, "send") : ~Waits(ptrsem[q], p) BY <1>3, <2>1, NotWaiting
  <2>3. QED BY <2>2 DEF PtAwake, PtBlocked, Awake, Callers
<1>6. PtAwake(q, "recv") = Awake(ptrsem[q], Callers(q, "recv"))
  <2>1. \A p \in Callers(q, "recv") : p \notin Callers(q, "send") BY DEF Callers
  <2>2. \A p \in Callers(q, "recv") : ~Waits(ptssem[q], p) BY <1>3, <2>1, NotWaiting
  <2>3. QED BY <2>2 DEF PtAwake, PtBlocked, Awake, Callers
<1>7. QED BY <1>4, <1>5, <1>6 DEF Taken

LEMMA PermitsFollow == ASSUME PtInv PROVE PermitsMatchMessages
<1> SUFFICES ASSUME NEW q \in PortIds, PtReady(q), ptcount(q) >= 0
             PROVE  ptcount(q) = Len(ptqueue[q]) + Len(ptssem[q].queue)
                                   - Cardinality(PtAwake(q, "recv")) - ptlost[q].r
  BY PermitsCounted DEF PermitsMatchMessages
<1> DEFINE c == Cardinality(PtAwake(q, "recv"))
<1>1. PtTypeOK BY DEF PtInv
<1>2. /\ ptssem[q].val \in Int /\ ptrsem[q].val \in Int /\ Len(ptqueue[q]) \in Nat
      /\ Len(ptssem[q].queue) \in Nat /\ Len(ptrsem[q].queue) \in Nat /\ ptlost[q].r \in Nat
      /\ ptssem[q].queue = << >> <=> Len(ptssem[q].queue) = 0
      /\ ptrsem[q].queue = << >> <=> Len(ptrsem[q].queue) = 0
  <2>1. /\ ptssem[q] \in SemRecords(PtProcs) /\ ptrsem[q] \in SemRecords(PtProcs)
        /\ ptqueue[q] \in Seq(Messages) /\ ptlost[q].r \in Nat
    BY <1>1, PtTypes DEF Messages
  <2>2. /\ ptssem[q].val \in Int /\ ptrsem[q].val \in Int
        /\ ptssem[q].queue \in Seq(PtProcs) /\ ptrsem[q].queue \in Seq(PtProcs)
    BY <2>1 DEF SemRecords
  <2>3. \A S : \A list \in Seq(S) : Len(list) \in Nat /\ (list = << >> <=> Len(list) = 0)
    OBVIOUS
  <2>4. QED BY <2>1, <2>2, <2>3, Zenon
<1>3. c \in Nat
  <2>1. PtAwake(q, "recv") \subseteq PtProcs BY DEF PtAwake
  <2>2. QED BY <2>1, PtSizesAssumption, FS_Subset, FS_CardinalityType
<1>4. ptrsem[q].val + c + ptlost[q].r = Len(ptqueue[q]) BY PermitsCounted
<1> HIDE DEF c
<1>5. Sound(ptssem[q]) /\ ptssem[q] # NoSem BY DEF PtInv, Port, PtReady
<1>6. ptssem[q].val \in Nat BY <1>5 DEF Sound
<1>7. ptrsem[q].queue = << >>
  BY <1>2 DEF ptcount, semcount
<1>8. ptcount(q) = ptrsem[q].val + Len(ptssem[q].queue)
  BY <1>2, <1>6, <1>7, SMTT(30) DEF ptcount, semcount
<1>9. ptcount(q) = Len(ptqueue[q]) + Len(ptssem[q].queue) - c - ptlost[q].r
  <2>1. \A v \in Int, m \in Nat, k \in Nat, l \in Nat : v + m = (v + k + l) + m - k - l
    OBVIOUS
  <2>2. QED BY <1>2, <1>3, <1>4, <1>8, <2>1
<1>10. QED BY <1>9 DEF c

\* Every message node is on the free list or in one port, once, whatever
\* sends, receives, resets, deletions and kills interleave (ptsend.c:38,
\* ptrecv.c:37, ptclear.c:33).
THEOREM NodesAreConserved == PtSpec => []NodesConserved
<1>1. ptinit => PtInv BY InitPorts
<1>2. PtInv /\ [PtNext]_ptvars => PtInv' BY NextPorts
<1>3. PtInv => NodesConserved BY DEF PtInv
<1>4. QED BY <1>1, <1>2, <1>3, PTL DEF PtSpec

\* The permits of every allocated port account for its space and its messages,
\* so a receiver past its wait finds a message (ptrecv.c:37 does not look).
THEOREM PermitsAreMessages == PtSpec => []PermitsMatchMessages
<1>1. ptinit => PtInv BY InitPorts
<1>2. PtInv /\ [PtNext]_ptvars => PtInv' BY NextPorts
<1>3. PtInv => PermitsMatchMessages BY PermitsFollow
<1>4. QED BY <1>1, <1>2, <1>3, PTL DEF PtSpec
-----------------------------------------------------------------------------
\* Paging.
\* The directory is the first frame of the area, table d the frame d + 1.
Dir == AREASTART
TableOf(d) == AREASTART + 1 + d

\* The tables built so far, the entries that lead to them, and nothing else in
\* the directory.
Built ==
    /\ first_page_directory = Dir
    /\ next_free_pt_frame = TableOf(pd_index)
    /\ \A d \in Index : d < pd_index =>
          mem[Dir][d] = Entry(TableOf(d)) /\ mem[TableOf(d)] = Table(d)
    /\ \A d \in Index : d >= pd_index => mem[Dir][d] = 0

\* Where sysinit is, and what it has done by then.
Stages ==
    /\ boot = "directory" => next_free_pt_frame = Dir
    /\ boot # "directory" => Built
    /\ boot = "tables" => pd_index < DIRLEN
    /\ boot \notin {"directory", "tables"} => pd_index = DIRLEN
    /\ boot \in {"dump", "enable", "run"} => cr3 = Dir
    /\ pg <=> boot = "run"

PInv == TypeOK /\ Stages /\ FaultsOutside
-----------------------------------------------------------------------------
\* Multiplication, for the solver.
LEMMA Product == ASSUME NEW a \in Nat, NEW b \in Nat, NEW n \in Nat, a < b
                 PROVE  a * n + n <= b * n
<1>1. (a + 1) * n = a * n + n OBVIOUS
<1>2. (a + 1) * n <= b * n OBVIOUS
<1>3. QED BY <1>1, <1>2

\* A page is below maxheap when its first index is one of the directory's
\* used entries.
LEMMA BelowHeap == ASSUME NEW v \in Pages
                   PROVE  /\ Frame(v) \in Nat /\ XINU_PAGES \in Nat
                          /\ Frame(v) < XINU_PAGES <=> v[1] < DIRLEN
<1>1. /\ v[1] \in Nat /\ v[2] \in Nat /\ v[2] < ENTRIES
      /\ DIRLEN \in Nat /\ ENTRIES \in Nat
  BY AreaAssumption DEF Pages, Index
<1>2. v[1] * ENTRIES \in Nat /\ DIRLEN * ENTRIES \in Nat BY <1>1
<1>3. CASE v[1] < DIRLEN
  <2>1. v[1] * ENTRIES + ENTRIES <= DIRLEN * ENTRIES BY <1>1, <1>3, Product
  <2>2. QED BY <1>1, <1>2, <1>3, <2>1 DEF Frame, XINU_PAGES
<1>4. CASE ~(v[1] < DIRLEN)
  <2>1. DIRLEN * ENTRIES <= v[1] * ENTRIES BY <1>1, <1>4
  <2>2. QED BY <1>1, <1>2, <1>4, <2>1 DEF Frame, XINU_PAGES
<1>5. QED BY <1>3, <1>4

\* The directory has a page: dump_pd reads it there while paging is off.
LEMMA DirectoryPage == PageOf(Dir) \in Pages /\ Frame(PageOf(Dir)) = Dir
<1> DEFINE a == Dir \div ENTRIES
<1> DEFINE b == Dir % ENTRIES
<1>1. Dir \in Nat /\ ENTRIES \in Nat \ {0} /\ Dir < ENTRIES * ENTRIES
  BY AreaAssumption DEF Dir
<1>2. a \in Nat /\ b \in Index /\ a * ENTRIES + b = Dir BY <1>1 DEF Index
<1>3. a < ENTRIES
  <2>1. SUFFICES ASSUME ENTRIES <= a PROVE FALSE BY <1>1, <1>2
  <2>2. ENTRIES * ENTRIES <= a * ENTRIES BY <1>1, <1>2, <2>1
  <2>3. QED BY <1>1, <1>2, <2>2 DEF Index
<1>4. <<a, b>> \in Pages /\ Frame(<<a, b>>) = Dir
  BY <1>1, <1>2, <1>3 DEF Pages, Index, Frame
<1>5. QED BY <1>4 DEF PageOf

\* The frames of the directory and the tables are frames of the area.
LEMMA AreaFrames ==
    /\ Dir \in Frames /\ Dir \in Nat /\ DIRLEN \in Nat \ {0} /\ 0 \in Index
    /\ \A d \in Nat : d < DIRLEN =>
          d \in Index /\ TableOf(d) \in Frames /\ TableOf(d) # Dir
    /\ \A d, e \in Nat : TableOf(d) = TableOf(e) => d = e
  BY AreaAssumption DEF Dir, TableOf, Frames, Index, XINU_PAGES

\* What the page walk finds once the tables are built: the entries of table
\* v[1] for the directory's used entries, nothing for the others.
LEMMA Walk == ASSUME PInv, pg, NEW v \in Pages
              PROVE  /\ Mapped(v) <=> Frame(v) < XINU_PAGES
                     /\ Mapped(v) => Base(Pte(v)) = Frame(v)
<1>1. /\ cr3 = Dir /\ Built /\ pd_index = DIRLEN BY DEF PInv, Stages
<1>2. v[1] \in Index /\ v[2] \in Index /\ v[1] \in Nat /\ v[2] \in Nat
  BY DEF Pages, Index
<1>3. CASE v[1] < DIRLEN
  <2>1. Pde(v) = Entry(TableOf(v[1])) /\ mem[TableOf(v[1])] = Table(v[1])
    BY <1>1, <1>2, <1>3 DEF Pde, Built
  <2>2. TableOf(v[1]) \in Frames /\ TableOf(v[1]) \in Nat
    BY <1>2, <1>3, AreaFrames DEF Frames
  <2>3. Present(Pde(v)) /\ Base(Pde(v)) = TableOf(v[1])
    BY <2>1, <2>2 DEF Present, Base, Entry
  <2>4. Pte(v) = Entry(Frame(v)) BY <1>2, <2>1, <2>3 DEF Pte, Table, Frame
  <2>5. Frame(v) \in Nat /\ Frame(v) < XINU_PAGES BY <1>3, BelowHeap
  <2>6. Frame(v) \in Frames BY <2>5, BelowHeap, AreaAssumption DEF Frames
  <2>7. Present(Pte(v)) /\ Base(Pte(v)) = Frame(v)
    BY <2>4, <2>5 DEF Present, Base, Entry
  <2>8. QED BY <2>2, <2>3, <2>5, <2>6, <2>7 DEF Mapped
<1>4. CASE ~(v[1] < DIRLEN)
  <2>1. Pde(v) = 0 BY <1>1, <1>2, <1>4, AreaFrames DEF Pde, Built
  <2>2. ~Mapped(v) BY <2>1 DEF Mapped, Present
  <2>3. QED BY <1>4, <2>2, BelowHeap
<1>5. QED BY <1>3, <1>4
-----------------------------------------------------------------------------
LEMMA InitOK == Init => PInv
<1> SUFFICES ASSUME Init PROVE PInv OBVIOUS
<1>1. TypeOK
  <2>1. mem \in [Frames -> [Index -> Nat]] BY WordsAssumption DEF Init
  <2>2. 0 \in Frames /\ <<0, 0>> \in Pages /\ 0 \in 0..DIRLEN
    BY AreaAssumption, AreaFrames DEF Frames, Pages
  <2>3. AREASTART \in AREASTART..(AREAEND + 1) BY AreaAssumption
  <2>4. QED BY <2>1, <2>2, <2>3 DEF Init, TypeOK
<1>2. Stages /\ FaultsOutside BY DEF Init, Stages, Dir, FaultsOutside
<1>3. QED BY <1>1, <1>2 DEF PInv

LEMMA DirectoryOK == ASSUME PInv, pageDirectory PROVE PInv'
<1>1. PICK f \in Frames :
        /\ f = next_free_pt_frame /\ next_free_pt_frame' = f + 1
        /\ mem' = [mem EXCEPT ![f] = Zeroed] /\ first_page_directory' = f
  BY DEF pageDirectory, get_next_free_pt_frame, Advance, Cleared
<1>2. /\ boot = "directory" /\ boot' = "tables" /\ pd_index' = 0
      /\ UNCHANGED <<cr2, cr3, pg, currpid, panicked>>
  BY DEF pageDirectory, At
<1>3. f = Dir /\ ~pg BY <1>1, <1>2 DEF PInv, Stages
<1>4. mem' \in [Frames -> [Index -> Nat]] /\ mem'[Dir] = Zeroed
  BY <1>1, <1>3 DEF PInv, TypeOK, Zeroed
<1>5. Dir + 1 \in AREASTART..(AREAEND + 1) /\ 0 \in 0..DIRLEN
  BY AreaAssumption DEF Dir
<1>6. TypeOK' BY <1>1, <1>2, <1>3, <1>4, <1>5 DEF PInv, TypeOK
<1>7. Built'
  <2>1. \A d \in Index : d \in Nat /\ ~(d < 0) BY DEF Index
  <2>2. next_free_pt_frame' = TableOf(0) BY <1>1, <1>3, AreaFrames DEF TableOf, Dir
  <2>3. QED BY <1>1, <1>2, <1>3, <1>4, <2>1, <2>2 DEF Built, Zeroed
<1>8. Stages' BY <1>2, <1>3, <1>7, AreaFrames DEF Stages
<1>9. FaultsOutside' BY <1>2 DEF pageDirectory, At, FaultsOutside
<1>10. QED BY <1>6, <1>8, <1>9 DEF PInv

LEMMA TableOK == ASSUME PInv, pageTable PROVE PInv'
<1>1. PICK f \in Frames :
        /\ f = next_free_pt_frame /\ next_free_pt_frame' = f + 1
        /\ mem' = [mem EXCEPT ![f] = Table(pd_index),
                              ![first_page_directory][pd_index] = Entry(f)]
  BY DEF pageTable, get_next_free_pt_frame, Advance
<1>2. /\ boot = "tables" /\ pd_index < DIRLEN /\ pd_index' = pd_index + 1
      /\ boot' = IF pd_index' = DIRLEN THEN "cr3" ELSE boot
      /\ UNCHANGED <<first_page_directory, cr2, cr3, pg, currpid, panicked>>
  BY DEF pageTable, At
<1>3. Built /\ ~pg /\ pd_index \in Nat /\ pd_index' \in 0..DIRLEN
  BY <1>2, AreaFrames DEF PInv, Stages, TypeOK
<1>4. /\ f = TableOf(pd_index) /\ f # Dir /\ Dir \in Frames /\ f \in Nat
      /\ pd_index \in Index /\ first_page_directory = Dir
  BY <1>1, <1>2, <1>3, AreaFrames DEF Built, Frames
<1>5. Table(pd_index) \in [Index -> Nat]
  <2>1. ENTRIES \in Nat BY AreaAssumption
  <2>2. \A i \in Index : Entry(pd_index * ENTRIES + i) \in Nat
    BY <1>3, <2>1 DEF Entry, Index
  <2>3. QED BY <2>2 DEF Table
<1>6. Entry(f) \in Nat BY <1>4 DEF Entry
<1>7. /\ mem' \in [Frames -> [Index -> Nat]]
      /\ mem'[f] = Table(pd_index)
      /\ mem'[Dir] = [mem[Dir] EXCEPT ![pd_index] = Entry(f)]
      /\ \A g \in Frames : g # f /\ g # Dir => mem'[g] = mem[g]
  BY <1>1, <1>4, <1>5, <1>6 DEF PInv, TypeOK
<1>8. next_free_pt_frame' = TableOf(pd_index') /\ TableOf(pd_index') \in AREASTART..(AREAEND + 1)
  BY <1>1, <1>2, <1>3, <1>4, AreaAssumption DEF TableOf
<1>9. TypeOK' BY <1>2, <1>3, <1>7, <1>8 DEF PInv, TypeOK
<1>10. Built'
  <2>1. ASSUME NEW d \in Index, d < pd_index'
        PROVE  mem'[Dir][d] = Entry(TableOf(d)) /\ mem'[TableOf(d)] = Table(d)
    <3>1. d \in Nat /\ (d < pd_index \/ d = pd_index) BY <1>2, <1>3, <2>1 DEF Index
    <3>2. CASE d = pd_index BY <1>4, <1>7, <3>2 DEF PInv, TypeOK
    <3>3. CASE d < pd_index
      <4>1. TableOf(d) \in Frames /\ TableOf(d) # Dir /\ TableOf(d) # f /\ d # pd_index
        BY <1>2, <1>3, <1>4, <3>1, <3>3, AreaFrames
      <4>2. mem[Dir][d] = Entry(TableOf(d)) /\ mem[TableOf(d)] = Table(d)
        BY <1>3, <3>3 DEF Built
      <4>3. mem'[Dir][d] = mem[Dir][d] BY <1>4, <1>7, <4>1 DEF PInv, TypeOK
      <4>4. QED BY <1>7, <4>1, <4>2, <4>3
    <3>4. QED BY <3>1, <3>2, <3>3
  <2>2. ASSUME NEW d \in Index, d >= pd_index' PROVE mem'[Dir][d] = 0
    <3>1. d >= pd_index /\ d # pd_index BY <1>2, <1>3, <2>2 DEF Index
    <3>2. mem[Dir][d] = 0 BY <1>3, <3>1 DEF Built
    <3>3. QED BY <1>4, <1>7, <3>1, <3>2 DEF PInv, TypeOK
  <2>3. QED BY <1>2, <1>4, <1>8, <2>1, <2>2 DEF Built
<1>11. Stages'
  <2>1. CASE pd_index' = DIRLEN BY <1>2, <1>3, <1>10, <2>1 DEF Stages
  <2>2. CASE pd_index' # DIRLEN
    <3>1. pd_index' < DIRLEN BY <1>3, <2>2, AreaFrames
    <3>2. QED BY <1>2, <1>3, <1>10, <2>2, <3>1 DEF Stages
  <2>3. QED BY <2>1, <2>2
<1>12. FaultsOutside' BY <1>2 DEF pageTable, At, FaultsOutside
<1>13. QED BY <1>9, <1>11, <1>12 DEF PInv

\* Steps that leave memory and the tables alone.
LEMMA QuietOK ==
    ASSUME PInv, UNCHANGED <<mem, next_free_pt_frame, first_page_directory, pd_index>>,
           Stages', FaultsOutside', cr3' \in Frames, cr2' \in Pages, pg' \in BOOLEAN,
           panicked' \in BOOLEAN, currpid' \in Pids,
           boot' \in {"directory", "tables", "cr3", "dump", "enable", "run"}
    PROVE  PInv'
  BY DEF PInv, TypeOK

LEMMA BuiltKept ==
    ASSUME UNCHANGED <<mem, next_free_pt_frame, first_page_directory, pd_index>>
    PROVE  Built' <=> Built
  BY DEF Built

LEMMA FaultOK ==
    ASSUME PInv, NEW v \in Pages, fault(v), boot = "run", ~(Frame(v) < XINU_PAGES)
    PROVE  PInv'
<1>1. /\ UNCHANGED <<mem, next_free_pt_frame, first_page_directory, pd_index>>
      /\ UNCHANGED <<boot, cr3, pg, currpid>> /\ cr2' = v /\ panicked' = TRUE
  BY DEF fault, tables
<1>2. Stages' BY <1>1, BuiltKept DEF PInv, Stages
<1>3. FaultsOutside' BY <1>1, BelowHeap DEF FaultsOutside, Frame, XINU_PAGES
<1>4. QED BY <1>1, <1>2, <1>3, QuietOK DEF PInv, TypeOK

LEMMA StoreOK ==
    ASSUME PInv, NEW v \in Pages, NEW i \in Slots, NEW w \in Values, store(v, i, w)
    PROVE  PInv'
<1>1. boot = "run" /\ pg /\ i \in Index /\ w \in Nat
  BY WordsAssumption DEF store, At, PInv, Stages
<1>2. CASE ~Reachable(v) /\ fault(v)
  <2>1. ~(Frame(v) < XINU_PAGES) BY <1>1, <1>2, Walk DEF Reachable
  <2>2. QED BY <1>1, <1>2, <2>1, FaultOK
<1>3. CASE /\ Reachable(v)
           /\ mem' = [mem EXCEPT ![Physical(v)][i] = w]
           /\ UNCHANGED <<tables, cr2, cr3, pg, currpid, panicked>>
  <2>1. Physical(v) = Frame(v) /\ Frame(v) < XINU_PAGES
    BY <1>1, <1>3, Walk DEF Reachable, Physical
  <2>2. Frame(v) \in Nat /\ Frame(v) < Dir /\ Frame(v) \in Frames
    BY <2>1, BelowHeap, AreaAssumption DEF Dir, Frames
  <2>3. /\ mem' \in [Frames -> [Index -> Nat]]
        /\ \A g \in Frames : g >= Dir => mem'[g] = mem[g]
    <3>1. mem' = [mem EXCEPT ![Frame(v)][i] = w] BY <1>3, <2>1
    <3>2. mem \in [Frames -> [Index -> Nat]] BY DEF PInv, TypeOK
    <3>3. [mem[Frame(v)] EXCEPT ![i] = w] \in [Index -> Nat] BY <1>1, <2>2, <3>2
    <3>4. \A g \in Frames : g >= Dir => g # Frame(v)
      BY <2>2, AreaFrames DEF Frames
    <3>5. QED BY <3>1, <3>2, <3>3, <3>4
  <2>4. TypeOK' BY <1>3, <2>3 DEF PInv, TypeOK, tables
  <2>5. Built /\ pd_index = DIRLEN BY <1>1 DEF PInv, Stages
  <2>6. mem'[Dir] = mem[Dir] BY <2>3, AreaFrames
  <2>7. \A d \in Index : d < DIRLEN => mem'[TableOf(d)] = mem[TableOf(d)]
    <3>1. \A d \in Index : d \in Nat /\ TableOf(d) >= Dir
      BY AreaFrames DEF Index, TableOf, Dir
    <3>2. QED BY <2>3, <3>1, AreaFrames
  <2>8. Built' BY <1>3, <2>5, <2>6, <2>7 DEF Built, tables, Dir, TableOf, Table
  <2>9. Stages' BY <1>3, <2>8 DEF PInv, Stages, tables
  <2>10. FaultsOutside' BY <1>3 DEF PInv, FaultsOutside, tables, Frame, XINU_PAGES
  <2>11. QED BY <2>4, <2>9, <2>10 DEF PInv
<1>4. QED BY <1>2, <1>3 DEF store

\* write_cr3, dump_pd, enable_paging and ctxsw.
LEMMA RegistersOK ==
    ASSUME PInv, write_cr3 \/ dump_pd \/ enable_paging \/ \E p \in Pids : ctxsw(p)
    PROVE  PInv'
<1>1. CASE write_cr3
  <2>1. /\ UNCHANGED <<mem, next_free_pt_frame, first_page_directory, pd_index>>
        /\ UNCHANGED <<cr2, pg, currpid, panicked>> /\ boot = "cr3" /\ boot' = "dump"
        /\ cr3' = first_page_directory
    BY <1>1 DEF write_cr3, At
  <2>2. Built /\ cr3' = Dir BY <2>1 DEF PInv, Stages, Built
  <2>3. Stages' BY <2>1, <2>2, BuiltKept DEF PInv, Stages
  <2>4. FaultsOutside' BY <2>1 DEF PInv, FaultsOutside
  <2>5. QED BY <2>1, <2>3, <2>4, QuietOK DEF PInv, TypeOK
<1>2. CASE dump_pd
  <2>1. boot = "dump" /\ ~pg /\ first_page_directory = Dir
    BY <1>2 DEF dump_pd, At, PInv, Stages, Built
  <2>2. Reachable(PageOf(first_page_directory))
    BY <2>1, DirectoryPage, AreaFrames DEF Reachable
  <2>3. /\ UNCHANGED <<mem, next_free_pt_frame, first_page_directory, pd_index>>
        /\ UNCHANGED <<cr2, cr3, pg, currpid, panicked>> /\ boot' = "enable" /\ ~panicked
    BY <1>2, <2>2 DEF dump_pd, At
  <2>4. Stages' BY <2>1, <2>3, BuiltKept DEF PInv, Stages
  <2>5. FaultsOutside' BY <2>3 DEF FaultsOutside
  <2>6. QED BY <2>3, <2>4, <2>5, QuietOK DEF PInv, TypeOK
<1>3. CASE enable_paging
  <2>1. /\ UNCHANGED <<mem, next_free_pt_frame, first_page_directory, pd_index>>
        /\ UNCHANGED <<cr2, cr3, currpid, panicked>>
        /\ boot = "enable" /\ boot' = "run" /\ pg' = TRUE
    BY <1>3 DEF enable_paging, At
  <2>2. Stages' BY <2>1, BuiltKept DEF PInv, Stages
  <2>3. FaultsOutside' BY <2>1 DEF PInv, FaultsOutside, Frame
  <2>4. QED BY <2>1, <2>2, <2>3, QuietOK DEF PInv, TypeOK
<1>4. ASSUME NEW p \in Pids, ctxsw(p) PROVE PInv'
  <2>1. /\ UNCHANGED <<mem, next_free_pt_frame, first_page_directory, pd_index>>
        /\ UNCHANGED <<boot, cr2, cr3, pg, panicked>> /\ currpid' = p
    BY <1>4 DEF ctxsw, tables
  <2>2. Stages' BY <2>1, BuiltKept DEF PInv, Stages
  <2>3. FaultsOutside' BY <2>1 DEF PInv, FaultsOutside, Frame
  <2>4. QED BY <2>1, <2>2, <2>3, QuietOK DEF PInv, TypeOK
<1>5. QED BY <1>1, <1>2, <1>3, <1>4
-----------------------------------------------------------------------------
LEMMA NextOK == ASSUME PInv, [Next]_vars PROVE PInv'
<1>1. CASE UNCHANGED vars
  <2>1. /\ UNCHANGED <<mem, next_free_pt_frame, first_page_directory, pd_index>>
        /\ UNCHANGED <<boot, cr2, cr3, pg, panicked, currpid>>
    BY <1>1 DEF vars, tables
  <2>2. Stages' BY <2>1, BuiltKept DEF PInv, Stages
  <2>3. FaultsOutside' BY <2>1 DEF PInv, FaultsOutside, Frame
  <2>4. QED BY <2>1, <2>2, <2>3, QuietOK DEF PInv, TypeOK
<1>2. CASE Booting BY <1>2, DirectoryOK, TableOK, RegistersOK DEF Booting
<1>3. CASE \E v \in Pages, i \in Slots, w \in Values : store(v, i, w)
  BY <1>3, StoreOK
<1>4. CASE \E p \in Pids : ctxsw(p) BY <1>4, RegistersOK
<1>5. QED BY <1>1, <1>2, <1>3, <1>4 DEF Next, Stopped

\* What sysinit has built, at every stage and after every store.
THEOREM Invariance == Spec => []PInv
<1>1. PInv /\ [Next]_vars => PInv' BY NextOK
<1>2. QED BY <1>1, InitOK, PTL DEF Spec

\* The registers, the memory and the frame counter keep their types: the
\* counter of get_next_free_pt_frame stays in the page table area.
THEOREM TypeCorrect == Spec => []TypeOK
<1>1. PInv => TypeOK BY DEF PInv
<1>2. QED BY <1>1, Invariance, PTL

\* Once paging is on, exactly the pages below maxheap are mapped, each to the
\* frame of its own number, whatever the processes store (page_table_init).
THEOREM IdentityMap == Spec => []IdentityMapped
<1>1. PInv => IdentityMapped BY Walk DEF IdentityMapped, Physical
<1>2. QED BY <1>1, Invariance, PTL

\* The only pages that fault are the ones from maxheap on, and only when the
\* processes run: sysinit itself never faults (dump_pd, enable_paging).
THEOREM FaultsAreOutside == Spec => []FaultsOutside
<1>1. PInv => FaultsOutside BY DEF PInv
<1>2. QED BY <1>1, Invariance, PTL

\* The tables are the frames that follow the directory.
LEMMA TheTables == ASSUME PInv, pg
                   PROVE  cr3 = Dir /\ TableFrames = (Dir + 1)..(Dir + DIRLEN)
<1>1. cr3 = Dir /\ Built /\ pd_index = DIRLEN BY DEF PInv, Stages
<1>2. \A d \in Index : d \in Nat /\ (d < DIRLEN \/ d >= DIRLEN)
  BY AreaFrames DEF Index
<1>3. \A d \in Index : /\ Present(mem[cr3][d]) <=> d < DIRLEN
                       /\ d < DIRLEN => Base(mem[cr3][d]) = Dir + 1 + d
  <2> SUFFICES ASSUME NEW d \in Index
               PROVE  /\ Present(mem[cr3][d]) <=> d < DIRLEN
                      /\ d < DIRLEN => Base(mem[cr3][d]) = Dir + 1 + d
    OBVIOUS
  <2>1. CASE d < DIRLEN
    <3>1. mem[cr3][d] = Entry(TableOf(d)) BY <1>1, <2>1 DEF Built
    <3>2. TableOf(d) = Dir + 1 + d /\ TableOf(d) \in Nat
      BY <1>2, AreaFrames DEF TableOf, Dir
    <3>3. QED BY <2>1, <3>1, <3>2 DEF Present, Base, Entry
  <2>2. CASE d >= DIRLEN
    <3>1. mem[cr3][d] = 0 BY <1>1, <2>2 DEF Built
    <3>2. QED BY <1>2, <2>2, <3>1, AreaFrames DEF Present
  <2>3. QED BY <1>2, <2>1, <2>2
<1>4. TableFrames = {Dir + 1 + d : d \in {j \in Index : j < DIRLEN}}
  <2>1. {j \in Index : Present(mem[cr3][j])} = {j \in Index : j < DIRLEN} BY <1>3
  <2>2. TableFrames = {Base(mem[cr3][d]) : d \in {j \in Index : j < DIRLEN}}
    BY <2>1 DEF TableFrames
  <2>3. \A d \in {j \in Index : j < DIRLEN} : Base(mem[cr3][d]) = Dir + 1 + d BY <1>3
  <2>4. QED BY <2>2, <2>3
<1>5. {j \in Index : j < DIRLEN} = 0..(DIRLEN - 1) BY AreaAssumption DEF Index
<1>6. ASSUME NEW f \in (Dir + 1)..(Dir + DIRLEN)
      PROVE  \E d \in 0..(DIRLEN - 1) : f = Dir + 1 + d
  <2>1. f - (Dir + 1) \in 0..(DIRLEN - 1) /\ f = Dir + 1 + (f - (Dir + 1))
    BY AreaFrames
  <2>2. QED BY <2>1
<1>7. ASSUME NEW d \in 0..(DIRLEN - 1) PROVE Dir + 1 + d \in (Dir + 1)..(Dir + DIRLEN)
  BY AreaFrames
<1>8. QED BY <1>1, <1>4, <1>5, <1>6, <1>7

\* The directory and its tables are different frames of the page table area
\* and no page is mapped to one of them, so no store changes the mapping.
THEOREM TablesAreApart == Spec => []TablesApart
<1>1. ASSUME PInv PROVE TablesApart
  <2> SUFFICES ASSUME pg
               PROVE  /\ cr3 \notin TableFrames /\ Cardinality(TableFrames) = DIRLEN
                      /\ TableFrames \cup {cr3} \subseteq AREASTART..AREAEND
                      /\ \A v \in Pages : Mapped(v) => Physical(v) \notin TableFrames \cup {cr3}
    BY DEF TablesApart
  <2>1. cr3 = Dir /\ TableFrames = (Dir + 1)..(Dir + DIRLEN) BY <1>1, TheTables
  <2>2. Dir \in Nat /\ DIRLEN \in Nat /\ Dir + DIRLEN <= AREAEND /\ AREAEND \in Nat
    BY AreaAssumption DEF Dir
  <2>3. Cardinality(TableFrames) = DIRLEN BY <2>1, <2>2, FS_Interval
  <2>4. ASSUME NEW v \in Pages, Mapped(v) PROVE Physical(v) \notin TableFrames \cup {cr3}
    <3>1. Physical(v) = Frame(v) /\ Frame(v) < XINU_PAGES
      BY <1>1, <2>4, Walk DEF Physical
    <3>2. Frame(v) < Dir /\ Frame(v) \in Nat BY <3>1, BelowHeap, AreaAssumption DEF Dir
    <3>3. QED BY <2>1, <2>2, <3>1, <3>2
  <2>5. QED BY <2>1, <2>2, <2>3, <2>4 DEF Dir
<1>2. QED BY <1>1, Invariance, PTL
==============================================================================
