-------------------------------- MODULE Ports --------------------------------
(***************************************************************************)
(* Ports: bounded message queues over two semaphores, with reset and       *)
(* delete (system/pt*.c).  Calls run with interrupts disabled and are one  *)
(* step up to a wait that blocks, or to a call that may reschedule with    *)
(* work left: dispose, semreset and semdelete inside _ptclear.  A process  *)
(* that has been made ready continues at any later time, so every order    *)
(* that priorities could impose is among the behaviours.                   *)
(***************************************************************************)
EXTENDS Sem

CONSTANTS PtProcs,     \* processes that use ports
          NPORTS,      \* size of porttab
          PtMsgs,      \* message words
          PtNodes,     \* message nodes made by ptinit
          PtCounts,    \* counts given to ptcreate
          PtSems,      \* semaphores that are left in semtab
          MaxSeq,      \* bound on ptseq
          PtKills      \* bound on the number of processes killed

ASSUME PtCountsAssumption ==             \* ptmaxcnt is a uint16
    PtCounts \subseteq Nat /\ \A n \in PtCounts : n <= 65535
ASSUME PtSizesAssumption ==
    NPORTS \in Nat \ {0} /\ PtNodes \in Nat /\ PtSems \in Nat /\ IsFiniteSet(PtProcs)

VARIABLES ptstate, ptseq, ptmaxcnt,  \* fields of porttab
          ptssem, ptrsem,            \* its semaphores
          ptqueue,                   \* the list from pthead to pttail
          ptfree, ptnextid,
          ptsems,                    \* free entries of semtab
          ptpc,                      \* where a process is in a call
          ptpanic, ptkilled,
          ptlost                     \* permits that killed processes took along
ptvars == <<ptstate, ptseq, ptmaxcnt, ptssem, ptrsem, ptqueue, ptfree, ptnextid,
            ptsems, ptpc, ptpanic, ptkilled, ptlost>>

PortIds == 0..(NPORTS - 1)
NoSem == [val |-> -1, queue |-> << >>]         \* SYSERR in ptssem or ptrsem
PtIdle == [op |-> "idle", port |-> 0, seq |-> 0, arg |-> 0]
PtAt(op, q, seq, arg) == [op |-> op, port |-> q, seq |-> seq, arg |-> arg]
PtGo(p, k) == ptpc' = [ptpc EXCEPT ![p] = k]

ptinit ==
    /\ ptstate = [q \in PortIds |-> "PT_FREE"]
    /\ ptseq = [q \in PortIds |-> 0] /\ ptmaxcnt = [q \in PortIds |-> 0]
    /\ ptssem = [q \in PortIds |-> NoSem] /\ ptrsem = [q \in PortIds |-> NoSem]
    /\ ptqueue = [q \in PortIds |-> << >>]
    /\ ptfree = [i \in 1..PtNodes |-> i] /\ ptnextid = 0
    /\ ptsems = PtSems /\ ptpc = [p \in PtProcs |-> PtIdle]
    /\ ptpanic = FALSE /\ ptkilled = 0
    /\ ptlost = [q \in PortIds |-> [s |-> 0, r |-> 0]]

\* The process is on a semaphore of the port it uses.
PtBlocked(p) == Waits(ptssem[ptpc[p].port], p) \/ Waits(ptrsem[ptpc[p].port], p)
PtIn(p, op) == ~ptpanic /\ ptpc[p].op = op /\ ~PtBlocked(p)
-----------------------------------------------------------------------------
PtFirstFree ==
    CHOOSE q \in PortIds :
        /\ ptstate[q] = "PT_FREE"
        /\ \A r \in PortIds : ptstate[r] = "PT_FREE" =>
               (q - ptnextid) % NPORTS <= (r - ptnextid) % NPORTS

ptcreate(p, count) ==
    /\ PtIn(p, "idle") /\ \E q \in PortIds : ptstate[q] = "PT_FREE" /\ ptseq[q] < MaxSeq
    /\ LET q == PtFirstFree IN
       /\ ptnextid' = (q + 1) % NPORTS
       /\ ptstate' = [ptstate EXCEPT ![q] = "PT_ALLOC"]
       /\ ptssem' = [ptssem EXCEPT ![q] = IF ptsems > 0 THEN SemNew(count) ELSE NoSem]
       /\ ptrsem' = [ptrsem EXCEPT ![q] = IF ptsems > 1 THEN SemNew(0) ELSE NoSem]
       /\ ptsems' = IF ptsems > 1 THEN ptsems - 2 ELSE 0
       /\ ptqueue' = [ptqueue EXCEPT ![q] = << >>]
       /\ ptseq' = [ptseq EXCEPT ![q] = @ + 1]
       /\ ptmaxcnt' = [ptmaxcnt EXCEPT ![q] = count]
       /\ ptlost' = [ptlost EXCEPT ![q] = [s |-> 0, r |-> 0]]
    /\ UNCHANGED <<ptfree, ptpc, ptpanic, ptkilled>>

\* What the port looked like when the call began, checked after wait.
BugNoSeq(q, seq) == ptstate[q] = "PT_ALLOC"       \* without ptseq != seq
PtSame(q, seq) == ptstate[q] = "PT_ALLOC" /\ ptseq[q] = seq

\* ptsend after its wait: a node from the free list goes to the tail.
PtPut(q, m) ==
    IF ptfree = << >>
    THEN ptpanic' = TRUE /\ UNCHANGED <<ptfree, ptqueue, ptrsem>>
    ELSE /\ ptfree' = Tail(ptfree)
         /\ ptqueue' = [ptqueue EXCEPT ![q] = Append(@, [node |-> Head(ptfree), msg |-> m])]
         /\ ptrsem' = [ptrsem EXCEPT ![q] = IF @ = NoSem THEN @ ELSE V(@)]
         /\ UNCHANGED ptpanic

ptsend(p, q, m) ==
    /\ PtIn(p, "idle") /\ ptstate[q] = "PT_ALLOC" /\ ptssem[q] # NoSem
    /\ ptssem' = [ptssem EXCEPT ![q] = P(@, p)]
    /\ \/ Passes(ptssem[q]) /\ PtPut(q, m) /\ UNCHANGED ptpc
       \/ /\ ~Passes(ptssem[q]) /\ PtGo(p, PtAt("send", q, ptseq[q], m))
          /\ UNCHANGED <<ptfree, ptqueue, ptrsem, ptpanic>>
    /\ UNCHANGED <<ptstate, ptseq, ptmaxcnt, ptnextid, ptsems, ptkilled, ptlost>>
ptsendRest(p) ==
    /\ PtIn(p, "send")
    /\ \/ PtSame(ptpc[p].port, ptpc[p].seq) /\ PtPut(ptpc[p].port, ptpc[p].arg)
       \/ /\ ~PtSame(ptpc[p].port, ptpc[p].seq)
          /\ UNCHANGED <<ptfree, ptqueue, ptrsem, ptpanic>>
    /\ PtGo(p, PtIdle)
    /\ UNCHANGED <<ptstate, ptseq, ptmaxcnt, ptssem, ptnextid, ptsems, ptkilled, ptlost>>

\* ptrecv after its wait: pthead is not tested for NULL.
BugLeaksNode(q) ==                     \* the node is not returned
    /\ ptqueue' = [ptqueue EXCEPT ![q] = Tail(@)]
    /\ ptssem' = [ptssem EXCEPT ![q] = V(@)] /\ UNCHANGED ptfree
PtTake(q) ==
    /\ ptqueue' = [ptqueue EXCEPT ![q] = Tail(@)]
    /\ ptfree' = <<Head(ptqueue[q]).node>> \o ptfree
    /\ ptssem' = [ptssem EXCEPT ![q] = V(@)]

ptrecv(p, q) ==
    /\ PtIn(p, "idle") /\ ptstate[q] = "PT_ALLOC" /\ ptrsem[q] # NoSem
    /\ ptrsem' = [ptrsem EXCEPT ![q] = P(@, p)]
    /\ \/ Passes(ptrsem[q]) /\ PtTake(q) /\ UNCHANGED ptpc
       \/ /\ ~Passes(ptrsem[q]) /\ PtGo(p, PtAt("recv", q, ptseq[q], 0))
          /\ UNCHANGED <<ptfree, ptqueue, ptssem>>
    /\ UNCHANGED <<ptstate, ptseq, ptmaxcnt, ptnextid, ptsems, ptpanic, ptkilled, ptlost>>
ptrecvRest(p) ==
    /\ PtIn(p, "recv")
    /\ \/ PtSame(ptpc[p].port, ptpc[p].seq) /\ PtTake(ptpc[p].port)
       \/ ~PtSame(ptpc[p].port, ptpc[p].seq) /\ UNCHANGED <<ptfree, ptqueue, ptssem>>
    /\ PtGo(p, PtIdle)
    /\ UNCHANGED <<ptstate, ptseq, ptmaxcnt, ptrsem, ptnextid, ptsems, ptpanic,
                   ptkilled, ptlost>>
-----------------------------------------------------------------------------
\* _ptclear, for ptreset (to = "PT_ALLOC") and ptdelete (to = "PT_FREE").  The
\* caller's dispose is called for every message and may reschedule.
ptclear(p, q, to) ==
    /\ PtIn(p, "idle") /\ ptstate[q] = "PT_ALLOC" /\ ptseq[q] < MaxSeq
    /\ ptstate' = [ptstate EXCEPT ![q] = "PT_LIMBO"]
    /\ ptseq' = [ptseq EXCEPT ![q] = @ + 1]
    /\ PtGo(p, PtAt("dispose", q, Len(ptqueue[q]), to))
    /\ UNCHANGED <<ptmaxcnt, ptssem, ptrsem, ptqueue, ptfree, ptnextid, ptsems,
                   ptpanic, ptkilled, ptlost>>
ptreset(p, q) == ptclear(p, q, "PT_ALLOC")
ptdelete(p, q) == ptclear(p, q, "PT_FREE")

ptdispose(p) ==                         \* seq holds the messages still to walk
    /\ PtIn(p, "dispose") /\ ptpc[p].seq > 0
    /\ PtGo(p, [ptpc[p] EXCEPT !.seq = @ - 1])
    /\ UNCHANGED <<ptstate, ptseq, ptmaxcnt, ptssem, ptrsem, ptqueue, ptfree,
                   ptnextid, ptsems, ptpanic, ptkilled, ptlost>>

\* semreset or semdelete: everybody who waits becomes ready.
PtSemEnd(s, to, count) == IF s = NoSem \/ to = "PT_FREE" THEN NoSem ELSE SemNew(count)
PtSemBack(s, to) == IF s # NoSem /\ to = "PT_FREE" THEN 1 ELSE 0

NodesOf(list) == [i \in DOMAIN list |-> list[i].node]
PtFreeList(q) ==
    /\ ptfree' = NodesOf(ptqueue[q]) \o ptfree
    /\ ptqueue' = [ptqueue EXCEPT ![q] = << >>]

ptclearSend(p) ==
    /\ PtIn(p, "dispose") /\ ptpc[p].seq = 0
    /\ LET q == ptpc[p].port to == ptpc[p].arg IN
       /\ PtFreeList(q)
       /\ ptssem' = [ptssem EXCEPT ![q] = PtSemEnd(@, to, ptmaxcnt[q])]
       /\ ptsems' = ptsems + PtSemBack(ptssem[q], to)
    /\ PtGo(p, [ptpc[p] EXCEPT !.op = "clearRecv"])
    /\ UNCHANGED <<ptstate, ptseq, ptmaxcnt, ptrsem, ptnextid, ptpanic, ptkilled, ptlost>>
ptclearRecv(p) ==
    /\ PtIn(p, "clearRecv")
    /\ LET q == ptpc[p].port to == ptpc[p].arg IN
       /\ ptrsem' = [ptrsem EXCEPT ![q] = PtSemEnd(@, to, 0)]
       /\ ptsems' = ptsems + PtSemBack(ptrsem[q], to)
    /\ PtGo(p, [ptpc[p] EXCEPT !.op = "clearState"])
    /\ UNCHANGED <<ptstate, ptseq, ptmaxcnt, ptssem, ptqueue, ptfree, ptnextid,
                   ptpanic, ptkilled, ptlost>>
ptclearState(p) ==
    /\ PtIn(p, "clearState")
    /\ LET q == ptpc[p].port to == ptpc[p].arg IN
       /\ ptstate' = [ptstate EXCEPT ![q] = to]
       /\ ptnextid' = IF to = "PT_FREE" THEN q ELSE ptnextid
       /\ ptlost' = [ptlost EXCEPT ![q] = [s |-> 0, r |-> 0]]
    /\ PtGo(p, PtIdle)
    /\ UNCHANGED <<ptseq, ptmaxcnt, ptssem, ptrsem, ptqueue, ptfree, ptsems,
                   ptpanic, ptkilled>>

\* kill of a process inside a call: it leaves the semaphore it waits on; if it
\* has been made ready with a permit, the permit is gone.
ptkill(p) ==
    /\ ~ptpanic /\ ptpc[p].op # "idle" /\ ptkilled < PtKills
    /\ LET q == ptpc[p].port IN
       /\ ptssem' = [ptssem EXCEPT ![q] = Leave(@, p)]
       /\ ptrsem' = [ptrsem EXCEPT ![q] = Leave(@, p)]
       /\ ptlost' = IF PtBlocked(p) \/ ~PtSame(q, ptpc[p].seq) THEN ptlost
                    ELSE IF ptpc[p].op = "send" THEN [ptlost EXCEPT ![q].s = @ + 1]
                    ELSE IF ptpc[p].op = "recv" THEN [ptlost EXCEPT ![q].r = @ + 1]
                    ELSE ptlost
    /\ PtGo(p, PtIdle) /\ ptkilled' = ptkilled + 1
    /\ UNCHANGED <<ptstate, ptseq, ptmaxcnt, ptqueue, ptfree, ptnextid, ptsems, ptpanic>>

\* Messages in the port, with those of blocked senders; negative if receivers wait.
ptcount(q) ==
    IF semcount(ptrsem[q]) >= 0 /\ semcount(ptssem[q]) < 0
    THEN semcount(ptrsem[q]) - semcount(ptssem[q]) ELSE semcount(ptrsem[q])

PtNext ==
    \E p \in PtProcs :
        \/ \E n \in PtCounts : ptcreate(p, n)
        \/ \E q \in PortIds, m \in PtMsgs : ptsend(p, q, m)
        \/ \E q \in PortIds : ptrecv(p, q) \/ ptreset(p, q) \/ ptdelete(p, q)
        \/ ptsendRest(p) \/ ptrecvRest(p) \/ ptdispose(p)
        \/ ptclearSend(p) \/ ptclearRecv(p) \/ ptclearState(p) \/ ptkill(p)

PtSpec == ptinit /\ [][PtNext]_ptvars
-----------------------------------------------------------------------------
\* Processes that have been let through wait on the port as it now is, but have
\* not continued yet.
PtAwake(q, op) ==
    {p \in PtProcs : /\ ptpc[p].op = op /\ ptpc[p].port = q /\ ~PtBlocked(p)
                     /\ PtSame(q, ptpc[p].seq)}
PtReady(q) == ~ptpanic /\ ptstate[q] = "PT_ALLOC" /\ ptssem[q] # NoSem /\ ptrsem[q] # NoSem

\* The permits of an allocated port account for its space and its messages,
\* whatever resets, deletions and kills came before: no slot is lost or used
\* twice, and a receiver that is past its wait finds a message (ptrecv.c:37
\* does not look).  Only a kill between wait and the rest of the call loses
\* a permit for good.  ptcount (ptcount.c:32) differs from the messages of
\* the port and of blocked senders only by receivers about to take theirs.
PermitsMatchMessages ==
    \A q \in PortIds : PtReady(q) =>
        LET n == Len(ptqueue[q]) IN
        /\ ptssem[q].val + Cardinality(PtAwake(q, "send")) + n + ptlost[q].s = ptmaxcnt[q]
        /\ ptrsem[q].val + Cardinality(PtAwake(q, "recv")) + ptlost[q].r = n
        /\ ptcount(q) >= 0 =>
             ptcount(q) = n + Len(ptssem[q].queue) - Cardinality(PtAwake(q, "recv")) - ptlost[q].r

\* Every message node is on the free list or in one port, once: the lists
\* that ptsend, ptrecv and _ptclear relink neither lose nor share nodes
\* (ptsend.c:38, ptrecv.c:37, ptclear.c:33).
PtList(a) == IF a = -1 THEN ptfree ELSE NodesOf(ptqueue[a])
NodesConserved ==
    /\ \A a \in -1..(NPORTS - 1) : PtList(a) \in Seq(1..PtNodes) /\ NoDup(PtList(a))
    /\ \A n \in 1..PtNodes : \E a \in -1..(NPORTS - 1) :
          \A b \in -1..(NPORTS - 1) : OnQueue(PtList(b), n) <=> a = b
==============================================================================
