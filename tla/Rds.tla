--------------------------------- MODULE Rds ---------------------------------
(***************************************************************************)
(* The remote disk driver (device/rds): processes that read, write and     *)
(* sync blocks, the communication process that serves their requests one   *)
(* after the other, the request queue and the block cache they share, and  *)
(* the exchange with the server over a network that loses, delays and      *)
(* reorders messages.                                                      *)
(*                                                                         *)
(* read, write and control disable interrupts (read.c:19) around the       *)
(* device's functions: a call is one step, which ends when the caller has  *)
(* its block or suspends itself with its request entered and signalled.    *)
(* The communication process runs with interrupts enabled, but at a higher *)
(* priority than its callers: it is one step from one wait to the next.    *)
(***************************************************************************)
EXTENDS Integers, Sequences, SequencesExt, FiniteSets

CONSTANTS RdProcs, RdBlocks,
          RD_QNODES, RD_CNODES, RD_RETRIES,
          RdBounds             \* bounds on reads, writes, syncs; the blocks read and written

VARIABLES rdstate,             \* CLOSED, PEND, OPEN, or panic
          rdnode,              \* the request nodes: [op, blk, val, pid, next, prev]
          rdhead, rdtail, rdfree,   \* rd_qhead, rd_qtail, rd_qfree
          rdcache,             \* blocks and values, from rd_chead to rd_ctail
          rdsem,               \* permits of rd_comsem
          rdcom,               \* the communication process
          rdproc,              \* what each caller is doing
          rdseq, rdreq, rdrep, \* sequence number; requests and replies on their way
          rddisk,              \* the server's blocks
          rdbudget, rdlive,    \* bounds; auxiliary: values a read may find
          rddoubt,             \* auxiliary: blocks whose copy at the server may be old
          rdfault              \* auxiliary: what has gone wrong
rdqueue == <<rdnode, rdhead, rdtail, rdfree>>
rdnet == <<rdseq, rdreq, rdrep, rddisk>>
rdvars == <<rdstate, rdqueue, rdcache, rdsem, rdcom, rdproc, rdnet, rdbudget, rdlive, rddoubt, rdfault>>

NULL == 0
RdNodes == 1..RD_QNODES
RdWrites == CHOOSE n \in {b.writes : b \in RdBounds} : \A b \in RdBounds : b.writes <= n
\* There are RD_QNODES == NPROC request nodes.
ASSUME RdAssumption ==
    /\ RD_QNODES \in Nat \ {0} /\ RD_CNODES \in Nat /\ RdWrites \in Nat
    /\ IsFiniteSet(RdProcs) /\ Cardinality(RdProcs) <= RD_QNODES
    /\ RdBounds \subseteq [reads : Nat, writes : 0..RdWrites, syncs : Nat, asked : SUBSET RdBlocks,
                            given : SUBSET RdBlocks]
RdNode == [op |-> "none", blk |-> CHOOSE b \in RdBlocks : TRUE, val |-> 0, pid |-> "none",
           next |-> NULL, prev |-> NULL]
RdIdle == [at |-> "idle", blk |-> RdNode.blk, val |-> 0, may |-> {}, older |-> {}]
RdComIdle == [at |-> "idle", op |-> "none", blk |-> RdNode.blk, val |-> 0, seq |-> 0,
              tries |-> 0, xmit |-> TRUE, node |-> NULL]

\* At first the disk has the value 0.
rdsinit ==
    /\ rdstate = "CLOSED" /\ rdseq = 1
    /\ rdnode = [n \in RdNodes |-> [RdNode EXCEPT !.next = IF n = RD_QNODES THEN NULL ELSE n + 1]]
    /\ rdhead = NULL /\ rdtail = NULL /\ rdfree = 1 /\ rdcache = << >>
    /\ rdsem = 0 /\ rdcom = RdComIdle /\ rdproc = [p \in RdProcs |-> RdIdle]
    /\ rdreq = {} /\ rdrep = {} /\ rddisk = [b \in RdBlocks |-> 0]
    /\ rdbudget \in RdBounds /\ rdlive = [b \in RdBlocks |-> {[val |-> 0, done |-> TRUE]}]
    /\ rddoubt = {} /\ rdfault = {}

\* rdsopen: the request to open is answered or not, and the nodes are linked.
rdsopen ==
    /\ rdstate = "CLOSED" /\ rdstate' = "PEND"
    /\ UNCHANGED <<rdqueue, rdcache, rdsem, rdcom, rdproc, rdnet, rdbudget, rdlive, rddoubt, rdfault>>
rdsopenRest ==
    /\ rdstate = "PEND" /\ rdstate' \in {"OPEN", "CLOSED"}
    /\ UNCHANGED <<rdqueue, rdcache, rdsem, rdcom, rdproc, rdnet, rdbudget, rdlive, rddoubt, rdfault>>
-----------------------------------------------------------------------------
\* Walks along the queue: the nodes from n on, by their links, until it ends or
\* has been longer than there are nodes.
RdWalk(link, n) ==
    LET at[i \in 0..RD_QNODES] ==
            IF i = 0 THEN n ELSE IF at[i - 1] = NULL THEN NULL ELSE link[at[i - 1]]
    IN  [i \in {j \in 1..(RD_QNODES + 1) : at[j - 1] # NULL} |-> at[i - 1]]
RdNext == [n \in RdNodes |-> rdnode[n].next]
RdPrev == [n \in RdNodes |-> rdnode[n].prev]

\* rdqunlink; q has the nodes, head, tail and free list.  The node after an
\* unlinked head keeps its rd_prev.
RdQ == [node |-> rdnode, head |-> rdhead, tail |-> rdtail, free |-> rdfree]
rdqunlink(q, n) ==
    LET nptr == q.node[n].next
        pptr == q.node[n].prev
        relinked == CASE n = q.head -> q.node
                      [] n # q.head /\ n = q.tail -> [q.node EXCEPT ![pptr].next = NULL]
                      [] OTHER -> [q.node EXCEPT ![pptr].next = nptr, ![nptr].prev = pptr] IN
    [node |-> [relinked EXCEPT ![n].next = q.free], free |-> n,
     head |-> IF n = q.head THEN (IF n = q.tail THEN NULL ELSE nptr) ELSE q.head,
     tail |-> IF n = q.tail THEN (IF n = q.head THEN NULL ELSE pptr) ELSE q.tail]
RdSetQ(q) == rdnode' = q.node /\ rdhead' = q.head /\ rdtail' = q.tail /\ rdfree' = q.free

\* A node from the free list for a request of p.
RdFilled(n, op, b, v, p) ==
    [rdnode EXCEPT ![n] = [@ EXCEPT !.op = op, !.blk = b, !.val = v, !.pid = p]]

BugForgetsLink(n, nodes) ==            \* the old tail is not linked to the new one
    /\ rdfree' = rdnode[n].next /\ rdtail' = n
    /\ rdnode' = [nodes EXCEPT ![n].next = NULL, ![n].prev = rdtail]
    /\ rdhead' = IF rdtail = NULL THEN n ELSE rdhead
\* rdqinsert: after the tail, if there is one, whether or not there is a head.
rdqinsert(n, nodes) ==
    /\ rdfree' = rdnode[n].next /\ rdtail' = n
    /\ IF rdtail = NULL
       THEN rdhead' = n /\ rdnode' = [nodes EXCEPT ![n].next = NULL, ![n].prev = NULL]
       ELSE /\ rdnode' = [nodes EXCEPT ![n].next = NULL, ![n].prev = rdtail, ![rdtail].next = n]
            /\ UNCHANGED rdhead
\* rdsread has its own: the queue is empty if it has no head.
RdReadInsert(n, nodes) ==
    /\ rdfree' = rdnode[n].next /\ rdtail' = n
    /\ IF rdhead = NULL
       THEN rdhead' = n /\ rdnode' = [nodes EXCEPT ![n].next = NULL, ![n].prev = NULL]
       ELSE /\ rdnode' = [nodes EXCEPT ![n].next = NULL, ![n].prev = rdtail, ![rdtail].next = n]
            /\ UNCHANGED rdhead
\* And so has rdscontrol: the node before is not linked to the new one, so
\* that the sync case of rdsprocess is never reached.
RdSyncInsert(n, nodes) ==
    /\ rdfree' = rdnode[n].next /\ rdtail' = n
    /\ rdnode' = [nodes EXCEPT ![n].next = NULL, ![n].prev = rdtail]
    /\ rdhead' = IF rdtail = NULL THEN n ELSE rdhead

\* rdcunlink and rdcinsert: the newest copy is at the head.
RdCached(b) == {i \in DOMAIN rdcache : rdcache[i].blk = b}
RdFirst(S) == CHOOSE i \in S : \A j \in S : i <= j
rdcunlink(b) == IF RdCached(b) = {} THEN rdcache ELSE RemoveAt(rdcache, RdFirst(RdCached(b)))
rdcinsert(b, v) ==
    LET copies == <<[blk |-> b, val |-> v]>> \o rdcache IN
    IF Len(copies) <= RD_CNODES THEN copies ELSE SubSeq(copies, 1, RD_CNODES)
-----------------------------------------------------------------------------
\* Callers.  Values are numbered by the writes.  may: the values that a read
\* may return; older: the completed values that a write supersedes.
RdLive(b) == {x.val : x \in rdlive[b]}
RdEnds(p) == [rdproc EXCEPT ![p] = RdIdle]
RdFaults(c, f) == rdfault' = IF c THEN rdfault \cup {f} ELSE rdfault
RdMayCall(p) == rdstate = "OPEN" /\ rdproc[p].at = "idle"

\* rdsread: the cache, or else the queue from the tail backwards as far as the
\* first request for the block, or else a request of its own.  A search that
\* does not end leaves everything as it is.
RdSearched(b) == LET walk == RdWalk(RdPrev, rdtail)
                     hits == {i \in DOMAIN walk : rdnode[walk[i]].blk = b} IN
                 IF hits # {} THEN {walk[RdFirst(hits)]} ELSE {}
RdSearchEnds(b) == RdSearched(b) # {} \/ Len(RdWalk(RdPrev, rdtail)) <= RD_QNODES
RdQueuedWrites(b) == {n \in RdSearched(b) : rdnode[n].op = "write"}
RdReadHere(p, b) ==
    /\ \/ /\ RdCached(b) # {}
          /\ RdFaults(rdcache[RdFirst(RdCached(b))].val \notin RdLive(b), "stale read")
       \/ /\ RdCached(b) = {} /\ \E n \in RdQueuedWrites(b) :
                 RdFaults(rdnode[n].val \notin RdLive(b), "stale read")
       \/ RdCached(b) = {} /\ ~RdSearchEnds(b) /\ rdfault' = rdfault \cup {"endless walk"}
    /\ UNCHANGED <<rdqueue, rdproc, rdsem>>
RdReadAsks(p, b) ==
    /\ RdCached(b) = {} /\ RdSearchEnds(b) /\ RdQueuedWrites(b) = {}
    /\ RdReadInsert(rdfree, RdFilled(rdfree, "read", b, 0, p)) /\ rdsem' = rdsem + 1
    /\ rdproc' = [rdproc EXCEPT ![p] = [RdIdle EXCEPT !.at = "suspended", !.blk = b, !.may = RdLive(b)]]
    /\ UNCHANGED rdfault
rdsread(p, b) ==
    /\ RdMayCall(p) /\ rdbudget.reads > 0
    /\ rdbudget' = [rdbudget EXCEPT !.reads = @ - 1]
    /\ RdReadHere(p, b) \/ RdReadAsks(p, b)
    /\ UNCHANGED <<rdstate, rdcache, rdcom, rdnet, rdlive, rddoubt>>

\* rdswrite: the cached copy is dropped, and the request entered.
BugKeepsCached(b) == rdcache
RdDropped(b) == rdcunlink(b)
rdswrite(p, b) ==
    LET v == RdWrites - rdbudget.writes + 1
        done == {x.val : x \in {x \in rdlive[b] : x.done}} IN
    /\ RdMayCall(p) /\ rdbudget.writes > 0
    /\ rdbudget' = [rdbudget EXCEPT !.writes = @ - 1]
    /\ rdcache' = RdDropped(b)
    /\ rdqinsert(rdfree, RdFilled(rdfree, "write", b, v, p)) /\ rdsem' = rdsem + 1
    /\ rdproc' = [q \in RdProcs |->
           IF q = p THEN [RdIdle EXCEPT !.at = "suspended", !.blk = b, !.val = v, !.older = done]
           ELSE IF rdproc[q].blk = b THEN [rdproc[q] EXCEPT !.may = @ \cup {v}] ELSE rdproc[q]]
    /\ rdlive' = [rdlive EXCEPT ![b] = @ \cup {[val |-> v, done |-> FALSE]}]
    /\ UNCHANGED <<rdstate, rdcom, rdnet, rddoubt, rdfault>>

\* rdscontrol(RDS_CTL_SYNC): nothing to do if the queue is empty.
rdscontrol(p) ==
    /\ RdMayCall(p) /\ rdbudget.syncs > 0 /\ rdhead # NULL
    /\ rdbudget' = [rdbudget EXCEPT !.syncs = @ - 1]
    /\ RdSyncInsert(rdfree, RdFilled(rdfree, "sync", RdNode.blk, 0, p))
    /\ rdproc' = [rdproc EXCEPT ![p] = [RdIdle EXCEPT !.at = "suspended"]] /\ rdsem' = rdsem + 1
    /\ rdfault' = rdfault \cup {"sync not linked"}
    /\ UNCHANGED <<rdstate, rdcache, rdcom, rdnet, rdlive, rddoubt>>
-----------------------------------------------------------------------------
\* rdsprocess, after its wait.
RdCompleted(p) ==                      \* a write of p is done: older values are gone
    LET b == rdproc[p].blk IN
    [rdlive EXCEPT ![b] = {x \in @ : x.val \notin rdproc[p].older /\ x.val # rdproc[p].val}
                              \cup {[val |-> rdproc[p].val, done |-> TRUE]}]
RdExchange(op, b, v, n) ==
    rdcom' = [RdComIdle EXCEPT !.at = "send", !.op = op, !.blk = b, !.val = v, !.seq = rdseq, !.node = n]

RdTakesNone ==                         \* a request was satisfied early
    /\ rdcom.at = "idle" /\ rdsem > 0 /\ rdhead = NULL /\ rdsem' = rdsem - 1
    /\ UNCHANGED <<rdstate, rdqueue, rdcache, rdcom, rdproc, rdnet, rdbudget, rdlive, rddoubt, rdfault>>
RdTakesRead ==
    /\ rdcom.at = "idle" /\ rdsem > 0 /\ rdhead # NULL /\ rdnode[rdhead].op = "read"
    /\ rdsem' = rdsem - 1 /\ rdseq' = rdseq + 1
    /\ RdExchange("read", rdnode[rdhead].blk, 0, rdhead)
    /\ UNCHANGED <<rdstate, rdqueue, rdcache, rdproc, rdreq, rdrep, rddisk, rdbudget, rdlive, rddoubt, rdfault>>
\* The walk for later writes of the block stays where it is: it ends only if
\* it is at its end, or at such a write, at once.
RdLaterWrite(n) == n # NULL /\ rdnode[n].op = "write" /\ rdnode[n].blk = rdnode[rdhead].blk
RdIsLatest(n) == rdnode[n].next = NULL
RdTakesWrite ==
    LET e == rdnode[rdhead] IN
    /\ rdcom.at = "idle" /\ rdsem > 0 /\ rdhead # NULL /\ e.op = "write"
    /\ rdsem' = rdsem - 1
    /\ \/ /\ e.next # NULL /\ ~RdLaterWrite(e.next)
          /\ rdfault' = rdfault \cup {"endless walk"}
          /\ UNCHANGED <<rdqueue, rdcache, rdcom, rdproc, rdseq, rdlive>>
       \/ /\ e.next = NULL \/ RdLaterWrite(e.next)
          /\ rdcache' = IF RdIsLatest(rdhead) THEN rdcinsert(e.blk, e.val) ELSE rdcache
          /\ rdproc' = RdEnds(e.pid) /\ rdlive' = RdCompleted(e.pid)
          /\ RdSetQ(rdqunlink(RdQ, rdhead))
          /\ rdseq' = rdseq + 1 /\ RdExchange("write", e.blk, e.val, NULL)
          /\ UNCHANGED rdfault
    /\ UNCHANGED <<rdstate, rdreq, rdrep, rddisk, rdbudget, rddoubt>>

\* A read has been answered with v: its caller and the later readers of the
\* block, as far as the next write of it, go on.  st: the queue, the node the
\* walk is at, and who goes on.
RdServes(st, b) ==
    LET e == st.q.node[st.at] IN
    IF st.at = NULL THEN st
    ELSE IF e.blk # b THEN [st EXCEPT !.at = e.next]
    ELSE IF e.op = "read" THEN [q |-> rdqunlink(st.q, st.at), at |-> e.next, pids |-> st.pids \cup {e.pid}]
    ELSE IF e.op = "write" THEN st ELSE [st EXCEPT !.at = e.next]
RdServed(n, b) ==
    LET q == rdqunlink(RdQ, n)
        served[k \in 0..RD_QNODES] ==
            IF k = 0 THEN [q |-> q, at |-> q.head, pids |-> {rdnode[n].pid}]
            ELSE RdServes(served[k - 1], b)
    IN  served[RD_QNODES]
RdReadDone(v, genuine) ==
    LET st == RdServed(rdcom.node, rdcom.blk) IN
    /\ RdSetQ(st.q)
    /\ rdproc' = [p \in RdProcs |-> IF p \in st.pids THEN RdIdle ELSE rdproc[p]]
    /\ \/ ~genuine /\ RdFaults(TRUE, "stale reply")
       \/ /\ genuine
          /\ RdFaults(rdcom.blk \notin rddoubt /\ \E p \in st.pids : v \notin rdproc[p].may, "stale read")
    /\ rdcom' = RdComIdle
-----------------------------------------------------------------------------
\* rdscomm: send, then wait for a reply.
RdSend ==
    /\ rdcom.at = "send"
    /\ rdcom' = [rdcom EXCEPT !.at = "receive", !.xmit = TRUE]
    /\ rdreq' = IF rdcom.xmit THEN rdreq \cup {[op |-> rdcom.op, blk |-> rdcom.blk,
                                                val |-> rdcom.val, seq |-> rdcom.seq]} ELSE rdreq
    /\ UNCHANGED <<rdstate, rdqueue, rdcache, rdsem, rdproc, rdseq, rdrep, rddisk,
                   rdbudget, rdlive, rddoubt, rdfault>>
\* The next round of the loop, or the end of the retries, which is a panic.
RdRetry(xmit) ==
    \/ /\ rdcom.tries + 1 < RD_RETRIES
       /\ rdcom' = [rdcom EXCEPT !.at = "send", !.tries = @ + 1, !.xmit = xmit]
       /\ UNCHANGED rdstate
    \/ /\ rdcom.tries + 1 = RD_RETRIES /\ rdstate' = "panic" /\ UNCHANGED rdcom
RdTimeout ==
    /\ rdstate = "OPEN" /\ rdcom.at = "receive" /\ RdRetry(TRUE)
    /\ UNCHANGED <<rdqueue, rdcache, rdsem, rdproc, rdnet, rdbudget, rdlive, rddoubt, rdfault>>
\* A reply of an earlier exchange is not discarded: only its type is looked at.
RdAccepts(r) == r.seq <= rdcom.seq /\ r.op = rdcom.op
RdReply(r) ==
    LET genuine == r.seq = rdcom.seq IN
    /\ rdstate = "OPEN" /\ rdcom.at = "receive" /\ rdrep' = rdrep \ {r}
    /\ \/ /\ RdAccepts(r) /\ r.op = "read" /\ RdReadDone(r.val, genuine)
          /\ UNCHANGED <<rdstate, rddoubt>>
       \/ /\ RdAccepts(r) /\ r.op = "write" /\ rdcom' = RdComIdle
          /\ rddoubt' = IF rddisk[rdcom.blk] = rdcom.val THEN rddoubt \ {rdcom.blk}
                        ELSE rddoubt \cup {rdcom.blk}
          /\ RdFaults(~genuine, "stale reply")
          /\ UNCHANGED <<rdstate, rdqueue, rdproc>>
       \/ /\ ~RdAccepts(r) /\ RdRetry(r.seq >= rdcom.seq)
          /\ UNCHANGED <<rdqueue, rdproc, rddoubt, rdfault>>
    /\ UNCHANGED <<rdcache, rdsem, rdseq, rdreq, rddisk, rdbudget, rdlive>>

\* External: the server, and the network, which may lose what it carries.  A
\* copy of a write request may arrive when its exchange is long over.
RdIsLate(m) == m.op = "write" /\ (rdcom.at = "idle" \/ rdcom.seq # m.seq) /\ rddisk[m.blk] # m.val
RdServer(m) ==
    /\ rdreq' = rdreq \ {m}
    /\ rddisk' = IF m.op = "write" THEN [rddisk EXCEPT ![m.blk] = m.val] ELSE rddisk
    /\ rdrep' = rdrep \cup {[op |-> m.op, seq |-> m.seq, val |-> rddisk'[m.blk]]}
    /\ rddoubt' = IF RdIsLate(m) THEN rddoubt \cup {m.blk} ELSE rddoubt
    /\ UNCHANGED <<rdstate, rdqueue, rdcache, rdsem, rdcom, rdproc, rdseq, rdbudget, rdlive, rdfault>>
RdLost ==
    /\ \/ \E m \in rdreq : rdreq' = rdreq \ {m} /\ UNCHANGED rdrep
       \/ \E r \in rdrep : rdrep' = rdrep \ {r} /\ UNCHANGED rdreq
    /\ UNCHANGED <<rdstate, rdqueue, rdcache, rdsem, rdcom, rdproc, rdseq, rddisk,
                   rdbudget, rdlive, rddoubt, rdfault>>

RdsNext ==
    \/ rdsopen \/ rdsopenRest
    \/ \E p \in RdProcs :
          \/ \E b \in rdbudget.asked : rdsread(p, b)
          \/ \E b \in rdbudget.given : rdswrite(p, b)
          \/ rdscontrol(p)
    \/ RdTakesNone \/ RdTakesRead \/ RdTakesWrite
    \/ RdSend \/ RdTimeout \/ (\E r \in rdrep : RdReply(r))
    \/ (\E m \in rdreq : RdServer(m)) \/ RdLost
RdsSpec == rdsinit /\ [][RdsNext]_rdvars
-----------------------------------------------------------------------------
\* A list goes wrong when a sync request is entered (rdscontrol.c:64), and a
\* walk that does not end is the end of all (rdsprocess.c:138, rdsread.c:55).
RdSound == rdfault \cap {"endless walk", "sync not linked"} = {}

\* A read returns what the last write of the block that was finished before
\* it has left, or what a write at the same time is writing, wherever it finds
\* it: in the cache, in the queue, or at the server.  Only these reads are
\* excepted: one that is served with a reply of an earlier exchange, taken for
\* this one's (rdscomm.c:96); and one of a block at the server that such a
\* reply, or a late copy of an older write request (rdscomm.c:72), has left
\* old, up to the next write of the block that gets there.  A search that goes on from the head of the
\* queue to nodes that are free (rdsread.c:57) finds no request to write there.
RdReadsFresh == RdSound => "stale read" \notin rdfault

\* "Verify that sequence in reply matches request" (rdscomm.c:93): no exchange
\* is ended by the reply to an earlier one.
RdSequenceVerified == "stale reply" \notin rdfault

\* Every caller that is suspended has its request on the queue, where the
\* communication process will find it, and has left a permit for it: nobody
\* is forgotten, and no request is served twice.
RdRequestsQueued ==
    RdSound =>
        LET queue == RdWalk(RdNext, rdhead)
            suspended == {p \in RdProcs : rdproc[p].at = "suspended"} IN
        /\ {rdnode[n].pid : n \in ToSet(queue)} = suspended
        /\ Len(queue) = Cardinality(suspended)
        /\ rdsem + (IF rdcom.node # NULL THEN 1 ELSE 0) >= Len(queue)
        /\ queue # << >> => rdtail = Last(queue)
==============================================================================
