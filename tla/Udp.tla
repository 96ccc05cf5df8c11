--------------------------------- MODULE Udp ---------------------------------
(***************************************************************************)
(* UDP endpoints (net/udp.c): a table of slots, each a circular queue of   *)
(* packet buffers, between netin, which calls udp_in, and the processes    *)
(* that register, receive with a time limit, send and release.             *)
(*                                                                         *)
(* The calls run with interrupts disabled and are interrupted only in      *)
(* recvtime.  A process that was sent a message or has timed out runs at   *)
(* any later time.                                                         *)
(***************************************************************************)
EXTENDS Integers, Sequences, SequencesExt, FiniteSets

CONSTANTS UdpProcs, UDP_SLOTS, UDP_QSIZ,
          UdpBufs,             \* the buffers of netbufpool
          UdpRegs,             \* [remip, remport, locport] given to udp_register
          UdpPackets,          \* [ipsrc, sport, dport] that arrive
          UdpMe,               \* NetData.ipucast
          UdpIn, UdpStray, UdpRegistered  \* bounds: packets, strays, registrations

\* A queue has a place, and nothing in it is not a buffer.
ASSUME UdpAssumption ==
    UDP_SLOTS \in Nat /\ UDP_QSIZ \in Nat \ {0} /\ "nil" \notin UdpBufs

VARIABLES udptab, udpfree,     \* the slots; the free buffers
          udpheld,             \* what each buffer holds
          udpproc, udpmsg,     \* where each process is; its message
          udpbudget,
          udpfault             \* auxiliary: what has happened to each slot
udpvars == <<udptab, udpfree, udpheld, udpproc, udpmsg, udpbudget, udpfault>>

UdpSlots == 0..(UDP_SLOTS - 1)
UdpNil == "nil"
NoSlot == -1
UdpNoPacket == [ipsrc |-> 0, sport |-> 0, dport |-> 0]
UdpFree == [state |-> "FREE", remip |-> 0, remport |-> 0, locport |-> 0, head |-> 0,
            tail |-> 0, count |-> 0, pid |-> UdpNil, queue |-> [i \in 0..(UDP_QSIZ - 1) |-> UdpNil]]
UdpIdle == [slot |-> NoSlot, timed |-> FALSE]

udp_init ==
    /\ udptab = [s \in UdpSlots |-> UdpFree]
    /\ udpfree = UdpBufs /\ udpheld = [b \in UdpBufs |-> UdpNoPacket]
    /\ udpproc = [p \in UdpProcs |-> UdpIdle] /\ udpmsg = [p \in UdpProcs |-> UdpNil]
    /\ udpbudget = [packets |-> UdpIn, stray |-> UdpStray, registered |-> UdpRegistered]
    /\ udpfault = [s \in UdpSlots |-> {}]

UdpFirst(S) == CHOOSE s \in S : \A t \in S : s <= t
UdpIdleProc(p) == udpproc[p].slot = NoSlot
-----------------------------------------------------------------------------
\* udp_in.  The first slot that matches and is not full takes the packet; a
\* process in udp_recv is told.
UdpMatches(e, k) ==
    /\ e.state # "FREE" /\ k.dport = e.locport
    /\ e.remport = 0 \/ k.sport = e.remport
    /\ e.remip = 0 \/ k.ipsrc = e.remip
UdpTakers(k) == {s \in UdpSlots : UdpMatches(udptab[s], k) /\ udptab[s].count < UDP_QSIZ}

UdpPut(e, b) == [e EXCEPT !.count = @ + 1, !.queue[e.tail] = b, !.tail = (@ + 1) % UDP_QSIZ,
                          !.state = IF @ = "RECV" THEN "USED" ELSE @]
UdpTold(e) == IF e.state = "RECV" /\ udpmsg[e.pid] = UdpNil
              THEN [udpmsg EXCEPT ![e.pid] = "OK"] ELSE udpmsg

\* Buffer b, just taken from the pool, holds k.
udp_in(b, k) ==
    LET s == UdpFirst(UdpTakers(k)) IN
    \/ /\ UdpTakers(k) # {}
       /\ udptab' = [udptab EXCEPT ![s] = UdpPut(@, b)]
       /\ udpmsg' = UdpTold(udptab[s])
       /\ udpfree' = udpfree \ {b} /\ udpheld' = [udpheld EXCEPT ![b] = k]
    \/ /\ UdpTakers(k) = {} /\ UNCHANGED <<udptab, udpmsg, udpfree, udpheld>>

UdpArrives(k) ==
    /\ udpbudget.packets > 0 /\ udpbudget' = [udpbudget EXCEPT !.packets = @ - 1]
    /\ \E b \in udpfree : udp_in(b, k)
    /\ UNCHANGED <<udpproc, udpfault>>

udp_register(p, r) ==
    LET free == {s \in UdpSlots : udptab[s].state = "FREE"} IN
    /\ UdpIdleProc(p) /\ udpbudget.registered > 0
    /\ \A s \in UdpSlots \ free :
          [remip |-> udptab[s].remip, remport |-> udptab[s].remport,
           locport |-> udptab[s].locport] # r
    /\ free # {}
    /\ udptab' = [udptab EXCEPT ![UdpFirst(free)] =
                     [@ EXCEPT !.remip = r.remip, !.remport = r.remport, !.locport = r.locport,
                               !.count = 0, !.head = 0, !.tail = 0, !.pid = UdpNil, !.state = "USED"]]
    /\ udpbudget' = [udpbudget EXCEPT !.registered = @ - 1]
    /\ UNCHANGED <<udpfree, udpheld, udpproc, udpmsg, udpfault>>

\* The processes inside udp_recv for slot s.
UdpInside(s) == {p \in UdpProcs : udpproc[p].slot = s}

\* The packet at the head of the queue is read and its buffer freed: nothing
\* tests that there is one.
UdpTaken(e) == [e EXCEPT !.head = (@ + 1) % UDP_QSIZ, !.count = @ - 1]
UdpTake(s, e) ==
    /\ udptab' = [udptab EXCEPT ![s] = UdpTaken(e)]
    /\ udpfree' = udpfree \cup ({e.queue[e.head]} \ {UdpNil})

\* udp_recv, to its end or to recvtime.
udp_recv(p, s) ==
    /\ UdpIdleProc(p) /\ udptab[s].state = "USED"
    /\ \/ /\ udptab[s].count # 0
          /\ UdpTake(s, udptab[s])
          /\ udpfault' = [udpfault EXCEPT ![s] = @ \cup (IF UdpInside(s) # {} THEN {"stolen"} ELSE {})]
          /\ UNCHANGED <<udpproc, udpmsg>>
       \/ /\ udptab[s].count = 0
          /\ udptab' = [udptab EXCEPT ![s].state = "RECV", ![s].pid = p]
          /\ udpmsg' = [udpmsg EXCEPT ![p] = UdpNil]
          /\ udpproc' = [udpproc EXCEPT ![p] = [slot |-> s, timed |-> FALSE]]
          /\ udpfault' = [udpfault EXCEPT ![s] = @ \cup (IF UdpInside(s) # {} THEN {"stolen"} ELSE {})]
          /\ UNCHANGED udpfree
    /\ UNCHANGED <<udpheld, udpbudget>>

\* udp_recvaddr is the same, with the sender's address as a further result.
udp_recvaddr(p, s) == udp_recv(p, s)

UdpTimer(p) ==
    /\ ~UdpIdleProc(p) /\ ~udpproc[p].timed /\ udpmsg[p] = UdpNil
    /\ udpproc' = [udpproc EXCEPT ![p].timed = TRUE]
    /\ UNCHANGED <<udptab, udpfree, udpheld, udpmsg, udpbudget, udpfault>>

\* After recvtime the slot is set to UDP_USED, whatever it is by now.
udp_recvRest(p) ==
    LET s == udpproc[p].slot
        used == [udptab[s] EXCEPT !.state = "USED"] IN
    /\ ~UdpIdleProc(p) /\ (udpproc[p].timed \/ udpmsg[p] # UdpNil)
    /\ udpproc' = [udpproc EXCEPT ![p] = UdpIdle]
    /\ udpmsg' = [udpmsg EXCEPT ![p] = UdpNil]
    /\ \/ /\ udpmsg[p] = "OK" /\ UdpTake(s, used)
       \/ /\ udpmsg[p] # "OK" /\ udptab' = [udptab EXCEPT ![s] = used]
          /\ UNCHANGED udpfree
    /\ UNCHANGED <<udpheld, udpbudget, udpfault>>

\* ip_send brings a packet for this machine back to udp_in; any other leaves
\* through the Ethernet and its buffer is freed again.
UdpLoops(remip, remport, locport) ==
    /\ remip = UdpMe /\ udpbudget.packets > 0
    /\ udpbudget' = [udpbudget EXCEPT !.packets = @ - 1]
    /\ \E b \in udpfree : udp_in(b, [ipsrc |-> UdpMe, sport |-> locport, dport |-> remport])
    /\ UNCHANGED <<udpproc, udpfault>>
udp_send(p, s) ==
    /\ UdpIdleProc(p) /\ udptab[s].state # "FREE" /\ udptab[s].remip # 0
    /\ UdpLoops(udptab[s].remip, udptab[s].remport, udptab[s].locport)
udp_sendto(p, s, remip, remport) ==
    /\ UdpIdleProc(p) /\ udptab[s].state # "FREE"
    /\ UdpLoops(remip, remport, udptab[s].locport)

\* The buffers in the queue are freed; the state is not asked for UDP_RECV.
UdpQueued(e) == {e.queue[(e.head + i) % UDP_QSIZ] : i \in 0..(e.count - 1)}
BugKeepsPackets(s) == UNCHANGED udpfree
UdpFlush(s) == udpfree' = udpfree \cup (UdpQueued(udptab[s]) \ {UdpNil})
udp_release(p, s) ==
    /\ UdpIdleProc(p) /\ udptab[s].state # "FREE"
    /\ UdpFlush(s)
    /\ udptab' = [udptab EXCEPT ![s].state = "FREE", ![s].count = 0,
                                ![s].head = (@ + udptab[s].count) % UDP_QSIZ]
    /\ udpfault' = [udpfault EXCEPT ![s] = @ \cup (IF UdpInside(s) # {} THEN {"released"} ELSE {})]
    /\ UNCHANGED <<udpheld, udpproc, udpmsg, udpbudget>>

\* Another process sends p a message.
UdpStrayMessage(p) ==
    /\ udpbudget.stray > 0 /\ ~UdpIdleProc(p) /\ udpmsg[p] = UdpNil
    /\ udpbudget' = [udpbudget EXCEPT !.stray = @ - 1]
    /\ \E m \in {"OK", "other"} :
          /\ udpmsg' = [udpmsg EXCEPT ![p] = m]
          /\ udpfault' = [udpfault EXCEPT ![udpproc[p].slot] =
                             @ \cup (IF m = "OK" THEN {"stray"} ELSE {})]
    /\ UNCHANGED <<udptab, udpfree, udpheld, udpproc>>

UdpNext ==
    \/ \E k \in UdpPackets : UdpArrives(k)
    \/ \E p \in UdpProcs :
          \/ \E r \in UdpRegs : udp_register(p, r)
          \/ \E s \in UdpSlots :
                udp_recv(p, s) \/ udp_recvaddr(p, s) \/ udp_send(p, s) \/ udp_release(p, s)
          \/ \E s \in UdpSlots, k \in UdpPackets : udp_sendto(p, s, k.ipsrc, k.dport)
          \/ UdpTimer(p) \/ udp_recvRest(p) \/ UdpStrayMessage(p)
UdpSpec == udp_init /\ [][UdpNext]_udpvars
-----------------------------------------------------------------------------
\* A queue has as many buffers as its count says, each of them taken from the
\* pool, in no other queue, and holding a packet for the slot; and no buffer
\* is lost.  It fails once a slot was released while a process was in udp_recv
\* for it, two processes received from it, or the receiver was sent OK by
\* somebody else: udp_recv does not look again after recvtime (udp.c:190).
\* And nobody sleeps beside a packet: a process that still waits in udp_recv
\* has the slot to itself, in state UDP_RECV and without packets, so that the
\* next packet wakes it.
UdpSound == \A s \in UdpSlots : udpfault[s] = {}
UdpQueuesSound ==
    UdpSound =>
        /\ \A s \in UdpSlots :
              LET e == udptab[s] IN
              /\ e.count \in 0..UDP_QSIZ /\ (e.head + e.count) % UDP_QSIZ = e.tail
              /\ Cardinality(UdpQueued(e)) = e.count
              /\ \A b \in UdpQueued(e) : b \in UdpBufs \ udpfree /\ UdpMatches(e, udpheld[b])
              /\ \A t \in UdpSlots \ {s} : UdpQueued(e) \cap UdpQueued(udptab[t]) = {}
        /\ udpfree \cup UNION {UdpQueued(udptab[s]) : s \in UdpSlots} = UdpBufs
        /\ \A p \in UdpProcs :
              ~UdpIdleProc(p) /\ udpmsg[p] = UdpNil =>
                  LET e == udptab[udpproc[p].slot] IN
                  e.state = "RECV" /\ e.pid = p /\ e.count = 0
==============================================================================
