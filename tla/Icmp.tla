-------------------------------- MODULE Icmp ---------------------------------
(***************************************************************************)
(* Ping (net/icmp.c): a table of slots with a queue of echo replies each,  *)
(* and the answer to echo requests.  Processes as in Udp.                  *)
(***************************************************************************)
EXTENDS Integers, Sequences, SequencesExt, FiniteSets

CONSTANTS IcmpProcs, ICMP_SLOTS, ICMP_QSIZ,
          IcmpBufs,            \* the buffers of netbufpool
          IcmpHosts,           \* remote addresses
          IcmpMe,              \* NetData.ipucast
          IP_OQSIZ,            \* size of the IP output queue
          IcmpIn, IcmpStray, IcmpRegistered  \* bounds: packets, strays, registrations

\* A head wraps where its tail does or later (8 and 10 in icmp.h).
ASSUME IcmpAssumption ==
    /\ ICMP_SLOTS \in Nat /\ ICMP_QSIZ \in Nat \ {0} /\ ICMP_QSIZ <= ICMP_SLOTS
    /\ IsFiniteSet(IcmpBufs) /\ "nil" \notin IcmpBufs
    /\ IsFiniteSet(IcmpProcs) /\ IcmpProcs \cap {"netin", "ipout"} = {}

VARIABLES icmptab, icmpfree,
          icmpout,             \* buffers on the IP output queue
          icmpheld,            \* the buffer a process holds outside the queues
          icmpasks,            \* holders blocked in getbuf for a second buffer
          icmpproc, icmpmsg, icmpbudget,
          icmpfault            \* auxiliary: what has happened to each slot
icmpvars == <<icmptab, icmpfree, icmpout, icmpheld, icmpasks, icmpproc,
              icmpmsg, icmpbudget, icmpfault>>

IcmpSlots == 0..(ICMP_SLOTS - 1)
IcmpNil == "nil"
IcmpHolders == IcmpProcs \cup {"netin", "ipout"}
IcmpFreeSlot == [state |-> "FREE", remip |-> IcmpNil, head |-> 0, tail |-> 0, count |-> 0,
                 pid |-> IcmpNil, queue |-> [i \in 0..(ICMP_QSIZ - 1) |-> IcmpNil]]
IcmpIdle == [slot |-> -1, timed |-> FALSE]

icmp_init ==
    /\ icmptab = [s \in IcmpSlots |-> IcmpFreeSlot]
    /\ icmpfree = IcmpBufs /\ icmpout = << >>
    /\ icmpheld = [c \in IcmpHolders |-> IcmpNil] /\ icmpasks = {}
    /\ icmpproc = [p \in IcmpProcs |-> IcmpIdle] /\ icmpmsg = [p \in IcmpProcs |-> IcmpNil]
    /\ icmpbudget = [packets |-> IcmpIn, stray |-> IcmpStray, registered |-> IcmpRegistered]
    /\ icmpfault = [s \in IcmpSlots |-> {}]

IcmpFirst(S) == CHOOSE s \in S : \A t \in S : s <= t
IcmpInside(s) == {p \in IcmpProcs : icmpproc[p].slot = s}
IcmpFails(s, f) == icmpfault' = [icmpfault EXCEPT ![s] = @ \cup f]
IcmpWhen(c, f) == IF c THEN {f} ELSE {}
-----------------------------------------------------------------------------
IcmpIdleProc(c) == icmpheld[c] = IcmpNil /\ (c \in IcmpProcs => icmpproc[c].slot = -1)
\* getbuf gives n buffers without blocking: one is reserved for each holder
\* that waits (in which order they are served is the matter of BufPool).
IcmpSpare(n) == Cardinality(icmpfree) >= Cardinality(icmpasks) + n

\* icmp_mkpkt with a buffer of free, and ip_enqueue, which drops the reply if
\* the output queue is full.
IcmpReplied(free) ==
    \E reply \in free :
        \/ /\ Len(icmpout) < IP_OQSIZ
           /\ icmpout' = Append(icmpout, reply) /\ icmpfree' = free \ {reply}
        \/ Len(icmpout) >= IP_OQSIZ /\ icmpout' = icmpout /\ icmpfree' = free
\* icmp_in, echo request, called by c: the request is held while the reply is
\* made, which may block in getbuf, and until both have been dealt with.
IcmpRequest(c) ==
    /\ IcmpIdleProc(c) /\ icmpbudget.packets > 0 /\ IcmpSpare(1)
    /\ icmpbudget' = [icmpbudget EXCEPT !.packets = @ - 1]
    /\ \E b \in icmpfree :
          /\ icmpheld' = [icmpheld EXCEPT ![c] = b]
          /\ \/ IcmpSpare(2) /\ IcmpReplied(icmpfree \ {b}) /\ UNCHANGED icmpasks
             \/ /\ ~IcmpSpare(2) /\ icmpasks' = icmpasks \cup {c}
                /\ icmpfree' = icmpfree \ {b} /\ UNCHANGED icmpout
    /\ UNCHANGED <<icmptab, icmpproc, icmpmsg, icmpfault>>
IcmpRequestRest(c) ==
    /\ c \in icmpasks /\ icmpasks' = icmpasks \ {c} /\ IcmpReplied(icmpfree)
    /\ UNCHANGED <<icmptab, icmpheld, icmpproc, icmpmsg, icmpbudget, icmpfault>>
\* ipout takes a reply off the queue, to send it (module Ip).
IcmpSent ==
    /\ icmpout # << >> /\ icmpheld["ipout"] = IcmpNil
    /\ icmpout' = Tail(icmpout) /\ icmpheld' = [icmpheld EXCEPT !["ipout"] = Head(icmpout)]
    /\ UNCHANGED <<icmptab, icmpfree, icmpasks, icmpproc, icmpmsg, icmpbudget, icmpfault>>
\* freebuf at the end of icmp_in or of ip_out.
IcmpDone(c) ==
    /\ icmpheld[c] # IcmpNil /\ c \notin icmpasks
    /\ icmpfree' = icmpfree \cup {icmpheld[c]} /\ icmpheld' = [icmpheld EXCEPT ![c] = IcmpNil]
    /\ UNCHANGED <<icmptab, icmpout, icmpasks, icmpproc, icmpmsg, icmpbudget, icmpfault>>

\* icmp_in, echo reply from src with identifier s.  The queue is not tested
\* for full.
IcmpTold(e) == IF e.state = "RECV" /\ icmpmsg[e.pid] = IcmpNil
               THEN [icmpmsg EXCEPT ![e.pid] = "OK"] ELSE icmpmsg
IcmpNextTail(tail) == IF tail + 1 >= ICMP_QSIZ THEN 0 ELSE tail + 1
icmp_in(s, src) ==
    /\ icmpbudget.packets > 0 /\ icmpbudget' = [icmpbudget EXCEPT !.packets = @ - 1]
    /\ IcmpSpare(1) /\ icmpheld["netin"] = IcmpNil
    /\ \E b \in icmpfree :
          LET e == icmptab[s]
              kept == s \in IcmpSlots /\ e.state # "FREE" /\ src \in {e.remip, IcmpMe} IN
          \/ /\ kept
             /\ icmptab' = [icmptab EXCEPT ![s] =
                   [e EXCEPT !.count = @ + 1, !.queue[e.tail] = b, !.tail = IcmpNextTail(@),
                             !.state = IF @ = "RECV" THEN "USED" ELSE @]]
             /\ icmpmsg' = IcmpTold(e)
             /\ icmpfree' = icmpfree \ {b}
             /\ IcmpFails(s, IcmpWhen(e.count >= ICMP_QSIZ, "overrun"))
          \/ ~kept /\ UNCHANGED <<icmptab, icmpmsg, icmpfree, icmpfault>>
    /\ UNCHANGED <<icmpout, icmpheld, icmpasks, icmpproc>>

icmp_register(p, remip) ==
    LET free == {s \in IcmpSlots : icmptab[s].state = "FREE"} IN
    /\ IcmpIdleProc(p) /\ icmpbudget.registered > 0
    /\ free # {} /\ \A s \in IcmpSlots \ free : icmptab[s].remip # remip
    /\ icmptab' = [icmptab EXCEPT ![IcmpFirst(free)] =
                      [@ EXCEPT !.state = "USED", !.remip = remip, !.count = 0, !.head = 0,
                                !.tail = 0, !.pid = IcmpNil]]
    /\ icmpbudget' = [icmpbudget EXCEPT !.registered = @ - 1]
    /\ UNCHANGED <<icmpfree, icmpout, icmpheld, icmpasks, icmpproc, icmpmsg, icmpfault>>

\* Take the packet at the head.  The head is wrapped at ICMP_SLOTS, not at
\* ICMP_QSIZ: the places from ICMP_QSIZ on are the fields of the next slot.
IcmpNextHead(head) == IF head + 1 >= ICMP_SLOTS THEN 0 ELSE head + 1
IcmpAtHead(e) == IF e.head < ICMP_QSIZ THEN {e.queue[e.head]} \ {IcmpNil} ELSE {}
BugLeaks(e) == icmpfree' = icmpfree
IcmpFreed(e) == icmpfree' = icmpfree \cup IcmpAtHead(e)
IcmpTake(s, e) ==
    /\ icmptab' = [icmptab EXCEPT ![s] = [e EXCEPT !.head = IcmpNextHead(@), !.count = @ - 1]]
    /\ IcmpFreed(e)
IcmpPast(e) == IcmpWhen(e.head >= ICMP_QSIZ, "past")

icmp_recv(p, s) ==
    LET e == icmptab[s] IN
    /\ IcmpIdleProc(p) /\ e.state = "USED"
    /\ \/ /\ e.count # 0 /\ IcmpTake(s, e)
          /\ IcmpFails(s, IcmpPast(e) \cup IcmpWhen(IcmpInside(s) # {}, "stolen"))
          /\ UNCHANGED <<icmpproc, icmpmsg>>
       \/ /\ e.count = 0
          /\ icmptab' = [icmptab EXCEPT ![s].state = "RECV", ![s].pid = p]
          /\ icmpmsg' = [icmpmsg EXCEPT ![p] = IcmpNil]
          /\ icmpproc' = [icmpproc EXCEPT ![p] = [slot |-> s, timed |-> FALSE]]
          /\ IcmpFails(s, IcmpWhen(IcmpInside(s) # {}, "stolen"))
          /\ UNCHANGED icmpfree
    /\ UNCHANGED <<icmpout, icmpheld, icmpasks, icmpbudget>>
IcmpTimer(p) ==
    /\ icmpproc[p].slot # -1 /\ ~icmpproc[p].timed /\ icmpmsg[p] = IcmpNil
    /\ icmpproc' = [icmpproc EXCEPT ![p].timed = TRUE]
    /\ UNCHANGED <<icmptab, icmpfree, icmpout, icmpheld, icmpasks, icmpmsg, icmpbudget, icmpfault>>
\* Any message but OK ends the call as a timeout does.
icmp_recvRest(p) ==
    LET s == icmpproc[p].slot
        used == [icmptab[s] EXCEPT !.state = "USED"] IN
    /\ s # -1 /\ (icmpproc[p].timed \/ icmpmsg[p] # IcmpNil)
    /\ icmpproc' = [icmpproc EXCEPT ![p] = IcmpIdle]
    /\ icmpmsg' = [icmpmsg EXCEPT ![p] = IcmpNil]
    /\ \/ /\ icmpmsg[p] = "OK" /\ IcmpTake(s, used) /\ IcmpFails(s, IcmpPast(used))
       \/ /\ icmpmsg[p] # "OK" /\ icmptab' = [icmptab EXCEPT ![s] = used]
          /\ UNCHANGED <<icmpfree, icmpfault>>
    /\ UNCHANGED <<icmpout, icmpheld, icmpasks, icmpbudget>>

\* Another process sends p a message.
IcmpStrayMessage(p) ==
    /\ icmpbudget.stray > 0 /\ icmpproc[p].slot # -1 /\ icmpmsg[p] = IcmpNil
    /\ icmpbudget' = [icmpbudget EXCEPT !.stray = @ - 1]
    /\ \E m \in {"OK", "other"} :
          /\ icmpmsg' = [icmpmsg EXCEPT ![p] = m]
          /\ IcmpFails(icmpproc[p].slot, IcmpWhen(m = "OK", "stray"))
    /\ UNCHANGED <<icmptab, icmpfree, icmpout, icmpheld, icmpasks, icmpproc>>

\* icmp_send of a request to this machine itself comes back as a request; any
\* other leaves through the Ethernet, where ip_send may block with its buffer.
IcmpLeaves(p) ==
    /\ IcmpSpare(1) /\ \E b \in icmpfree :
          icmpfree' = icmpfree \ {b} /\ icmpheld' = [icmpheld EXCEPT ![p] = b]
    /\ UNCHANGED <<icmptab, icmpout, icmpasks, icmpproc, icmpmsg, icmpbudget, icmpfault>>
icmp_send(p) == IcmpIdleProc(p) /\ (IcmpRequest(p) \/ IcmpLeaves(p))

\* Refused while a process waits, but not once it has been sent its message.
IcmpQueued(e) == {e.queue[(e.head + i) % ICMP_QSIZ] : i \in 0..(e.count - 1)}
icmp_release(p, s) ==
    LET e == icmptab[s] IN
    /\ IcmpIdleProc(p) /\ e.state = "USED"
    /\ icmptab' = [icmptab EXCEPT ![s].state = "FREE", ![s].count = 0]
    /\ icmpfree' = icmpfree \cup (IcmpQueued(e) \ {IcmpNil})
    /\ IcmpFails(s, IcmpWhen(e.count > 0 /\ e.head + e.count > ICMP_QSIZ, "past")
                        \cup IcmpWhen(IcmpInside(s) # {}, "released"))
    /\ UNCHANGED <<icmpout, icmpheld, icmpasks, icmpproc, icmpmsg, icmpbudget>>

IcmpNext ==
    \/ IcmpRequest("netin") \/ IcmpSent
    \/ \E c \in IcmpHolders : IcmpRequestRest(c) \/ IcmpDone(c)
    \/ \E s \in 0..ICMP_SLOTS, src \in IcmpHosts \cup {IcmpMe} : icmp_in(s, src)
    \/ \E p \in IcmpProcs :
          \/ \E h \in IcmpHosts : icmp_register(p, h)
          \/ \E s \in IcmpSlots : icmp_recv(p, s) \/ icmp_release(p, s)
          \/ IcmpTimer(p) \/ icmp_recvRest(p) \/ icmp_send(p) \/ IcmpStrayMessage(p)
IcmpSpec == icmp_init /\ [][IcmpNext]_icmpvars
-----------------------------------------------------------------------------
\* As long as no slot has been given more replies than its queue has places
\* for, and none has been read beyond its end, read by two processes, released
\* under a process about to read, or read by one to whom somebody else sent OK,
\* every buffer is free, on the output queue, in one process's hands or in one
\* queue, as often as the counts say, and a process that waits will be woken:
\* through requests whose sender blocks in getbuf, and messages that end a wait
\* with a reply left behind.  Ping stays within that: one request at a time,
\* and few replies for each registration (icmp.c:96, icmp.c:202, icmp.c:210).
IcmpSound == \A s \in IcmpSlots : icmpfault[s] = {}
IcmpHolding == {c \in IcmpHolders : icmpheld[c] # IcmpNil}
IcmpQueuesSound ==
    IcmpSound =>
        LET places == {icmpfree, ToSet(icmpout), {icmpheld[c] : c \in IcmpHolding}}
                          \cup {IcmpQueued(icmptab[s]) : s \in IcmpSlots} IN
        /\ UNION places = IcmpBufs
        /\ Cardinality(icmpfree) + Len(icmpout) + Cardinality(IcmpHolding) +
              Cardinality({x \in IcmpSlots \X (1..ICMP_QSIZ) : x[2] <= icmptab[x[1]].count})
              = Cardinality(IcmpBufs)
        /\ \A p \in IcmpProcs :
              icmpproc[p].slot # -1 /\ icmpmsg[p] = IcmpNil =>
                  LET e == icmptab[icmpproc[p].slot] IN
                  e.state = "RECV" /\ e.pid = p /\ e.count = 0
==============================================================================
