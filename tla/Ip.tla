---------------------------------- MODULE Ip ----------------------------------
(***************************************************************************)
(* The IP layer (net/net.c, net/ip.c): netin, which takes a buffer from    *)
(* the pool for each packet that arrives; ipout, which sends what netin    *)
(* and others put on the output queue; the processes that call ip_send;    *)
(* and the buffers that pass between them.  What UDP and ICMP do with a    *)
(* packet (modules Udp, Icmp) is that they keep or free its buffer; ARP    *)
(* (module Arp) makes the caller wait, and succeeds or fails.              *)
(*                                                                         *)
(* ipout and netin have the same priority, above the others, and resched   *)
(* gives way to an equal: ipout runs as soon as it is signalled.           *)
(***************************************************************************)
EXTENDS Sem

CONSTANTS IpProcs,             \* processes that send
          NetBufs,             \* the buffers of netbufpool, numbered from 1
          IpOqsiz,             \* IP_OQSIZ
          IpRouter,            \* is NetData.iprouter set?
          IpIn                 \* bound on packets

\* Buffers are numbered, 0 is none, and the queue has a place.  The names of
\* the places where a buffer can be are not processes.
ASSUME IpAssumption ==
    /\ NetBufs \subseteq Nat \ {0} /\ IpOqsiz \in Nat \ {0}
    /\ {"free", "up", "queue", "ipout", "lost"} \cap IpProcs = {}

VARIABLES netbuf,              \* where each buffer is
          netdst,              \* destination of each buffer on the output queue
          ipoqueue,            \* [head, tail, buf]
          iqsem, ipoutpc,      \* its semaphore; where ipout is
          ipvalid,             \* NetData.ipvalid
          ipbudget
ipvars == <<netbuf, netdst, ipoqueue, iqsem, ipoutpc, ipvalid, ipbudget>>

\* Addresses by what the code tells apart, and protocols.
IpDests == {"me", "loopback", "bcast", "netbcast", "local", "far"}
IpProtos == {"UDP", "ICMP reply", "ICMP request", "other"}
NoBuf == 0
IpRing == 0..(IpOqsiz - 1)

\* A buffer is "free", "up" (with UDP or ICMP), "queue" (on the output queue),
\* or in the hands of a process.
net_init ==
    /\ netbuf = [b \in NetBufs |-> "free"] /\ netdst = [b \in NetBufs |-> "me"]
    /\ ipoqueue = [head |-> 0, tail |-> 0, buf |-> [i \in IpRing |-> NoBuf]]
    /\ iqsem = P(SemNew(0), "ipout") /\ ipoutpc = NoBuf      \* ipout waits
    /\ ipvalid = FALSE /\ ipbudget = IpIn

IpoutAwake == ipoutpc = NoBuf /\ ~Waits(iqsem, "ipout")
\* Which of the free buffers is taken makes no difference.
NetFree == {b \in NetBufs : netbuf[b] = "free"}
NetHeld(p) == {b \in NetBufs : netbuf[b] = p}
-----------------------------------------------------------------------------
\* ip_enqueue of the packet in b, where bufs says what else happens to the
\* buffers: the packet is dropped if the queue is full.
OqFull == semcount(iqsem) >= IpOqsiz
ip_enqueue(b, bufs) ==
    \/ OqFull /\ netbuf' = [bufs EXCEPT ![b] = "free"] /\ UNCHANGED <<ipoqueue, iqsem>>
    \/ /\ ~OqFull
       /\ netbuf' = [bufs EXCEPT ![b] = "queue"]
       /\ ipoqueue' = [ipoqueue EXCEPT !.buf[ipoqueue.tail] = b, !.tail = (@ + 1) % IpOqsiz]
       /\ iqsem' = V(iqsem)

\* ip_local: UDP and replies to a ping are kept or freed; a request is freed
\* and its answer, in a second buffer, is put on the output queue.
ip_local(b, k) ==
    \/ /\ k.proto \in {"UDP", "ICMP reply"}
       /\ \E to \in {"up", "free"} : netbuf' = [netbuf EXCEPT ![b] = to]
       /\ UNCHANGED <<netdst, ipoqueue, iqsem>>
    \/ /\ k.proto = "ICMP request" /\ NetFree \ {b} # {}
       /\ LET reply == Min(NetFree \ {b}) IN
          /\ ip_enqueue(reply, [netbuf EXCEPT ![b] = "free"])
          /\ \E dst \in {"me", "local", "far"} : netdst' = [netdst EXCEPT ![reply] = dst]
    \/ /\ k.proto = "other"
       /\ netbuf' = [netbuf EXCEPT ![b] = "free"] /\ UNCHANGED <<netdst, ipoqueue, iqsem>>

\* ip_in, for a packet of protocol and destination k whose header and ICMP
\* checksums are good or not.
IpAccepts(k) ==
    \/ k.dst = "bcast"
    \/ ~ipvalid /\ k.proto = "UDP"
    \/ ipvalid /\ k.dst \in {"me", "netbcast"}
ip_in(b, k, good) ==
    \/ good /\ IpAccepts(k) /\ ip_local(b, k)
    \/ /\ ~good \/ ~IpAccepts(k)
       /\ UNCHANGED <<netbuf, netdst, ipoqueue, iqsem>>      \* freebuf

\* netin: one round of its loop.  ARP packets and others are freed at once.
netin(k, good) ==
    /\ ~IpoutAwake /\ ipbudget > 0 /\ ipbudget' = ipbudget - 1
    /\ NetFree # {} /\ ip_in(Min(NetFree), k, good)
    /\ UNCHANGED <<ipoutpc, ipvalid>>

\* UDP or ICMP hands a packet to its reader and frees the buffer.
IpConsumed(b) ==
    /\ ~IpoutAwake /\ netbuf[b] = "up"
    /\ netbuf' = [netbuf EXCEPT ![b] = "free"]
    /\ UNCHANGED <<netdst, ipoqueue, iqsem, ipoutpc, ipvalid, ipbudget>>
-----------------------------------------------------------------------------
\* The next hop is the destination or the router.
IpRouted(dst) == dst = "local" \/ ~ipvalid \/ IpRouter
ArpOutcome == {"OK", "SYSERR"}

\* ip_send, by process p with a buffer it has taken: to its end, or to
\* arp_resolve.
ip_send(p, k) ==
    /\ ~IpoutAwake /\ NetHeld(p) = {} /\ ipbudget > 0 /\ ipbudget' = ipbudget - 1
    /\ NetFree # {}
    /\ LET b == Min(NetFree) IN
          \/ k.dst \in {"me", "loopback"} /\ ip_local(b, k)
          \/ /\ k.dst \in {"local", "far"} /\ IpRouted(k.dst)
             /\ netbuf' = [netbuf EXCEPT ![b] = p] /\ UNCHANGED <<netdst, ipoqueue, iqsem>>
          \/ /\ k.dst \in {"bcast", "netbcast"} \/ (k.dst = "far" /\ ~IpRouted(k.dst))
             /\ UNCHANGED <<netbuf, netdst, ipoqueue, iqsem>>   \* sent or refused, and freed
    /\ UNCHANGED <<ipoutpc, ipvalid>>
\* ip_out frees the buffer whether or not the write succeeds.
ip_out == "free"
BugForgetsFailure(r) == IF r = "OK" THEN ip_out ELSE "lost"
AfterArp(r) == IF r = "OK" THEN ip_out ELSE "free"
ip_sendRest(p) ==
    /\ ~IpoutAwake
    /\ \E b \in NetHeld(p), r \in ArpOutcome : netbuf' = [netbuf EXCEPT ![b] = AfterArp(r)]
    /\ UNCHANGED <<netdst, ipoqueue, iqsem, ipoutpc, ipvalid, ipbudget>>

\* ipout, from one wait to arp_resolve or to the next wait.
IpoutWaits == iqsem' = P(iqsem, "ipout")
ipout ==
    LET b == ipoqueue.buf[ipoqueue.head]
        dst == netdst[b] IN
    /\ IpoutAwake
    /\ ipoqueue' = [ipoqueue EXCEPT !.head = (@ + 1) % IpOqsiz]
    /\ \/ /\ dst \in {"bcast", "netbcast"} \/ (dst = "far" /\ ~IpRouted(dst))
          /\ netbuf' = [netbuf EXCEPT ![b] = "free"] /\ IpoutWaits /\ UNCHANGED ipoutpc
       \/ /\ dst = "me"
          /\ \E to \in {"up", "free"} : netbuf' = [netbuf EXCEPT ![b] = to]
          /\ IpoutWaits /\ UNCHANGED ipoutpc
       \/ /\ dst = "local" \/ (dst = "far" /\ IpRouted(dst))
          /\ netbuf' = [netbuf EXCEPT ![b] = "ipout"] /\ ipoutpc' = b /\ UNCHANGED iqsem
    /\ netdst' = [netdst EXCEPT ![b] = "me"] /\ UNCHANGED <<ipvalid, ipbudget>>
ipoutRest ==
    /\ ipoutpc # NoBuf
    /\ \E r \in ArpOutcome : netbuf' = [netbuf EXCEPT ![ipoutpc] = AfterArp(r)]
    /\ ipoutpc' = NoBuf /\ IpoutWaits
    /\ UNCHANGED <<netdst, ipoqueue, ipvalid, ipbudget>>

\* DHCP has supplied the address.
IpConfigured ==
    /\ ~ipvalid /\ ~IpoutAwake /\ ipvalid' = TRUE
    /\ UNCHANGED <<netbuf, netdst, ipoqueue, iqsem, ipoutpc, ipbudget>>

IpNext ==
    \/ \E k \in [proto : IpProtos, dst : IpDests], good \in BOOLEAN : netin(k, good)
    \/ \E b \in NetBufs : IpConsumed(b)
    \/ \E p \in IpProcs :
          \/ \E dst \in IpDests, proto \in {"UDP", "ICMP request"} :
                ip_send(p, [proto |-> proto, dst |-> dst])
          \/ ip_sendRest(p)
    \/ ipout \/ ipoutRest \/ IpConfigured
IpSpec == net_init /\ [][IpNext]_ipvars
-----------------------------------------------------------------------------
\* Each packet on the output queue has its own place in the circle and its
\* buffer is on the queue and nowhere else, and no buffer is lost: every path
\* through ip_in, ip_send and ipout, the failures included, frees its buffer
\* once.  That the queue is tested with semcount, which does not count a
\* packet that ipout has been signalled for (ip.c:453), is harmless only
\* because ipout runs at once.
IpPending == semcount(iqsem) + IF IpoutAwake THEN 1 ELSE 0
NetBuffersKept ==
    LET waiting == IF Waits(iqsem, "ipout") THEN 0 ELSE IpPending
        queued == {ipoqueue.buf[(ipoqueue.head + i) % IpOqsiz] : i \in 0..(waiting - 1)} IN
    /\ queued = {b \in NetBufs : netbuf[b] = "queue"}
    /\ Cardinality(queued) = waiting
    /\ (ipoqueue.head + waiting) % IpOqsiz = ipoqueue.tail
    /\ \A b \in NetBufs :
          /\ netbuf[b] \in {"free", "up", "queue", "ipout"} \cup IpProcs
          /\ netbuf[b] = "ipout" <=> b = ipoutpc
==============================================================================
