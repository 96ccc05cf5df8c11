--------------------------------- MODULE Arp ---------------------------------
(***************************************************************************)
(* Address resolution (net/arp.c): a small cache shared by the processes   *)
(* that send and by netin, which handles the packets that arrive.          *)
(*                                                                         *)
(* The calls run with interrupts disabled, so they are interrupted only    *)
(* where they write to the Ethernet or wait for a message.  The answer     *)
(* comes as an ordinary message: whatever another process sends to the     *)
(* caller is taken for it.                                                 *)
(***************************************************************************)
EXTENDS Integers, Sequences, SequencesExt, FiniteSets

CONSTANTS ArpProcs,            \* callers of arp_resolve
          ARP_SIZ, ARP_RETRY,
          ArpAddrs, ArpMacs,   \* addresses of the other hosts
          ArpMe,               \* NetData.ipucast, not one of ArpAddrs
          ArpIn, ArpStray, ArpKills  \* bounds: packets, messages of others, kills

ASSUME ArpAssumption == ARP_SIZ \in Nat /\ {ArpIn, ArpStray, ArpKills} \subseteq Nat

VARIABLES arpcache,    \* [state, addr, pid, mac] for each slot
          arpproc,     \* where each caller is
          arpmsg,      \* its message, or "none"
          arpbudget,   \* what is left of the bounds
          arpclaimed,  \* auxiliary: addresses and the hardware addresses claimed
          arpgot,      \* auxiliary: <<addr, mac>> of the last OK of each caller
          arpfault     \* auxiliary: what went wrong for each caller
arpvars == <<arpcache, arpproc, arpmsg, arpbudget, arpclaimed, arpgot, arpfault>>

ArpSlots == 0..(ARP_SIZ - 1)
ArpFree == [state |-> "FREE", addr |-> "zero", pid |-> "zero", mac |-> "zero"]
ArpIdle == [at |-> "idle", slot |-> 0, addr |-> "zero", tries |-> 0, timed |-> FALSE]

arp_init ==
    /\ arpcache = [s \in ArpSlots |-> ArpFree]
    /\ arpproc = [p \in ArpProcs |-> ArpIdle] /\ arpmsg = [p \in ArpProcs |-> "none"]
    /\ arpbudget = [packets |-> ArpIn, stray |-> ArpStray, kills |-> ArpKills]
    /\ arpclaimed = {} /\ arpgot = [p \in ArpProcs |-> << >>]
    /\ arpfault = [p \in ArpProcs |-> {}]

ArpFind(a) == {s \in ArpSlots : arpcache[s].state # "FREE" /\ arpcache[s].addr = a}
ArpFirst(S) == CHOOSE s \in S : \A t \in S : s <= t

\* arp_alloc: a free slot, or else one that is resolved; pending ones stay.
ArpAllocable == {s \in ArpSlots : arpcache[s].state \in {"FREE", "RESOLVED"}}
arp_alloc ==
    LET free == {s \in ArpSlots : arpcache[s].state = "FREE"} IN
    ArpFirst(IF free # {} THEN free ELSE ArpAllocable)

\* The callers whose slot is taken while their answer is on its way to them.
ArpRobbed(slot) == {p \in ArpProcs : arpproc[p].at # "idle" /\ arpproc[p].slot = slot}
ArpMarked(P, what) ==
    [p \in ArpProcs |-> IF p \in P THEN arpfault[p] \cup {what} ELSE arpfault[p]]
-----------------------------------------------------------------------------
\* arp_resolve, until the request has been made up; the mailbox is cleared.
\* An address that is in the cache is answered at once, and one that is
\* pending is refused.
BugPendingToo(a) == ArpFind(a) # {}                \* whatever the entry's state
ArpKnown(a) == ArpFind(a) # {} /\ arpcache[ArpFirst(ArpFind(a))].state = "RESOLVED"
arp_resolve(p, a) ==
    /\ arpproc[p].at = "idle"
    /\ \/ /\ ArpKnown(a)
          /\ arpgot' = [arpgot EXCEPT ![p] = <<a, arpcache[ArpFirst(ArpFind(a))].mac>>]
          /\ arpfault' = [arpfault EXCEPT ![p] = {}]
          /\ UNCHANGED <<arpcache, arpproc, arpmsg>>
       \/ /\ ArpFind(a) = {} /\ ArpAllocable # {}
          /\ arpcache' = [arpcache EXCEPT ![arp_alloc] =
                             [ArpFree EXCEPT !.state = "PENDING", !.addr = a, !.pid = p]]
          /\ arpproc' = [arpproc EXCEPT ![p] =
                             [ArpIdle EXCEPT !.at = "write", !.slot = arp_alloc, !.addr = a]]
          /\ arpmsg' = [arpmsg EXCEPT ![p] = "none"]                      \* recvclr
          /\ arpfault' = [ArpMarked(ArpRobbed(arp_alloc), "evicted") EXCEPT ![p] = {}]
          /\ arpgot' = [arpgot EXCEPT ![p] = << >>]
    /\ UNCHANGED <<arpbudget, arpclaimed>>

\* write(ETHER0), then recvtime: the process waits unless it has a message.
ArpWrite(p) ==
    /\ arpproc[p].at = "write"
    /\ arpproc' = [arpproc EXCEPT ![p].at = "wait", ![p].timed = FALSE]
    /\ UNCHANGED <<arpcache, arpmsg, arpbudget, arpclaimed, arpgot, arpfault>>

\* The timer of recvtime makes the caller ready, to run at a later time.
ArpTimer(p) ==
    /\ arpproc[p].at = "wait" /\ arpmsg[p] = "none" /\ ~arpproc[p].timed
    /\ arpproc' = [arpproc EXCEPT ![p].timed = TRUE]
    /\ UNCHANGED <<arpcache, arpmsg, arpbudget, arpclaimed, arpgot, arpfault>>

\* After recvtime.  A message that is not SYSERR ends the loop, and the
\* hardware address is read from the slot whatever the slot is used for now.
ArpAnswered(p) ==
    /\ arpproc[p].at = "wait" /\ arpmsg[p] # "none"
    /\ arpmsg' = [arpmsg EXCEPT ![p] = "none"]
    /\ arpproc' = [arpproc EXCEPT ![p] = ArpIdle]
    /\ \/ arpmsg[p] = "SYSERR" /\ UNCHANGED arpgot           \* the entry stays pending
       \/ /\ arpmsg[p] # "SYSERR"
          /\ arpgot' = [arpgot EXCEPT ![p] = <<arpproc[p].addr, arpcache[arpproc[p].slot].mac>>]
    /\ UNCHANGED <<arpcache, arpbudget, arpclaimed, arpfault>>

BugKeepsPending(p) == UNCHANGED arpcache
ArpGiveUp(p) == arpcache' = [arpcache EXCEPT ![arpproc[p].slot].state = "FREE"]
ArpTimedOut(p) ==
    /\ arpproc[p].at = "wait" /\ arpmsg[p] = "none" /\ arpproc[p].timed
    /\ \/ /\ arpproc[p].tries + 1 < ARP_RETRY
          /\ arpproc' = [arpproc EXCEPT ![p].at = "write", ![p].tries = @ + 1]
          /\ UNCHANGED arpcache
       \/ /\ arpproc[p].tries + 1 = ARP_RETRY
          /\ ArpGiveUp(p) /\ arpproc' = [arpproc EXCEPT ![p] = ArpIdle]
    /\ UNCHANGED <<arpmsg, arpbudget, arpclaimed, arpgot, arpfault>>
-----------------------------------------------------------------------------
\* send(p, m): lost if there is a message already.
ArpMail(p, m) == [arpmsg EXCEPT ![p] = IF @ = "none" THEN m ELSE @]

\* arp_in for a packet from host a, which claims hardware address m: found
\* entries are updated, and a request for this machine leaves its sender in
\* the cache and is answered.
arp_in(op, a, m, target) ==
    LET found == ArpFind(a)
        e == arpcache[ArpFirst(found)]
        enters == found = {} /\ op = "REQUEST" /\ target = ArpMe /\ ArpAllocable # {} IN
    /\ arpbudget.packets > 0 /\ arpbudget' = [arpbudget EXCEPT !.packets = @ - 1]
    /\ arpclaimed' = arpclaimed \cup {<<a, m>>}
    /\ \/ /\ found # {}
          /\ arpcache' = [arpcache EXCEPT ![ArpFirst(found)].mac = m,
                                          ![ArpFirst(found)].state = "RESOLVED"]
          /\ arpmsg' = IF e.state = "PENDING" THEN ArpMail(e.pid, "OK") ELSE arpmsg
          /\ arpfault' = ArpMarked(IF e.state = "PENDING" THEN {e.pid} \ ArpRobbed(ArpFirst(found))
                                    ELSE {}, "stray")
       \/ /\ enters
          /\ arpcache' = [arpcache EXCEPT ![arp_alloc] =
                             [ArpFree EXCEPT !.state = "RESOLVED", !.addr = a, !.mac = m]]
          /\ arpfault' = ArpMarked(ArpRobbed(arp_alloc), "evicted") /\ UNCHANGED arpmsg
       \/ /\ found = {} /\ ~enters
          /\ UNCHANGED <<arpcache, arpmsg, arpfault>>
    /\ UNCHANGED <<arpproc, arpgot>>

\* Another process sends the caller a message of its own.
ArpStrayMessage(p, m) ==
    /\ arpbudget.stray > 0 /\ arpproc[p].at # "idle" /\ arpmsg[p] = "none"
    /\ arpbudget' = [arpbudget EXCEPT !.stray = @ - 1]
    /\ arpmsg' = ArpMail(p, m)
    /\ arpfault' = [arpfault EXCEPT ![p] = @ \cup {"stray"}]
    /\ UNCHANGED <<arpcache, arpproc, arpclaimed, arpgot>>

\* kill of a caller: nothing tells the cache.
ArpKill(p) ==
    /\ arpbudget.kills > 0 /\ arpproc[p].at # "idle"
    /\ arpbudget' = [arpbudget EXCEPT !.kills = @ - 1]
    /\ arpproc' = [arpproc EXCEPT ![p] = ArpIdle]
    /\ UNCHANGED <<arpcache, arpmsg, arpclaimed, arpgot, arpfault>>

ArpNext ==
    \/ \E p \in ArpProcs :
          \/ \E a \in ArpAddrs : arp_resolve(p, a)
          \/ ArpWrite(p) \/ ArpTimer(p) \/ ArpAnswered(p) \/ ArpTimedOut(p)
          \/ \E m \in {"stray", "SYSERR"} : ArpStrayMessage(p, m)
          \/ ArpKill(p)
    \/ \E op \in {"REQUEST", "REPLY"}, a \in ArpAddrs, m \in ArpMacs,
          target \in ArpAddrs \cup {ArpMe} : arp_in(op, a, m, target)
ArpSpec == arp_init /\ [][ArpNext]_arpvars
-----------------------------------------------------------------------------
\* The hardware address that arp_resolve returns with OK is one that the host
\* it was asked about has claimed.  It is not if the entry was evicted and
\* used again between the answer and the caller's turn, or if the message
\* was not from ARP: arp.c:148 reads the slot without looking at it.
ResolvedByOwner ==
    \A p \in ArpProcs :
        arpgot[p] # << >> /\ arpfault[p] = {} => arpgot[p] \in arpclaimed

\* No host has two entries, and a pending entry belongs to a caller that is
\* still there to resolve it or free it: one that nobody owns makes its host
\* unreachable (arp.c:79).  Only a caller that was killed, or ended by a
\* message of another process (arp.c:130), leaves such an entry.
PendingOwned ==
    /\ \A a \in ArpAddrs : Cardinality(ArpFind(a)) <= 1
    /\ Cardinality({s \in ArpSlots :
            /\ arpcache[s].state = "PENDING"
            /\ LET p == arpcache[s].pid IN
               ~(arpproc[p].at # "idle" /\ arpproc[p].slot = s /\ arpproc[p].addr = arpcache[s].addr)})
         <= (ArpKills - arpbudget.kills) + (ArpStray - arpbudget.stray)
==============================================================================
