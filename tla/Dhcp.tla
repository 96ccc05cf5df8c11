-------------------------------- MODULE Dhcp ---------------------------------
(***************************************************************************)
(* Obtaining an address with DHCP (net/dhcp.c), with several servers and a *)
(* network that loses, repeats and delays messages.  The options of a      *)
(* message are its octets, except that an address is one octet.  Servers   *)
(* are external.  The transaction id is made from the Ethernet address: it *)
(* is the same for every exchange of this machine.                         *)
(***************************************************************************)
EXTENDS Integers, Sequences, FiniteSets, FiniteSetsExt

CONSTANTS DhServers,    \* records [id, yip, sname, offer, ack, gives]: the options of
                        \* its messages, and the settings its ack is meant to give
          DHCP_RETRY,
          DhCalls       \* bound on calls of getlocalip

VARIABLES dhslot,       \* the UDP slot is registered
          dhcli,        \* local variables of getlocalip
          dhnet,        \* messages on their way to the client
          NetData, dhcalls
dhvars == <<dhslot, dhcli, dhnet, NetData, dhcalls>>

\* Option keys (dhcp.h).
DHCP_MESSAGE_TYPE == 53
DHCP_SERVER_ID == 54
DhSettings == {1, 3, 6, 42}            \* subnet mask, router, DNS server, NTP server
DhZero == [k \in DhSettings \cup {DHCP_MESSAGE_TYPE} |-> 0]
DhNothing == [op |-> 0, len |-> 0, id |-> 0]

dhinit ==
    /\ dhslot = FALSE /\ dhnet = {} /\ dhcalls = DhCalls
    /\ dhcli = [at |-> "idle", i |-> 0, j |-> 0, snd |-> DhNothing, opts |-> DhZero,
                ret |-> "none"]
    /\ NetData = [ipvalid |-> FALSE, ipucast |-> 0, bootserver |-> 0,
                  set |-> [k \in DhSettings |-> 0]]
-----------------------------------------------------------------------------
\* The positions at which the walk along the options finds a key.  It treats
\* every octet there as a key with a length octet behind it, padding (0) too.
DhWalk(opt, n) ==
    LET walk[i \in 1..n] ==
            IF i >= n THEN {}
            ELSE {i} \cup LET next == i + 2 + opt[i + 1] IN
                          IF next <= n THEN walk[next] ELSE {}
    IN walk[1]
DhFound(opt, n, key) == {i \in DhWalk(opt, n) : opt[i] = key /\ i + 2 <= Len(opt)}

\* The first value for a key, or 0 (NULL).
dhcp_get_opt_val(opt, n, key) ==
    LET at == DhFound(opt, n, key) IN IF at = {} THEN 0 ELSE opt[Min(at) + 2]
\* What the loop of getlocalip finds: the last value for each key.
BugNotReset(old) == old
DhReset(old) == DhZero
DhParse(old, opt) ==
    [k \in DOMAIN DhZero |->
        LET at == DhFound(opt, Len(opt), k) IN
        IF at = {} THEN DhReset(old)[k] ELSE opt[Max(at) + 2]]

\* An offer says that it is one, and gives is what the options of the ack say.
ASSUME DhAssumption ==
    \A s \in DhServers :
        /\ DhParse(DhZero, s.offer)[DHCP_MESSAGE_TYPE] = 2
        /\ \A k \in DhSettings : DhParse(DhZero, s.ack)[k] = s.gives[k]

\* Messages of the client; len counts its octets of options, plus one.
dhcp_bld_disc == [op |-> 1, len |-> 10, id |-> 0]
dhcp_bld_req(m) == [op |-> 3, len |-> 12, id |-> dhcp_get_opt_val(m.opt, Len(m.opt), DHCP_SERVER_ID)]

\* External: what servers may answer to a broadcast, once or more often or not
\* at all.  Messages for another client are broadcast too.
DhMessage(s, own, opt) == [own |-> own, yip |-> s.yip, sname |-> s.sname, opt |-> opt]
DhNak == <<DHCP_MESSAGE_TYPE, 1, 6, 255>>
DhReplies(snd) ==
    IF snd.op = 1 THEN {DhMessage(s, own, s.offer) : s \in DhServers, own \in BOOLEAN}
    ELSE UNION {{DhMessage(s, TRUE, s.ack), DhMessage(s, TRUE, DhNak)} :
                    s \in {t \in DhServers : t.id = snd.id}}
DhSend(snd) == dhnet' = dhnet \cup DhReplies(snd)
-----------------------------------------------------------------------------
getlocalip ==
    /\ dhcli.at = "idle" /\ dhcalls > 0 /\ dhcalls' = dhcalls - 1
    /\ ~dhslot /\ dhslot' = TRUE           \* otherwise udp_register refuses
    /\ dhcli' = [dhcli EXCEPT !.at = "recv", !.i = 0, !.j = 0, !.snd = dhcp_bld_disc]
    /\ DhSend(dhcp_bld_disc)
    /\ UNCHANGED NetData

DhRelease == dhslot' = FALSE
\* The next of three receives; after them, the last message is sent again.
DhAgain(c, sent) ==
    \/ /\ c.j < 2 /\ dhcli' = [c EXCEPT !.j = @ + 1]
       /\ dhnet' = sent /\ UNCHANGED dhslot
    \/ /\ c.j = 2 /\ c.i + 1 < DHCP_RETRY /\ dhcli' = [c EXCEPT !.i = @ + 1, !.j = 0]
       /\ dhnet' = sent \cup DhReplies(c.snd) /\ UNCHANGED dhslot
    \/ /\ c.j = 2 /\ c.i + 1 >= DHCP_RETRY /\ dhcli' = [c EXCEPT !.at = "idle", !.ret = "timeout"]
       /\ dhnet' = sent /\ DhRelease
DhTimeout ==
    /\ dhcli.at = "recv" /\ DhAgain(dhcli, dhnet) /\ UNCHANGED <<NetData, dhcalls>>

\* A message of another process makes udp_recv return SYSERR, and the call ends
\* without udp_release.  (If it reads OK, udp_recv returns what the head of the
\* empty queue pointed to last: an older message again, or a packet that fails
\* the comparison of transaction ids.)
DhStray ==
    /\ dhcli.at = "recv" /\ dhcli' = [dhcli EXCEPT !.at = "idle", !.ret = "SYSERR"]
    /\ UNCHANGED <<dhslot, dhnet, NetData, dhcalls>>

\* A message for another client is skipped.
DhOther(m) ==
    dhcli.at = "recv" /\ ~m.own /\ DhAgain(dhcli, dhnet) /\ UNCHANGED <<NetData, dhcalls>>

\* An offer is answered with a request, which the retries repeat from then on.
\* One without a server id ends the call, and the slot remains registered.
DhOffer(m) ==
    LET c == [dhcli EXCEPT !.opts = DhParse(dhcli.opts, m.opt)]
        req == dhcp_bld_req(m) IN
    /\ dhcli.at = "recv" /\ m.own /\ c.opts[DHCP_MESSAGE_TYPE] = 2
    /\ \/ req.id = 0 /\ dhcli' = [c EXCEPT !.at = "idle", !.ret = "noserver"] /\ UNCHANGED <<dhslot, dhnet>>
       \/ req.id # 0 /\ DhAgain([c EXCEPT !.snd = req], dhnet \cup DhReplies(req))
    /\ UNCHANGED <<NetData, dhcalls>>

\* An ack is told by the third octet; it sets what it has options for.  For
\* the boot server the options are searched up to the length of the message
\* that was sent; if nothing is found, an address is read at location 0.
DhIsAck(c, m) == c.opts[DHCP_MESSAGE_TYPE] # 2 /\ m.opt[3] = 5
DhBoot(m, len) ==
    IF m.sname # 0 THEN m.sname
    ELSE LET id == dhcp_get_opt_val(m.opt, IF len < Len(m.opt) THEN len ELSE Len(m.opt),
                                    DHCP_SERVER_ID) IN
         IF id = 0 THEN "at 0" ELSE id
DhAck(m) ==
    LET c == [dhcli EXCEPT !.opts = DhParse(dhcli.opts, m.opt)] IN
    /\ dhcli.at = "recv" /\ m.own /\ c.opts[DHCP_MESSAGE_TYPE] # 2
    /\ \/ /\ DhIsAck(c, m) /\ dhcli' = [c EXCEPT !.at = "idle", !.ret = "OK"] /\ DhRelease
          /\ NetData' = [ipvalid |-> TRUE, ipucast |-> m.yip,
                         bootserver |-> DhBoot(m, c.snd.len),
                         set |-> [k \in DhSettings |->
                                     IF c.opts[k] # 0 THEN c.opts[k] ELSE NetData.set[k]]]
          /\ UNCHANGED dhnet
       \/ ~DhIsAck(c, m) /\ DhAgain(c, dhnet) /\ UNCHANGED NetData
    /\ UNCHANGED dhcalls

DhNext ==
    \/ getlocalip \/ DhTimeout \/ DhStray
    \/ \E m \in dhnet : DhOther(m) \/ DhOffer(m) \/ DhAck(m)
DhSpec == dhinit /\ [][DhNext]_dhvars
-----------------------------------------------------------------------------
\* The settings of a machine that has an address come from an ack to it: the
\* address and all that this ack gives from one ack, the rest from an earlier
\* ack or nowhere, and never from the offers, of this or another server, that
\* were parsed into the same variables on the way (dhcp.c:198).  And the slot
\* is kept after the call only if an offer had no server id (dhcp.c:234) or a
\* message of another process came while it waited (dhcp.c:186); either makes
\* every later call fail.
DhAcked == {s \in DhServers : DhMessage(s, TRUE, s.ack) \in dhnet}
DhFromOneAck ==
    /\ NetData.ipvalid =>
          \E s \in DhAcked :
              /\ NetData.ipucast = s.yip
              /\ \A k \in DhSettings :
                    \/ s.gives[k] # 0 /\ NetData.set[k] = s.gives[k]
                    \/ s.gives[k] = 0 /\ NetData.set[k] \in {0} \cup {t.gives[k] : t \in DhAcked}
    /\ dhcli.at = "idle" /\ dhslot => dhcli.ret \in {"noserver", "SYSERR"}
==============================================================================
