-------------------------------- MODULE MCNet --------------------------------
(***************************************************************************)
(* The Ethernet driver, the layers above it and the clients on top, each   *)
(* explored by itself: part says which one takes steps.  What a layer gets *)
(* from its neighbours is nondeterministic within its own module.          *)
(***************************************************************************)
EXTENDS Eth, Arp, Ip, Cksum, Udp, Icmp, Tftp, Dhcp, Dns, TLC

CONSTANT Parts
VARIABLE part
netvars == <<part, ethvars, arpvars, ipvars, ckvars, udpvars, icmpvars, tfvars, dhvars, dnsvars>>

NetInit ==
    /\ part \in Parts
    /\ EthInit /\ arp_init /\ net_init /\ CkInit /\ udp_init /\ icmp_init
    /\ tfinit /\ dhinit /\ dnsinit
NetNext ==
    /\ UNCHANGED part
    /\ part = "eth" \/ UNCHANGED ethvars
    /\ part = "arp" \/ UNCHANGED arpvars
    /\ part = "ip" \/ UNCHANGED ipvars
    /\ part = "checksum" \/ UNCHANGED ckvars
    /\ part = "udp" \/ UNCHANGED udpvars
    /\ part = "icmp" \/ UNCHANGED icmpvars
    /\ part = "tftp" \/ UNCHANGED tfvars
    /\ part = "dhcp" \/ UNCHANGED dhvars
    /\ part = "dns" \/ UNCHANGED dnsvars
    /\ \/ part = "eth" /\ EthNext
       \/ part = "arp" /\ ArpNext
       \/ part = "ip" /\ IpNext
       \/ part = "checksum" /\ CkNext
       \/ part = "udp" /\ UdpNext
       \/ part = "icmp" /\ IcmpNext
       \/ part = "tftp" /\ TfNext
       \/ part = "dhcp" /\ DhNext
       \/ part = "dns" /\ DnsNext
NetSpec == NetInit /\ [][NetNext]_netvars

\* A queue that has gone wrong is not followed further.
NetBound == UdpSound /\ IcmpSound
NetSymmetry == Permutations(ArpProcs) \cup Permutations(ArpAddrs) \cup Permutations(ArpMacs)
-----------------------------------------------------------------------------
Frames == [in |-> 6, out |-> 3]

\* A registration with one remote end, and one open to every host.
Registrations == {[remip |-> 1, remport |-> 5, locport |-> 6],
                  [remip |-> 0, remport |-> 0, locport |-> 5]}
Packets == {[ipsrc |-> 1, sport |-> 5, dport |-> 6], [ipsrc |-> 2, sport |-> 5, dport |-> 5]}

File == <<1, 2, 3, 4, 5>>
FileSizes == {<<1, 5>>, <<1, 3>>}

\* Three servers: one sends its options in the usual order and pads its reply,
\* one orders them otherwise and names a router and a DNS server, and one sends
\* an offer without its identity and names a boot server.
Given(mask, router, dns) ==
    [k \in DhSettings |-> CASE k = 1 -> mask [] k = 3 -> router [] k = 6 -> dns [] OTHER -> 0]
Servers ==
    {[id |-> 11, yip |-> 21, sname |-> 0, offer |-> <<53,1,2,54,1,11,3,1,31,255>>,
      ack |-> <<53,1,5,54,1,11,1,1,71,255,0,0>>, gives |-> Given(71, 0, 0)],
     [id |-> 12, yip |-> 22, sname |-> 0, offer |-> <<53,1,2,1,1,72,3,1,32,54,1,12,255>>,
      ack |-> <<53,1,5,1,1,72,3,1,32,6,1,42,54,1,12,255>>, gives |-> Given(72, 32, 42)],
     [id |-> 13, yip |-> 23, sname |-> 63, offer |-> <<53,1,2,255>>,
      ack |-> <<53,1,5,54,1,13,255>>, gives |-> Given(0, 0, 0)]}

\* A name that begins with another, an alias, a name that is too long, and
\* addresses of both kinds.
Names == {<<"a">>, <<"a","b">>, <<"b">>, <<"c","d","e">>, <<"f","g","h","i">>, <<"z">>}
Records == [n \in Names |-> CASE n = <<"a">> -> <<9, 1>> [] n = <<"a","b">> -> <<8, 7>>
                              [] n = <<"b">> -> <<1, 2, 6>> [] OTHER -> <<5>>]
Aliases == [n \in Names |-> IF n = <<"c","d","e">> THEN <<"z">> ELSE << >>]
==============================================================================
