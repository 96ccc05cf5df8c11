--------------------------------- MODULE Dns ---------------------------------
(***************************************************************************)
(* Looking up a name (net/dns.c).  The data of a packet is a sequence of   *)
(* fields [t, v]: the labels of a name, its end or a pointer to an earlier *)
(* name, and the fields that follow names.  The server is external; its    *)
(* answers may be lost, repeated, or arrive during a later lookup, which   *)
(* uses the same ports, and the id of an answer is not looked at.          *)
(***************************************************************************)
EXTENDS Integers, Sequences, SequencesExt, FiniteSets

CONSTANTS DnsNames,     \* names: sequences of labels of one character
          DnsRecords,   \* the addresses of each name, in the order of the answer
          DnsAlias,     \* another name by which answers call each name, or << >>
          DnsLocal,     \* the addresses on the local network
          DNSRETRY, DNSDATASIZ, DNS_QT_A,
          DnsCalls      \* bound on lookups

DNS_QT_CNAME == 5               \* the type of a record that gives another name
\* No address is 0, and another name of a name is a name with its addresses.
ASSUME DnsAssumption ==
    /\ DnsNames \subseteq Seq(UNION {ToSet(n) : n \in DnsNames}) /\ DNS_QT_A # DNS_QT_CNAME
    /\ \A n \in DnsNames :
          /\ DnsRecords[n] \in Seq(ToSet(DnsRecords[n]) \ {0})
          /\ DnsAlias[n] # << >> => /\ DnsAlias[n] \in DnsNames
                                   /\ DnsRecords[DnsAlias[n]] = DnsRecords[n]

VARIABLES dnsslot,      \* the UDP slot is registered
          dnscli,       \* local variables of dnslookup
          dnsnet,       \* packets on their way to the client
          dnscalls
dnsvars == <<dnsslot, dnscli, dnsnet, dnscalls>>

dnsinit ==
    /\ dnsslot = FALSE /\ dnsnet = {} /\ dnscalls = DnsCalls
    /\ dnscli = [at |-> "idle", name |-> << >>, i |-> 0, addr |-> 0, ret |-> "none"]
-----------------------------------------------------------------------------
\* The length of a packet with the question for a name, or SYSERR.
DnsLength(name) == 2 * Len(name) - 1             \* one character labels, and dots
DnsError == -1
dns_bldq(name) == IF DnsLength(name) >= DNSDATASIZ THEN DnsError ELSE DnsLength(name) + 6

\* The name that begins at field i, and the field behind it.
DnsAt(d, i) ==
    LET name[k \in 1..Len(d)] ==
            IF d[k].t = "end" THEN [labels |-> << >>, next |-> k + 1]
            ELSE IF d[k].t = "label" THEN [labels |-> <<d[k].v>> \o name[k + 1].labels,
                                           next |-> name[k + 1].next]
            ELSE IF d[k].t = "ptr" THEN [labels |-> name[d[k].v].labels, next |-> k + 1]
            ELSE [labels |-> << >>, next |-> k]                 \* begins no name
    IN name[i]
dns_getrname(d, i) == DnsAt(d, i)

\* dns_geta skips the questions, then looks at each answer: type, class, time
\* to live, length and data follow its name.
DnsSkip(d, i) == DnsAt(d, i).next + 2            \* type and class
DnsFirst(pkt) ==
    LET after[q \in 0..pkt.qucount] == IF q = 0 THEN 1 ELSE DnsSkip(pkt.data, after[q - 1])
    IN after[pkt.qucount]
DnsMatches(name, rname) == IsPrefix(name, rname)  \* strncmp over the length of the name
BugFirstOnly(ip, a) == IF ip = 0 THEN a ELSE ip
DnsBetter(ip, a) == IF ip = 0 \/ a \in DnsLocal THEN a ELSE ip
DnsAnswer(name, d, st) ==
    LET r == dns_getrname(d, st.at)
        ok == DnsMatches(name, r.labels) /\ d[r.next].v = DNS_QT_A IN
    [at |-> r.next + 4 + d[r.next + 3].v,
     ip |-> IF ok THEN DnsBetter(st.ip, d[r.next + 4].v) ELSE st.ip]
dns_geta(name, pkt) ==
    LET seen[k \in 0..pkt.ancount] ==
            IF k = 0 THEN [at |-> DnsFirst(pkt), ip |-> 0]
            ELSE DnsAnswer(name, pkt.data, seen[k - 1])
    IN seen[pkt.ancount].ip
-----------------------------------------------------------------------------
\* External: the answer for a name.  It may begin with an alias (type 5), and
\* then has the addresses under that other name.
DnsField(t, v) == [t |-> t, v |-> v]
DnsRR(type, data) == <<DnsField("type", type), DnsField("class", 1), DnsField("ttl", 0),
                       DnsField("len", Len(data))>> \o data
DnsLabels(name) == [i \in DOMAIN name |-> DnsField("label", name[i])] \o <<DnsField("end", 0)>>
dnspkt(name) ==
    LET question == DnsLabels(name) \o <<DnsField("type", DNS_QT_A), DnsField("class", 1)>>
        back == <<DnsField("ptr", 1)>>
        alias == DnsAlias[name]
        cname == IF alias = << >> THEN << >> ELSE back \o DnsRR(DNS_QT_CNAME, DnsLabels(alias))
        owner == IF alias = << >> THEN back ELSE <<DnsField("ptr", Len(question) + 6)>>
        addr(a) == owner \o DnsRR(DNS_QT_A, <<DnsField("addr", a)>>)
        recs == DnsRecords[name] IN
    [qucount |-> 1, ancount |-> Len(recs) + (IF alias = << >> THEN 0 ELSE 1),
     data |-> question \o cname \o FlattenSeq([i \in DOMAIN recs |-> addr(recs[i])])]

DnsSend(name) == dnsnet' = dnsnet \cup {dnspkt(name)}
-----------------------------------------------------------------------------
\* dnslookup of a name that is not dotted or localhost, to the first receive.
\* getlocalip (module Dhcp) has found a server.  A name that is too long ends
\* the call, and the slot remains registered.
dnslookup(name) ==
    /\ dnscli.at = "idle" /\ dnscalls > 0 /\ dnscalls' = dnscalls - 1
    /\ ~dnsslot /\ dnsslot' = TRUE               \* otherwise udp_register refuses
    /\ \/ /\ dns_bldq(name) = DnsError
          /\ dnscli' = [dnscli EXCEPT !.name = name, !.ret = "too long"] /\ UNCHANGED dnsnet
       \/ /\ dns_bldq(name) # DnsError
          /\ dnscli' = [at |-> "recv", name |-> name, i |-> 0, addr |-> 0, ret |-> "none"]
          /\ DnsSend(name)

\* No packet, or none with an answer: the query is sent again or given up.
DnsAgain ==
    LET c == [dnscli EXCEPT !.i = @ + 1] IN
    \/ c.i < DNSRETRY /\ dnscli' = c /\ DnsSend(c.name) /\ UNCHANGED dnsslot
    \/ /\ c.i >= DNSRETRY /\ dnscli' = [c EXCEPT !.at = "idle", !.ret = "SYSERR"]
       /\ dnsslot' = FALSE /\ UNCHANGED dnsnet
DnsTimeout == dnscli.at = "recv" /\ DnsAgain /\ UNCHANGED dnscalls
DnsReceive(pkt) ==
    LET ip == dns_geta(dnscli.name, pkt) IN
    /\ dnscli.at = "recv"
    /\ \/ ip = 0 /\ DnsAgain
       \/ /\ ip # 0 /\ dnscli' = [dnscli EXCEPT !.at = "idle", !.addr = ip, !.ret = "OK"]
          /\ dnsslot' = FALSE /\ UNCHANGED dnsnet
    /\ UNCHANGED dnscalls

DnsNext ==
    \/ \E name \in DnsNames : dnslookup(name)
    \/ DnsTimeout
    \/ \E pkt \in dnsnet : DnsReceive(pkt)
DnsSpec == dnsinit /\ [][DnsNext]_dnsvars
-----------------------------------------------------------------------------
\* A lookup that succeeds, also one that reads the late answer to another,
\* returns an address of the name, or of a name that begins with it (dns.c:290
\* compares no more), and one on the local network if that name has one.  The
\* slot is kept after the call only if the name was too long (dns.c:94).
DnsRightAnswer ==
    /\ dnscli.ret = "OK" =>
          \E n \in DnsNames :
              /\ IsPrefix(dnscli.name, n) /\ dnscli.addr \in ToSet(DnsRecords[n])
              /\ dnscli.addr \in DnsLocal \/ ToSet(DnsRecords[n]) \cap DnsLocal = {}
    /\ dnscli.at = "idle" /\ dnsslot => dnscli.ret = "too long"
==============================================================================
