\* Two of every kind of process and host; queues of two, a slot more than
\* processes where slots can run out, and retries that can be used up.
CONSTANTS
  Parts = {"eth", "arp", "ip", "checksum", "udp", "icmp", "tftp", "dhcp", "dns"}
  EthWriters = {"ipout", "app"}
  EthRxSize = 4
  EthTxSize = 2
  E1000_RING_BOUNDARY = 2
  EthFrames <- Frames
  ArpProcs = {p1, p2}
  ARP_SIZ = 2
  ARP_RETRY = 2
  ArpAddrs = {x1, x2, x3}
  ArpMacs = {m1, m2}
  ArpMe = me
  ArpIn = 2
  ArpStray = 1
  ArpKills = 1
  IpProcs = {"a"}
  NetBufs = {1, 2, 3, 4, 5}
  IpOqsiz = 2
  IpRouter = FALSE
  IpIn = 4
  W = 4
  CkWords = 10
  UdpProcs = {p1, p2}
  UDP_SLOTS = 2
  UDP_QSIZ = 2
  UdpBufs = {x1, x2, x3}
  UdpRegs <- Registrations
  UdpPackets <- Packets
  UdpMe = 1
  UdpIn = 3
  UdpStray = 1
  UdpRegistered = 2
  IcmpProcs = {p1, p2}
  ICMP_SLOTS = 3
  ICMP_QSIZ = 2
  IcmpBufs = {x1, x2, x3}
  IcmpHosts = {m1, m2}
  IcmpMe = me
  IP_OQSIZ = 1
  IcmpIn = 3
  IcmpStray = 1
  IcmpRegistered = 2
  TfFile <- File
  TfSizes <- FileSizes
  TFTP_MAXDATA = 2
  TFTP_MAXRETRIES = 3
  TfMod = 8
  TfPorts = {m1, m2}
  DhServers <- Servers
  DHCP_RETRY = 2
  DhCalls = 3
  DnsNames <- Names
  DnsRecords <- Records
  DnsAlias <- Aliases
  DnsLocal = {1, 2}
  DNSRETRY = 3
  DNSDATASIZ = 7
  DNS_QT_A = 1
  DnsCalls = 3
SPECIFICATION NetSpec
CONSTRAINT NetBound
SYMMETRY NetSymmetry
INVARIANTS EthRingsSound ResolvedByOwner PendingOwned NetBuffersKept ChecksumsAccepted UdpQueuesSound IcmpQueuesSound TfIntact DhFromOneAck DnsRightAnswer
CHECK_DEADLOCK FALSE
