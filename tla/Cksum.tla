-------------------------------- MODULE Cksum --------------------------------
(***************************************************************************)
(* The checksums of IP headers and ICMP messages (net/ip.c, net/icmp.c)    *)
(* and the conversions between host and network byte order, for words of   *)
(* two bytes of any size (the code has W = 256).  The state is that of the *)
(* summing loops: the words added so far and their sum, which is wider     *)
(* than a word and never overflows.                                        *)
(***************************************************************************)
EXTENDS Integers, Sequences, SequencesExt, FiniteSets

CONSTANTS W,           \* values of a byte
          CkWords      \* words in an IP header (10), with the checksum

VARIABLES cki, cksum
ckvars == <<cki, cksum>>

ASSUME CkBounds == W \in Nat \ {0, 1} /\ CkWords \in 2..(W * W)

WW == W * W
CkInit == cki = 0 /\ cksum = 0

\* Words are in memory as the network orders them, high byte first; the
\* machine reads them the other way round, and htons turns them back.
htons(x) == (x % W) * W + x \div W
InMemory(word) == (word % W) * W + word \div W
CkRead(word) == htons(InMemory(word))

\* One round of the loop of ipcksum or icmp_cksum.
CkAdd(word) ==
    /\ cki < CkWords - 1 /\ cki' = cki + 1 /\ cksum' = cksum + CkRead(word)
CkNext == \E word \in 0..(WW - 1) : CkAdd(word)
CkSpec == CkInit /\ [][CkNext]_ckvars

\* After the loop: one carry is added in, once.
CkFold(sum) == sum + sum \div WW
icmp_cksum(sum) == (WW - 1) - (CkFold(sum) % WW)
\* icmp_cksum of an odd number of bytes: the last one is the high byte.
CkOdd(sum, byte) == icmp_cksum(sum + byte * W)
BugKeepsOnes(sum) == icmp_cksum(sum)
ipcksum(sum) == IF icmp_cksum(sum) = WW - 1 THEN 0 ELSE icmp_cksum(sum)

\* The ones' complement sum, with every carry added in.
OnesSum(sum) == IF sum = 0 THEN 0 ELSE ((sum - 1) % (WW - 1)) + 1
CarriesAgain(sum) == CkFold(sum) \div WW # sum \div WW
-----------------------------------------------------------------------------
\* A header that is sent with the checksum that ipcksum computes passes
\* ipcksum when it is received, and one that passes is right by the ones'
\* complement sum, as is an ICMP message - except where adding in the carry
\* makes another carry, which is lost (ip.c:307, icmp.c:394).  Then the
\* header still passes ipcksum, though not another host's test, while the
\* ICMP message may fail its own.
ChecksumsAccepted ==
    LET ip == ipcksum(cksum)
        icmp == icmp_cksum(cksum) IN
    /\ ipcksum(cksum + ip) = 0
    /\ ~CarriesAgain(cksum) =>
          /\ cksum > 0 => OnesSum(cksum + icmp) = WW - 1
          /\ cksum > 0 => OnesSum(cksum + ip) = WW - 1
          /\ icmp_cksum(cksum + icmp) = 0
    /\ \A byte \in 0..(W - 1) :
          LET odd == CkOdd(cksum, byte) IN
          CarriesAgain(cksum + byte * W) \/ icmp_cksum(cksum + byte * W + odd) = 0
==============================================================================
