---------------------------- MODULE ClientProofs -----------------------------
(***************************************************************************)
(* What reaches a program over the network is what was sent: the checksums *)
(* of IP, UDP and ICMP, for every width of a word and every contents; the  *)
(* files that TFTP fetches, for every file, every set of buffers and every *)
(* loss, repetition and delay of packets; the addresses that DNS finds,    *)
(* for all names, records and other names of a name; and the blocks that   *)
(* are read from a remote disk, for every number of callers that there are *)
(* request nodes for, every number of blocks and every size of the cache.  *)
(***************************************************************************)
EXTENDS Cksum, Tftp, Dns, Rds, SemProofs

\* A quotient and a remainder are those of the number they make up.
LEMMA Quotient ==
    ASSUME NEW M \in Nat \ {0}, NEW q \in Nat, NEW r \in 0..(M - 1), NEW x, x = q * M + r
    PROVE  x \div M = q /\ x % M = r
OBVIOUS
LEMMA Divided ==
    ASSUME NEW M \in Nat \ {0}, NEW x \in Nat
    PROVE  \E q \in Nat, r \in 0..(M - 1) : x = q * M + r /\ x \div M = q /\ x % M = r
<1>1. x = (x \div M) * M + (x % M) /\ x % M \in 0..(M - 1) /\ x \div M \in Nat OBVIOUS
<1>2. QED BY <1>1

LEMMA WordsAreWide == WW \in Nat /\ WW >= 4
<1>1. W \in Nat /\ W >= 2 BY CkBounds
<1>2. W * W >= 2 * W BY <1>1
<1>3. QED BY <1>1, <1>2 DEF WW

\* Adding in the carry of a sum of quotient q and remainder r, and the
\* checksum: without and with another carry.
LEMMA FoldedSum ==
    ASSUME NEW q \in 0..(WW - 1), NEW r \in 0..(WW - 1), NEW s, s = q * WW + r
    PROVE  /\ s \in Nat /\ s \div WW = q
           /\ q + r < WW => ~CarriesAgain(s) /\ icmp_cksum(s) = (WW - 1) - (q + r)
           /\ q + r >= WW => CarriesAgain(s) /\ icmp_cksum(s) = (WW - 1) - ((q + r) - WW)
<1>1. PICK M \in Nat \ {0} : M = WW BY WordsAreWide
<1>2. s \in Nat /\ s \div M = q BY <1>1, Quotient
<1>3. CASE q + r < WW
  <2>1. PICK t : t = q * M + (q + r) OBVIOUS
  <2>2. t \div M = q /\ t % M = q + r
    <3>1. PICK n \in 0..(M - 1) : n = q + r BY <1>1, <1>3
    <3>2. t = q * M + n /\ q \in Nat BY <2>1, <3>1
    <3>3. t \div M = q /\ t % M = n BY <1>1, <3>1, <3>2
    <3>4. QED BY <3>1, <3>3
  <2>3. CkFold(s) = t
    <3>1. CkFold(s) = s + q BY <1>1, <1>2 DEF CkFold
    <3>2. s + q = t BY <1>1, <2>1
    <3>3. QED BY <3>1, <3>2
  <2>4. QED BY <1>1, <1>2, <1>3, <2>2, <2>3 DEF CarriesAgain, icmp_cksum
<1>4. CASE q + r >= WW
  <2>1. PICK t : t = (q + 1) * M + ((q + r) - M) OBVIOUS
  <2>2. t \div M = q + 1 /\ t % M = (q + r) - M
    <3>1. PICK n \in 0..(M - 1) : n = (q + r) - M BY <1>1, <1>4
    <3>2. PICK k \in Nat : k = q + 1 OBVIOUS
    <3>3. t = k * M + n BY <2>1, <3>1, <3>2
    <3>4. t \div M = k /\ t % M = n BY <1>1, <3>1, <3>2, <3>3
    <3>5. QED BY <3>1, <3>2, <3>4
  <2>3. t = s + q BY <1>1, <2>1
  <2>4. CkFold(s) = t BY <1>1, <1>2, <2>3 DEF CkFold
  <2>5. QED BY <1>1, <1>2, <1>4, <2>2, <2>4 DEF CarriesAgain, icmp_cksum
<1>5. QED BY <1>1, <1>2, <1>3, <1>4

\* Adding the checksum to the sum it was computed from.
LEMMA Accepted ==
    ASSUME NEW s \in 0..(WW * (WW - 1))
    PROVE  /\ icmp_cksum(s) \in 0..(WW - 1)
           /\ ~CarriesAgain(s) => icmp_cksum(s + icmp_cksum(s)) = 0
           /\ ~CarriesAgain(s) /\ s > 0 =>
                 icmp_cksum(s) # WW - 1 /\ OnesSum(s + icmp_cksum(s)) = WW - 1
           /\ ipcksum(s + ipcksum(s)) = 0
<1>1. PICK M \in Nat \ {0} : M = WW /\ M >= 4 BY WordsAreWide
<1>2. PICK q \in Nat, r \in 0..(M - 1) : s = q * M + r /\ s \div M = q BY <1>1, Divided
<1>3. q \in 0..(M - 1) /\ (q = M - 1 => r = 0)
  <2>1. s \in 0..(M * (M - 1)) BY <1>1
  <2>2. q <= M - 1
    <3>1. SUFFICES ASSUME q >= M PROVE FALSE BY <1>1
    <3>2. q * M >= M * M BY <3>1
    <3>3. M * (M - 1) = M * M - M OBVIOUS
    <3>4. QED BY <1>1, <1>2, <2>1, <3>2, <3>3
  <2>3. q = M - 1 => q * M = M * (M - 1) OBVIOUS
  <2>4. QED BY <1>2, <2>1, <2>2, <2>3
<1>4. CASE q + r < M
  <2>1. ~CarriesAgain(s) /\ icmp_cksum(s) = (M - 1) - (q + r) BY <1>1, <1>2, <1>3, <1>4, FoldedSum
  <2>2. PICK u : u = q * M + ((M - 1) - q) OBVIOUS
  <2>3. s + icmp_cksum(s) = u
    <3>1. PICK z \in Int : z = q * M OBVIOUS
    <3>2. s = z + r /\ u = z + ((M - 1) - q) BY <1>2, <2>2, <3>1
    <3>3. QED BY <2>1, <3>2
  <2>4. icmp_cksum(u) = 0
    <3>1. PICK n \in 0..(M - 1) : n = (M - 1) - q BY <1>3
    <3>2. q \in 0..(WW - 1) /\ n \in 0..(WW - 1) /\ u = q * WW + n /\ q + n < WW
      BY <1>1, <1>3, <2>2, <3>1
    <3>3. icmp_cksum(u) = (WW - 1) - (q + n) BY <3>2, FoldedSum, Zenon
    <3>4. QED BY <1>1, <1>3, <3>1, <3>3
  <2>5. s > 0 => icmp_cksum(s) # M - 1 BY <1>2, <1>4, <2>1
  <2>6. OnesSum(u) = M - 1
    <3>1. u - 1 = q * (M - 1) + (M - 2) /\ u # 0 BY <1>1, <1>3, <2>2
    <3>2. (u - 1) % (M - 1) = M - 2
      <4>1. PICK N \in Nat \ {0} : N = M - 1 BY <1>1
      <4>2. PICK n \in 0..(N - 1) : n = M - 2 BY <1>1, <4>1
      <4>3. u - 1 = q * N + n BY <3>1, <4>1, <4>2
      <4>4. (u - 1) % N = n BY <4>3, Quotient
      <4>5. QED BY <4>1, <4>2, <4>4
    <3>3. QED BY <1>1, <3>1, <3>2 DEF OnesSum
  <2>7. ipcksum(s + ipcksum(s)) = 0
    <3>1. CASE icmp_cksum(s) # M - 1 BY <1>1, <2>3, <2>4, <3>1 DEF ipcksum
    <3>2. CASE icmp_cksum(s) = M - 1
      <4>1. ipcksum(s) = 0 BY <1>1, <3>2 DEF ipcksum
      <4>2. s + 0 = s OBVIOUS
      <4>3. QED BY <4>1, <4>2
    <3>3. QED BY <3>1, <3>2
  <2>8. QED BY <1>1, <1>3, <1>4, <2>1, <2>3, <2>4, <2>5, <2>6, <2>7
<1>5. CASE q + r >= M
  <2>1. CarriesAgain(s) /\ icmp_cksum(s) = (M - 1) - ((q + r) - M) BY <1>1, <1>2, <1>3, <1>5, FoldedSum
  <2>2. CASE icmp_cksum(s) = M - 1
    <3>1. ipcksum(s) = 0 BY <1>1, <2>2 DEF ipcksum
    <3>2. s + 0 = s OBVIOUS
    <3>3. QED BY <1>1, <1>3, <1>5, <2>1, <2>2, <3>1, <3>2
  <2>3. CASE icmp_cksum(s) # M - 1
    <3>1. ipcksum(s) = icmp_cksum(s) BY <1>1, <2>3 DEF ipcksum
    <3>2. PICK u : u = (q + 1) * M + ((M - 1) - q) OBVIOUS
    <3>3. s + icmp_cksum(s) = u BY <1>2, <2>1, <3>2
    <3>4. q + 1 \in 0..(M - 1) BY <1>1, <1>3, <1>5, <2>1, <2>3
    <3>5. icmp_cksum(u) = M - 1
      <4>1. PICK n \in 0..(M - 1) : n = (M - 1) - q BY <1>3
      <4>2. PICK k \in 0..(M - 1) : k = q + 1 BY <3>4
      <4>3. k + n = M BY <4>1, <4>2
      <4>4. k \in 0..(WW - 1) /\ n \in 0..(WW - 1) /\ u = k * WW + n /\ k + n >= WW
        BY <1>1, <3>2, <4>1, <4>2, <4>3
      <4>5. icmp_cksum(u) = (WW - 1) - ((k + n) - WW) BY <4>4, FoldedSum, Zenon
      <4>6. QED BY <1>1, <4>3, <4>5
    <3>6. ipcksum(u) = 0 BY <1>1, <3>5 DEF ipcksum
    <3>7. QED BY <1>1, <1>3, <1>5, <2>1, <3>1, <3>3, <3>6
  <2>4. QED BY <2>2, <2>3
<1>6. QED BY <1>3, <1>4, <1>5

\* The state of the summing loop: no more was added than words there were.
CkInv == cki \in 0..(CkWords - 1) /\ cksum \in 0..(cki * (WW - 1))

LEMMA CkReadIsWord == \A word \in 0..(WW - 1) : CkRead(word) \in 0..(WW - 1)
<1>1. PICK U \in Nat \ {0} : U = W /\ WW = U * U BY CkBounds DEF WW
<1>2. ASSUME NEW x \in 0..(U * U - 1)
      PROVE  (x % U) * U + (x \div U) \in 0..(U * U - 1)
  <2>1. PICK q \in Nat, r \in 0..(U - 1) : x = q * U + r /\ x \div U = q /\ x % U = r BY Divided
  <2>2. q <= U - 1
    <3>1. SUFFICES ASSUME q >= U PROVE FALSE BY <1>1
    <3>2. q * U >= U * U BY <3>1
    <3>3. QED BY <2>1, <3>2
  <2>3. r * U <= (U - 1) * U /\ r * U \in Nat BY <1>1
  <2>4. (U - 1) * U = U * U - U BY <1>1
  <2>5. QED BY <2>1, <2>2, <2>3, <2>4
<1>3. QED BY <1>1, <1>2 DEF CkRead, htons, InMemory

LEMMA CkStep == ASSUME CkInv, [CkNext]_ckvars PROVE CkInv'
<1>1. CASE UNCHANGED ckvars BY <1>1 DEF CkInv, ckvars
<1>2. ASSUME NEW word \in 0..(WW - 1), CkAdd(word) PROVE CkInv'
  <2>1. PICK M \in Nat : M = WW /\ M >= 4 BY WordsAreWide
  <2>2. PICK c \in 0..(M - 1) : c = CkRead(word) BY <1>2, <2>1, CkReadIsWord
  <2>3. PICK k \in Nat : k = cki /\ k < CkWords - 1 BY <1>2 DEF CkAdd, CkInv
  <2>4. cki' = k + 1 /\ cksum' = cksum + c BY <1>2, <2>2, <2>3 DEF CkAdd
  <2>5. cksum \in 0..(k * (M - 1)) BY <2>1, <2>3 DEF CkInv
  <2>6. (k + 1) * (M - 1) = k * (M - 1) + (M - 1) /\ k * (M - 1) \in Nat BY <2>1
  <2>7. cksum' \in 0..((k + 1) * (M - 1)) BY <2>4, <2>5, <2>6
  <2>8. CkWords \in Nat BY CkBounds
  <2>9. QED BY <2>1, <2>3, <2>4, <2>7, <2>8 DEF CkInv
<1>3. QED BY <1>1, <1>2 DEF CkNext

LEMMA CkAccepts == CkInv => ChecksumsAccepted
<1>1. SUFFICES ASSUME CkInv PROVE ChecksumsAccepted OBVIOUS
<1>2. PICK U \in Nat : U = W /\ U >= 2 BY CkBounds
<1>3. PICK M \in Nat : M = WW /\ M = U * U /\ M >= 4 BY <1>2, WordsAreWide DEF WW
<1>4. PICK s \in Nat : s = cksum /\ s <= (M - 1) * (M - 1)
  <2>1. PICK k \in Nat : k = cki /\ k <= M - 1
    <3>1. PICK n \in Nat : n = CkWords /\ n <= M BY <1>2, <1>3, CkBounds
    <3>2. QED BY <1>1, <3>1 DEF CkInv
  <2>2. k * (M - 1) <= (M - 1) * (M - 1) /\ k * (M - 1) \in Nat BY <1>3, <2>1
  <2>3. cksum \in 0..(k * (M - 1)) BY <1>1, <1>3, <2>1 DEF CkInv
  <2>4. QED BY <2>2, <2>3
<1>5. (M - 1) * (M - 1) = M * (M - 1) - (M - 1) /\ M * (M - 1) \in Nat BY <1>3
<1>6. s \in 0..(WW * (WW - 1)) BY <1>3, <1>4, <1>5
<1>7. ASSUME NEW byte \in 0..(W - 1)
      PROVE  CarriesAgain(cksum + byte * W) \/ icmp_cksum((cksum + byte * W) + CkOdd(cksum, byte)) = 0
  <2>1. byte * U <= (U - 1) * U /\ byte * U \in Nat /\ (U - 1) * U = M - U BY <1>2, <1>3
  <2>2. PICK t \in Nat : t = s + byte * U BY <2>1
  <2>3. t \in 0..(WW * (WW - 1)) BY <1>2, <1>3, <1>4, <1>5, <2>1, <2>2
  <2>4. t = cksum + byte * W BY <1>2, <1>4, <2>2
  <2>5. CarriesAgain(t) \/ icmp_cksum(t + icmp_cksum(t)) = 0 BY <2>3, Accepted
  <2>6. QED BY <2>4, <2>5 DEF CkOdd
<1>8. /\ icmp_cksum(s) \in 0..(WW - 1)
      /\ ~CarriesAgain(s) => icmp_cksum(s + icmp_cksum(s)) = 0
      /\ ~CarriesAgain(s) /\ s > 0 =>
            icmp_cksum(s) # WW - 1 /\ OnesSum(s + icmp_cksum(s)) = WW - 1
      /\ ipcksum(s + ipcksum(s)) = 0
  BY <1>6, Accepted
<1>9. ~CarriesAgain(s) /\ s > 0 => ipcksum(s) = icmp_cksum(s) BY <1>8 DEF ipcksum
<1>10. QED BY <1>4, <1>7, <1>8, <1>9 DEF ChecksumsAccepted

\* What ipcksum and icmp_cksum put into a packet is what they accept.
THEOREM SumsAreAccepted == CkSpec => []ChecksumsAccepted
<1>1. CkInit => CkInv
  <2>1. WW \in Nat /\ CkWords \in Nat /\ CkWords >= 2 BY WordsAreWide, CkBounds
  <2>2. QED BY <2>1 DEF CkInit, CkInv
<1>2. CkInv /\ [CkNext]_ckvars => CkInv' BY CkStep
<1>3. QED BY <1>1, <1>2, CkAccepts, PTL DEF CkSpec
-----------------------------------------------------------------------------
\* The tftp client.  What it was sent: blocks of the file, with their numbers.
TfOctets == ToSet(TfFile)
TfDataSent ==
    /\ tfserver \in [TfPorts -> 0..TfBlocks]
    /\ \A m \in tfnet :
          /\ m.port \in TfPorts /\ m.op \in {"DATA", "ERROR"}
          /\ m.op = "DATA" => m.blk \in 1..TfBlocks /\ m.data = TfData(m.blk)

\* The buffers r hold the first octets of the file: those before the current
\* one are full, the current one has what was used of it, and those behind it
\* are empty.
TfRcvs == [sizes : Seq(Nat \ {0}), ind : Nat, used : Nat, filesiz : Nat, full : BOOLEAN,
           bufs : Seq(Seq(TfOctets))]
TfHeld(r) ==
    /\ r \in TfRcvs /\ Len(r.bufs) = Len(r.sizes) /\ r.ind \in 1..Len(r.sizes)
    /\ \A i \in 1..Len(r.sizes) : /\ i < r.ind => Len(r.bufs[i]) = r.sizes[i]
                                  /\ i > r.ind => r.bufs[i] = << >>
    /\ Len(r.bufs[r.ind]) = r.used /\ r.used <= r.sizes[r.ind]
    /\ r.filesiz \in 0..Len(TfFile) /\ FlattenSeq(r.bufs) = SubSeq(TfFile, 1, r.filesiz)
    /\ r.full => r.ind = Len(r.sizes) /\ r.used = r.sizes[r.ind]

TfClis == [at : {"idle", "wait", "done"}, out : [op : {"RRQ", "ACK"}, blk : Int],
           remport : {TFTP_PORT} \cup TfPorts, expected : Int, tries : Int, rcv : TfRcvs,
           ret : {"none", "OK", "SYSERR"}]
TfClientIs(c, sock) ==
    /\ c \in TfClis /\ (sock <=> c.at = "wait")
    /\ c.at = "idle" => c.rcv = TfBuffers(<< >>) /\ c.ret = "none" /\ c.expected = 1
    /\ c.at # "idle" => TfHeld(c.rcv)
    /\ c.at = "wait" => /\ c.ret = "none" /\ ~c.rcv.full /\ c.expected \in 1..TfBlocks
                        /\ c.rcv.filesiz = (c.expected - 1) * TFTP_MAXDATA
    /\ c.ret = "OK" => c.at = "done" /\ (c.rcv.full \/ c.rcv.filesiz = Len(TfFile))
TfClient == TfClientIs(tfcli, tfsock)
TfInv == TfDataSent /\ TfClient

\* The function by which FlattenSeq joins sequences exists.
JoinTo(f, s, n) == f = [i \in 1..n |-> IF i = 1 THEN s[i] ELSE f[i - 1] \o s[i]]
LEMMA JoinBuilt == ASSUME NEW s PROVE \A n \in Nat : \E f : JoinTo(f, s, n)
<1> DEFINE T == {n \in Nat : \E f : JoinTo(f, s, n)}
<1>1. 0 \in T
  <2>1. PICK f : f = [i \in 1..0 |-> IF i = 1 THEN s[i] ELSE << >>] OBVIOUS
  <2>2. f = [i \in 1..0 |-> IF i = 1 THEN s[i] ELSE f[i - 1] \o s[i]] BY <2>1
  <2>3. JoinTo(f, s, 0) BY <2>2 DEF JoinTo
  <2>4. QED BY <2>3
<1>2. ASSUME NEW n \in Nat, n \in T PROVE n + 1 \in T
  <2>1. PICK f : JoinTo(f, s, n) BY <1>2
  <2>2. f = [i \in 1..n |-> IF i = 1 THEN s[i] ELSE f[i - 1] \o s[i]] BY <2>1 DEF JoinTo
  <2>3. PICK y : y = IF n = 0 THEN s[1] ELSE f[n] \o s[n + 1] OBVIOUS
  <2>4. PICK g : g = [i \in 1..(n + 1) |-> IF i = n + 1 THEN y ELSE f[i]] OBVIOUS
  <2>5. \A i \in 1..(n + 1) : g[i] = IF i = 1 THEN s[i] ELSE g[i - 1] \o s[i]
    <3> TAKE i \in 1..(n + 1)
    <3>1. CASE i = n + 1
      <4>1. g[i] = y BY <2>4, <3>1
      <4>2. i = 1 <=> n = 0 BY <3>1
      <4>3. n # 0 => g[n] = f[n] BY <2>4
      <4>4. i - 1 = n BY <3>1
      <4>5. QED BY <2>3, <3>1, <4>1, <4>2, <4>3, <4>4
    <3>2. CASE i # n + 1
      <4>1. i \in 1..n /\ g[i] = f[i] BY <2>4, <3>2
      <4>2. f[i] = IF i = 1 THEN s[i] ELSE f[i - 1] \o s[i] BY <2>2, <4>1
      <4>3. i # 1 => i - 1 \in 1..(n + 1) /\ i - 1 # n + 1 BY <4>1
      <4>4. i # 1 => g[i - 1] = f[i - 1] BY <2>4, <4>3
      <4>5. QED BY <4>1, <4>2, <4>4
    <3>3. QED BY <3>1, <3>2
  <2>6. g = [i \in 1..(n + 1) |-> IF i = 1 THEN s[i] ELSE g[i - 1] \o s[i]] BY <2>4, <2>5
  <2>7. JoinTo(g, s, n + 1) BY <2>6 DEF JoinTo
  <2>8. QED BY <2>7
<1>3. \A n \in Nat : n \in T
  <2> HIDE DEF T
  <2>1. QED BY <1>1, <1>2, Induction, Zenon
<1>4. QED BY <1>3

\* FlattenSeq by its prefixes.
Joined(f, s, O) ==
    /\ f[1] = s[1] /\ \A i \in 2..Len(s) : f[i] = f[i - 1] \o s[i]
    /\ \A i \in 1..Len(s) : f[i] \in Seq(O)
    /\ FlattenSeq(s) = f[Len(s)]
LEMMA FlattenJoins ==
    ASSUME NEW O, NEW s \in Seq(Seq(O)), Len(s) # 0 PROVE \E f : Joined(f, s, O)
<1>1. PICK n \in Nat : n = Len(s) /\ n # 0 OBVIOUS
<1>2. PICK f : f = CHOOSE h : JoinTo(h, s, n) OBVIOUS
<1>3. JoinTo(f, s, n) BY <1>2, JoinBuilt
<1>4. FlattenSeq(s) = f[Len(s)] BY <1>1, <1>2 DEF FlattenSeq, JoinTo
<1>5. f = [i \in 1..n |-> IF i = 1 THEN s[i] ELSE f[i - 1] \o s[i]] BY <1>3 DEF JoinTo
<1>6. f[1] = s[1] /\ \A i \in 2..n : f[i] = f[i - 1] \o s[i]
  <2>1. 1 \in 1..n /\ \A i \in 2..n : i \in 1..n /\ i # 1 BY <1>1
  <2>2. QED BY <1>5, <2>1
<1>7. \A i \in 1..n : f[i] \in Seq(O)
  <2> DEFINE T == {k \in Nat : k \in 1..n => f[k] \in Seq(O)}
  <2>1. 0 \in T OBVIOUS
  <2>2. ASSUME NEW k \in Nat, k \in T PROVE k + 1 \in T
    <3>1. SUFFICES ASSUME k + 1 \in 1..n PROVE f[k + 1] \in Seq(O) OBVIOUS
    <3>2. s[k + 1] \in Seq(O) BY <1>1, <3>1
    <3>3. CASE k = 0 BY <1>6, <3>2, <3>3
    <3>4. CASE k # 0
      <4>1. k \in 1..n /\ k + 1 \in 2..n /\ (k + 1) - 1 = k BY <3>1, <3>4
      <4>2. f[k] \in Seq(O) BY <2>2, <4>1
      <4>3. f[k + 1] = f[k] \o s[k + 1] BY <1>6, <4>1
      <4>4. QED BY <3>2, <4>2, <4>3
    <3>5. QED BY <3>3, <3>4
  <2>3. \A k \in Nat : k \in T
    <3> HIDE DEF T
    <3>1. QED BY <2>1, <2>2, Induction, Zenon
  <2>4. QED BY <2>3
<1>8. QED BY <1>1, <1>4, <1>6, <1>7 DEF Joined

\* An element more at the end of a sequence behind which all are empty.
LEMMA JoinsMore ==
    ASSUME NEW O, NEW s \in Seq(Seq(O)), NEW k \in 1..Len(s), NEW c \in O,
           \A j \in 1..Len(s) : j > k => s[j] = << >>,
           NEW t \in Seq(Seq(O)), Len(t) = Len(s), t[k] = Append(s[k], c),
           \A j \in 1..Len(s) : j # k => t[j] = s[j]
    PROVE  FlattenSeq(t) = Append(FlattenSeq(s), c)
<1>1. /\ t \in Seq(Seq(O)) /\ Len(t) = Len(s) /\ t[k] = Append(s[k], c)
      /\ \A j \in 1..Len(s) : j # k => t[j] = s[j]
  OBVIOUS
<1>2. PICK n \in Nat : n = Len(s) /\ n # 0 /\ k \in 1..n OBVIOUS
<1>3. PICK f : Joined(f, s, O) BY <1>2, FlattenJoins, Zenon
<1>4. PICK g : Joined(g, t, O)
  <2>1. Len(t) # 0 /\ t \in Seq(Seq(O)) BY <1>1, <1>2
  <2>2. QED BY <2>1, FlattenJoins, Zenon
<1>5. /\ f[1] = s[1] /\ \A i \in 2..n : f[i] = f[i - 1] \o s[i]
      /\ \A i \in 1..n : f[i] \in Seq(O)
      /\ FlattenSeq(s) = f[n]
  BY <1>2, <1>3 DEF Joined
<1>6. /\ g[1] = t[1] /\ \A i \in 2..n : g[i] = g[i - 1] \o t[i]
      /\ FlattenSeq(t) = g[n]
  BY <1>1, <1>2, <1>4 DEF Joined
<1> DEFINE T == {j \in Nat : j \in 1..n => g[j] = IF j < k THEN f[j] ELSE Append(f[j], c)}
<1>7. 0 \in T OBVIOUS
<1>8. ASSUME NEW j \in Nat, j \in T PROVE j + 1 \in T
  <2>1. SUFFICES ASSUME j + 1 \in 1..n
                 PROVE  g[j + 1] = IF j + 1 < k THEN f[j + 1] ELSE Append(f[j + 1], c)
    OBVIOUS
  <2>2. s[j + 1] \in Seq(O) BY <1>2, <2>1
  <2>3. /\ j + 1 = k => t[j + 1] = Append(s[j + 1], c)
        /\ j + 1 # k => t[j + 1] = s[j + 1]
        /\ j + 1 > k => s[j + 1] = << >>
    BY <1>1, <1>2, <2>1
  <2>4. CASE j = 0
    <3>1. f[j + 1] = s[j + 1] /\ g[j + 1] = t[j + 1] BY <1>5, <1>6, <2>4
    <3>2. j + 1 <= k BY <1>2, <2>4
    <3>3. CASE j + 1 = k
      <4>1. ~(j + 1 < k) BY <1>2, <3>3
      <4>2. QED BY <2>3, <3>1, <3>3, <4>1, Zenon
    <3>4. CASE j + 1 # k
      <4>1. j + 1 < k BY <1>2, <3>2, <3>4
      <4>2. QED BY <2>3, <3>1, <3>4, <4>1, Zenon
    <3>5. QED BY <3>3, <3>4
  <2>5. CASE j # 0
    <3>1. j \in 1..n /\ j + 1 \in 2..n /\ (j + 1) - 1 = j BY <2>1, <2>5
    <3>2. f[j + 1] = f[j] \o s[j + 1] /\ g[j + 1] = g[j] \o t[j + 1] BY <1>5, <1>6, <3>1
    <3>3. f[j] \in Seq(O) BY <1>5, <3>1
    <3>4. (j < k => g[j] = f[j]) /\ (~(j < k) => g[j] = Append(f[j], c)) BY <1>8, <3>1
    <3>5. CASE j + 1 < k
      <4>1. j < k /\ j + 1 # k BY <1>2, <3>5
      <4>2. g[j + 1] = f[j + 1] BY <2>3, <3>2, <3>4, <4>1, Zenon
      <4>3. QED BY <3>5, <4>2
    <3>6. CASE j + 1 = k
      <4>1. j < k /\ ~(j + 1 < k) BY <1>2, <3>6
      <4>2. g[j + 1] = f[j] \o Append(s[j + 1], c) BY <2>3, <3>2, <3>4, <3>6, <4>1, Zenon
      <4>3. f[j] \o Append(s[j + 1], c) = Append(f[j] \o s[j + 1], c)
        <5>1. PICK a \in Seq(O) : a = f[j] BY <3>3
        <5>2. PICK b \in Seq(O) : b = s[j + 1] BY <2>2
        <5>3. a \o Append(b, c) = Append(a \o b, c) BY SMTT(60)
        <5>4. QED BY <5>1, <5>2, <5>3
      <4>4. QED BY <3>2, <4>1, <4>2, <4>3, Zenon
    <3>7. CASE j + 1 > k
      <4>1. ~(j < k) /\ j + 1 # k /\ ~(j + 1 < k) BY <1>2, <3>7
      <4>2. g[j + 1] = Append(f[j], c) \o << >> /\ f[j + 1] = f[j] \o << >>
        BY <2>3, <3>2, <3>4, <3>7, <4>1, Zenon
      <4>3. Append(f[j], c) \o << >> = Append(f[j], c) /\ f[j] \o << >> = f[j] BY <3>3
      <4>4. QED BY <4>1, <4>2, <4>3, Zenon
    <3>8. QED BY <1>2, <3>5, <3>6, <3>7
  <2>6. QED BY <2>4, <2>5
<1>9. \A j \in Nat : j \in T
  <2> HIDE DEF T
  <2>1. QED BY <1>7, <1>8, Induction, Zenon
<1>10. FlattenSeq(t) = Append(FlattenSeq(s), c)
  <2>1. n \in T BY <1>9
  <2>2. n \in 1..n /\ ~(n < k) BY <1>2
  <2>3. g[n] = Append(f[n], c) BY <2>1, <2>2
  <2>4. QED BY <1>5, <1>6, <2>3
<1>11. QED BY <1>10

\* The blocks of the file.
LEMMA TfConstants ==
    \E L \in Nat, D \in Nat \ {0}, B \in Nat :
        /\ L = Len(TfFile) /\ D = TFTP_MAXDATA /\ B = TfBlocks /\ B >= 1 /\ TfMod \in Nat /\ B < TfMod
        /\ \A k \in 1..B : (k - 1) * D <= L /\ (k - 1) * D \in Nat /\ (k * D <= L => k + 1 <= B)
        /\ TfFile \in Seq(TfOctets)
<1>1. PICK L \in Nat, D \in Nat \ {0} : L = Len(TfFile) /\ D = TFTP_MAXDATA BY TfAssumption
<1>2. TfFile \in Seq(TfOctets) /\ TfMod \in Nat BY TfAssumption DEF TfOctets
<1>3. PICK q \in Nat, r \in 0..(D - 1) : L = q * D + r /\ q = L \div D
  <2>1. L = (L \div D) * D + (L % D) /\ L % D \in 0..(D - 1) /\ L \div D \in Nat BY <1>1
  <2>2. QED BY <2>1
<1>4. PICK B \in Nat : B = q + 1 /\ B = TfBlocks BY <1>1, <1>3 DEF TfBlocks
<1>5. B < TfMod BY <1>1, <1>2, <1>3, <1>4, TfNoWrap
<1>6. ASSUME NEW k \in 1..B
      PROVE  (k - 1) * D <= L /\ (k - 1) * D \in Nat /\ (k * D <= L => k + 1 <= B)
  <2>1. PICK j \in Nat : j = k - 1 /\ j <= q BY <1>4
  <2>2. j * D <= q * D /\ j * D \in Nat BY <1>1, <2>1
  <2>3. q * D \in Nat /\ q * D <= L BY <1>3
  <2>4. k * D <= L => k <= q
    <3>1. SUFFICES ASSUME k >= q + 1 PROVE k * D > L BY <1>3
    <3>2. k * D >= (q + 1) * D /\ (q + 1) * D = q * D + D BY <1>1, <3>1
    <3>3. QED BY <1>3, <2>3, <3>2
  <2>5. QED BY <1>1, <1>4, <2>1, <2>2, <2>3, <2>4
<1>7. B >= 1 BY <1>3, <1>4
<1>8. QED BY <1>1, <1>2, <1>4, <1>5, <1>6, <1>7, Zenon

\* The octet c is stored, or the buffers are full.
LEMMA ByteStored ==
    ASSUME NEW r, TfHeld(r), NEW c, ~r.full => r.filesiz < Len(TfFile) /\ c = TfFile[r.filesiz + 1],
           NEW u, u = TfByte(r, c)
    PROVE  /\ TfHeld(u) /\ u.sizes = r.sizes /\ (r.full => u = r)
           /\ ~u.full => u.filesiz = r.filesiz + 1
<1>1. PICK n \in Nat, s \in Seq(Seq(TfOctets)), z \in Seq(Nat \ {0}), k \in Nat, m \in Nat :
         k \in 1..n /\ n = Len(s) /\ n = Len(z) /\ s = r.bufs /\ z = r.sizes /\ k = r.ind /\ m = r.filesiz
  <2>1. r.bufs \in Seq(Seq(TfOctets)) /\ r.sizes \in Seq(Nat \ {0}) /\ r.filesiz \in Nat BY DEF TfHeld, TfRcvs
  <2>2. Len(r.bufs) \in Nat /\ Len(r.bufs) = Len(r.sizes) /\ r.ind \in 1..Len(r.bufs) /\ r.ind \in Nat BY <2>1 DEF TfHeld
  <2>3. QED BY <2>1, <2>2, Zenon
<1>2. /\ r \in TfRcvs
      /\ \A i \in 1..n : (i < k => Len(s[i]) = z[i]) /\ (i > k => s[i] = << >>)
      /\ Len(s[k]) = r.used /\ r.used <= z[k]
      /\ m \in 0..Len(TfFile) /\ FlattenSeq(s) = SubSeq(TfFile, 1, m)
      /\ r.full => k = n /\ r.used = z[k]
  BY <1>1 DEF TfHeld
<1>3. r.used \in Nat /\ z[k] \in Nat /\ r.full \in BOOLEAN BY <1>1, <1>2 DEF TfRcvs
<1>4. PICK i \in Nat : i = (IF r.used >= z[k] THEN k + 1 ELSE k) OBVIOUS
<1>5. PICK v \in Nat : v = (IF r.used >= z[k] THEN 0 ELSE r.used) BY <1>3
<1>6. u = IF r.full \/ i > n THEN [r EXCEPT !.full = TRUE]
          ELSE [r EXCEPT !.ind = i, !.used = v + 1, !.bufs[i] = Append(@, c), !.filesiz = @ + 1]
  BY <1>1, <1>4, <1>5 DEF TfByte
<1>7. CASE r.full
  <2>1. u = [r EXCEPT !.full = TRUE] BY <1>6, <1>7
  <2>2. u = r BY <1>2, <1>7, <2>1 DEF TfRcvs
  <2>3. QED BY <1>7, <2>2
<1>8. CASE ~r.full /\ i > n
  <2>1. u = [r EXCEPT !.full = TRUE] BY <1>6, <1>8
  <2>2. /\ u \in TfRcvs /\ u.full /\ u.sizes = r.sizes /\ u.bufs = r.bufs /\ u.ind = r.ind
        /\ u.used = r.used /\ u.filesiz = r.filesiz
    BY <1>2, <2>1 DEF TfRcvs
  <2>3. k = n /\ r.used = z[k]
    <3>1. PICK a \in Nat, b \in Nat : a = r.used /\ b = z[k] BY <1>3
    <3>2. a <= b /\ i = (IF a >= b THEN k + 1 ELSE k) BY <1>2, <1>4, <3>1
    <3>3. i > n /\ k \in 1..n BY <1>1, <1>8
    <3>4. k = n /\ a = b BY <3>2, <3>3
    <3>5. QED BY <3>1, <3>4
  <2>4. u.ind = Len(u.sizes) /\ u.used = u.sizes[u.ind] BY <1>1, <2>2, <2>3
  <2>5. TfHeld(u) BY <2>2, <2>4 DEF TfHeld
  <2>6. QED BY <1>8, <2>2, <2>5
<1>9. CASE ~r.full /\ ~(i > n)
  <2>1. i \in 1..n /\ v < z[i] /\ Len(s[i]) = v /\ \A j \in 1..n : j > i => s[j] = << >>
    <3>1. CASE r.used >= z[k]
      <4>1. i = k + 1 /\ v = 0 /\ i \in 1..n BY <1>4, <1>5, <1>9, <3>1
      <4>2. z[i] \in Nat \ {0} BY <1>1, <4>1
      <4>3. s[i] = << >> /\ \A j \in 1..n : j > i => s[j] = << >> BY <1>2, <4>1
      <4>4. Len(<< >>) = 0 OBVIOUS
      <4>5. PICK w \in Nat \ {0} : w = z[i] BY <4>2
      <4>6. v < w BY <4>1, <4>5
      <4>7. Len(s[i]) = v BY <4>1, <4>3, <4>4, Zenon
      <4>8. QED BY <4>1, <4>3, <4>5, <4>6, <4>7, Zenon
    <3>2. CASE ~(r.used >= z[k])
      <4>1. i = k /\ v = r.used BY <1>4, <1>5, <3>2
      <4>2. v < z[k] BY <1>3, <3>2, <4>1
      <4>3. Len(s[i]) = v /\ \A j \in 1..n : j > i => s[j] = << >> BY <1>2, <4>1
      <4>4. QED BY <1>1, <4>1, <4>2, <4>3
    <3>3. QED BY <3>1, <3>2
  <2>2. \A j \in 1..n : j < i => Len(s[j]) = z[j]
    <3>1. r.used >= z[k] => r.used = z[k] BY <1>2, <1>3
    <3>2. SUFFICES ASSUME NEW j \in 1..n, j < i PROVE Len(s[j]) = z[j] OBVIOUS
    <3>3. CASE j < k BY <1>2, <3>3
    <3>4. CASE ~(j < k)
      <4>1. r.used >= z[k] /\ j = k BY <1>2, <1>4, <3>2, <3>4
      <4>2. QED BY <1>2, <3>1, <4>1
    <3>5. QED BY <3>3, <3>4
  <2>3. c \in TfOctets /\ m + 1 \in 0..Len(TfFile) /\ c = TfFile[m + 1]
    <3>1. TfFile \in Seq(TfOctets) BY TfAssumption DEF TfOctets
    <3>2. m < Len(TfFile) /\ c = TfFile[m + 1] BY <1>1, <1>9
    <3>3. QED BY <3>1, <3>2
  <2>4. PICK t : t = [s EXCEPT ![i] = Append(s[i], c)] OBVIOUS
  <2>5. /\ t \in Seq(Seq(TfOctets)) /\ Len(t) = n /\ t[i] = Append(s[i], c)
        /\ \A j \in 1..n : j # i => t[j] = s[j]
        /\ FlattenSeq(t) = Append(FlattenSeq(s), c)
    <3>1. i \in 1..Len(s) /\ n = Len(s) /\ \A j \in 1..Len(s) : j > i => s[j] = << >> BY <1>1, <2>1
    <3>2. s \in Seq(Seq(TfOctets)) /\ c \in TfOctets BY <1>1, <2>3
    <3>3. /\ t \in Seq(Seq(TfOctets)) /\ Len(t) = Len(s) /\ t[i] = Append(s[i], c)
          /\ \A j \in 1..Len(s) : j # i => t[j] = s[j]
      BY <2>4, <3>1, <3>2
    <3>4. FlattenSeq(t) = Append(FlattenSeq(s), c) BY <3>1, <3>2, <3>3, JoinsMore, Zenon
    <3>5. QED BY <3>1, <3>3, <3>4
  <2>6. u = [r EXCEPT !.ind = i, !.used = v + 1, !.bufs = t, !.filesiz = m + 1]
    BY <1>1, <1>2, <1>6, <1>9, <2>4 DEF TfRcvs
  <2>7. /\ u \in TfRcvs /\ ~u.full /\ u.sizes = z /\ u.bufs = t /\ u.ind = i
        /\ u.used = v + 1 /\ u.filesiz = m + 1
    <3>1. v + 1 \in Nat /\ m + 1 \in Nat OBVIOUS
    <3>2. QED BY <1>1, <1>2, <1>9, <2>5, <2>6, <3>1 DEF TfRcvs
  <2>8. Len(t[i]) = v + 1
    <3>1. s[i] \in Seq(TfOctets)
      <4>1. \A a \in Seq(Seq(TfOctets)) : \A j \in 1..Len(a) : a[j] \in Seq(TfOctets) OBVIOUS
      <4>2. s \in Seq(Seq(TfOctets)) /\ i \in 1..Len(s) BY <1>1, <2>1
      <4>3. QED BY <4>1, <4>2
    <3>2. QED BY <2>1, <2>3, <2>5, <3>1
  <2>9. \A j \in 1..n : (j < i => Len(t[j]) = z[j]) /\ (j > i => t[j] = << >>)
    <3>1. \A j \in 1..n : (j < i => j # i) /\ (j > i => j # i) BY <2>1
    <3>2. QED BY <2>1, <2>2, <2>5, <3>1, Zenon
  <2>10. FlattenSeq(t) = SubSeq(TfFile, 1, m + 1)
    <3>1. TfFile \in Seq(TfOctets) /\ m \in 0..(Len(TfFile) - 1)
      <4>1. TfFile \in Seq(TfOctets) BY TfAssumption DEF TfOctets
      <4>2. QED BY <2>3, <4>1
    <3>2. \A a \in Seq(TfOctets) : \A j \in 0..(Len(a) - 1) :
             Append(SubSeq(a, 1, j), a[j + 1]) = SubSeq(a, 1, j + 1)
      OBVIOUS
    <3>3. QED BY <1>2, <2>3, <2>5, <3>1, <3>2
  <2>11. z[i] \in Nat /\ v + 1 <= z[i] BY <1>1, <2>1
  <2>12. TfHeld(u)
    <3>1. Len(t) = Len(z) /\ n = Len(z) /\ i \in 1..Len(z) BY <1>1, <2>1, <2>5
    <3>2. \A j \in 1..Len(z) : (j < i => Len(t[j]) = z[j]) /\ (j > i => t[j] = << >>) BY <2>9, <3>1
    <3>3. QED BY <2>3, <2>7, <2>8, <2>10, <2>11, <3>1, <3>2 DEF TfHeld
  <2>13. QED BY <1>1, <1>9, <2>7, <2>12
<1>10. QED BY <1>7, <1>8, <1>9

\* The function by which TfStore stores a block exists.
StoreTo(f, r, data, n) == f = [i \in 0..n |-> IF i = 0 THEN r ELSE TfByte(f[i - 1], data[i])]
LEMMA StoreBuilt == ASSUME NEW r, NEW data PROVE \A n \in Nat : \E f : StoreTo(f, r, data, n)
<1> DEFINE T == {n \in Nat : \E f : StoreTo(f, r, data, n)}
<1>1. 0 \in T
  <2>1. PICK f : f = [i \in 0..0 |-> r] OBVIOUS
  <2>2. f = [i \in 0..0 |-> IF i = 0 THEN r ELSE TfByte(f[i - 1], data[i])] BY <2>1
  <2>3. StoreTo(f, r, data, 0) BY <2>2 DEF StoreTo
  <2>4. QED BY <2>3
<1>2. ASSUME NEW n \in Nat, n \in T PROVE n + 1 \in T
  <2>1. PICK f : StoreTo(f, r, data, n) BY <1>2
  <2>2. f = [i \in 0..n |-> IF i = 0 THEN r ELSE TfByte(f[i - 1], data[i])] BY <2>1 DEF StoreTo
  <2>3. PICK y : y = TfByte(f[n], data[n + 1]) OBVIOUS
  <2>4. PICK g : g = [i \in 0..(n + 1) |-> IF i = n + 1 THEN y ELSE f[i]] OBVIOUS
  <2>5. \A i \in 0..(n + 1) : g[i] = IF i = 0 THEN r ELSE TfByte(g[i - 1], data[i])
    <3> TAKE i \in 0..(n + 1)
    <3>1. CASE i = n + 1
      <4>1. g[i] = y /\ g[n] = f[n] /\ i # 0 /\ i - 1 = n BY <2>4, <3>1
      <4>2. QED BY <2>3, <3>1, <4>1
    <3>2. CASE i # n + 1
      <4>1. i \in 0..n /\ g[i] = f[i] BY <2>4, <3>2
      <4>2. f[i] = IF i = 0 THEN r ELSE TfByte(f[i - 1], data[i]) BY <2>2, <4>1
      <4>3. i # 0 => i - 1 \in 0..(n + 1) /\ i - 1 # n + 1 BY <4>1
      <4>4. i # 0 => g[i - 1] = f[i - 1] BY <2>4, <4>3
      <4>5. QED BY <4>1, <4>2, <4>4
    <3>3. QED BY <3>1, <3>2
  <2>6. g = [i \in 0..(n + 1) |-> IF i = 0 THEN r ELSE TfByte(g[i - 1], data[i])] BY <2>4, <2>5
  <2>7. StoreTo(g, r, data, n + 1) BY <2>6 DEF StoreTo
  <2>8. QED BY <2>7
<1>3. \A n \in Nat : n \in T
  <2> HIDE DEF T
  <2>1. QED BY <1>1, <1>2, Induction, Zenon
<1>4. QED BY <1>3

\* A block that continues the file is stored behind what is there, as far as
\* there is room.
LEMMA BlockStored ==
    ASSUME NEW r, TfHeld(r), NEW d \in Nat, NEW data, Len(data) = d, d + r.filesiz <= Len(TfFile),
           \A i \in 1..d : data[i] = TfFile[r.filesiz + i], ~r.full, NEW u, u = TfStore(r, data)
    PROVE  TfHeld(u) /\ u.sizes = r.sizes /\ (~u.full => u.filesiz = r.filesiz + d)
<1>1. PICK f : f = CHOOSE h : StoreTo(h, r, data, d) OBVIOUS
<1>2. StoreTo(f, r, data, d) BY <1>1, StoreBuilt
<1>3. u = f[d] BY <1>1 DEF TfStore, StoreTo
<1>4. f = [i \in 0..d |-> IF i = 0 THEN r ELSE TfByte(f[i - 1], data[i])] BY <1>2 DEF StoreTo
<1>5. PICK m \in Nat, L \in Nat : m = r.filesiz /\ L = Len(TfFile)
  <2>1. TfFile \in Seq(TfOctets) BY TfAssumption DEF TfOctets
  <2>2. r.filesiz \in Nat BY DEF TfHeld, TfRcvs
  <2>3. QED BY <2>1, <2>2
<1> DEFINE Good(i) == TfHeld(f[i]) /\ f[i].sizes = r.sizes /\ (~f[i].full => f[i].filesiz = m + i)
<1> DEFINE T == {i \in Nat : i \in 0..d => Good(i)}
<1>6. 0 \in T
  <2>1. f[0] = r BY <1>4
  <2>2. m + 0 = m OBVIOUS
  <2>3. QED BY <1>5, <2>1, <2>2
<1>7. ASSUME NEW i \in Nat, i \in T PROVE i + 1 \in T
  <2>1. SUFFICES ASSUME i + 1 \in 0..d PROVE Good(i + 1) OBVIOUS
  <2>2. i \in 0..d /\ i + 1 \in 1..d /\ (i + 1) - 1 = i /\ m + i < L /\ (m + i) + 1 = m + (i + 1)
    <3>1. d + m <= L BY <1>5
    <3>2. i + 1 <= d BY <2>1
    <3>3. QED BY <3>1, <3>2
  <2>3. Good(i) BY <1>7, <2>2
  <2>4. f[i + 1] = TfByte(f[i], data[i + 1])
    <3>1. PICK k : k = i + 1 OBVIOUS
    <3>2. k \in 0..d /\ k # 0 /\ k - 1 = i BY <2>1, <2>2, <3>1
    <3>3. f[k] = IF k = 0 THEN r ELSE TfByte(f[k - 1], data[k]) BY <1>4, <3>2, Zenon
    <3>4. QED BY <3>1, <3>2, <3>3, Zenon
  <2>5. data[i + 1] = TfFile[m + (i + 1)] BY <1>5, <2>2
  <2>6. PICK v : v = f[i] OBVIOUS
  <2>7. TfHeld(v) /\ v.sizes = r.sizes /\ (~v.full => v.filesiz = m + i) BY <2>3, <2>6
  <2>8. PICK w : w = TfByte(v, data[i + 1]) OBVIOUS
  <2>9. ~v.full => v.filesiz < Len(TfFile) /\ data[i + 1] = TfFile[v.filesiz + 1]
    BY <1>5, <2>2, <2>5, <2>7
  <2>10. /\ TfHeld(w) /\ w.sizes = v.sizes /\ (v.full => w = v)
         /\ ~w.full => w.filesiz = v.filesiz + 1
    BY <2>7, <2>8, <2>9, ByteStored
  <2>11. ~w.full => w.filesiz = m + (i + 1) BY <2>2, <2>7, <2>10
  <2>12. QED BY <2>4, <2>6, <2>7, <2>8, <2>10, <2>11
<1>8. \A i \in Nat : i \in T
  <2> HIDE DEF T
  <2>1. QED BY <1>6, <1>7, Induction, Zenon
<1>9. Good(d)
  <2>1. d \in 0..d OBVIOUS
  <2>2. QED BY <1>8, <2>1
<1>10. QED BY <1>3, <1>5, <1>9

\* Block n has the d octets of the file behind the first lo, which are those of
\* the blocks before it.
BlockAt(n, lo, d) ==
    /\ lo = (n - 1) * TFTP_MAXDATA /\ Len(TfData(n)) = d /\ lo + d <= Len(TfFile)
    /\ \A i \in 1..d : TfData(n)[i] = TfFile[lo + i]
    /\ d < TFTP_MAXDATA => lo + d = Len(TfFile)
    /\ d >= TFTP_MAXDATA => n + 1 \in 1..TfBlocks /\ lo + d = n * TFTP_MAXDATA
LEMMA BlockIs ==
    ASSUME NEW n \in 1..TfBlocks PROVE \E d \in Nat, lo \in Nat : BlockAt(n, lo, d)
<1>1. PICK L \in Nat, D \in Nat \ {0}, B \in Nat :
        /\ L = Len(TfFile) /\ D = TFTP_MAXDATA /\ B = TfBlocks /\ B >= 1 /\ TfMod \in Nat /\ B < TfMod
        /\ \A k \in 1..B : (k - 1) * D <= L /\ (k - 1) * D \in Nat /\ (k * D <= L => k + 1 <= B)
        /\ TfFile \in Seq(TfOctets)
  BY TfConstants
<1>2. PICK lo \in Nat : lo = (n - 1) * D /\ lo <= L BY <1>1
<1>3. PICK hi \in Nat : hi = n * D /\ hi = lo + D
  <2>1. n * D = (n - 1) * D + D BY <1>1
  <2>2. QED BY <1>1, <1>2, <2>1
<1>4. PICK h \in Nat : h = (IF hi < L THEN hi ELSE L) /\ h <= L /\ lo <= h BY <1>1, <1>2, <1>3
<1>5. TfData(n) = SubSeq(TfFile, lo + 1, h) BY <1>1, <1>2, <1>3, <1>4 DEF TfData
<1>6. PICK d \in Nat : d = h - lo BY <1>4
<1>7. Len(TfData(n)) = d /\ \A i \in 1..d : TfData(n)[i] = TfFile[lo + i]
  <2>1. \A a \in Seq(TfOctets) : \A x \in 0..Len(a) : \A y \in x..Len(a) :
           /\ Len(SubSeq(a, x + 1, y)) = y - x
           /\ \A i \in 1..(y - x) : SubSeq(a, x + 1, y)[i] = a[x + i]
    OBVIOUS
  <2>2. lo \in 0..L /\ h \in lo..L BY <1>2, <1>4
  <2>3. QED BY <1>1, <1>5, <1>6, <2>1, <2>2
<1>8. lo + d = h BY <1>6
<1>9. d < D => h = L BY <1>3, <1>4, <1>8
<1>10. d >= D => h = hi /\ hi <= L BY <1>1, <1>3, <1>4, <1>8
<1>11. hi <= L => n + 1 \in 1..B BY <1>1, <1>3
<1>12. d >= TFTP_MAXDATA => n + 1 \in 1..TfBlocks /\ lo + d = n * TFTP_MAXDATA BY <1>1, <1>3, <1>8, <1>10, <1>11
<1>13. d < TFTP_MAXDATA => lo + d = Len(TfFile) BY <1>1, <1>8, <1>9
<1>14. lo = (n - 1) * TFTP_MAXDATA /\ lo + d <= Len(TfFile) BY <1>1, <1>2, <1>4, <1>8
<1>15. BlockAt(n, lo, d) BY <1>7, <1>12, <1>13, <1>14, Zenon DEF BlockAt
<1>16. QED BY <1>15

LEMMA TfDataIsSent ==
    ASSUME TfDataSent,
           UNCHANGED <<tfserver, tfnet>> \/ \E q \in tfreq : TfServe(q)
    PROVE  TfDataSent'
<1>1. CASE UNCHANGED <<tfserver, tfnet>> BY <1>1 DEF TfDataSent
<1>2. ASSUME NEW q \in tfreq, TfServe(q) PROVE TfDataSent'
  <2>1. PICK B \in Nat : B = TfBlocks /\ B >= 1 /\ TfMod \in Nat /\ B < TfMod
    <3>1. PICK L \in Nat, D \in Nat \ {0}, B \in Nat :
            /\ L = Len(TfFile) /\ D = TFTP_MAXDATA /\ B = TfBlocks /\ B >= 1 /\ TfMod \in Nat /\ B < TfMod
            /\ \A k \in 1..B : (k - 1) * D <= L /\ (k - 1) * D \in Nat /\ (k * D <= L => k + 1 <= B)
            /\ TfFile \in Seq(TfOctets)
      BY TfConstants
    <3>2. QED BY <3>1
  <2>2. ASSUME NEW t \in TfPorts, NEW n \in 1..B, NEW op \in {"DATA", "ERROR"}, NEW data,
               op = "DATA" => data = TfData(n), NEW x \in 0..B, NEW blk,
               op = "DATA" => blk = n,
               tfserver' = [tfserver EXCEPT ![t] = x] \/ tfserver' = tfserver,
               tfnet' = tfnet \cup {tftp_msg(t, op, blk, data)}
        PROVE  TfDataSent'
    <3>1. tfserver' \in [TfPorts -> 0..B] BY <2>1, <2>2 DEF TfDataSent
    <3>2. ASSUME NEW m \in tfnet'
          PROVE  /\ m.port \in TfPorts /\ m.op \in {"DATA", "ERROR"}
                 /\ m.op = "DATA" => m.blk \in 1..B /\ m.data = TfData(m.blk)
      <4>1. CASE m \in tfnet BY <2>1, <4>1 DEF TfDataSent
      <4>2. CASE m = tftp_msg(t, op, blk, data) BY <2>2, <4>2 DEF tftp_msg
      <4>3. QED BY <2>2, <3>2, <4>1, <4>2
    <3>3. QED BY <2>1, <3>1, <3>2 DEF TfDataSent
  <2>3. CASE q.port = TFTP_PORT /\ q.msg.op = "RRQ" /\ \E t \in TfPorts :
             /\ tfserver[t] = 0
             /\ \/ /\ tfserver' = [tfserver EXCEPT ![t] = 1]
                   /\ tfnet' = tfnet \cup {tftp_msg(t, "DATA", 1, TfData(1))}
                \/ tfnet' = tfnet \cup {tftp_msg(t, "ERROR", 0, << >>)} /\ UNCHANGED tfserver
    <3>1. 1 \in 1..B /\ 1 \in 0..B BY <2>1
    <3>2. PICK t \in TfPorts :
                \/ /\ tfserver' = [tfserver EXCEPT ![t] = 1]
                   /\ tfnet' = tfnet \cup {tftp_msg(t, "DATA", 1, TfData(1))}
                \/ tfnet' = tfnet \cup {tftp_msg(t, "ERROR", 0, << >>)} /\ UNCHANGED tfserver
      BY <2>3
    <3>3. CASE /\ tfserver' = [tfserver EXCEPT ![t] = 1]
               /\ tfnet' = tfnet \cup {tftp_msg(t, "DATA", 1, TfData(1))}
      BY <2>2, <3>1, <3>3
    <3>4. CASE tfnet' = tfnet \cup {tftp_msg(t, "ERROR", 0, << >>)} /\ UNCHANGED tfserver
      BY <2>2, <3>1, <3>4
    <3>5. QED BY <3>2, <3>3, <3>4
  <2>4. CASE /\ q.port \in TfPorts /\ q.msg.op = "ACK"
             /\ q.msg.blk = tfserver[q.port] % TfMod /\ tfserver[q.port] \in 1..(TfBlocks - 1)
             /\ tfserver' = [tfserver EXCEPT ![q.port] = @ + 1]
             /\ tfnet' = tfnet \cup {tftp_msg(q.port, "DATA", (q.msg.blk + 1) % TfMod,
                                              TfData(tfserver[q.port] + 1))}
    <3>1. PICK n \in Nat : n = tfserver[q.port] /\ n \in 1..(B - 1) BY <2>1, <2>4
    <3>2. n % TfMod = n /\ (n + 1) % TfMod = n + 1 /\ n + 1 \in 1..B /\ n + 1 \in 0..B BY <2>1, <3>1
    <3>3. PICK k \in 1..B : k = n + 1 /\ k \in 0..B BY <3>2
    <3>4. tfserver' = [tfserver EXCEPT ![q.port] = k] BY <2>4, <3>1, <3>3
    <3>5. tfnet' = tfnet \cup {tftp_msg(q.port, "DATA", k, TfData(k))} BY <2>4, <3>1, <3>2, <3>3
    <3>6. PICK t \in TfPorts : t = q.port BY <2>4
    <3>7. tfserver' = [tfserver EXCEPT ![t] = k] BY <3>4, <3>6
    <3>8. tfnet' = tfnet \cup {tftp_msg(t, "DATA", k, TfData(k))} BY <3>5, <3>6
    <3>9. QED BY <2>2, <3>3, <3>7, <3>8
  <2>5. QED BY <1>2, <2>3, <2>4 DEF TfServe
<1>3. QED BY <1>1, <1>2

\* Empty buffers hold nothing.
LEMMA BuffersAreEmpty ==
    ASSUME NEW z \in Seq(Nat \ {0}), Len(z) # 0
    PROVE  TfHeld(TfBuffers(z)) /\ ~TfBuffers(z).full /\ TfBuffers(z).filesiz = 0
<1>1. PICK n \in Nat : n = Len(z) /\ n # 0 OBVIOUS
<1>2. PICK s : s = [i \in DOMAIN z |-> << >>] OBVIOUS
<1>3. s \in Seq(Seq(TfOctets)) /\ Len(s) = n /\ \A i \in 1..n : s[i] = << >> BY <1>1, <1>2
<1>4. PICK f : Joined(f, s, TfOctets)
  <2>1. Len(s) # 0 BY <1>1, <1>3
  <2>2. QED BY <1>3, <2>1, FlattenJoins, Zenon
<1>5. /\ f[1] = s[1] /\ \A i \in 2..n : f[i] = f[i - 1] \o s[i]
      /\ FlattenSeq(s) = f[n]
  BY <1>3, <1>4 DEF Joined
<1> DEFINE T == {k \in Nat : k \in 1..n => f[k] = << >>}
<1>6. 0 \in T OBVIOUS
<1>7. ASSUME NEW k \in Nat, k \in T PROVE k + 1 \in T
  <2>1. SUFFICES ASSUME k + 1 \in 1..n PROVE f[k + 1] = << >> OBVIOUS
  <2>2. s[k + 1] = << >> BY <1>3, <2>1
  <2>3. CASE k = 0 BY <1>5, <2>2, <2>3
  <2>4. CASE k # 0
    <3>1. k \in 1..n /\ k + 1 \in 2..n /\ (k + 1) - 1 = k BY <2>1, <2>4
    <3>2. f[k] = << >> BY <1>7, <3>1
    <3>3. f[k + 1] = << >> \o << >> BY <1>5, <2>2, <3>1, <3>2
    <3>4. << >> \o << >> = << >> OBVIOUS
    <3>5. QED BY <3>3, <3>4
  <2>5. QED BY <2>3, <2>4
<1>8. \A k \in Nat : k \in T
  <2> HIDE DEF T
  <2>1. QED BY <1>6, <1>7, Induction, Zenon
<1>9. FlattenSeq(s) = SubSeq(TfFile, 1, 0)
  <2>1. n \in T /\ n \in 1..n BY <1>1, <1>8
  <2>2. TfFile \in Seq(TfOctets) BY TfAssumption DEF TfOctets
  <2>3. SubSeq(TfFile, 1, 0) = << >> BY <2>2
  <2>4. QED BY <1>5, <2>1, <2>3
<1>10. PICK r : r = TfBuffers(z) OBVIOUS
<1>11. r = [sizes |-> z, ind |-> 1, used |-> 0, filesiz |-> 0, full |-> FALSE, bufs |-> s]
  BY <1>2, <1>10 DEF TfBuffers
<1>12. r \in TfRcvs BY <1>3, <1>11 DEF TfRcvs
<1>13. Len(s[1]) = 0 /\ z[1] \in Nat /\ 0 <= z[1] /\ 1 \in 1..n
  <2>1. 1 \in 1..n /\ s[1] = << >> /\ Len(<< >>) = 0 BY <1>1, <1>3
  <2>2. QED BY <1>1, <2>1
<1>14. 0 \in 0..Len(TfFile) BY TfAssumption
<1>15. TfHeld(r)
  <2>1. \A i \in 1..n : ~(i < 1) OBVIOUS
  <2>2. QED BY <1>1, <1>3, <1>9, <1>11, <1>12, <1>13, <1>14, <2>1 DEF TfHeld
<1>16. QED BY <1>10, <1>11, <1>15

LEMMA TfClientInit == tfinit => TfClient
<1>1. SUFFICES ASSUME tfinit PROVE TfClient OBVIOUS
<1>2. TfBuffers(<< >>) \in TfRcvs
  <2>1. << >> \in Seq(Nat \ {0}) OBVIOUS
  <2>2. [i \in DOMAIN << >> |-> << >>] \in Seq(Seq(TfOctets)) OBVIOUS
  <2>3. QED BY <2>1, <2>2 DEF TfRcvs, TfBuffers
<1>3. tfcli \in TfClis BY <1>1, <1>2 DEF tfinit, TfClis, TfAck
<1>4. QED BY <1>1, <1>3 DEF tfinit, TfClient, TfClientIs

\* The client takes a block that continues the file.
LEMMA TfBlockIsKept ==
    ASSUME TfClient, tfcli.at = "wait", NEW p \in TfPorts, NEW c, c = [tfcli EXCEPT !.remport = p],
           TfBlock(c, TfData(tfcli.expected))
    PROVE  TfClient'
<1>1. /\ tfcli \in TfClis /\ tfcli.ret = "none" /\ ~tfcli.rcv.full /\ TfHeld(tfcli.rcv)
      /\ tfcli.expected \in 1..TfBlocks
      /\ tfcli.rcv.filesiz = (tfcli.expected - 1) * TFTP_MAXDATA
  BY DEF TfClient, TfClientIs
<1>2. PICK e \in 1..TfBlocks : e = tfcli.expected BY <1>1
<1>3. PICK d \in Nat, lo \in Nat : BlockAt(e, lo, d) BY BlockIs
<1>4. PICK data : data = TfData(e) OBVIOUS
<1>5. PICK r : r = tfcli.rcv OBVIOUS
<1>6. TfHeld(r) /\ ~r.full /\ r.filesiz = lo BY <1>1, <1>2, <1>3, <1>5 DEF BlockAt
<1>7. Len(data) = d /\ d + r.filesiz <= Len(TfFile) /\ \A i \in 1..d : data[i] = TfFile[r.filesiz + i]
  <2>1. lo + d <= Len(TfFile) /\ lo + d = d + lo BY <1>3 DEF BlockAt
  <2>2. QED BY <1>3, <1>4, <1>6, <2>1 DEF BlockAt
<1>8. PICK u : u = TfStore(r, data) OBVIOUS
<1>9. TfHeld(u) /\ u.sizes = r.sizes /\ (~u.full => u.filesiz = lo + d)
  BY <1>6, <1>7, <1>8, BlockStored
<1>10. u \in TfRcvs BY <1>9 DEF TfHeld
<1>11. c.rcv = r /\ c.expected = e /\ c \in TfClis /\ c.ret = "none" /\ c.at = "wait"
  BY <1>1, <1>2, <1>5 DEF TfClis
<1>12. PICK b : b = [c EXCEPT !.rcv = u, !.out = TfAck(e), !.tries = 0] OBVIOUS
<1>13. \/ u.full /\ TfReturn([c EXCEPT !.rcv = u], "OK")
       \/ ~u.full /\ d < TFTP_MAXDATA /\ TfReturn(b, "OK")
       \/ /\ ~u.full /\ d >= TFTP_MAXDATA
          /\ tfcli' = [b EXCEPT !.expected = (@ + 1) % TfMod]
          /\ UNCHANGED tfsock
  BY <1>2, <1>4, <1>7, <1>8, <1>11, <1>12 DEF TfBlock
<1>14. PICK B \in Nat : B = TfBlocks /\ TfMod \in Nat /\ B < TfMod
  <2>1. PICK L \in Nat, D \in Nat \ {0}, B \in Nat :
           /\ L = Len(TfFile) /\ D = TFTP_MAXDATA /\ B = TfBlocks /\ B >= 1 /\ TfMod \in Nat /\ B < TfMod
           /\ \A k \in 1..B : (k - 1) * D <= L /\ (k - 1) * D \in Nat /\ (k * D <= L => k + 1 <= B)
           /\ TfFile \in Seq(TfOctets)
    BY TfConstants
  <2>2. QED BY <2>1
<1>15. e \in Nat /\ e \in Int BY <1>14
<1>16. b \in TfClis /\ b.rcv = u /\ b.ret = "none" /\ b.at = "wait" /\ b.expected = e
  <2>1. PICK a \in [op : {"RRQ", "ACK"}, blk : Int] : a = TfAck(e) BY <1>15 DEF TfAck
  <2>2. b = [c EXCEPT !.rcv = u, !.out = a, !.tries = 0] BY <1>12, <2>1
  <2>3. PICK g : g = [c EXCEPT !.rcv = u, !.out = a] OBVIOUS
  <2>4. g \in TfClis /\ g.rcv = u /\ g.ret = "none" /\ g.at = "wait" /\ g.expected = e
    BY <1>10, <1>11, <2>1, <2>3 DEF TfClis
  <2>5. b = [g EXCEPT !.tries = 0] BY <1>11, <2>2, <2>3 DEF TfClis
  <2>6. QED BY <2>4, <2>5 DEF TfClis
<1>17. CASE u.full /\ TfReturn([c EXCEPT !.rcv = u], "OK")
  <2>1. tfcli' = [c EXCEPT !.rcv = u, !.at = "done", !.ret = "OK"] /\ tfsock' = FALSE
    BY <1>11, <1>17 DEF TfReturn, TfClis
  <2>2. tfcli' \in TfClis /\ tfcli'.rcv = u /\ tfcli'.at = "done" /\ tfcli'.ret = "OK"
    BY <1>10, <1>11, <2>1 DEF TfClis
  <2>3. QED BY <1>9, <1>17, <2>1, <2>2 DEF TfClient, TfClientIs
<1>18. CASE ~u.full /\ d < TFTP_MAXDATA /\ TfReturn(b, "OK")
  <2>1. tfcli' = [b EXCEPT !.at = "done", !.ret = "OK"] /\ tfsock' = FALSE BY <1>18 DEF TfReturn
  <2>2. tfcli' \in TfClis /\ tfcli'.rcv = u /\ tfcli'.at = "done" /\ tfcli'.ret = "OK"
    BY <1>16, <2>1 DEF TfClis
  <2>3. u.filesiz = Len(TfFile) BY <1>3, <1>9, <1>18 DEF BlockAt
  <2>4. QED BY <1>9, <2>1, <2>2, <2>3 DEF TfClient, TfClientIs
<1>19. CASE /\ ~u.full /\ d >= TFTP_MAXDATA
            /\ tfcli' = [b EXCEPT !.expected = (@ + 1) % TfMod]
            /\ UNCHANGED tfsock
  <2>1. e + 1 \in 1..TfBlocks /\ u.filesiz = e * TFTP_MAXDATA BY <1>3, <1>9, <1>19 DEF BlockAt
  <2>2. (e + 1) % TfMod = e + 1 /\ (e + 1) - 1 = e /\ e + 1 \in Int BY <1>14, <1>15, <2>1
  <2>3. tfcli' = [b EXCEPT !.expected = e + 1] BY <1>16, <1>19, <2>2
  <2>4. /\ tfcli' \in TfClis /\ tfcli'.rcv = u /\ tfcli'.ret = "none" /\ tfcli'.at = "wait"
        /\ tfcli'.expected = e + 1
    BY <1>16, <2>2, <2>3 DEF TfClis
  <2>5. tfsock' <=> tfcli'.at = "wait" BY <1>19, <2>4 DEF TfClient, TfClientIs
  <2>6. QED BY <1>9, <1>19, <2>1, <2>2, <2>4, <2>5 DEF TfClient, TfClientIs
<1>20. QED BY <1>13, <1>17, <1>18, <1>19

LEMMA TfClientSteps ==
    ASSUME TfInv, \/ \E sizes \in TfSizes : tftpget(sizes)
                  \/ TfTimeout
                  \/ \E m \in tfnet : tftp_send1(m)
    PROVE  TfClient'
<1>1. tfcli \in TfClis BY DEF TfInv, TfClient, TfClientIs
<1>2. ASSUME NEW z \in TfSizes, tftpget(z) PROVE TfClient'
  <2>1. z \in Seq(Nat \ {0}) /\ Len(z) # 0
    <3>1. z \in Seq(Nat \ {0}) /\ z # << >> BY TfAssumption
    <3>2. QED BY <3>1
  <2>2. PICK r : r = TfBuffers(z) OBVIOUS
  <2>3. TfHeld(r) /\ ~r.full /\ r.filesiz = 0 BY <2>1, <2>2, BuffersAreEmpty
  <2>4. r \in TfRcvs BY <2>3 DEF TfHeld
  <2>5. /\ tfcli.at = "idle" /\ tfsock' = TRUE
        /\ tfcli' = [tfcli EXCEPT !.at = "wait", !.rcv = r, !.out = [op |-> "RRQ", blk |-> 0]]
    BY <1>2, <2>2 DEF tftpget
  <2>6. tfcli.ret = "none" /\ tfcli.expected = 1 BY <2>5 DEF TfInv, TfClient, TfClientIs
  <2>7. /\ tfcli' \in TfClis /\ tfcli'.rcv = r /\ tfcli'.ret = "none" /\ tfcli'.at = "wait"
        /\ tfcli'.expected = 1
    <3>1. PICK a \in [op : {"RRQ", "ACK"}, blk : Int] : a = [op |-> "RRQ", blk |-> 0]
      <4>1. [op |-> "RRQ", blk |-> 0] \in [op : {"RRQ", "ACK"}, blk : Int] OBVIOUS
      <4>2. QED BY <4>1, Zenon
    <3>2. tfcli' = [tfcli EXCEPT !.at = "wait", !.rcv = r, !.out = a] BY <2>5, <3>1
    <3>3. QED BY <1>1, <2>4, <2>6, <3>2 DEF TfClis
  <2>8. 1 \in 1..TfBlocks /\ 0 = (1 - 1) * TFTP_MAXDATA
    <3>1. PICK L \in Nat, D \in Nat \ {0}, B \in Nat :
             /\ L = Len(TfFile) /\ D = TFTP_MAXDATA /\ B = TfBlocks /\ B >= 1 /\ TfMod \in Nat /\ B < TfMod
             /\ \A k \in 1..B : (k - 1) * D <= L /\ (k - 1) * D \in Nat /\ (k * D <= L => k + 1 <= B)
             /\ TfFile \in Seq(TfOctets)
      BY TfConstants
    <3>2. QED BY <3>1
  <2>9. QED BY <2>3, <2>5, <2>7, <2>8 DEF TfClient, TfClientIs
<1>3. ASSUME tfcli.at = "wait", tfcli' \in TfClis,
             tfcli'.rcv = tfcli.rcv, tfcli'.expected = tfcli.expected,
             \/ tfcli'.at = "wait" /\ tfcli'.ret = tfcli.ret /\ tfsock' = tfsock
             \/ tfcli'.at = "done" /\ tfcli'.ret = "SYSERR" /\ tfsock' = FALSE
      PROVE  TfClient'
  <2>1. /\ tfcli.ret = "none" /\ ~tfcli.rcv.full /\ TfHeld(tfcli.rcv) /\ tfcli.expected \in 1..TfBlocks
        /\ tfcli.rcv.filesiz = (tfcli.expected - 1) * TFTP_MAXDATA /\ (tfsock <=> tfcli.at = "wait")
    BY <1>3 DEF TfInv, TfClient, TfClientIs
  <2>2. QED BY <1>3, <2>1 DEF TfClient, TfClientIs
<1>4. CASE TfTimeout
  <2>1. PICK c : c = [tfcli EXCEPT !.tries = @ + 1] OBVIOUS
  <2>2. /\ c \in TfClis /\ c.rcv = tfcli.rcv /\ c.expected = tfcli.expected /\ c.at = tfcli.at
        /\ c.ret = tfcli.ret
    <3>1. tfcli.tries + 1 \in Int BY <1>1 DEF TfClis
    <3>2. QED BY <1>1, <2>1, <3>1 DEF TfClis
  <2>3. tfcli.at = "wait" /\ (TfReturn(c, "SYSERR") \/ (tfcli' = c /\ UNCHANGED tfsock))
    BY <1>4, <2>1 DEF TfTimeout
  <2>4. CASE TfReturn(c, "SYSERR")
    <3>1. tfcli' = [c EXCEPT !.at = "done", !.ret = "SYSERR"] /\ tfsock' = FALSE BY <2>4 DEF TfReturn
    <3>2. /\ tfcli' \in TfClis /\ tfcli'.rcv = tfcli.rcv /\ tfcli'.expected = tfcli.expected
          /\ tfcli'.at = "done" /\ tfcli'.ret = "SYSERR"
      BY <2>2, <3>1 DEF TfClis
    <3>3. QED BY <1>3, <2>3, <3>1, <3>2
  <2>5. CASE tfcli' = c /\ UNCHANGED tfsock BY <1>3, <2>2, <2>3, <2>5
  <2>6. QED BY <2>3, <2>4, <2>5
<1>5. ASSUME NEW m \in tfnet, tftp_send1(m) PROVE TfClient'
  <2>1. /\ m.port \in TfPorts
        /\ m.op = "DATA" => m.blk \in 1..TfBlocks /\ m.data = TfData(m.blk)
    BY <1>5 DEF TfInv, TfDataSent
  <2>2. PICK c : c = [tfcli EXCEPT !.remport = m.port] OBVIOUS
  <2>3. /\ c \in TfClis /\ c.rcv = tfcli.rcv /\ c.expected = tfcli.expected /\ c.at = tfcli.at
        /\ c.ret = tfcli.ret
    BY <1>1, <2>1, <2>2 DEF TfClis
  <2>4. /\ tfcli.at = "wait"
        /\ \/ TfExpected(c, m) /\ TfBlock(c, m.data)
           \/ TfReturn(c, "SYSERR")
           \/ tfcli' = c /\ UNCHANGED tfsock
    BY <1>5, <2>2 DEF tftp_send1
  <2>5. CASE TfExpected(c, m) /\ TfBlock(c, m.data)
    <3>1. m.data = TfData(tfcli.expected) BY <2>1, <2>3, <2>5 DEF TfExpected
    <3>2. TfBlock(c, TfData(tfcli.expected)) BY <2>5, <3>1
    <3>3. TfClient BY DEF TfInv
    <3>4. QED BY <2>1, <2>2, <2>4, <3>2, <3>3, TfBlockIsKept
  <2>6. CASE TfReturn(c, "SYSERR")
    <3>1. tfcli' = [c EXCEPT !.at = "done", !.ret = "SYSERR"] /\ tfsock' = FALSE BY <2>6 DEF TfReturn
    <3>2. /\ tfcli' \in TfClis /\ tfcli'.rcv = tfcli.rcv /\ tfcli'.expected = tfcli.expected
          /\ tfcli'.at = "done" /\ tfcli'.ret = "SYSERR"
      BY <2>3, <3>1 DEF TfClis
    <3>3. QED BY <1>3, <2>4, <3>1, <3>2
  <2>7. CASE tfcli' = c /\ UNCHANGED tfsock BY <1>3, <2>3, <2>4, <2>7
  <2>8. QED BY <2>4, <2>5, <2>6, <2>7
<1>6. QED BY <1>2, <1>4, <1>5

\* The function by which TfCapacity adds the sizes exists.
RoomTo(f, z, n) == f = [i \in 0..n |-> IF i = 0 THEN 0 ELSE f[i - 1] + z[i]]
LEMMA RoomBuilt == ASSUME NEW z PROVE \A n \in Nat : \E f : RoomTo(f, z, n)
<1> DEFINE T == {n \in Nat : \E f : RoomTo(f, z, n)}
<1>1. 0 \in T
  <2>1. PICK f : f = [i \in 0..0 |-> 0] OBVIOUS
  <2>2. f = [i \in 0..0 |-> IF i = 0 THEN 0 ELSE f[i - 1] + z[i]] BY <2>1
  <2>3. RoomTo(f, z, 0) BY <2>2 DEF RoomTo
  <2>4. QED BY <2>3
<1>2. ASSUME NEW n \in Nat, n \in T PROVE n + 1 \in T
  <2>1. PICK f : RoomTo(f, z, n) BY <1>2
  <2>2. f = [i \in 0..n |-> IF i = 0 THEN 0 ELSE f[i - 1] + z[i]] BY <2>1 DEF RoomTo
  <2>3. PICK y : y = f[n] + z[n + 1] OBVIOUS
  <2>4. PICK g : g = [i \in 0..(n + 1) |-> IF i = n + 1 THEN y ELSE f[i]] OBVIOUS
  <2>5. \A i \in 0..(n + 1) : g[i] = IF i = 0 THEN 0 ELSE g[i - 1] + z[i]
    <3> TAKE i \in 0..(n + 1)
    <3>1. CASE i = n + 1
      <4>1. g[i] = y /\ g[n] = f[n] /\ i # 0 /\ i - 1 = n BY <2>4, <3>1
      <4>2. QED BY <2>3, <3>1, <4>1
    <3>2. CASE i # n + 1
      <4>1. i \in 0..n /\ g[i] = f[i] BY <2>4, <3>2
      <4>2. f[i] = IF i = 0 THEN 0 ELSE f[i - 1] + z[i] BY <2>2, <4>1
      <4>3. i # 0 => i - 1 \in 0..(n + 1) /\ i - 1 # n + 1 BY <4>1
      <4>4. i # 0 => g[i - 1] = f[i - 1] BY <2>4, <4>3
      <4>5. QED BY <4>1, <4>2, <4>4
    <3>3. QED BY <3>1, <3>2
  <2>6. g = [i \in 0..(n + 1) |-> IF i = 0 THEN 0 ELSE g[i - 1] + z[i]] BY <2>4, <2>5
  <2>7. RoomTo(g, z, n + 1) BY <2>6 DEF RoomTo
  <2>8. QED BY <2>7
<1>3. \A n \in Nat : n \in T
  <2> HIDE DEF T
  <2>1. QED BY <1>1, <1>2, Induction, Zenon
<1>4. QED BY <1>3

\* The buffers hold no more than their sizes, and as much when all are full.
LEMMA FilledTo ==
    ASSUME NEW z \in Seq(Nat \ {0}), NEW s \in Seq(Seq(TfOctets)), Len(s) = Len(z), Len(z) # 0,
           NEW f, RoomTo(f, z, Len(z)), \A i \in 1..Len(z) : Len(s[i]) <= z[i]
    PROVE  /\ f[Len(z)] \in Nat /\ Len(FlattenSeq(s)) \in 0..f[Len(z)]
           /\ (\A i \in 1..Len(z) : Len(s[i]) = z[i]) => Len(FlattenSeq(s)) = f[Len(z)]
<1>1. PICK n \in Nat : n = Len(z) /\ n = Len(s) /\ n # 0 OBVIOUS
<1>2. f = [i \in 0..n |-> IF i = 0 THEN 0 ELSE f[i - 1] + z[i]] BY <1>1 DEF RoomTo
<1>3. PICK g : Joined(g, s, TfOctets)
  <2>1. Len(s) # 0 BY <1>1
  <2>2. QED BY <2>1, FlattenJoins, Zenon
<1>4. /\ g[1] = s[1] /\ \A i \in 2..n : g[i] = g[i - 1] \o s[i]
      /\ \A i \in 1..n : g[i] \in Seq(TfOctets)
      /\ FlattenSeq(s) = g[n]
  BY <1>1, <1>3 DEF Joined
<1>5. \A i \in 1..n : s[i] \in Seq(TfOctets) /\ z[i] \in Nat /\ Len(s[i]) <= z[i] BY <1>1
<1>6. PICK a \in BOOLEAN : a <=> \A i \in 1..n : Len(s[i]) = z[i] OBVIOUS
<1> DEFINE T == {k \in Nat : k \in 1..n => /\ f[k] \in Nat /\ Len(g[k]) \in 0..f[k]
                                           /\ a => Len(g[k]) = f[k]}
<1>7. 0 \in T OBVIOUS
<1>8. ASSUME NEW k \in Nat, k \in T PROVE k + 1 \in T
  <2>1. SUFFICES ASSUME k + 1 \in 1..n
                 PROVE  /\ f[k + 1] \in Nat /\ Len(g[k + 1]) \in 0..f[k + 1]
                        /\ a => Len(g[k + 1]) = f[k + 1]
    OBVIOUS
  <2>2. PICK x \in Seq(TfOctets), y \in Nat : x = s[k + 1] /\ y = z[k + 1] /\ Len(x) <= y
    BY <1>5, <2>1
  <2>3. a => Len(x) = y BY <1>6, <2>1, <2>2
  <2>4. f[k + 1] = f[k] + y
    <3>1. k + 1 \in 0..n /\ k + 1 # 0 /\ (k + 1) - 1 = k BY <2>1
    <3>2. QED BY <1>2, <2>2, <3>1
  <2>5. CASE k = 0
    <3>1. f[k] = 0 BY <1>2, <2>5
    <3>2. g[k + 1] = x /\ Len(x) \in Nat /\ f[k + 1] = y BY <1>4, <2>2, <2>4, <2>5, <3>1
    <3>3. QED BY <2>2, <2>3, <3>2
  <2>6. CASE k # 0
    <3>1. k \in 1..n /\ k + 1 \in 2..n /\ (k + 1) - 1 = k BY <2>1, <2>6
    <3>2. PICK h \in Seq(TfOctets) : h = g[k] BY <1>4, <3>1
    <3>3. g[k + 1] = h \o x BY <1>4, <2>2, <3>1, <3>2
    <3>4. Len(h \o x) = Len(h) + Len(x) /\ Len(x) \in Nat OBVIOUS
    <3>5. PICK c \in Nat : c = f[k] /\ Len(h) \in 0..c /\ (a => Len(h) = c) BY <1>8, <3>1, <3>2
    <3>6. f[k + 1] = c + y /\ c + y \in Nat BY <2>4, <3>5
    <3>7. PICK p \in Nat, q \in Nat : p = Len(h) /\ q = Len(x) OBVIOUS
    <3>8. p <= c /\ q <= y /\ (a => p = c) /\ (a => q = y) BY <2>2, <2>3, <3>5, <3>7
    <3>9. p + q \in 0..(c + y) /\ (a => p + q = c + y) BY <3>8
    <3>10. f[k + 1] = c + y /\ Len(g[k + 1]) = p + q BY <3>3, <3>4, <3>6, <3>7
    <3>11. QED BY <3>6, <3>9, <3>10
  <2>7. QED BY <2>5, <2>6
<1>9. \A k \in Nat : k \in T
  <2> HIDE DEF T
  <2>1. QED BY <1>7, <1>8, Induction, Zenon
<1>10. n \in T /\ n \in 1..n BY <1>1, <1>9
<1>11. QED BY <1>1, <1>4, <1>6, <1>10

LEMMA TfInvIntact == TfInv => TfIntact
<1>1. SUFFICES ASSUME TfInv PROVE TfIntact OBVIOUS
<1>2. TfClientIs(tfcli, tfsock) BY <1>1 DEF TfInv, TfClient
<1>3. TfFile \in Seq(TfOctets) BY TfAssumption DEF TfOctets
<1>4. CASE tfcli.at = "idle"
  <2>1. tfcli.rcv = TfBuffers(<< >>) /\ tfcli.ret = "none" BY <1>2, <1>4 DEF TfClientIs
  <2>2. /\ tfcli.rcv.sizes = << >> /\ tfcli.rcv.filesiz = 0
        /\ tfcli.rcv.bufs = [i \in DOMAIN << >> |-> << >>]
    BY <2>1 DEF TfBuffers
  <2>3. tfcli.rcv.bufs = << >> BY <2>2
  <2>4. FlattenSeq(<< >>) = << >> BY DEF FlattenSeq
  <2>5. SubSeq(TfFile, 1, 0) = << >> BY <1>3
  <2>6. DOMAIN tfcli.rcv.sizes = {} BY <2>2
  <2>7. TfStored = SubSeq(TfFile, 1, tfcli.rcv.filesiz) BY <2>2, <2>3, <2>4, <2>5 DEF TfStored
  <2>8. QED BY <1>2, <2>1, <2>6, <2>7 DEF TfIntact, TfClientIs
<1>5. CASE tfcli.at # "idle"
  <2>1. PICK r : r = tfcli.rcv OBVIOUS
  <2>2. TfHeld(r) BY <1>2, <1>5, <2>1 DEF TfClientIs
  <2>3. PICK n \in Nat, s \in Seq(Seq(TfOctets)), z \in Seq(Nat \ {0}), k \in Nat, m \in Nat :
           /\ k \in 1..n /\ n = Len(s) /\ n = Len(z) /\ s = r.bufs /\ z = r.sizes /\ k = r.ind
           /\ m = r.filesiz
    <3>1. r.bufs \in Seq(Seq(TfOctets)) /\ r.sizes \in Seq(Nat \ {0}) /\ r.filesiz \in Nat
      BY <2>2 DEF TfHeld, TfRcvs
    <3>2. Len(r.bufs) \in Nat /\ Len(r.bufs) = Len(r.sizes) /\ r.ind \in 1..Len(r.bufs) /\ r.ind \in Nat
      BY <2>2, <3>1 DEF TfHeld
    <3>3. QED BY <3>1, <3>2, Zenon
  <2>4. /\ \A i \in 1..n : (i < k => Len(s[i]) = z[i]) /\ (i > k => s[i] = << >>)
        /\ Len(s[k]) = r.used /\ r.used <= z[k]
        /\ m \in 0..Len(TfFile) /\ FlattenSeq(s) = SubSeq(TfFile, 1, m)
        /\ r.full => k = n /\ r.used = z[k]
    BY <2>2, <2>3 DEF TfHeld
  <2>5. \A i \in 1..n : Len(s[i]) <= z[i]
    <3> TAKE i \in 1..n
    <3>1. z[i] \in Nat /\ Len(<< >>) = 0 BY <2>3
    <3>2. i < k \/ i = k \/ i > k BY <2>3
    <3>3. CASE i < k BY <2>4, <3>1, <3>3
    <3>4. CASE i = k BY <2>4, <3>4
    <3>5. CASE i > k BY <2>4, <3>1, <3>5
    <3>6. QED BY <3>2, <3>3, <3>4, <3>5
  <2>6. r.full => \A i \in 1..n : Len(s[i]) = z[i]
    <3>1. SUFFICES ASSUME r.full, NEW i \in 1..n PROVE Len(s[i]) = z[i] OBVIOUS
    <3>2. k = n /\ r.used = z[k] BY <2>4, <3>1
    <3>3. i < k \/ i = k BY <3>2
    <3>4. QED BY <2>4, <3>2, <3>3
  <2>7. PICK f : f = CHOOSE h : RoomTo(h, z, n) OBVIOUS
  <2>8. RoomTo(f, z, n) BY <2>7, RoomBuilt
  <2>9. TfCapacity = f[n] BY <2>1, <2>3, <2>7 DEF TfCapacity, RoomTo
  <2>10. Len(FlattenSeq(s)) = m
    <3>1. \A a \in Seq(TfOctets) : \A j \in 0..Len(a) : Len(SubSeq(a, 1, j)) = j OBVIOUS
    <3>2. QED BY <1>3, <2>4, <3>1
  <2>11. f[n] \in Nat /\ m <= f[n] /\ (r.full => m = f[n])
    <3>1. /\ Len(s) = Len(z) /\ Len(z) # 0 /\ RoomTo(f, z, Len(z))
          /\ \A i \in 1..Len(z) : Len(s[i]) <= z[i]
      BY <2>3, <2>5, <2>8
    <3>2. /\ f[Len(z)] \in Nat /\ Len(FlattenSeq(s)) \in 0..f[Len(z)]
          /\ (\A i \in 1..Len(z) : Len(s[i]) = z[i]) => Len(FlattenSeq(s)) = f[Len(z)]
      BY <2>3, <3>1, FilledTo, Zenon
    <3>3. QED BY <2>3, <2>6, <2>10, <3>2
  <2>12. tfcli.ret = "OK" => m = IF f[n] < Len(TfFile) THEN f[n] ELSE Len(TfFile)
    <3>1. SUFFICES ASSUME tfcli.ret = "OK"
                   PROVE  m = IF f[n] < Len(TfFile) THEN f[n] ELSE Len(TfFile)
      OBVIOUS
    <3>2. r.full \/ m = Len(TfFile) BY <1>2, <2>1, <2>3, <3>1 DEF TfClientIs
    <3>3. Len(TfFile) \in Nat /\ m <= Len(TfFile) BY <1>3, <2>4
    <3>4. QED BY <2>11, <3>2, <3>3
  <2>13. DOMAIN z = 1..n /\ TfStored = FlattenSeq(s) BY <2>1, <2>3 DEF TfStored
  <2>14. TfStored = SubSeq(TfFile, 1, tfcli.rcv.filesiz) BY <2>1, <2>3, <2>4, <2>13
  <2>15. \A i \in DOMAIN tfcli.rcv.sizes : Len(tfcli.rcv.bufs[i]) <= tfcli.rcv.sizes[i]
    BY <2>1, <2>3, <2>5, <2>13
  <2>16. tfcli.ret = "OK" =>
            tfcli.rcv.filesiz = IF TfCapacity < Len(TfFile) THEN TfCapacity ELSE Len(TfFile)
    BY <2>1, <2>3, <2>9, <2>12
  <2>17. tfsock <=> tfcli.at = "wait" BY <1>2 DEF TfClientIs
  <2>18. QED BY <2>14, <2>15, <2>16, <2>17 DEF TfIntact
<1>6. QED BY <1>4, <1>5

\* tftpget: whichever packets are lost, repeated or late, and however long the
\* file and however many and large the buffers, the octets in them are the first
\* of the file in order, as many as a call that succeeds could store, and the UDP
\* slot is registered exactly while the call runs.
THEOREM FilesAreIntact == TfSpec => []TfIntact
<1>1. tfinit => TfInv
  <2>1. SUFFICES ASSUME tfinit PROVE TfDataSent BY TfClientInit DEF TfInv
  <2>2. 0 \in 0..TfBlocks BY TfConstants
  <2>3. QED BY <2>1, <2>2 DEF tfinit, TfDataSent
<1>2. TfInv /\ [TfNext]_tfvars => TfInv'
  <2>1. SUFFICES ASSUME TfInv, [TfNext]_tfvars PROVE TfInv' OBVIOUS
  <2>2. TfDataSent /\ TfClient BY <2>1 DEF TfInv
  <2>3. ASSUME UNCHANGED <<tfserver, tfnet>>,
               \/ \E sizes \in TfSizes : tftpget(sizes)
               \/ TfTimeout
               \/ \E m \in tfnet : tftp_send1(m)
        PROVE  TfInv'
    BY <2>1, <2>2, <2>3, TfClientSteps, TfDataIsSent DEF TfInv
  <2>4. ASSUME NEW sizes \in TfSizes, tftpget(sizes) PROVE TfInv' BY <2>3, <2>4 DEF tftpget
  <2>5. CASE TfTimeout BY <2>3, <2>5 DEF TfTimeout
  <2>6. ASSUME NEW m \in tfnet, tftp_send1(m) PROVE TfInv' BY <2>3, <2>6 DEF tftp_send1
  <2>7. ASSUME NEW q \in tfreq, TfServe(q), UNCHANGED <<tfsock, tfcli, tfreq>> PROVE TfInv'
    <3>1. TfDataSent' BY <2>2, <2>7, TfDataIsSent
    <3>2. TfClient' BY <2>2, <2>7 DEF TfClient
    <3>3. QED BY <3>1, <3>2 DEF TfInv
  <2>8. CASE UNCHANGED tfvars
    <3>1. TfDataSent' BY <2>2, <2>8, TfDataIsSent DEF tfvars
    <3>2. TfClient' BY <2>2, <2>8 DEF TfClient, tfvars
    <3>3. QED BY <3>1, <3>2 DEF TfInv
  <2>9. QED BY <2>1, <2>4, <2>5, <2>6, <2>7, <2>8 DEF TfNext
<1>3. QED BY <1>1, <1>2, TfInvIntact, PTL DEF TfSpec
------------------------------------------------------------------------------

\* Looking up a name.  The fields of packets.
DnsLabelSet == UNION {ToSet(n) : n \in DnsNames}
DnsAddressSet == UNION {ToSet(DnsRecords[n]) : n \in DnsNames}
DnsValues == DnsLabelSet \cup DnsAddressSet \cup {DNS_QT_A} \cup Nat
DnsFields == [t : {"label", "end", "ptr", "type", "class", "ttl", "len", "addr"}, v : DnsValues]

\* The name s is in the packet d from field i on.
DnsHasName(d, i, s) ==
    /\ i \in 1..Len(d) /\ i + Len(s) \in 1..Len(d) /\ d[i + Len(s)].t = "end"
    /\ \A j \in 1..Len(s) : d[i + j - 1].t = "label" /\ d[i + j - 1].v = s[j]
\* Every label and end belongs to a name, and pointers point to names.
DnsNamed(d) ==
    \A k \in 1..Len(d) :
        /\ d[k].t \in {"label", "end"} => \E s \in Seq(DnsValues) : DnsHasName(d, k, s)
        /\ d[k].t = "ptr" => d[k].v \in 1..Len(d) /\ d[d[k].v].t \in {"label", "end"}

LEMMA DnsNameOnce ==
    ASSUME NEW d \in Seq(DnsFields), NEW i, NEW s \in Seq(DnsValues), NEW t \in Seq(DnsValues),
           DnsHasName(d, i, s), DnsHasName(d, i, t)
    PROVE  s = t
<1>1. PICK n \in Nat, m \in Nat : n = Len(s) /\ m = Len(t) OBVIOUS
<1>2. i \in Nat /\ d[i + n].t = "end" /\ d[i + m].t = "end" BY <1>1 DEF DnsHasName
<1>3. /\ \A j \in 1..n : d[i + j - 1].t = "label" /\ d[i + j - 1].v = s[j]
      /\ \A j \in 1..m : d[i + j - 1].t = "label" /\ d[i + j - 1].v = t[j]
  BY <1>1 DEF DnsHasName
<1>4. ~(n < m)
  <2>1. n < m => n + 1 \in 1..m /\ i + (n + 1) - 1 = i + n BY <1>1, <1>2
  <2>2. QED BY <1>2, <1>3, <2>1
<1>5. ~(m < n)
  <2>1. m < n => m + 1 \in 1..n /\ i + (m + 1) - 1 = i + m BY <1>1, <1>2
  <2>2. QED BY <1>2, <1>3, <2>1
<1>6. n = m BY <1>1, <1>4, <1>5
<1>7. \A j \in 1..n : s[j] = t[j] BY <1>3, <1>6
<1>8. s \in Seq(DnsValues) /\ t \in Seq(DnsValues) OBVIOUS
<1>9. Len(s) = Len(t) /\ \A j \in 1..Len(s) : s[j] = t[j] BY <1>1, <1>6, <1>7
<1>10. QED BY <1>8, <1>9

\* The next label begins the rest of the name.
LEMMA DnsNameRest ==
    ASSUME NEW d \in Seq(DnsFields), NEW i, NEW s \in Seq(DnsValues),
           DnsHasName(d, i, s), s # << >>
    PROVE  i + 1 \in 1..Len(d) /\ Tail(s) \in Seq(DnsValues) /\ DnsHasName(d, i + 1, Tail(s))
<1>1. PICK n \in Nat : n = Len(s) /\ n # 0 OBVIOUS
<1>2. Tail(s) \in Seq(DnsValues) /\ Len(Tail(s)) = n - 1 /\ \A j \in 1..(n - 1) : Tail(s)[j] = s[j + 1]
  BY <1>1
<1>3. i \in Nat /\ i + n \in 1..Len(d) /\ i \in 1..Len(d) /\ d[i + n].t = "end" BY <1>1 DEF DnsHasName
<1>4. Len(d) \in Nat OBVIOUS
<1>5. i + 1 \in 1..Len(d) /\ (i + 1) + (n - 1) = i + n BY <1>1, <1>3, <1>4
<1>6. ASSUME NEW j \in 1..(n - 1)
      PROVE  d[(i + 1) + j - 1].t = "label" /\ d[(i + 1) + j - 1].v = Tail(s)[j]
  <2>1. (i + 1) + j - 1 = i + (j + 1) - 1 /\ j + 1 \in 1..n BY <1>1, <1>3
  <2>2. d[i + (j + 1) - 1].t = "label" /\ d[i + (j + 1) - 1].v = s[j + 1]
    BY <1>1, <2>1 DEF DnsHasName
  <2>3. QED BY <1>2, <2>1, <2>2
<1>7. QED BY <1>2, <1>3, <1>5, <1>6 DEF DnsHasName

\* The function that reads the names of a packet exists, and reads them.
DnsReads(f, d) ==
    f = [k \in 1..Len(d) |->
            IF d[k].t = "end" THEN [labels |-> << >>, next |-> k + 1]
              ELSE IF d[k].t = "label" THEN [labels |-> <<d[k].v>> \o f[k + 1].labels, next |-> f[k + 1].next]
              ELSE IF d[k].t = "ptr" THEN [labels |-> f[d[k].v].labels, next |-> k + 1]
              ELSE [labels |-> << >>, next |-> k]]
LEMMA DnsReader ==
    ASSUME NEW d \in Seq(DnsFields), DnsNamed(d) PROVE \E f : DnsReads(f, d)
<1>1. PICK N : \A k \in 1..Len(d) :
                  d[k].t \in {"label", "end"} => N[k] \in Seq(DnsValues) /\ DnsHasName(d, k, N[k])
  <2>1. PICK N : N = [k \in 1..Len(d) |-> CHOOSE s \in Seq(DnsValues) : DnsHasName(d, k, s)] OBVIOUS
  <2>2. ASSUME NEW k \in 1..Len(d), d[k].t \in {"label", "end"}
        PROVE  N[k] \in Seq(DnsValues) /\ DnsHasName(d, k, N[k])
    <3>1. N[k] = CHOOSE s \in Seq(DnsValues) : DnsHasName(d, k, s) BY <2>1
    <3>2. \E s \in Seq(DnsValues) : DnsHasName(d, k, s) BY <2>2 DEF DnsNamed
    <3>3. QED BY <3>1, <3>2
  <2>3. QED BY <2>2
<1>2. PICK f : f = [k \in 1..Len(d) |->
            IF d[k].t \in {"label", "end"} THEN [labels |-> N[k], next |-> k + Len(N[k]) + 1]
              ELSE IF d[k].t = "ptr" THEN [labels |-> N[d[k].v], next |-> k + 1]
              ELSE [labels |-> << >>, next |-> k]]
  OBVIOUS
<1>3. ASSUME NEW k \in 1..Len(d)
      PROVE  f[k] = IF d[k].t = "end" THEN [labels |-> << >>, next |-> k + 1]
              ELSE IF d[k].t = "label" THEN [labels |-> <<d[k].v>> \o f[k + 1].labels, next |-> f[k + 1].next]
              ELSE IF d[k].t = "ptr" THEN [labels |-> f[d[k].v].labels, next |-> k + 1]
              ELSE [labels |-> << >>, next |-> k]
  <2>1. CASE d[k].t = "end"
    <3>1. N[k] \in Seq(DnsValues) /\ DnsHasName(d, k, N[k]) BY <1>1, <2>1
    <3>2. N[k] = << >>
      <4>1. ~(1 \in 1..Len(N[k]))
        <5>1. k + 1 - 1 = k OBVIOUS
        <5>2. QED BY <2>1, <3>1, <5>1 DEF DnsHasName
      <4>2. QED BY <3>1, <4>1
    <3>3. k + Len(N[k]) + 1 = k + 1 BY <3>2
    <3>4. f[k] = [labels |-> N[k], next |-> k + Len(N[k]) + 1] BY <1>2, <2>1
    <3>5. QED BY <2>1, <3>2, <3>3, <3>4
  <2>2. CASE d[k].t = "label"
    <3>1. N[k] \in Seq(DnsValues) /\ DnsHasName(d, k, N[k]) BY <1>1, <2>2
    <3>2. PICK s \in Seq(DnsValues) : s = N[k] BY <3>1
    <3>3. s # << >>
      <4>1. s = << >> => d[k].t = "end"
        <5>1. k + 0 = k /\ Len(<< >>) = 0 OBVIOUS
        <5>2. QED BY <3>1, <3>2, <5>1 DEF DnsHasName
      <4>2. QED BY <2>2, <4>1
    <3>4. k + 1 \in 1..Len(d) /\ Tail(s) \in Seq(DnsValues) /\ DnsHasName(d, k + 1, Tail(s))
      BY <3>1, <3>2, <3>3, DnsNameRest
    <3>5. PICK i : i = k + 1 OBVIOUS
    <3>6. d[i].t \in {"label", "end"}
      <4>1. CASE Tail(s) = << >>
        <5>1. i + 0 = i /\ Len(<< >>) = 0 BY <3>5
        <5>2. QED BY <3>4, <3>5, <4>1, <5>1 DEF DnsHasName
      <4>2. CASE Tail(s) # << >>
        <5>1. 1 \in 1..Len(Tail(s)) BY <3>4, <4>2
        <5>2. i + 1 - 1 = i BY <3>5
        <5>3. QED BY <3>4, <3>5, <5>1, <5>2 DEF DnsHasName
      <4>3. QED BY <4>1, <4>2
    <3>7. N[i] = Tail(s) BY <1>1, <3>4, <3>5, <3>6, DnsNameOnce
    <3>8. f[i] = [labels |-> Tail(s), next |-> i + Len(Tail(s)) + 1] BY <1>2, <3>4, <3>5, <3>6, <3>7
    <3>9. f[k] = [labels |-> s, next |-> k + Len(s) + 1] BY <1>2, <2>2, <3>2
    <3>10. k + Len(s) + 1 = i + Len(Tail(s)) + 1 BY <3>3, <3>5
    <3>11. s = <<d[k].v>> \o Tail(s)
      <4>1. 1 \in 1..Len(s) BY <3>3
      <4>2. k + 1 - 1 = k OBVIOUS
      <4>3. s[1] = d[k].v BY <3>1, <3>2, <4>1, <4>2 DEF DnsHasName
      <4>4. PICK y \in DnsValues : y = s[1] BY <4>1
      <4>5. s = <<y>> \o Tail(s) BY <3>3, <4>4
      <4>6. QED BY <4>3, <4>4, <4>5
    <3>12. f[k] = [labels |-> <<d[k].v>> \o f[k + 1].labels, next |-> f[k + 1].next]
      <4>1. f[i].labels = Tail(s) /\ f[i].next = i + Len(Tail(s)) + 1 BY <3>8
      <4>2. QED BY <3>5, <3>9, <3>10, <3>11, <4>1
    <3>13. QED BY <2>2, <3>12
  <2>3. CASE d[k].t = "ptr"
    <3>1. PICK i : i = d[k].v /\ i \in 1..Len(d) /\ d[i].t \in {"label", "end"} BY <2>3 DEF DnsNamed
    <3>2. f[k] = [labels |-> N[i], next |-> k + 1] BY <1>2, <2>3, <3>1
    <3>3. f[i].labels = N[i] BY <1>2, <3>1
    <3>4. QED BY <2>3, <3>1, <3>2, <3>3
  <2>4. CASE d[k].t \notin {"label", "end", "ptr"} BY <1>2, <2>4
  <2>5. QED BY <2>1, <2>2, <2>3, <2>4
<1>4. f = [k \in 1..Len(d) |->
            IF d[k].t = "end" THEN [labels |-> << >>, next |-> k + 1]
              ELSE IF d[k].t = "label" THEN [labels |-> <<d[k].v>> \o f[k + 1].labels, next |-> f[k + 1].next]
              ELSE IF d[k].t = "ptr" THEN [labels |-> f[d[k].v].labels, next |-> k + 1]
              ELSE [labels |-> << >>, next |-> k]]
  BY <1>2, <1>3
<1>5. QED BY <1>4 DEF DnsReads

\* What is read where a name or a pointer to one begins.
LEMMA DnsAtIs ==
    ASSUME NEW d \in Seq(DnsFields), DnsNamed(d)
    PROVE  \A i \in 1..Len(d), s \in Seq(DnsValues) :
               /\ DnsHasName(d, i, s) => DnsAt(d, i) = [labels |-> s, next |-> i + Len(s) + 1]
               /\ d[i].t = "ptr" /\ DnsHasName(d, d[i].v, s) =>
                     DnsAt(d, i) = [labels |-> s, next |-> i + 1]
<1>1. PICK f : f = CHOOSE g : DnsReads(g, d) OBVIOUS
<1>2. DnsReads(f, d) BY <1>1, DnsReader
<1>3. ASSUME NEW i PROVE DnsAt(d, i) = f[i] BY <1>1 DEF DnsAt, DnsReads
<1>4. f = [k \in 1..Len(d) |->
            IF d[k].t = "end" THEN [labels |-> << >>, next |-> k + 1]
              ELSE IF d[k].t = "label" THEN [labels |-> <<d[k].v>> \o f[k + 1].labels, next |-> f[k + 1].next]
              ELSE IF d[k].t = "ptr" THEN [labels |-> f[d[k].v].labels, next |-> k + 1]
              ELSE [labels |-> << >>, next |-> k]]
  BY <1>2 DEF DnsReads
<1>5. \A k \in 1..Len(d) :
         /\ d[k].t = "end" => f[k] = [labels |-> << >>, next |-> k + 1]
         /\ d[k].t = "label" =>
               f[k] = [labels |-> <<d[k].v>> \o f[k + 1].labels, next |-> f[k + 1].next]
         /\ d[k].t = "ptr" => f[k] = [labels |-> f[d[k].v].labels, next |-> k + 1]
  BY <1>4
<1> DEFINE Is(n) == \A i \in 1..Len(d), s \in Seq(DnsValues) :
                       Len(s) = n /\ DnsHasName(d, i, s) => f[i] = [labels |-> s, next |-> i + n + 1]
           T == {n \in Nat : Is(n)}
<1>6. 0 \in T
  <2>1. SUFFICES ASSUME NEW i \in 1..Len(d), NEW s \in Seq(DnsValues), Len(s) = 0, DnsHasName(d, i, s)
                 PROVE  f[i] = [labels |-> s, next |-> i + 0 + 1]
    OBVIOUS
  <2>2. s = << >> /\ i + 0 = i BY <2>1
  <2>3. d[i].t = "end" BY <2>1, <2>2 DEF DnsHasName
  <2>4. QED BY <1>5, <2>2, <2>3
<1>7. ASSUME NEW n \in Nat, n \in T PROVE n + 1 \in T
  <2>1. SUFFICES ASSUME NEW i \in 1..Len(d), NEW s \in Seq(DnsValues), Len(s) = n + 1, DnsHasName(d, i, s)
                 PROVE  f[i] = [labels |-> s, next |-> i + (n + 1) + 1]
    OBVIOUS
  <2>2. s # << >> /\ 1 \in 1..Len(s) /\ i + 1 - 1 = i BY <2>1
  <2>3. i + 1 \in 1..Len(d) /\ Tail(s) \in Seq(DnsValues) /\ DnsHasName(d, i + 1, Tail(s))
    BY <2>1, <2>2, DnsNameRest
  <2>4. Len(Tail(s)) = n BY <2>1, <2>2
  <2>5. f[i + 1] = [labels |-> Tail(s), next |-> (i + 1) + n + 1] BY <1>7, <2>3, <2>4
  <2>6. d[i].t = "label" /\ d[i].v = s[1] BY <2>1, <2>2 DEF DnsHasName
  <2>7. f[i] = [labels |-> <<s[1]>> \o Tail(s), next |-> (i + 1) + n + 1]
    <3>1. f[i + 1].labels = Tail(s) /\ f[i + 1].next = (i + 1) + n + 1 BY <2>5
    <3>2. QED BY <1>5, <2>6, <3>1
  <2>8. s = <<s[1]>> \o Tail(s)
    <3>1. PICK y \in DnsValues : y = s[1] BY <2>2
    <3>2. s = <<y>> \o Tail(s) BY <2>2, <3>1
    <3>3. QED BY <3>1, <3>2
  <2>9. (i + 1) + n + 1 = i + (n + 1) + 1 OBVIOUS
  <2>10. QED BY <2>7, <2>8, <2>9
<1>8. \A n \in Nat : n \in T
  <2> HIDE DEF T
  <2>1. QED BY <1>6, <1>7, Induction, Zenon
<1>9. ASSUME NEW i \in 1..Len(d), NEW s \in Seq(DnsValues), DnsHasName(d, i, s)
      PROVE  f[i] = [labels |-> s, next |-> i + Len(s) + 1]
  <2>1. Len(s) \in T BY <1>8
  <2>2. QED BY <1>9, <2>1
<1>10. ASSUME NEW i \in 1..Len(d), NEW s \in Seq(DnsValues), d[i].t = "ptr", DnsHasName(d, d[i].v, s)
       PROVE  f[i] = [labels |-> s, next |-> i + 1]
  <2>1. PICK k : k = d[i].v /\ k \in 1..Len(d) BY <1>10 DEF DnsHasName
  <2>2. f[k].labels = s
    <3>1. f[k] = [labels |-> s, next |-> k + Len(s) + 1] BY <1>9, <1>10, <2>1
    <3>2. QED BY <3>1
  <2>3. QED BY <1>5, <1>10, <2>1, <2>2
<1>11. QED BY <1>3, <1>9, <1>10

\* Two sequences, of lengths m and n, joined.
IsJoin(c, a, b, m, n) ==
    /\ Len(c) = m + n
    /\ \A i \in 1..m : c[i] = a[i]
    /\ \A i \in 1..n : c[m + i] = b[i]
LEMMA DnsJoined ==
    ASSUME NEW O, NEW a \in Seq(O), NEW b \in Seq(O)
    PROVE  a \o b \in Seq(O) /\ IsJoin(a \o b, a, b, Len(a), Len(b))
BY DEF IsJoin
LEMMA DnsJoin ==
    ASSUME NEW O, NEW a \in Seq(O), NEW b \in Seq(O), NEW c, c = a \o b,
           NEW m \in Nat, NEW n \in Nat, Len(a) = m, Len(b) = n
    PROVE  c \in Seq(O) /\ IsJoin(c, a, b, m, n)
BY DnsJoined, Zenon

\* Numbers and the question type are values of fields.
LEMMA DnsNumbers == Nat \subseteq DnsValues /\ DNS_QT_A \in DnsValues
BY DEF DnsValues

\* Sequences of six joined one after the other.
LEMMA JoinsSix ==
    ASSUME NEW O, NEW s \in Seq(Seq(O)), \A i \in 1..Len(s) : Len(s[i]) = 6
    PROVE  /\ FlattenSeq(s) \in Seq(O) /\ Len(FlattenSeq(s)) = 6 * Len(s)
           /\ \A i \in 1..Len(s), j \in 1..6 : FlattenSeq(s)[6 * (i - 1) + j] = s[i][j]
<1>1. PICK n \in Nat : n = Len(s) OBVIOUS
<1>2. CASE n = 0
  <2>1. Len(s) = 0 /\ s = << >>
    <3>1. s \in Seq(Seq(O)) OBVIOUS
    <3>2. Len(s) = 0 BY <1>1, <1>2
    <3>3. QED BY <3>1, <3>2
  <2>2. FlattenSeq(s) = s BY <2>1, Zenon DEF FlattenSeq
  <2>3. << >> \in Seq(O) /\ Len(<< >>) = 0 OBVIOUS
  <2>4. FlattenSeq(s) = << >> /\ 6 * Len(s) = 0 BY <2>1, <2>2
  <2>5. 1..Len(s) = {} BY <2>1
  <2>6. QED BY <2>3, <2>4, <2>5
<1>3. CASE n # 0
  <2>1. PICK f : Joined(f, s, O) BY <1>1, <1>3, FlattenJoins, Zenon
  <2>2. /\ f[1] = s[1] /\ \A i \in 2..n : f[i] = f[i - 1] \o s[i]
        /\ \A i \in 1..n : f[i] \in Seq(O) /\ s[i] \in Seq(O) /\ Len(s[i]) = 6
        /\ FlattenSeq(s) = f[n]
    <3>1. /\ f[1] = s[1] /\ \A i \in 2..n : f[i] = f[i - 1] \o s[i]
          /\ \A i \in 1..n : f[i] \in Seq(O) /\ FlattenSeq(s) = f[n]
      BY <1>1, <2>1 DEF Joined
    <3>2. \A i \in 1..n : s[i] \in Seq(O) /\ Len(s[i]) = 6 BY <1>1
    <3>3. 1 \in 1..n BY <1>3
    <3>4. QED BY <3>1, <3>2, <3>3
  <2> DEFINE Is(k) == /\ Len(f[k]) = 6 * k
                      /\ \A i \in 1..k, j \in 1..6 : f[k][6 * (i - 1) + j] = s[i][j]
             T == {k \in Nat : k \in 1..n => Is(k)}
  <2>3. 0 \in T OBVIOUS
  <2>4. ASSUME NEW k \in Nat, k \in T PROVE k + 1 \in T
    <3>1. SUFFICES ASSUME k + 1 \in 1..n PROVE Is(k + 1) OBVIOUS
    <3>2. CASE k = 0
      <4>1. f[1] = s[1] /\ Len(s[1]) = 6 BY <2>2, <3>1, <3>2
      <4>2. ASSUME NEW i \in 1..1, NEW j \in 1..6 PROVE f[1][6 * (i - 1) + j] = s[i][j]
        <5>1. i = 1 /\ 6 * (i - 1) + j = j OBVIOUS
        <5>2. QED BY <4>1, <5>1
      <4>3. Is(1) BY <4>1, <4>2
      <4>4. k + 1 = 1 BY <3>2
      <4>5. QED BY <4>3, <4>4
    <3>3. CASE k # 0
      <4>1. k \in 1..n /\ k + 1 \in 2..n /\ (k + 1) - 1 = k BY <3>1, <3>3
      <4>2. PICK m : m = k + 1 OBVIOUS
      <4>3. PICK g : g = f[k] /\ g \in Seq(O) /\ Len(g) = 6 * k BY <2>2, <2>4, <4>1
      <4>4. PICK z : z = s[m] /\ z \in Seq(O) /\ Len(z) = 6 BY <2>2, <4>1, <4>2
      <4>5. f[m] = g \o z BY <2>2, <4>1, <4>2, <4>3, <4>4
      <4>6. /\ Len(f[m]) = 6 * k + 6 /\ \A i \in 1..(6 * k) : f[m][i] = g[i]
            /\ \A i \in 1..6 : f[m][6 * k + i] = z[i]
        <5>1. PICK y \in Nat : y = 6 * k OBVIOUS
        <5>2. Len(g) = y /\ Len(z) = 6 /\ 6 \in Nat BY <4>3, <4>4, <5>1
        <5>3. /\ Len(f[m]) = y + 6 /\ \A i \in 1..y : f[m][i] = g[i]
              /\ \A i \in 1..6 : f[m][y + i] = z[i]
          <6>1. g \in Seq(O) /\ z \in Seq(O) BY <4>3, <4>4
          <6>2. IsJoin(f[m], g, z, y, 6) BY <4>5, <5>2, <6>1, DnsJoin, Zenon
          <6>3. QED BY <6>2 DEF IsJoin
        <5>4. QED BY <5>1, <5>3
      <4>7. ASSUME NEW i \in 1..m, NEW j \in 1..6 PROVE f[m][6 * (i - 1) + j] = s[i][j]
        <5>1. CASE i = m
          <6>1. 6 * (i - 1) + j = 6 * k + j BY <4>2, <5>1
          <6>2. QED BY <4>4, <4>6, <5>1, <6>1
        <5>2. CASE i # m
          <6>1. i \in 1..k /\ 6 * (i - 1) + j \in 1..(6 * k) BY <4>2, <5>2
          <6>2. g[6 * (i - 1) + j] = s[i][j] BY <2>4, <4>1, <4>3, <6>1
          <6>3. QED BY <4>6, <6>1, <6>2
        <5>3. QED BY <5>1, <5>2
      <4>8. Len(f[m]) = 6 * m BY <4>2, <4>6
      <4>9. Is(m) BY <4>7, <4>8
      <4>10. QED BY <4>2, <4>9
    <3>4. QED BY <3>2, <3>3
  <2>5. \A k \in Nat : k \in T
    <3> HIDE DEF T
    <3>1. QED BY <2>3, <2>4, Induction, Zenon
  <2>6. Is(n) BY <1>3, <2>5
  <2>7. f[n] \in Seq(O) BY <1>3, <2>2
  <2>8. QED BY <1>1, <2>2, <2>6, <2>7
<1>4. QED BY <1>2, <1>3

LEMMA DnsFieldIs ==
    ASSUME NEW t \in {"label", "end", "ptr", "type", "class", "ttl", "len", "addr"},
           NEW v \in DnsValues
    PROVE  DnsField(t, v) \in DnsFields /\ DnsField(t, v).t = t /\ DnsField(t, v).v = v
BY DEF DnsField, DnsFields

LEMMA DnsLabelsAre ==
    ASSUME NEW s \in Seq(DnsValues)
    PROVE  /\ DnsLabels(s) \in Seq(DnsFields) /\ Len(DnsLabels(s)) = Len(s) + 1
           /\ \A j \in 1..Len(s) : DnsLabels(s)[j] = DnsField("label", s[j])
           /\ DnsLabels(s)[Len(s) + 1] = DnsField("end", 0)
<1>1. PICK n \in Nat : n = Len(s) OBVIOUS
<1>2. \A j \in 1..n : DnsField("label", s[j]) \in DnsFields BY <1>1, DnsFieldIs
<1>3. PICK l : l = [i \in DOMAIN s |-> DnsField("label", s[i])] OBVIOUS
<1>4. DOMAIN s = 1..n BY <1>1
<1>5. l \in Seq(DnsFields) /\ Len(l) = n /\ \A j \in 1..n : l[j] = DnsField("label", s[j])
  BY <1>2, <1>3, <1>4
<1>6. PICK e : e = DnsField("end", 0) /\ e \in DnsFields
  <2>1. 0 \in DnsValues BY DnsNumbers
  <2>2. QED BY <2>1, DnsFieldIs
<1>7. DnsLabels(s) = l \o <<e>> BY <1>3, <1>6 DEF DnsLabels
<1>8. <<e>> \in Seq(DnsFields) /\ Len(<<e>>) = 1 /\ <<e>>[1] = e /\ 1 \in 1..Len(<<e>>) BY <1>6
<1>9. /\ l \o <<e>> \in Seq(DnsFields) /\ Len(l \o <<e>>) = n + 1
      /\ \A j \in 1..n : (l \o <<e>>)[j] = l[j]
      /\ (l \o <<e>>)[n + 1] = e
  BY <1>5, <1>8, DnsJoin
<1>10. QED BY <1>1, <1>5, <1>6, <1>7, <1>9

\* A record of data of length n.
IsRR(r, type, data, n) ==
    /\ r[1] = DnsField("type", type) /\ r[2] = DnsField("class", 1)
    /\ r[3] = DnsField("ttl", 0) /\ r[4] = DnsField("len", n)
    /\ Len(r) = n + 4 /\ \A i \in 1..n : r[4 + i] = data[i]
LEMMA DnsRRIs ==
    ASSUME NEW type \in DnsValues, NEW data \in Seq(DnsFields), NEW r, r = DnsRR(type, data),
           NEW n \in Nat, Len(data) = n
    PROVE  r \in Seq(DnsFields) /\ IsRR(r, type, data, n)
<1>1. PICK h : h = <<DnsField("type", type), DnsField("class", 1), DnsField("ttl", 0),
                     DnsField("len", n)>>
  OBVIOUS
<1>2. 0 \in DnsValues /\ 1 \in DnsValues /\ n \in DnsValues BY DnsNumbers
<1>3. /\ DnsField("type", type) \in DnsFields /\ DnsField("class", 1) \in DnsFields
      /\ DnsField("ttl", 0) \in DnsFields /\ DnsField("len", n) \in DnsFields
  BY <1>2, DnsFieldIs
<1>4. h \in Seq(DnsFields) /\ Len(h) = 4 /\ 1 \in 1..Len(h) /\ 2 \in 1..Len(h) /\ 3 \in 1..Len(h) /\ 4 \in 1..Len(h)
  BY <1>1, <1>3
<1>5. /\ h[1] = DnsField("type", type) /\ h[2] = DnsField("class", 1)
      /\ h[3] = DnsField("ttl", 0) /\ h[4] = DnsField("len", n)
  BY <1>1
<1>6. r = h \o data BY <1>1 DEF DnsRR
<1>7. /\ r \in Seq(DnsFields) /\ Len(r) = 4 + n
      /\ \A i \in 1..4 : r[i] = h[i]
      /\ \A i \in 1..n : r[4 + i] = data[i]
  <2>1. Len(h) = 4 /\ h \in Seq(DnsFields) /\ 4 \in Nat /\ Len(data) = n BY <1>4
  <2>2. r \in Seq(DnsFields) /\ IsJoin(r, h, data, 4, n) BY <1>6, <2>1, DnsJoin, Zenon
  <2>3. QED BY <2>2 DEF IsJoin
<1>8. r[1] = h[1] /\ r[2] = h[2] /\ r[3] = h[3] /\ r[4] = h[4] BY <1>7
<1>9. QED BY <1>5, <1>7, <1>8 DEF IsRR

\* The addresses behind the head h of a packet: records of a name at place p.
DnsOwned(p, recs) ==
    [i \in DOMAIN recs |-> <<DnsField("ptr", p)>> \o DnsRR(DNS_QT_A, <<DnsField("addr", recs[i])>>)]
DnsRecordAt(d, e, p, type, len) ==
    /\ e \in 1..Len(d) /\ d[e].t = "ptr" /\ d[e].v = p /\ d[e + 1].v = type /\ d[e + 4].v = len
DnsNoName(d, k, p) == d[k].t \notin {"label", "end"} /\ (d[k].t = "ptr" => d[k].v = p)
LEMMA DnsTail ==
    ASSUME NEW h \in Seq(DnsFields), NEW p \in Nat, NEW recs \in Seq(DnsValues), NEW d,
           d = h \o FlattenSeq(DnsOwned(p, recs))
    PROVE  /\ d \in Seq(DnsFields) /\ Len(d) = Len(h) + 6 * Len(recs)
           /\ \A i \in 1..Len(h) : d[i] = h[i]
           /\ \A i \in 1..Len(recs) : /\ DnsRecordAt(d, Len(h) + 1 + 6 * (i - 1), p, DNS_QT_A, 1)
                                      /\ d[(Len(h) + 1 + 6 * (i - 1)) + 5].v = recs[i]
           /\ \A k \in (Len(h) + 1)..Len(d) : DnsNoName(d, k, p)
<1>1. PICK n \in Nat, m \in Nat : n = Len(recs) /\ m = Len(h) OBVIOUS
<1>2. PICK s : s = DnsOwned(p, recs) OBVIOUS
<1>3. ASSUME NEW i \in 1..n
      PROVE  /\ s[i] \in Seq(DnsFields) /\ Len(s[i]) = 6
             /\ s[i][1] = DnsField("ptr", p) /\ s[i][2] = DnsField("type", DNS_QT_A)
             /\ s[i][3] = DnsField("class", 1) /\ s[i][4] = DnsField("ttl", 0)
             /\ s[i][5] = DnsField("len", 1) /\ s[i][6] = DnsField("addr", recs[i])
  <2>1. PICK a : a = <<DnsField("addr", recs[i])>> OBVIOUS
  <2>2. recs[i] \in DnsValues /\ p \in DnsValues /\ DNS_QT_A \in DnsValues BY <1>1, DnsNumbers
  <2>3. DnsField("addr", recs[i]) \in DnsFields /\ DnsField("ptr", p) \in DnsFields
    BY <2>2, DnsFieldIs
  <2>4. a \in Seq(DnsFields) /\ Len(a) = 1 /\ a[1] = DnsField("addr", recs[i]) /\ 1 \in 1..Len(a)
    BY <2>1, <2>3
  <2>5. PICK r : r = DnsRR(DNS_QT_A, a) OBVIOUS
  <2>6. /\ r \in Seq(DnsFields) /\ Len(r) = 5
        /\ r[1] = DnsField("type", DNS_QT_A) /\ r[2] = DnsField("class", 1)
        /\ r[3] = DnsField("ttl", 0) /\ r[4] = DnsField("len", 1) /\ r[5] = a[1]
    <3>1. r \in Seq(DnsFields) /\ IsRR(r, DNS_QT_A, a, 1)
      <4>1. 1 \in Nat /\ Len(a) = 1 /\ DNS_QT_A \in DnsValues /\ a \in Seq(DnsFields) BY <2>2, <2>4
      <4>2. QED BY <2>5, <4>1, DnsRRIs, Zenon
    <3>2. 4 + 1 = 5 OBVIOUS
    <3>3. r[4 + 1] = a[1]
      <4>1. 1 \in 1..1 OBVIOUS
      <4>2. QED BY <3>1, <4>1 DEF IsRR
    <3>4. QED BY <3>1, <3>2, <3>3 DEF IsRR
  <2>7. PICK b : b = <<DnsField("ptr", p)>> OBVIOUS
  <2>8. b \in Seq(DnsFields) /\ Len(b) = 1 /\ b[1] = DnsField("ptr", p) /\ 1 \in 1..Len(b)
    BY <2>3, <2>7
  <2>9. i \in DOMAIN recs BY <1>1
  <2>10. s[i] = b \o r BY <1>2, <2>1, <2>5, <2>7, <2>9 DEF DnsOwned
  <2>11. /\ s[i] \in Seq(DnsFields) /\ Len(s[i]) = 1 + 5 /\ s[i][1] = b[1]
         /\ \A j \in 1..5 : s[i][1 + j] = r[j]
    <3>1. /\ s[i] \in Seq(DnsFields) /\ Len(s[i]) = 1 + 5
          /\ \A j \in 1..1 : s[i][j] = b[j]
          /\ \A j \in 1..5 : s[i][1 + j] = r[j]
      <4>1. Len(b) = 1 /\ 1 \in Nat /\ Len(r) = 5 /\ 5 \in Nat BY <2>6, <2>8
      <4>2. b \in Seq(DnsFields) /\ r \in Seq(DnsFields) BY <2>6, <2>8
      <4>3. s[i] \in Seq(DnsFields) /\ IsJoin(s[i], b, r, 1, 5)
        BY <2>10, <4>1, <4>2, DnsJoin, Zenon
      <4>4. QED BY <4>3 DEF IsJoin
    <3>2. 1 \in 1..1 OBVIOUS
    <3>3. QED BY <3>1, <3>2
  <2>12. 1 \in 1..5 /\ 2 \in 1..5 /\ 3 \in 1..5 /\ 4 \in 1..5 /\ 5 \in 1..5 OBVIOUS
  <2>13. s[i][2] = r[1] /\ s[i][3] = r[2] /\ s[i][4] = r[3] /\ s[i][5] = r[4] /\ s[i][6] = r[5]
    <3>1. s[i][1 + 1] = r[1] /\ s[i][1 + 2] = r[2] /\ s[i][1 + 3] = r[3] /\ s[i][1 + 4] = r[4]
          /\ s[i][1 + 5] = r[5]
      BY <2>11, <2>12
    <3>2. 1 + 1 = 2 /\ 1 + 2 = 3 /\ 1 + 3 = 4 /\ 1 + 4 = 5 /\ 1 + 5 = 6 OBVIOUS
    <3>3. QED BY <3>1, <3>2
  <2>14. QED BY <2>4, <2>6, <2>8, <2>11, <2>13
<1>4. s \in Seq(Seq(DnsFields)) /\ Len(s) = n
  <2>1. DOMAIN recs = 1..n BY <1>1
  <2>2. DOMAIN s = 1..n /\ s = [i \in 1..n |-> s[i]] BY <1>2, <2>1 DEF DnsOwned
  <2>3. \A i \in 1..n : s[i] \in Seq(DnsFields) BY <1>3
  <2>4. s \in [1..n -> Seq(DnsFields)] BY <2>2, <2>3
  <2>5. QED BY <2>2, <2>4
<1>5. PICK g : g = FlattenSeq(s) OBVIOUS
<1>6. /\ g \in Seq(DnsFields) /\ Len(g) = 6 * n
      /\ \A i \in 1..n, j \in 1..6 : g[6 * (i - 1) + j] = s[i][j]
  <2>1. \A i \in 1..Len(s) : Len(s[i]) = 6 BY <1>3, <1>4
  <2>2. /\ g \in Seq(DnsFields) /\ Len(g) = 6 * Len(s)
        /\ \A i \in 1..Len(s), j \in 1..6 : g[6 * (i - 1) + j] = s[i][j]
    BY <1>4, <1>5, <2>1, JoinsSix
  <2>3. QED BY <1>4, <2>2
<1>7. d = h \o g BY <1>2, <1>5
<1>8. /\ d \in Seq(DnsFields) /\ Len(d) = m + 6 * n /\ \A i \in 1..m : d[i] = h[i]
      /\ \A k \in 1..(6 * n) : d[m + k] = g[k]
  <2>1. PICK z \in Nat : z = 6 * n OBVIOUS
  <2>2. Len(g) = z BY <1>6, <2>1
  <2>3. /\ d \in Seq(DnsFields) /\ Len(d) = m + z /\ \A i \in 1..m : d[i] = h[i]
        /\ \A k \in 1..z : d[m + k] = g[k]
    <3>1. Len(h) = m /\ g \in Seq(DnsFields) BY <1>1, <1>6
    <3>2. d \in Seq(DnsFields) /\ IsJoin(d, h, g, m, z) BY <1>7, <2>2, <3>1, DnsJoin, Zenon
    <3>3. QED BY <3>2 DEF IsJoin
  <2>4. QED BY <2>1, <2>3
<1>9. ASSUME NEW i \in 1..n, NEW j \in 1..6
      PROVE  m + (6 * (i - 1) + j) \in 1..Len(d) /\ d[m + (6 * (i - 1) + j)] = s[i][j]
  <2>1. 6 * (i - 1) + j \in 1..(6 * n) OBVIOUS
  <2>2. m + (6 * (i - 1) + j) \in 1..(m + 6 * n) BY <2>1
  <2>3. QED BY <1>6, <1>8, <2>1, <2>2
<1>10. /\ \A v \in DnsValues : DnsField("addr", v).t = "addr" /\ DnsField("addr", v).v = v
       /\ DnsField("ptr", p).t = "ptr" /\ DnsField("ptr", p).v = p
       /\ DnsField("type", DNS_QT_A).t = "type" /\ DnsField("type", DNS_QT_A).v = DNS_QT_A
       /\ DnsField("class", 1).t = "class" /\ DnsField("ttl", 0).t = "ttl"
       /\ DnsField("len", 1).t = "len" /\ DnsField("len", 1).v = 1
  BY DEF DnsField
<1>11. p \in DnsValues /\ 0 \in DnsValues /\ 1 \in DnsValues /\ DNS_QT_A \in DnsValues BY DnsNumbers
<1>12. ASSUME NEW i \in 1..n
       PROVE  /\ DnsRecordAt(d, m + 1 + 6 * (i - 1), p, DNS_QT_A, 1)
              /\ d[(m + 1 + 6 * (i - 1)) + 5].v = recs[i]
  <2>1. PICK e \in Nat : e = m + 1 + 6 * (i - 1) OBVIOUS
  <2>2. e = m + (6 * (i - 1) + 1) /\ e + 1 = m + (6 * (i - 1) + 2)
        /\ e + 4 = m + (6 * (i - 1) + 5) /\ e + 5 = m + (6 * (i - 1) + 6)
    BY <2>1
  <2>3. 1 \in 1..6 /\ 2 \in 1..6 /\ 5 \in 1..6 /\ 6 \in 1..6 OBVIOUS
  <2>4. e \in 1..Len(d) /\ d[e] = s[i][1] /\ d[e + 1] = s[i][2] /\ d[e + 4] = s[i][5] /\ d[e + 5] = s[i][6]
    <3>1. \A j \in 1..6 : m + (6 * (i - 1) + j) \in 1..Len(d) /\ d[m + (6 * (i - 1) + j)] = s[i][j]
      BY <1>9
    <3>2. e \in 1..Len(d) /\ d[e] = s[i][1] BY <2>2, <2>3, <3>1
    <3>3. d[e + 1] = s[i][2] BY <2>2, <2>3, <3>1
    <3>4. d[e + 4] = s[i][5] BY <2>2, <2>3, <3>1
    <3>5. d[e + 5] = s[i][6] BY <2>2, <2>3, <3>1
    <3>6. QED BY <3>2, <3>3, <3>4, <3>5
  <2>5. recs[i] \in DnsValues BY <1>1
  <2>6. /\ d[e].t = "ptr" /\ d[e].v = p /\ d[e + 1].v = DNS_QT_A
        /\ d[e + 4].v = 1 /\ d[e + 5].v = recs[i]
    <3>1. s[i][1].t = "ptr" /\ s[i][1].v = p BY <1>3, <1>10
    <3>2. s[i][2].v = DNS_QT_A /\ s[i][5].v = 1 BY <1>3, <1>10
    <3>3. s[i][6].v = recs[i] BY <1>3, <2>5, <1>10
    <3>4. QED BY <2>4, <3>1, <3>2, <3>3
  <2>7. QED BY <2>1, <2>4, <2>6 DEF DnsRecordAt
<1>13. ASSUME NEW k \in (m + 1)..Len(d) PROVE DnsNoName(d, k, p)
  <2>1. PICK x \in Nat : x = k - m - 1 /\ x < 6 * n BY <1>8
  <2>2. PICK q \in Nat, r \in 0..5 : x = q * 6 + r
    <3>1. PICK w \in Nat \ {0} : w = 6 OBVIOUS
    <3>2. PICK a \in Nat, b \in 0..(w - 1) : x = a * w + b /\ x \div w = a /\ x % w = b
      BY <2>1, <3>1, Divided
    <3>3. QED BY <3>1, <3>2
  <2>3. PICK i \in 1..n, j \in 1..6 : i = q + 1 /\ j = r + 1
    <3>1. q < n BY <2>1, <2>2
    <3>2. q + 1 \in 1..n /\ r + 1 \in 1..6 BY <3>1
    <3>3. QED BY <3>2
  <2>4. k = m + (6 * (i - 1) + j) BY <2>1, <2>2, <2>3
  <2>5. d[k] = s[i][j] BY <1>9, <2>4
  <2>6. recs[i] \in DnsValues BY <1>1
  <2>7. j = 1 \/ j = 2 \/ j = 3 \/ j = 4 \/ j = 5 \/ j = 6 OBVIOUS
  <2>8. /\ s[i][1].t = "ptr" /\ s[i][1].v = p /\ s[i][2].t = "type" /\ s[i][3].t = "class"
        /\ s[i][4].t = "ttl" /\ s[i][5].t = "len" /\ s[i][6].t = "addr"
    <3>1. s[i][1].t = "ptr" /\ s[i][1].v = p BY <1>3, <1>10
    <3>2. s[i][2].t = "type" /\ s[i][3].t = "class" BY <1>3, <1>10
    <3>3. s[i][4].t = "ttl" /\ s[i][5].t = "len" BY <1>3, <1>10
    <3>4. s[i][6].t = "addr" BY <1>3, <2>6, <1>10
    <3>5. QED BY <3>1, <3>2, <3>3, <3>4
  <2>9. QED BY <2>5, <2>7, <2>8 DEF DnsNoName
<1>14. QED BY <1>1, <1>8, <1>12, <1>13

LEMMA DnsConstants ==
    ASSUME NEW n \in DnsNames
    PROVE  /\ n \in Seq(DnsValues) /\ DnsRecords[n] \in Seq(DnsValues)
           /\ \A i \in 1..Len(DnsRecords[n]) : DnsRecords[n][i] # 0
           /\ DnsAlias[n] # << >> => /\ DnsAlias[n] \in DnsNames
                                     /\ DnsRecords[DnsAlias[n]] = DnsRecords[n]
<1>1. n \in Seq(DnsLabelSet) BY DnsAssumption DEF DnsLabelSet
<1>2. DnsLabelSet \subseteq DnsValues /\ DnsAddressSet \subseteq DnsValues BY DEF DnsValues
<1>3. PICK r : r = DnsRecords[n] OBVIOUS
<1>4. PICK A : A = ToSet(r) OBVIOUS
<1>5. r \in Seq(A \ {0}) BY <1>3, <1>4, DnsAssumption
<1>6. A \subseteq DnsAddressSet BY <1>3, <1>4 DEF DnsAddressSet
<1>7. r \in Seq(DnsValues)
  <2>1. A \ {0} \subseteq DnsValues BY <1>2, <1>6
  <2>2. QED BY <1>5, <2>1
<1>8. \A i \in 1..Len(r) : r[i] # 0 BY <1>5
<1>9. n \in Seq(DnsValues) BY <1>1, <1>2
<1>10. QED BY <1>3, <1>7, <1>8, <1>9, DnsAssumption

\* From the middle of a name on there is the rest of it.
LEMMA DnsNameParts ==
    ASSUME NEW d \in Seq(DnsFields), NEW i, NEW s \in Seq(DnsValues), DnsHasName(d, i, s),
           NEW k \in i..(i + Len(s))
    PROVE  \E u \in Seq(DnsValues) : DnsHasName(d, k, u)
<1>1. PICK n \in Nat, m \in Nat : n = Len(s) /\ m = Len(d) OBVIOUS
<1>2. /\ i \in 1..m /\ i + n \in 1..m /\ d[i + n].t = "end"
      /\ \A j \in 1..n : d[i + j - 1].t = "label" /\ d[i + j - 1].v = s[j]
  BY <1>1 DEF DnsHasName
<1>3. PICK a \in 0..n : k = i + a
  <2>1. k - i \in 0..n /\ k = i + (k - i) BY <1>1, <1>2
  <2>2. QED BY <2>1
<1>4. PICK u : u = [j \in 1..(n - a) |-> s[a + j]] OBVIOUS
<1>5. u \in Seq(DnsValues) /\ Len(u) = n - a
  <2>1. \A j \in 1..(n - a) : a + j \in 1..n BY <1>3
  <2>2. \A j \in 1..(n - a) : s[a + j] \in DnsValues BY <1>1, <2>1
  <2>3. n - a \in Nat BY <1>3
  <2>4. u \in [1..(n - a) -> DnsValues] BY <1>4, <2>2
  <2>5. PICK b \in Nat : b = n - a BY <2>3
  <2>6. u = [j \in 1..b |-> u[j]] /\ u \in [1..b -> DnsValues] BY <1>4, <2>4, <2>5
  <2>7. u \in Seq(DnsValues) /\ Len(u) = b BY <2>6
  <2>8. QED BY <2>5, <2>7
<1>6. k \in 1..m /\ k + (n - a) = i + n BY <1>2, <1>3
<1>7. ASSUME NEW j \in 1..(n - a) PROVE d[k + j - 1].t = "label" /\ d[k + j - 1].v = u[j]
  <2>1. a + j \in 1..n /\ k + j - 1 = i + (a + j) - 1 BY <1>2, <1>3
  <2>2. d[i + (a + j) - 1].t = "label" /\ d[i + (a + j) - 1].v = s[a + j] BY <1>2, <2>1
  <2>3. QED BY <1>4, <2>1, <2>2
<1>8. DnsHasName(d, k, u) BY <1>1, <1>2, <1>5, <1>6, <1>7 DEF DnsHasName
<1>9. QED BY <1>5, <1>8

\* Where every field is in a name, or a pointer to one, or neither.
DnsPlaced(d, k) ==
    \/ d[k].t \notin {"label", "end"} /\ d[k].t # "ptr"
    \/ d[k].t = "ptr" /\ \E s \in Seq(DnsValues) : DnsHasName(d, d[k].v, s)
    \/ d[k].t # "ptr" /\ \E i : \E s \in Seq(DnsValues) : DnsHasName(d, i, s) /\ k \in i..(i + Len(s))

LEMMA DnsNameBegins ==
    ASSUME NEW d \in Seq(DnsFields), NEW i, NEW s \in Seq(DnsValues), DnsHasName(d, i, s)
    PROVE  i \in 1..Len(d) /\ d[i].t \in {"label", "end"}
<1>1. PICK n \in Nat : n = Len(s) OBVIOUS
<1>2. /\ i \in 1..Len(d) /\ d[i + n].t = "end"
      /\ \A j \in 1..n : d[i + j - 1].t = "label"
  BY <1>1 DEF DnsHasName
<1>3. CASE n = 0
  <2>1. i + n = i BY <1>2, <1>3
  <2>2. QED BY <1>2, <2>1
<1>4. CASE n # 0
  <2>1. i + 1 - 1 = i /\ 1 \in 1..n BY <1>2, <1>4
  <2>2. d[i + 1 - 1].t = "label" BY <1>2, <2>1
  <2>3. QED BY <1>2, <2>1, <2>2
<1>5. QED BY <1>3, <1>4

LEMMA DnsAllPlaced ==
    ASSUME NEW d \in Seq(DnsFields), \A k \in 1..Len(d) : DnsPlaced(d, k)
    PROVE  DnsNamed(d)
<1>1. ASSUME NEW k \in 1..Len(d), d[k].t \in {"label", "end"}
      PROVE  \E s \in Seq(DnsValues) : DnsHasName(d, k, s)
  <2>1. d[k].t # "ptr" BY <1>1
  <2>2. PICK i, s : s \in Seq(DnsValues) /\ DnsHasName(d, i, s) /\ k \in i..(i + Len(s))
    BY <1>1, <2>1 DEF DnsPlaced
  <2>3. QED BY <2>2, DnsNameParts
<1>2. ASSUME NEW k \in 1..Len(d), d[k].t = "ptr"
      PROVE  d[k].v \in 1..Len(d) /\ d[d[k].v].t \in {"label", "end"}
  <2>1. PICK s \in Seq(DnsValues) : DnsHasName(d, d[k].v, s) BY <1>2 DEF DnsPlaced
  <2>2. PICK i : i = d[k].v OBVIOUS
  <2>3. DnsHasName(d, i, s) BY <2>1, <2>2
  <2>4. QED BY <2>2, <2>3, DnsNameBegins
<1>3. QED BY <1>1, <1>2 DEF DnsNamed

\* Labels in a longer packet.
DnsLabelsAt(d, i, s, n) ==
    i + n <= Len(d) /\ \A j \in 1..(n + 1) : d[i + j - 1] = DnsLabels(s)[j]
LEMMA DnsHasLabels ==
    ASSUME NEW d \in Seq(DnsFields), NEW i \in Nat \ {0}, NEW s \in Seq(DnsValues),
           NEW n \in Nat, n = Len(s), DnsLabelsAt(d, i, s, n)
    PROVE  DnsHasName(d, i, s)
<1>1. PICK m \in Nat : m = Len(d) OBVIOUS
<1>2. i \in 1..m /\ i + n \in 1..m /\ i + n <= m BY <1>1 DEF DnsLabelsAt
<1>3. d[i + n].t = "end"
  <2>1. n + 1 \in 1..(n + 1) /\ i + (n + 1) - 1 = i + n OBVIOUS
  <2>2. d[i + (n + 1) - 1] = DnsLabels(s)[n + 1] BY <1>1, <2>1 DEF DnsLabelsAt
  <2>3. DnsLabels(s)[n + 1] = DnsField("end", 0) BY <1>1, DnsLabelsAre
  <2>4. DnsField("end", 0).t = "end" BY DEF DnsField
  <2>5. QED BY <2>1, <2>2, <2>3, <2>4
<1>4. ASSUME NEW j \in 1..n PROVE d[i + j - 1].t = "label" /\ d[i + j - 1].v = s[j]
  <2>1. j \in 1..(n + 1) OBVIOUS
  <2>2. d[i + j - 1] = DnsLabels(s)[j] BY <1>1, <2>1 DEF DnsLabelsAt
  <2>3. DnsLabels(s)[j] = DnsField("label", s[j]) BY <1>1, DnsLabelsAre
  <2>4. DnsField("label", s[j]).t = "label" /\ DnsField("label", s[j]).v = s[j] BY DEF DnsField
  <2>5. QED BY <2>2, <2>3, <2>4
<1>5. QED BY <1>1, <1>2, <1>3, <1>4 DEF DnsHasName

\* What the client finds in the packet for n: the name itself; x aliases, the
\* first record if there is one; and from b on its addresses, under the name
\* o that is at p.
DnsPacketIs(n, d, x, b, p, o) ==
    /\ d \in Seq(DnsFields) /\ DnsNamed(d) /\ DnsHasName(d, 1, n)
    /\ x \in {0, 1} /\ (x = 0 => b = Len(n) + 4)
    /\ x = 1 => /\ \E len \in Nat : /\ DnsRecordAt(d, Len(n) + 4, 1, DNS_QT_CNAME, len)
                                    /\ b = Len(n) + 4 + 5 + len
    /\ p \in Nat \ {0} /\ o \in DnsNames /\ DnsRecords[o] = DnsRecords[n] /\ DnsHasName(d, p, o)
    /\ \A i \in 1..Len(DnsRecords[n]) :
          /\ DnsRecordAt(d, b + 6 * (i - 1), p, DNS_QT_A, 1)
          /\ d[(b + 6 * (i - 1)) + 5].v = DnsRecords[n][i]

\* The question.
DnsAsk(n) == DnsLabels(n) \o <<DnsField("type", DNS_QT_A), DnsField("class", 1)>>
LEMMA DnsAskIs ==
    ASSUME NEW n \in Seq(DnsValues), NEW h, h = DnsAsk(n)
    PROVE  /\ h \in Seq(DnsFields) /\ Len(h) = Len(n) + 3
           /\ \A j \in 1..(Len(n) + 1) : h[j] = DnsLabels(n)[j]
           /\ h[Len(n) + 2].t = "type" /\ h[Len(n) + 3].t = "class"
<1>1. PICK l \in Nat, k \in Nat : l = Len(n) /\ k = l + 1 OBVIOUS
<1>2. PICK a : a = DnsLabels(n) OBVIOUS
<1>3. a \in Seq(DnsFields) /\ Len(a) = k BY <1>1, <1>2, DnsLabelsAre
<1>4. PICK b : b = <<DnsField("type", DNS_QT_A), DnsField("class", 1)>> OBVIOUS
<1>5. 1 \in DnsValues /\ DNS_QT_A \in DnsValues BY DnsNumbers
<1>6. DnsField("type", DNS_QT_A) \in DnsFields /\ DnsField("class", 1) \in DnsFields BY <1>5, DnsFieldIs
<1>7. b \in Seq(DnsFields) /\ Len(b) = 2 /\ 2 \in Nat BY <1>4, <1>6
<1>8. b[1].t = "type" /\ b[2].t = "class" BY <1>4 DEF DnsField
<1>9. h = a \o b BY <1>2, <1>4 DEF DnsAsk
<1>10. h \in Seq(DnsFields) /\ IsJoin(h, a, b, k, 2) BY <1>3, <1>7, <1>9, DnsJoin, Zenon
<1>11. /\ Len(h) = k + 2
       /\ \A j \in 1..k : h[j] = a[j]
       /\ \A j \in 1..2 : h[k + j] = b[j]
  BY <1>10 DEF IsJoin
<1>12. h[k + 1] = b[1] /\ h[k + 2] = b[2] BY <1>11
<1>13. k + 1 = l + 2 /\ k + 2 = l + 3 BY <1>1
<1>14. QED BY <1>1, <1>2, <1>8, <1>10, <1>11, <1>12, <1>13

LEMMA DnsNamePlaced ==
    ASSUME NEW d \in Seq(DnsFields), NEW i, NEW s \in Seq(DnsValues), DnsHasName(d, i, s),
           NEW k \in i..(i + Len(s))
    PROVE  DnsPlaced(d, k)
<1>1. PICK u \in Seq(DnsValues) : DnsHasName(d, k, u) BY DnsNameParts
<1>2. d[k].t \in {"label", "end"} BY <1>1, DnsNameBegins
<1>3. d[k].t # "ptr" BY <1>2
<1>4. QED BY <1>3 DEF DnsPlaced

\* An answer without an alias.
LEMMA DnsPlain ==
    ASSUME NEW n \in DnsNames, NEW d,
           d = DnsAsk(n) \o FlattenSeq(DnsOwned(1, DnsRecords[n]))
    PROVE  DnsPacketIs(n, d, 0, Len(n) + 4, 1, n)
<1>1. PICK l \in Nat : l = Len(n)
  <2>1. n \in Seq(DnsValues) BY DnsConstants
  <2>2. QED BY <2>1
<1>2. PICK r : r = DnsRecords[n] OBVIOUS
<1>3. n \in Seq(DnsValues) /\ r \in Seq(DnsValues) BY <1>2, DnsConstants
<1>4. PICK h : h = DnsAsk(n) OBVIOUS
<1>5. /\ h \in Seq(DnsFields) /\ Len(h) = l + 3
      /\ \A j \in 1..(l + 1) : h[j] = DnsLabels(n)[j]
      /\ h[l + 2].t = "type" /\ h[l + 3].t = "class"
  BY <1>1, <1>3, <1>4, DnsAskIs
<1>6. d = h \o FlattenSeq(DnsOwned(1, r)) BY <1>2, <1>4
<1>7. /\ d \in Seq(DnsFields) /\ Len(d) = (l + 3) + 6 * Len(r)
      /\ \A i \in 1..(l + 3) : d[i] = h[i]
      /\ \A i \in 1..Len(r) : /\ DnsRecordAt(d, (l + 3) + 1 + 6 * (i - 1), 1, DNS_QT_A, 1)
                              /\ d[((l + 3) + 1 + 6 * (i - 1)) + 5].v = r[i]
      /\ \A k \in ((l + 3) + 1)..Len(d) : DnsNoName(d, k, 1)
  <2>1. /\ d \in Seq(DnsFields) /\ Len(d) = Len(h) + 6 * Len(r)
        /\ \A i \in 1..Len(h) : d[i] = h[i]
        /\ \A i \in 1..Len(r) : /\ DnsRecordAt(d, Len(h) + 1 + 6 * (i - 1), 1, DNS_QT_A, 1)
                                /\ d[(Len(h) + 1 + 6 * (i - 1)) + 5].v = r[i]
        /\ \A k \in (Len(h) + 1)..Len(d) : DnsNoName(d, k, 1)
    BY <1>3, <1>5, <1>6, DnsTail
  <2>2. QED BY <1>5, <2>1
<1>8. DnsHasName(d, 1, n)
  <2>1. \A j \in 1..(l + 1) : d[1 + j - 1] = DnsLabels(n)[j]
    <3> TAKE j \in 1..(l + 1)
    <3>1. 1 + j - 1 = j /\ j \in 1..(l + 3) OBVIOUS
    <3>2. QED BY <1>5, <1>7, <3>1
  <2>2. 1 + l <= Len(d) BY <1>3, <1>7
  <2>3. DnsLabelsAt(d, 1, n, l) BY <2>1, <2>2 DEF DnsLabelsAt
  <2>4. 1 \in Nat \ {0} /\ d \in Seq(DnsFields) BY <1>7
  <2>5. QED BY <1>1, <1>3, <2>3, <2>4, DnsHasLabels, Zenon
<1>9. ASSUME NEW k \in 1..Len(d) PROVE DnsPlaced(d, k)
  <2>1. CASE k <= l + 1
    <3>1. k \in 1..(1 + Len(n)) BY <1>1, <2>1
    <3>2. QED BY <1>3, <1>7, <1>8, <3>1, DnsNamePlaced
  <2>2. CASE k = l + 2 \/ k = l + 3
    <3>1. k \in 1..(l + 3) BY <2>2
    <3>2. d[k] = h[k] BY <1>7, <3>1
    <3>3. d[k].t \notin {"label", "end"} /\ d[k].t # "ptr" BY <1>5, <2>2, <3>2
    <3>4. QED BY <3>3 DEF DnsPlaced
  <2>3. CASE k > l + 3
    <3>1. k \in ((l + 3) + 1)..Len(d) BY <2>3
    <3>2. DnsNoName(d, k, 1) BY <1>7, <3>1
    <3>3. QED BY <1>3, <1>8, <3>2 DEF DnsNoName, DnsPlaced
  <2>4. k <= l + 1 \/ k = l + 2 \/ k = l + 3 \/ k > l + 3 BY <1>7
  <2>5. QED BY <2>1, <2>2, <2>3, <2>4
<1>10. DnsNamed(d) BY <1>7, <1>9, DnsAllPlaced
<1>11. (l + 3) + 1 = l + 4 OBVIOUS
<1>12. \A i \in 1..Len(r) : /\ DnsRecordAt(d, (l + 4) + 6 * (i - 1), 1, DNS_QT_A, 1)
                            /\ d[((l + 4) + 6 * (i - 1)) + 5].v = r[i]
  BY <1>7, <1>11
<1>13. \A i \in 1..Len(DnsRecords[n]) :
          /\ DnsRecordAt(d, (Len(n) + 4) + 6 * (i - 1), 1, DNS_QT_A, 1)
          /\ d[((Len(n) + 4) + 6 * (i - 1)) + 5].v = DnsRecords[n][i]
  BY <1>1, <1>2, <1>12, Zenon
<1>14. d \in Seq(DnsFields) /\ 0 \in {0, 1} /\ 0 # 1 /\ 1 \in Nat \ {0} BY <1>7
<1>15. QED BY <1>8, <1>10, <1>13, <1>14, Zenon DEF DnsPacketIs

\* The first record of an answer with an alias.
DnsOther(a) == <<DnsField("ptr", 1)>> \o DnsRR(DNS_QT_CNAME, DnsLabels(a))
IsOther(c, a, m) ==
    /\ Len(c) = m + 6
    /\ c[1].t = "ptr" /\ c[1].v = 1 /\ c[2].t = "type" /\ c[2].v = DNS_QT_CNAME
    /\ c[3].t = "class" /\ c[4].t = "ttl" /\ c[5].t = "len" /\ c[5].v = m + 1
    /\ \A j \in 1..(m + 1) : c[5 + j] = DnsLabels(a)[j]
LEMMA DnsOtherIs ==
    ASSUME NEW a \in Seq(DnsValues), NEW m \in Nat, m = Len(a), NEW c, c = DnsOther(a)
    PROVE  c \in Seq(DnsFields) /\ IsOther(c, a, m)
<1>1. PICK k \in Nat : k = m + 1 OBVIOUS
<1>2. PICK s : s = DnsLabels(a) OBVIOUS
<1>3. s \in Seq(DnsFields) /\ Len(s) = k BY <1>1, <1>2, DnsLabelsAre
<1>4. DNS_QT_CNAME \in DnsValues /\ 1 \in DnsValues BY DnsNumbers DEF DNS_QT_CNAME
<1>5. PICK r : r = DnsRR(DNS_QT_CNAME, s) OBVIOUS
<1>6. r \in Seq(DnsFields) /\ IsRR(r, DNS_QT_CNAME, s, k) BY <1>3, <1>4, <1>5, DnsRRIs, Zenon
<1>7. PICK b : b = <<DnsField("ptr", 1)>> OBVIOUS
<1>8. DnsField("ptr", 1) \in DnsFields BY <1>4, DnsFieldIs
<1>9. b \in Seq(DnsFields) /\ Len(b) = 1 /\ 1 \in Nat /\ b[1] = DnsField("ptr", 1) BY <1>7, <1>8
<1>10. PICK y \in Nat : y = k + 4 OBVIOUS
<1>11. Len(r) = y BY <1>6, <1>10 DEF IsRR
<1>12. c = b \o r BY <1>2, <1>5, <1>7 DEF DnsOther
<1>13. c \in Seq(DnsFields) /\ IsJoin(c, b, r, 1, y) BY <1>6, <1>9, <1>11, <1>12, DnsJoin, Zenon
<1>14. /\ Len(c) = 1 + y
       /\ \A j \in 1..1 : c[j] = b[j]
       /\ \A j \in 1..y : c[1 + j] = r[j]
  BY <1>13 DEF IsJoin
<1>15. c[1] = DnsField("ptr", 1)
  <2>1. 1 \in 1..1 OBVIOUS
  <2>2. QED BY <1>9, <1>14, <2>1
<1>16. c[2] = r[1] /\ c[3] = r[2] /\ c[4] = r[3] /\ c[5] = r[4]
  <2>1. 1 \in 1..y /\ 2 \in 1..y /\ 3 \in 1..y /\ 4 \in 1..y BY <1>10
  <2>2. 1 + 1 = 2 /\ 1 + 2 = 3 /\ 1 + 3 = 4 /\ 1 + 4 = 5 OBVIOUS
  <2>3. c[1 + 1] = r[1] /\ c[1 + 2] = r[2] /\ c[1 + 3] = r[3] /\ c[1 + 4] = r[4]
    BY <1>14, <2>1
  <2>4. QED BY <2>2, <2>3
<1>17. /\ r[1] = DnsField("type", DNS_QT_CNAME) /\ r[2] = DnsField("class", 1)
       /\ r[3] = DnsField("ttl", 0) /\ r[4] = DnsField("len", k)
       /\ \A i \in 1..k : r[4 + i] = s[i]
  BY <1>6 DEF IsRR
<1>18. ASSUME NEW j \in 1..(m + 1) PROVE c[5 + j] = s[j]
  <2>1. j \in 1..k /\ 4 + j \in 1..y /\ 1 + (4 + j) = 5 + j BY <1>1, <1>10
  <2>2. c[1 + (4 + j)] = r[4 + j] /\ r[4 + j] = s[j] BY <1>14, <1>17, <2>1
  <2>3. QED BY <2>1, <2>2
<1>19. Len(c) = m + 6 BY <1>1, <1>10, <1>14
<1>20. /\ c[1].t = "ptr" /\ c[1].v = 1 /\ c[2].t = "type" /\ c[2].v = DNS_QT_CNAME
       /\ c[3].t = "class" /\ c[4].t = "ttl" /\ c[5].t = "len" /\ c[5].v = k
  <2>1. c[1].t = "ptr" /\ c[1].v = 1 BY <1>15 DEF DnsField
  <2>2. c[2].t = "type" /\ c[2].v = DNS_QT_CNAME BY <1>16, <1>17 DEF DnsField
  <2>3. c[3].t = "class" /\ c[4].t = "ttl" BY <1>16, <1>17 DEF DnsField
  <2>4. c[5].t = "len" /\ c[5].v = k BY <1>16, <1>17 DEF DnsField
  <2>5. QED BY <2>1, <2>2, <2>3, <2>4
<1>21. QED BY <1>1, <1>2, <1>13, <1>18, <1>19, <1>20 DEF IsOther

\* An answer with an alias.
LEMMA DnsAliased ==
    ASSUME NEW n \in DnsNames, DnsAlias[n] # << >>, NEW d,
           d = (DnsAsk(n) \o DnsOther(DnsAlias[n])) \o FlattenSeq(DnsOwned(Len(n) + 9, DnsRecords[n]))
    PROVE  \E b : DnsPacketIs(n, d, 1, b, Len(n) + 9, DnsAlias[n])
<1>1. PICK a : a = DnsAlias[n] OBVIOUS
<1>2. PICK r : r = DnsRecords[n] OBVIOUS
<1>3. a \in DnsNames /\ DnsRecords[a] = r BY <1>1, <1>2, DnsConstants
<1>4. n \in Seq(DnsValues) /\ r \in Seq(DnsValues) /\ a \in Seq(DnsValues) BY <1>2, <1>3, DnsConstants
<1>5. PICK l \in Nat, m \in Nat : l = Len(n) /\ m = Len(a)
  <2>1. Len(n) \in Nat BY <1>4
  <2>2. Len(a) \in Nat BY <1>4
  <2>3. QED BY <2>1, <2>2
<1>6. PICK q : q = DnsAsk(n) OBVIOUS
<1>7. /\ q \in Seq(DnsFields) /\ Len(q) = l + 3
      /\ \A j \in 1..(l + 1) : q[j] = DnsLabels(n)[j]
      /\ q[l + 2].t = "type" /\ q[l + 3].t = "class"
  BY <1>4, <1>5, <1>6, DnsAskIs
<1>8. PICK c : c = DnsOther(a) OBVIOUS
<1>9. /\ c \in Seq(DnsFields) /\ Len(c) = m + 6
      /\ c[1].t = "ptr" /\ c[1].v = 1 /\ c[2].t = "type" /\ c[2].v = DNS_QT_CNAME
      /\ c[3].t = "class" /\ c[4].t = "ttl" /\ c[5].t = "len" /\ c[5].v = m + 1
      /\ \A j \in 1..(m + 1) : c[5 + j] = DnsLabels(a)[j]
  <2>1. c \in Seq(DnsFields) /\ IsOther(c, a, m) BY <1>4, <1>5, <1>8, DnsOtherIs, Zenon
  <2>2. QED BY <2>1 DEF IsOther
<1>10. PICK x \in Nat, y \in Nat, z \in Nat, p \in Nat : x = l + 3 /\ y = m + 6 /\ z = l + m + 9 /\ p = l + 9
  OBVIOUS
<1>11. PICK h : h = q \o c OBVIOUS
<1>12. h \in Seq(DnsFields) /\ IsJoin(h, q, c, x, y)
  <2>1. Len(q) = x /\ Len(c) = y /\ q \in Seq(DnsFields) /\ c \in Seq(DnsFields) BY <1>7, <1>9, <1>10
  <2>2. QED BY <1>11, <2>1, DnsJoin, Zenon
<1>13. /\ Len(h) = z
       /\ \A j \in 1..x : h[j] = q[j]
       /\ \A j \in 1..y : h[x + j] = c[j]
  <2>1. /\ Len(h) = x + y
        /\ \A j \in 1..x : h[j] = q[j]
        /\ \A j \in 1..y : h[x + j] = c[j]
    BY <1>12, Zenon DEF IsJoin
  <2>2. x + y = z BY <1>10
  <2>3. QED BY <2>1, <2>2, Zenon
<1>14. d = h \o FlattenSeq(DnsOwned(p, r)) BY <1>1, <1>2, <1>5, <1>6, <1>8, <1>10, <1>11
<1>15. /\ d \in Seq(DnsFields) /\ Len(d) = z + 6 * Len(r)
       /\ \A i \in 1..z : d[i] = h[i]
       /\ \A i \in 1..Len(r) : /\ DnsRecordAt(d, z + 1 + 6 * (i - 1), p, DNS_QT_A, 1)
                               /\ d[(z + 1 + 6 * (i - 1)) + 5].v = r[i]
       /\ \A k \in (z + 1)..Len(d) : DnsNoName(d, k, p)
  <2>1. /\ d \in Seq(DnsFields) /\ Len(d) = Len(h) + 6 * Len(r)
        /\ \A i \in 1..Len(h) : d[i] = h[i]
        /\ \A i \in 1..Len(r) : /\ DnsRecordAt(d, Len(h) + 1 + 6 * (i - 1), p, DNS_QT_A, 1)
                                /\ d[(Len(h) + 1 + 6 * (i - 1)) + 5].v = r[i]
        /\ \A k \in (Len(h) + 1)..Len(d) : DnsNoName(d, k, p)
    BY <1>4, <1>12, <1>14, DnsTail
  <2>2. QED BY <1>13, <2>1
<1>16. z <= Len(d)
  <2>1. Len(r) \in Nat BY <1>4
  <2>2. QED BY <1>15, <2>1
<1>17. \A j \in 1..x : d[j] = q[j]
  <2> TAKE j \in 1..x
  <2>1. j \in 1..z BY <1>10
  <2>2. QED BY <1>13, <1>15, <2>1
<1>18. \A j \in 1..y : d[x + j] = c[j]
  <2> TAKE j \in 1..y
  <2>1. x + j \in 1..z BY <1>10
  <2>2. QED BY <1>13, <1>15, <2>1
<1>19. DnsHasName(d, 1, n)
  <2>1. \A j \in 1..(l + 1) : d[1 + j - 1] = DnsLabels(n)[j]
    <3> TAKE j \in 1..(l + 1)
    <3>1. 1 + j - 1 = j /\ j \in 1..x BY <1>10
    <3>2. QED BY <1>7, <1>17, <3>1
  <2>2. 1 + l <= Len(d) BY <1>10, <1>15, <1>16
  <2>3. DnsLabelsAt(d, 1, n, l) BY <2>1, <2>2 DEF DnsLabelsAt
  <2>4. 1 \in Nat \ {0} /\ d \in Seq(DnsFields) BY <1>15
  <2>5. QED BY <1>4, <1>5, <2>3, <2>4, DnsHasLabels, Zenon
<1>20. DnsHasName(d, p, a)
  <2>1. \A j \in 1..(m + 1) : d[p + j - 1] = DnsLabels(a)[j]
    <3> TAKE j \in 1..(m + 1)
    <3>1. p + j - 1 = x + (5 + j) /\ 5 + j \in 1..y BY <1>10
    <3>2. QED BY <1>9, <1>18, <3>1
  <2>2. p + m <= Len(d) /\ p \in Nat \ {0} BY <1>10, <1>15, <1>16
  <2>3. DnsLabelsAt(d, p, a, m) BY <2>1, <2>2 DEF DnsLabelsAt
  <2>4. d \in Seq(DnsFields) BY <1>15
  <2>5. QED BY <1>4, <1>5, <2>2, <2>3, <2>4, DnsHasLabels, Zenon
<1>21. PICK e \in Nat : e = l + 4 OBVIOUS
<1>22. e = x + 1 /\ e + 1 = x + 2 /\ e + 2 = x + 3 /\ e + 3 = x + 4 /\ e + 4 = x + 5
  BY <1>10, <1>21
<1>23. d[e] = c[1] /\ d[e + 1] = c[2] /\ d[e + 2] = c[3] /\ d[e + 3] = c[4] /\ d[e + 4] = c[5]
  <2>1. 1 \in 1..y /\ 2 \in 1..y /\ 3 \in 1..y /\ 4 \in 1..y /\ 5 \in 1..y BY <1>10
  <2>2. /\ d[x + 1] = c[1] /\ d[x + 2] = c[2] /\ d[x + 3] = c[3] /\ d[x + 4] = c[4]
        /\ d[x + 5] = c[5]
    BY <1>18, <2>1
  <2>3. QED BY <1>22, <2>2
<1>24. DnsRecordAt(d, e, 1, DNS_QT_CNAME, m + 1)
  <2>1. e \in 1..Len(d)
    <3>1. d \in Seq(DnsFields) BY <1>15
    <3>2. Len(d) \in Nat BY <3>1
    <3>3. e >= 1 /\ e <= z BY <1>10, <1>21
    <3>4. QED BY <1>16, <3>2, <3>3
  <2>2. QED BY <1>9, <1>23, <2>1 DEF DnsRecordAt
<1>25. ASSUME NEW k \in 1..Len(d) PROVE DnsPlaced(d, k)
  <2>1. CASE k <= l + 1
    <3>1. k \in 1..(1 + Len(n)) BY <1>5, <2>1
    <3>2. QED BY <1>4, <1>15, <1>19, <3>1, DnsNamePlaced
  <2>2. CASE k = l + 2 \/ k = l + 3
    <3>1. k \in 1..x BY <1>10, <2>2
    <3>2. d[k] = q[k] BY <1>17, <3>1
    <3>3. d[k].t \notin {"label", "end"} /\ d[k].t # "ptr" BY <1>7, <2>2, <3>2
    <3>4. QED BY <3>3 DEF DnsPlaced
  <2>3. CASE k = e
    <3>1. d[k].t = "ptr" /\ d[k].v = 1 BY <1>9, <1>23, <2>3
    <3>2. QED BY <1>4, <1>19, <3>1 DEF DnsPlaced
  <2>4. CASE k = e + 1 \/ k = e + 2 \/ k = e + 3 \/ k = e + 4
    <3>1. d[k].t \notin {"label", "end"} /\ d[k].t # "ptr" BY <1>9, <1>23, <2>4
    <3>2. QED BY <3>1 DEF DnsPlaced
  <2>5. CASE k >= p /\ k <= z
    <3>1. k \in p..(p + Len(a)) BY <1>5, <1>10, <2>5
    <3>2. QED BY <1>4, <1>15, <1>20, <3>1, DnsNamePlaced
  <2>6. CASE k > z
    <3>1. k \in (z + 1)..Len(d) BY <2>6
    <3>2. DnsNoName(d, k, p) BY <1>15, <3>1
    <3>3. QED BY <1>4, <1>20, <3>2 DEF DnsNoName, DnsPlaced
  <2>7. \/ k <= l + 1 \/ k = l + 2 \/ k = l + 3 \/ k = e
        \/ k = e + 1 \/ k = e + 2 \/ k = e + 3 \/ k = e + 4 \/ (k >= p /\ k <= z) \/ k > z
    <3>1. k \in Nat BY <1>15
    <3>2. QED BY <1>10, <1>21, <3>1
  <2>8. QED BY <2>1, <2>2, <2>3, <2>4, <2>5, <2>6, <2>7
<1>26. DnsNamed(d) BY <1>15, <1>25, DnsAllPlaced
<1>27. PICK b : b = z + 1 OBVIOUS
<1>28. b = l + 4 + 5 + (m + 1) /\ m + 1 \in Nat BY <1>10, <1>27
<1>29. \A i \in 1..Len(r) : /\ DnsRecordAt(d, b + 6 * (i - 1), p, DNS_QT_A, 1)
                            /\ d[(b + 6 * (i - 1)) + 5].v = r[i]
  BY <1>15, <1>27
<1>30. p \in Nat \ {0} BY <1>10
<1>31. \E len \in Nat : DnsRecordAt(d, l + 4, 1, DNS_QT_CNAME, len) /\ b = l + 4 + 5 + len
  BY <1>21, <1>24, <1>28
<1>32. DnsPacketIs(n, d, 1, b, p, a)
  <2>1. \A i \in 1..Len(DnsRecords[n]) : /\ DnsRecordAt(d, b + 6 * (i - 1), p, DNS_QT_A, 1)
                                         /\ d[(b + 6 * (i - 1)) + 5].v = DnsRecords[n][i]
    BY <1>2, <1>29, Zenon
  <2>2. /\ \E len \in Nat : /\ DnsRecordAt(d, Len(n) + 4, 1, DNS_QT_CNAME, len)
                           /\ b = Len(n) + 4 + 5 + len
    BY <1>5, <1>31, Zenon
  <2>3. d \in Seq(DnsFields) /\ 1 \in {0, 1} /\ 1 # 0 /\ DnsRecords[a] = DnsRecords[n]
    BY <1>2, <1>3, <1>15
  <2>4. QED BY <1>3, <1>19, <1>20, <1>26, <1>30, <2>1, <2>2, <2>3, Zenon DEF DnsPacketIs
<1>33. QED BY <1>1, <1>5, <1>10, <1>32

LEMMA DnsPacket ==
    ASSUME NEW n \in DnsNames
    PROVE  \E x, b, p, o : /\ DnsPacketIs(n, dnspkt(n).data, x, b, p, o)
                           /\ dnspkt(n).qucount = 1
                           /\ dnspkt(n).ancount = Len(DnsRecords[n]) + x
<1>1. PICK r : r = DnsRecords[n] OBVIOUS
<1>2. r \in Seq(DnsValues) /\ Len(r) \in Nat
  <2>1. r \in Seq(DnsValues) BY <1>1, DnsConstants
  <2>2. QED BY <2>1
<1>3. n \in Seq(DnsValues) /\ Len(n) \in Nat
  <2>1. n \in Seq(DnsValues) BY DnsConstants
  <2>2. QED BY <2>1
<1>4. PICK q : q = DnsAsk(n) OBVIOUS
<1>5. q \in Seq(DnsFields) /\ Len(q) = Len(n) + 3 BY <1>3, <1>4, DnsAskIs
<1>6. CASE DnsAlias[n] = << >>
  <2>1. PICK d : d = DnsAsk(n) \o FlattenSeq(DnsOwned(1, DnsRecords[n])) OBVIOUS
  <2>2. DnsPacketIs(n, d, 0, Len(n) + 4, 1, n) BY <2>1, DnsPlain
  <2>3. q \o << >> = q BY <1>5
  <2>4. dnspkt(n).data = (q \o << >>) \o FlattenSeq(DnsOwned(1, DnsRecords[n]))
    BY <1>4, <1>6, Zenon DEF dnspkt, DnsAsk, DnsOwned
  <2>5. dnspkt(n).data = d BY <1>4, <2>1, <2>3, <2>4
  <2>6. dnspkt(n).qucount = 1 /\ dnspkt(n).ancount = Len(r) + 0 BY <1>1, <1>6 DEF dnspkt
  <2>7. QED BY <1>1, <2>2, <2>5, <2>6
<1>7. CASE DnsAlias[n] # << >>
  <2>1. PICK d : d = (DnsAsk(n) \o DnsOther(DnsAlias[n])) \o FlattenSeq(DnsOwned(Len(n) + 9, DnsRecords[n]))
    OBVIOUS
  <2>2. PICK b : DnsPacketIs(n, d, 1, b, Len(n) + 9, DnsAlias[n]) BY <1>7, <2>1, DnsAliased
  <2>3. Len(q) + 6 = Len(n) + 9 BY <1>3, <1>5
  <2>4. dnspkt(n).data = (q \o DnsOther(DnsAlias[n])) \o FlattenSeq(DnsOwned(Len(q) + 6, DnsRecords[n]))
    BY <1>4, <1>7, Zenon DEF dnspkt, DnsAsk, DnsOwned, DnsOther
  <2>5. dnspkt(n).data = d BY <1>4, <2>1, <2>3, <2>4
  <2>6. dnspkt(n).qucount = 1 /\ dnspkt(n).ancount = Len(r) + 1 BY <1>1, <1>7 DEF dnspkt
  <2>7. QED BY <1>1, <2>2, <2>5, <2>6
<1>8. QED BY <1>6, <1>7

\* The first answer is behind the question.
LEMMA DnsFirstIs ==
    ASSUME NEW n \in Seq(DnsValues), NEW pkt, pkt.qucount = 1, pkt.data \in Seq(DnsFields),
           DnsNamed(pkt.data), DnsHasName(pkt.data, 1, n)
    PROVE  DnsFirst(pkt) = Len(n) + 4
<1>1. PICK d : d = pkt.data OBVIOUS
<1>2. PICK l \in Nat : l = Len(n) OBVIOUS
<1>3. DnsAt(d, 1) = [labels |-> n, next |-> 1 + Len(n) + 1]
  <2>1. 1 \in 1..Len(d) BY <1>1 DEF DnsHasName
  <2>2. QED BY <1>1, <2>1, DnsAtIs
<1>4. DnsSkip(d, 1) = l + 4
  <2>1. DnsAt(d, 1).next = 1 + l + 1 BY <1>2, <1>3
  <2>2. QED BY <2>1 DEF DnsSkip
<1> DEFINE Is(f) == f = [q \in 0..1 |-> IF q = 0 THEN 1 ELSE DnsSkip(d, f[q - 1])]
<1>5. \E f : Is(f)
  <2>1. PICK y : y = DnsSkip(d, 1) OBVIOUS
  <2>2. PICK f : f = [q \in 0..1 |-> IF q = 0 THEN 1 ELSE y] OBVIOUS
  <2>3. f[0] = 1 BY <2>2
  <2>4. \A q \in 0..1 : f[q] = IF q = 0 THEN 1 ELSE DnsSkip(d, f[q - 1])
    <3> TAKE q \in 0..1
    <3>1. CASE q = 0 BY <2>3, <3>1
    <3>2. CASE q = 1
      <4>1. q - 1 = 0 /\ q # 0 BY <3>2
      <4>2. f[q] = y BY <2>2, <4>1
      <4>3. QED BY <2>1, <2>3, <4>1, <4>2
    <3>3. QED BY <3>1, <3>2
  <2>5. Is(f) BY <2>2, <2>4
  <2>6. QED BY <2>5
<1>6. PICK f : f = CHOOSE g : Is(g) OBVIOUS
<1>7. Is(f) BY <1>5, <1>6
<1>8. f[1] = l + 4
  <2>1. f[0] = 1
    <3>1. 0 \in 0..1 OBVIOUS
    <3>2. QED BY <1>7, <3>1
  <2>2. 1 \in 0..1 /\ 1 # 0 /\ 1 - 1 = 0 OBVIOUS
  <2>3. f[1] = DnsSkip(d, f[1 - 1]) BY <1>7, <2>2
  <2>4. QED BY <1>4, <2>1, <2>2, <2>3
<1>9. DnsFirst(pkt) = f[1] BY <1>1, <1>6 DEF DnsFirst
<1>10. QED BY <1>2, <1>8, <1>9

\* What the client makes of one record.
LEMMA DnsAnswerIs ==
    ASSUME NEW d \in Seq(DnsFields), DnsNamed(d), NEW p, NEW o \in Seq(DnsValues),
           DnsHasName(d, p, o), NEW e \in Nat, NEW type, NEW len \in Nat,
           DnsRecordAt(d, e, p, type, len), NEW m, NEW ip, NEW st, st = [at |-> e, ip |-> ip]
    PROVE  DnsAnswer(m, d, st) =
              [at |-> e + 5 + len,
               ip |-> IF DnsMatches(m, o) /\ type = DNS_QT_A THEN DnsBetter(ip, d[e + 5].v) ELSE ip]
<1>1. e \in 1..Len(d) /\ d[e].t = "ptr" /\ d[e].v = p /\ d[e + 1].v = type /\ d[e + 4].v = len
  BY DEF DnsRecordAt
<1>2. DnsAt(d, e) = [labels |-> o, next |-> e + 1]
  <2>1. DnsHasName(d, d[e].v, o) BY <1>1
  <2>2. QED BY <1>1, <2>1, DnsAtIs
<1>3. PICK r : r = dns_getrname(d, st.at) OBVIOUS
<1>4. r = [labels |-> o, next |-> e + 1] BY <1>2, <1>3 DEF dns_getrname
<1>5. r.labels = o /\ r.next = e + 1 /\ st.ip = ip BY <1>4
<1>6. DnsAnswer(m, d, st) =
         [at |-> r.next + 4 + d[r.next + 3].v,
          ip |-> IF DnsMatches(m, r.labels) /\ d[r.next].v = DNS_QT_A
                 THEN DnsBetter(st.ip, d[r.next + 4].v) ELSE st.ip]
  BY <1>3, Zenon DEF DnsAnswer
<1>7. (e + 1) + 3 = e + 4 /\ (e + 1) + 4 = e + 5 OBVIOUS
<1>8. r.next + 4 + d[r.next + 3].v = e + 5 + len BY <1>1, <1>5, <1>7
<1>9. r.next + 4 = e + 5 /\ d[r.next].v = type BY <1>1, <1>5, <1>7
<1>10. QED BY <1>5, <1>6, <1>8, <1>9, Zenon

\* The function by which the client sees one record after the other exists.
DnsSeen(f, m, d, st, n) == f = [k \in 0..n |-> IF k = 0 THEN st ELSE DnsAnswer(m, d, f[k - 1])]
LEMMA DnsSeenBuilt == ASSUME NEW m, NEW d, NEW st PROVE \A n \in Nat : \E f : DnsSeen(f, m, d, st, n)
<1> DEFINE T == {n \in Nat : \E f : DnsSeen(f, m, d, st, n)}
<1>1. 0 \in T
  <2>1. PICK f : f = [k \in 0..0 |-> st] OBVIOUS
  <2>2. f = [k \in 0..0 |-> IF k = 0 THEN st ELSE DnsAnswer(m, d, f[k - 1])] BY <2>1
  <2>3. DnsSeen(f, m, d, st, 0) BY <2>2 DEF DnsSeen
  <2>4. QED BY <2>3
<1>2. ASSUME NEW n \in Nat, n \in T PROVE n + 1 \in T
  <2>1. PICK f : DnsSeen(f, m, d, st, n) BY <1>2
  <2>2. f = [k \in 0..n |-> IF k = 0 THEN st ELSE DnsAnswer(m, d, f[k - 1])] BY <2>1 DEF DnsSeen
  <2>3. PICK y : y = DnsAnswer(m, d, f[n]) OBVIOUS
  <2>4. PICK g : g = [k \in 0..(n + 1) |-> IF k = n + 1 THEN y ELSE f[k]] OBVIOUS
  <2>5. \A k \in 0..(n + 1) : g[k] = IF k = 0 THEN st ELSE DnsAnswer(m, d, g[k - 1])
    <3> TAKE k \in 0..(n + 1)
    <3>1. CASE k = n + 1
      <4>1. g[k] = y /\ k # 0 /\ k - 1 = n BY <2>4, <3>1
      <4>2. g[n] = f[n] BY <2>4
      <4>3. QED BY <2>3, <4>1, <4>2
    <3>2. CASE k # n + 1
      <4>1. k \in 0..n /\ g[k] = f[k] BY <2>4, <3>2
      <4>2. f[k] = IF k = 0 THEN st ELSE DnsAnswer(m, d, f[k - 1]) BY <2>2, <4>1
      <4>3. k # 0 => k - 1 \in 0..(n + 1) /\ k - 1 # n + 1 BY <4>1
      <4>4. k # 0 => g[k - 1] = f[k - 1] BY <2>4, <4>3
      <4>5. QED BY <4>1, <4>2, <4>4
    <3>3. QED BY <3>1, <3>2
  <2>6. g = [k \in 0..(n + 1) |-> IF k = 0 THEN st ELSE DnsAnswer(m, d, g[k - 1])] BY <2>4, <2>5
  <2>7. DnsSeen(g, m, d, st, n + 1) BY <2>6 DEF DnsSeen
  <2>8. QED BY <2>7
<1>3. \A n \in Nat : n \in T
  <2> HIDE DEF T
  <2>1. QED BY <1>1, <1>2, Induction, Zenon
<1>4. QED BY <1>3

\* The address kept after k of the addresses r of a name that matches or not.
DnsGood(match, r, ip, k) ==
    /\ ip = 0 => k = 0 \/ ~match
    /\ ip # 0 => /\ match /\ \E j \in 1..k : ip = r[j]
                 /\ ip \in DnsLocal \/ \A j \in 1..k : r[j] \notin DnsLocal
LEMMA DnsStillGood ==
    ASSUME NEW match \in BOOLEAN, NEW r, NEW ip, NEW k \in Nat, DnsGood(match, r, ip, k),
           r[k + 1] # 0
    PROVE  DnsGood(match, r, IF match THEN DnsBetter(ip, r[k + 1]) ELSE ip, k + 1)
<1>1. PICK a : a = r[k + 1] /\ a # 0 OBVIOUS
<1>2. 1..(k + 1) = 1..k \cup {k + 1} OBVIOUS
<1>3. CASE ~match
  <2>1. ip = 0 BY <1>3 DEF DnsGood
  <2>2. QED BY <1>3, <2>1 DEF DnsGood
<1>4. CASE match
  <2>1. CASE ip = 0
    <3>1. k = 0 BY <1>4, <2>1 DEF DnsGood
    <3>2. DnsBetter(ip, a) = a BY <2>1 DEF DnsBetter
    <3>3. 1..(k + 1) = {k + 1} BY <3>1
    <3>4. QED BY <1>1, <1>4, <3>2, <3>3 DEF DnsGood
  <2>2. CASE ip # 0 /\ a \in DnsLocal
    <3>1. DnsBetter(ip, a) = a BY <2>2 DEF DnsBetter
    <3>2. QED BY <1>1, <1>2, <1>4, <2>2, <3>1 DEF DnsGood
  <2>3. CASE ip # 0 /\ a \notin DnsLocal
    <3>1. DnsBetter(ip, a) = ip BY <2>3 DEF DnsBetter
    <3>2. QED BY <1>1, <1>2, <1>4, <2>3, <3>1 DEF DnsGood
  <2>4. QED BY <2>1, <2>2, <2>3
<1>5. QED BY <1>3, <1>4

\* What a lookup of m may return.
DnsRightFor(m, ip) ==
    \E n \in DnsNames : /\ IsPrefix(m, n) /\ ip \in ToSet(DnsRecords[n])
                        /\ ip \in DnsLocal \/ ToSet(DnsRecords[n]) \cap DnsLocal = {}
\* The addresses begin at field b, behind x other records: after k of them.
DnsSeenAt(f, x, b, match, r, k) ==
    \E i : f[x + k] = [at |-> b + 6 * k, ip |-> i] /\ DnsGood(match, r, i, k)
LEMMA DnsGetaRight ==
    ASSUME NEW n \in DnsNames, NEW m, NEW ip, ip = dns_geta(m, dnspkt(n)), ip # 0
    PROVE  DnsRightFor(m, ip)
<1>1. PICK pkt : pkt = dnspkt(n) OBVIOUS
<1>2. PICK d, r : d = pkt.data /\ r = DnsRecords[n] OBVIOUS
<1>3. PICK x, b, p, o : /\ DnsPacketIs(n, d, x, b, p, o) /\ pkt.qucount = 1
                        /\ pkt.ancount = Len(r) + x
  BY <1>1, <1>2, DnsPacket
<1>4. n \in Seq(DnsValues) /\ r \in Seq(DnsValues) /\ \A i \in 1..Len(r) : r[i] # 0
  BY <1>2, DnsConstants
<1>5. PICK l \in Nat, c \in Nat : l = Len(n) /\ c = Len(r)
  <2>1. Len(n) \in Nat BY <1>4
  <2>2. Len(r) \in Nat BY <1>4
  <2>3. QED BY <2>1, <2>2
<1>6. /\ d \in Seq(DnsFields) /\ DnsNamed(d) /\ DnsHasName(d, 1, n)
      /\ x \in {0, 1} /\ p \in Nat \ {0} /\ o \in DnsNames /\ DnsRecords[o] = r /\ DnsHasName(d, p, o)
  BY <1>2, <1>3 DEF DnsPacketIs
<1>7. \A i \in 1..c : /\ DnsRecordAt(d, b + 6 * (i - 1), p, DNS_QT_A, 1)
                      /\ d[(b + 6 * (i - 1)) + 5].v = r[i]
  BY <1>2, <1>3, <1>5 DEF DnsPacketIs
<1>8. o \in Seq(DnsValues) BY <1>6, DnsConstants
<1>9. DnsFirst(pkt) = l + 4 BY <1>2, <1>3, <1>4, <1>5, <1>6, DnsFirstIs
<1>10. PICK match \in BOOLEAN : match = DnsMatches(m, o)
  BY DEF DnsMatches, IsPrefix
<1>11. PICK st : st = [at |-> DnsFirst(pkt), ip |-> 0] OBVIOUS
<1>12. PICK a \in Nat : a = pkt.ancount /\ a = c + x BY <1>3, <1>5, <1>6
<1>13. PICK f : f = CHOOSE g : DnsSeen(g, m, d, st, a) OBVIOUS
<1>14. DnsSeen(f, m, d, st, a) BY <1>13, DnsSeenBuilt
<1>15. dns_geta(m, pkt) = f[a].ip BY <1>2, <1>11, <1>12, <1>13 DEF dns_geta, DnsSeen
<1>16. f[0] = st /\ \A k \in Nat : k + 1 <= a => f[k + 1] = DnsAnswer(m, d, f[k])
  <2>1. f = [k \in 0..a |-> IF k = 0 THEN st ELSE DnsAnswer(m, d, f[k - 1])] BY <1>14 DEF DnsSeen
  <2>2. f[0] = st
    <3>1. 0 \in 0..a OBVIOUS
    <3>2. QED BY <2>1, <3>1
  <2>3. ASSUME NEW k \in Nat, k + 1 <= a PROVE f[k + 1] = DnsAnswer(m, d, f[k])
    <3>1. k + 1 \in 0..a /\ k + 1 # 0 /\ (k + 1) - 1 = k BY <2>3
    <3>2. f[k + 1] = DnsAnswer(m, d, f[(k + 1) - 1]) BY <2>1, <3>1
    <3>3. QED BY <3>1, <3>2
  <2>4. QED BY <2>2, <2>3
<1>17. b \in Nat /\ f[x] = [at |-> b, ip |-> 0]
  <2>1. CASE x = 0
    <3>1. b = l + 4 BY <1>3, <1>5, <2>1 DEF DnsPacketIs
    <3>2. QED BY <1>9, <1>11, <1>16, <2>1, <3>1
  <2>2. CASE x = 1
    <3>1. PICK len \in Nat : /\ DnsRecordAt(d, l + 4, 1, DNS_QT_CNAME, len)
                             /\ b = l + 4 + 5 + len
      BY <1>3, <1>5, <2>2 DEF DnsPacketIs
    <3>2. PICK e \in Nat : e = l + 4 OBVIOUS
    <3>3. f[0] = [at |-> e, ip |-> 0] BY <1>9, <1>11, <1>16, <3>2
    <3>4. DnsRecordAt(d, e, 1, DNS_QT_CNAME, len) BY <3>1, <3>2
    <3>5. DnsAnswer(m, d, f[0]) =
             [at |-> e + 5 + len,
              ip |-> IF DnsMatches(m, n) /\ DNS_QT_CNAME = DNS_QT_A
                     THEN DnsBetter(0, d[e + 5].v) ELSE 0]
      BY <1>4, <1>6, <3>3, <3>4, DnsAnswerIs
    <3>6. DNS_QT_CNAME # DNS_QT_A BY DnsAssumption
    <3>7. 0 + 1 <= a /\ 0 \in Nat /\ 0 + 1 = 1 BY <1>12, <2>2
    <3>8. f[1] = DnsAnswer(m, d, f[0]) BY <1>16, <3>7
    <3>9. e + 5 + len = b /\ b \in Nat BY <3>1, <3>2
    <3>10. QED BY <2>2, <3>5, <3>6, <3>8, <3>9
  <2>3. QED BY <1>6, <2>1, <2>2
<1> DEFINE Is(k) == DnsSeenAt(f, x, b, match, r, k)
           T == {k \in Nat : k <= c => Is(k)}
<1>18. 0 \in T
  <2>1. x + 0 = x /\ b + 6 * 0 = b BY <1>6, <1>17
  <2>2. f[x + 0] = [at |-> b + 6 * 0, ip |-> 0] BY <1>17, <2>1
  <2>3. DnsGood(match, r, 0, 0) BY DEF DnsGood
  <2>4. Is(0) BY <2>2, <2>3 DEF DnsSeenAt
  <2>5. QED BY <2>4
<1>19. ASSUME NEW k \in Nat, k \in T PROVE k + 1 \in T
  <2>1. SUFFICES ASSUME k + 1 <= c PROVE Is(k + 1)
    <3>1. k + 1 \in Nat OBVIOUS
    <3>2. QED BY <3>1, Zenon
  <2>2. k <= c BY <1>5, <2>1
  <2>3. PICK i : f[x + k] = [at |-> b + 6 * k, ip |-> i] /\ DnsGood(match, r, i, k)
    <3>1. Is(k) BY <1>19, <2>2, Zenon
    <3>2. QED BY <3>1 DEF DnsSeenAt
  <2>4. PICK e \in Nat : e = b + 6 * k BY <1>17
  <2>5. k + 1 \in 1..c /\ b + 6 * ((k + 1) - 1) = e BY <1>5, <1>17, <2>1, <2>4
  <2>6. DnsRecordAt(d, e, p, DNS_QT_A, 1) /\ d[e + 5].v = r[k + 1] BY <1>7, <2>5
  <2>7. PICK s : s = f[x + k] OBVIOUS
  <2>8. s = [at |-> e, ip |-> i] BY <2>3, <2>4, <2>7
  <2>9. DnsAnswer(m, d, s) =
           [at |-> e + 5 + 1,
            ip |-> IF DnsMatches(m, o) /\ DNS_QT_A = DNS_QT_A THEN DnsBetter(i, d[e + 5].v) ELSE i]
    BY <1>6, <1>8, <2>6, <2>8, DnsAnswerIs
  <2>10. PICK y : y = IF match THEN DnsBetter(i, r[k + 1]) ELSE i OBVIOUS
  <2>11. e + 5 + 1 = b + 6 * (k + 1) BY <1>17, <2>4
  <2>12. DnsAnswer(m, d, s) = [at |-> b + 6 * (k + 1), ip |-> y] BY <1>10, <2>6, <2>9, <2>10, <2>11
  <2>13. x + k \in Nat /\ (x + k) + 1 <= a /\ (x + k) + 1 = x + (k + 1) BY <1>6, <1>12, <2>1
  <2>14. f[x + (k + 1)] = DnsAnswer(m, d, s) BY <1>16, <2>7, <2>13
  <2>15. r[k + 1] # 0 BY <1>4, <1>5, <2>5
  <2>16. DnsGood(match, r, y, k + 1) BY <2>3, <2>10, <2>15, DnsStillGood
  <2>17. QED BY <2>12, <2>14, <2>16 DEF DnsSeenAt
<1>20. \A k \in Nat : k \in T
  <2> HIDE DEF T
  <2>1. QED BY <1>18, <1>19, Induction, Zenon
<1>21. PICK i : f[x + c] = [at |-> b + 6 * c, ip |-> i] /\ DnsGood(match, r, i, c)
  <2>1. c <= c BY <1>5
  <2>2. c \in T BY <1>5, <1>20, Zenon
  <2>3. Is(c) BY <2>1, <2>2, Zenon
  <2>4. QED BY <2>3 DEF DnsSeenAt
<1>22. ip = i
  <2>1. x + c = a BY <1>6, <1>12
  <2>2. f[a].ip = i BY <1>21, <2>1
  <2>3. QED BY <1>1, <1>15, <2>2
<1>23. match /\ (\E j \in 1..c : ip = r[j]) /\ (ip \in DnsLocal \/ \A j \in 1..c : r[j] \notin DnsLocal)
  BY <1>21, <1>22 DEF DnsGood
<1>24. ToSet(r) = {r[j] : j \in 1..c}
  <2>1. DOMAIN r = 1..c BY <1>4, <1>5
  <2>2. QED BY <2>1 DEF ToSet
<1>25. ip \in ToSet(r) /\ (ip \in DnsLocal \/ ToSet(r) \cap DnsLocal = {}) BY <1>23, <1>24
<1>26. IsPrefix(m, o) BY <1>10, <1>23 DEF DnsMatches
<1>27. QED BY <1>6, <1>25, <1>26 DEF DnsRightFor

\* The inductive invariant: the packets under way are answers for names, and
\* what a call returned is right for its name.
DnsInv ==
    /\ dnsnet \subseteq {dnspkt(n) : n \in DnsNames}
    /\ dnscli = [at |-> dnscli.at, name |-> dnscli.name, i |-> dnscli.i,
                 addr |-> dnscli.addr, ret |-> dnscli.ret]
    /\ dnscli.at \in {"idle", "recv"} /\ (dnscli.at = "recv" => dnscli.name \in DnsNames /\ dnscli.ret = "none")
    /\ dnscli.ret = "OK" => DnsRightFor(dnscli.name, dnscli.addr)
    /\ dnscli.at = "idle" /\ dnsslot => dnscli.ret = "too long"

LEMMA DnsAgainOK ==
    ASSUME DnsInv, dnscli.at = "recv", DnsAgain PROVE DnsInv'
<1>1. dnscli.name \in DnsNames /\ dnscli.ret = "none" BY DEF DnsInv
<1>2. PICK c : c = [dnscli EXCEPT !.i = @ + 1] OBVIOUS
<1>3. c.at = "recv" /\ c.name = dnscli.name /\ c.ret = "none" /\ c.addr = dnscli.addr
      /\ c = [at |-> c.at, name |-> c.name, i |-> c.i, addr |-> c.addr, ret |-> c.ret]
  BY <1>1, <1>2 DEF DnsInv
<1>4. CASE dnscli' = c /\ DnsSend(c.name) /\ UNCHANGED dnsslot
  <2>1. dnsnet' \subseteq {dnspkt(n) : n \in DnsNames} BY <1>1, <1>3, <1>4 DEF DnsInv, DnsSend
  <2>2. QED BY <1>1, <1>3, <1>4, <2>1 DEF DnsInv
<1>5. CASE dnscli' = [c EXCEPT !.at = "idle", !.ret = "SYSERR"] /\ dnsslot' = FALSE /\ UNCHANGED dnsnet
  <2>1. dnscli' = [at |-> "idle", name |-> c.name, i |-> c.i, addr |-> c.addr, ret |-> "SYSERR"]
    BY <1>3, <1>5
  <2>2. QED BY <1>5, <2>1 DEF DnsInv
<1>6. QED BY <1>2, <1>4, <1>5 DEF DnsAgain

LEMMA DnsStep == DnsInv /\ [DnsNext]_dnsvars => DnsInv'
<1>1. SUFFICES ASSUME DnsInv, [DnsNext]_dnsvars PROVE DnsInv' OBVIOUS
<1>2. ASSUME NEW name \in DnsNames, dnslookup(name) PROVE DnsInv'
  <2>1. dnscli.at = "idle" /\ dnsslot' = TRUE BY <1>2 DEF dnslookup
  <2>2. CASE dnscli' = [dnscli EXCEPT !.name = name, !.ret = "too long"] /\ UNCHANGED dnsnet
    <3>1. dnscli' = [at |-> "idle", name |-> name, i |-> dnscli.i, addr |-> dnscli.addr,
                     ret |-> "too long"]
      BY <1>1, <2>1, <2>2 DEF DnsInv
    <3>2. /\ dnscli'.at = "idle" /\ dnscli'.name = name /\ dnscli'.i = dnscli.i
          /\ dnscli'.addr = dnscli.addr /\ dnscli'.ret = "too long"
      BY <3>1
    <3>3. dnsnet' = dnsnet BY <2>2
    <3>4. dnsnet' \subseteq {dnspkt(n) : n \in DnsNames} BY <1>1, <3>3 DEF DnsInv
    <3>5. QED BY <3>1, <3>2, <3>4 DEF DnsInv
  <2>3. CASE /\ dnscli' = [at |-> "recv", name |-> name, i |-> 0, addr |-> 0, ret |-> "none"]
             /\ DnsSend(name)
    <3>1. dnsnet' \subseteq {dnspkt(n) : n \in DnsNames} BY <1>1, <2>3 DEF DnsInv, DnsSend
    <3>2. QED BY <2>3, <3>1 DEF DnsInv
  <2>4. QED BY <1>2, <2>2, <2>3 DEF dnslookup
<1>3. CASE DnsTimeout BY <1>1, <1>3, DnsAgainOK DEF DnsTimeout
<1>4. ASSUME NEW pkt \in dnsnet, DnsReceive(pkt) PROVE DnsInv'
  <2>1. PICK ip : ip = dns_geta(dnscli.name, pkt) OBVIOUS
  <2>2. dnscli.at = "recv" BY <1>4 DEF DnsReceive
  <2>3. CASE DnsAgain BY <1>1, <2>2, <2>3, DnsAgainOK
  <2>4. CASE /\ ip # 0 /\ dnscli' = [dnscli EXCEPT !.at = "idle", !.addr = ip, !.ret = "OK"]
             /\ dnsslot' = FALSE /\ UNCHANGED dnsnet
    <3>1. PICK n \in DnsNames : pkt = dnspkt(n) BY <1>1, <1>4 DEF DnsInv
    <3>2. DnsRightFor(dnscli.name, ip) BY <2>1, <2>4, <3>1, DnsGetaRight
    <3>3. dnscli' = [at |-> "idle", name |-> dnscli.name, i |-> dnscli.i, addr |-> ip, ret |-> "OK"]
      BY <1>1, <2>4 DEF DnsInv
    <3>4. QED BY <1>1, <2>4, <3>2, <3>3 DEF DnsInv
  <2>5. QED BY <1>4, <2>1, <2>3, <2>4 DEF DnsReceive
<1>5. CASE UNCHANGED dnsvars BY <1>1, <1>5 DEF DnsInv, dnsvars
<1>6. QED BY <1>1, <1>2, <1>3, <1>4, <1>5 DEF DnsNext

\* dnslookup: whatever answers are lost, repeated or late, also those to other
\* lookups, the address returned is one of a name that begins with the name
\* asked for, and local if that name has a local one; and the UDP slot is kept
\* after the call only if the name was too long.
THEOREM LookupsAreRight == DnsSpec => []DnsRightAnswer
<1>1. dnsinit => DnsInv
  BY DEF dnsinit, DnsInv
<1>2. DnsInv => DnsRightAnswer
  BY DEF DnsInv, DnsRightAnswer, DnsRightFor
<1>3. QED BY <1>1, <1>2, DnsStep, PTL DEF DnsSpec

-----------------------------------------------------------------------------
\* The remote disk.  The request queue q holds the requests S in order and F are its
\* free nodes.
RdLinked(q, S) ==
    /\ S \in Seq(RdNodes) /\ \A i, j \in 1..Len(S) : S[i] = S[j] => i = j
    /\ q.head = IF S = << >> THEN NULL ELSE S[1]
    /\ q.tail = IF S = << >> THEN NULL ELSE S[Len(S)]
    /\ \A i \in 1..Len(S) : q.node[S[i]].next = IF i = Len(S) THEN NULL ELSE S[i + 1]
    /\ \A i \in 2..Len(S) : q.node[S[i]].prev = S[i - 1]
RdFreed(q, S, F) ==
    /\ F \in Seq(RdNodes) /\ \A i, j \in 1..Len(F) : F[i] = F[j] => i = j
    /\ q.free = IF F = << >> THEN NULL ELSE F[1]
    /\ \A i \in 1..Len(F) : q.node[F[i]].next = IF i = Len(F) THEN NULL ELSE F[i + 1]
    /\ \A n \in RdNodes : (\E i \in 1..Len(F) : F[i] = n) <=> ~\E i \in 1..Len(S) : S[i] = n
\* g is what the callers do: a node has the request of one that is suspended, its block, and its value if it
\* is a write.
RdRequest(e, g) ==
    /\ e.pid \in RdProcs /\ g[e.pid].at = "suspended"
    /\ e.blk = g[e.pid].blk /\ e.val = g[e.pid].val
    /\ e.op = IF e.val = 0 THEN "read" ELSE "write"
\* The requests S are one for each of the processes C.
RdRequests(q, S, C, g) ==
    /\ \A i \in 1..Len(S) : RdRequest(q.node[S[i]], g) /\ q.node[S[i]].pid \in C
    /\ \A i, j \in 1..Len(S) : q.node[S[i]].pid = q.node[S[j]].pid => i = j
    /\ \A p \in C : \E i \in 1..Len(S) : q.node[S[i]].pid = p
RdSuspended == {p \in RdProcs : rdproc[p].at = "suspended"}
\* Who goes back from the tail comes to no others than the nodes B, and before them to all of
\* the queue: its head keeps its link to the node that was the head before it.  A node of B that is
\* free and held a write had it of the block that the head, too, is a request to write.
RdBehind(q, S, B) ==
    /\ B \subseteq RdNodes /\ \A i \in 1..Len(S) : S[i] \in B
    /\ \A n \in B : q.node[n].prev \in B \cup {NULL}
RdLeft(S, B) == {n \in B : ~\E i \in 1..Len(S) : S[i] = n}
RdCovered(q, S, n) ==
    q.node[n].op = "write" =>
        S # << >> /\ q.node[S[1]].op = "write" /\ q.node[S[1]].blk = q.node[n].blk
RdSearchable(q, S) ==
    \E B : RdBehind(q, S, B) /\ \A n \in RdLeft(S, B) : RdCovered(q, S, n)
\* The communication process, if it reads, does so for the first request.
RdComReads == rdcom.at # "idle" /\ rdcom.op = "read"
RdComHas(S) ==
    /\ IF RdComReads
       THEN /\ S # << >> /\ rdcom.node = S[1]
            /\ rdnode[S[1]].op = "read" /\ rdnode[S[1]].blk = rdcom.blk
       ELSE rdcom.node = NULL
    /\ rdsem + (IF RdComReads THEN 1 ELSE 0) >= Len(S)
RdHolds(S, F) ==
    /\ RdLinked(RdQ, S) /\ RdFreed(RdQ, S, F) /\ RdRequests(RdQ, S, RdSuspended, rdproc) /\ RdComHas(S)
    /\ RdSearchable(RdQ, S)

\* Types.
RdBlock == RdBlocks \cup {RdNode.blk}
RdNodeSet == [op : {"none", "read", "write", "sync"}, blk : RdBlock, val : Nat,
              pid : RdProcs \cup {"none"}, next : 0..RD_QNODES, prev : 0..RD_QNODES]
RdProcSet == [at : {"idle", "suspended"}, blk : RdBlock, val : Nat,
              may : SUBSET Nat, older : SUBSET Nat]
RdComSet == [at : {"idle", "send", "receive"}, op : {"none", "read", "write"}, blk : RdBlock, val : Nat,
             seq : Nat, tries : Nat, xmit : BOOLEAN, node : 0..RD_QNODES]
RdMessage == [op : {"read", "write"}, blk : RdBlocks, val : Nat, seq : Nat]
RdAnswer == [op : {"read", "write"}, seq : Nat, val : Nat]
RdBudget == [reads : Nat, writes : 0..RdWrites, syncs : Nat, asked : SUBSET RdBlocks, given : SUBSET RdBlocks]
RdTyped ==
    /\ rdnode \in [RdNodes -> RdNodeSet] /\ rdsem \in Nat
    /\ rdproc \in [RdProcs -> RdProcSet] /\ rdcom \in RdComSet /\ rdbudget \in RdBudget
    /\ rdseq \in Nat /\ rdreq \subseteq RdMessage /\ rdrep \subseteq RdAnswer
    /\ rddisk \in [RdBlocks -> Nat] /\ rdcache \in Seq([blk : RdBlocks, val : Nat])
    /\ rdlive \in [RdBlocks -> SUBSET [val : Nat, done : BOOLEAN]]

\* Values.  Those written so far are 1 to RdGiven; a caller with a value writes it.
RdGiven == RdWrites - rdbudget.writes
RdWriting(p) == rdproc[p].val # 0
RdCaller(p) ==
    /\ rdproc[p].at # "idle" => rdproc[p].blk \in RdBlocks
    /\ RdWriting(p) => /\ rdproc[p].at = "suspended"
                       /\ [val |-> rdproc[p].val, done |-> FALSE] \in rdlive[rdproc[p].blk]
    /\ rdproc[p].at # "idle" /\ ~RdWriting(p) => RdLive(rdproc[p].blk) \subseteq rdproc[p].may
RdCallers == \A p \in RdProcs : RdCaller(p)
RdNumbered ==
    /\ \A p \in RdProcs : rdproc[p].val <= RdGiven /\ \A v \in rdproc[p].older : v <= RdGiven
    /\ \A b \in RdBlocks : \A x \in rdlive[b] : x.val <= RdGiven
    /\ \A p, q \in RdProcs : RdWriting(p) => /\ rdproc[p].val \notin rdproc[q].older
                                             /\ rdproc[p].val = rdproc[q].val => p = q
    /\ \A p \in RdProcs, b \in RdBlocks : RdWriting(p) => [val |-> rdproc[p].val, done |-> TRUE] \notin rdlive[b]
\* A cached copy is of a block that nobody writes, and current.
RdCurrent(c) == c.val \in RdLive(c.blk) /\ \A p \in RdProcs : RdWriting(p) => rdproc[p].blk # c.blk
RdCopies ==
    /\ \A i \in 1..Len(rdcache) : RdCurrent(rdcache[i])
    /\ \A i, j \in 1..Len(rdcache) : rdcache[i].blk = rdcache[j].blk => i = j
\* The server's blocks that are not in doubt are current, but for one that is being sent to it.
RdComWrites(b) == rdcom.at # "idle" /\ rdcom.op = "write" /\ rdcom.blk = b
RdOnDisk ==
    \A b \in RdBlocks : IF RdComWrites(b) THEN rdcom.val \in RdLive(b)
                        ELSE b \notin rddoubt => rddisk[b] \in RdLive(b)
RdCarried ==
    /\ rdcom.at # "idle" => /\ rdcom.blk \in RdBlocks /\ rdcom.seq < rdseq /\ rdcom.op # "none"
    /\ \A m \in rdreq : /\ m.seq < rdseq
                        /\ rdcom.at # "idle" /\ m.seq = rdcom.seq =>
                              m.op = rdcom.op /\ m.blk = rdcom.blk /\ m.val = rdcom.val
    /\ \A r \in rdrep : /\ r.seq < rdseq
                        /\ rdcom.at # "idle" /\ r.seq = rdcom.seq =>
                              /\ r.op = rdcom.op
                              /\ rdcom.blk \notin rddoubt =>
                                    IF r.op = "read" THEN r.val \in RdLive(rdcom.blk)
                                                     ELSE rddisk[rdcom.blk] = rdcom.val
RdValues == RdCallers /\ RdNumbered /\ RdCopies
RdTransfer == RdOnDisk /\ RdCarried
RdQueued == \E S, F : RdHolds(S, F)
RdGood == RdTyped /\ RdQueued /\ RdValues /\ RdTransfer /\ "stale read" \notin rdfault
RdInv == RdSound => RdGood

-----------------------------------------------------------------------------
LEMMA RdCounts ==
    /\ RD_QNODES \in Nat /\ RD_CNODES \in Nat /\ RdWrites \in Nat /\ RdNodes = 1..RD_QNODES
    /\ IsFiniteSet(RdNodes) /\ Cardinality(RdNodes) = RD_QNODES /\ NULL = 0
<1>1. RD_QNODES \in Nat /\ RD_CNODES \in Nat /\ RdWrites \in Nat BY RdAssumption
<1>2. IsFiniteSet(1..RD_QNODES) /\ Cardinality(1..RD_QNODES) = RD_QNODES
  <2>1. Cardinality(1..RD_QNODES) = IF 1 > RD_QNODES THEN 0 ELSE RD_QNODES - 1 + 1
    BY <1>1, FS_Interval
  <2>2. IsFiniteSet(1..RD_QNODES) BY <1>1, FS_Interval
  <2>3. QED BY <1>1, <2>1, <2>2
<1>3. QED BY <1>1, <1>2 DEF RdNodes, NULL

\* No node is in a sequence twice, so that it is no longer than there are nodes.
LEMMA RdFits ==
    ASSUME NEW S \in Seq(RdNodes), \A i, j \in 1..Len(S) : S[i] = S[j] => i = j
    PROVE  Len(S) \in Nat /\ Len(S) <= RD_QNODES
<1>1. PICK l \in Nat : l = Len(S) OBVIOUS
<1>2. S \in [1..l -> RdNodes] BY <1>1
<1>3. S \in Injection(1..l, RdNodes) BY <1>1, <1>2 DEF Injection, IsInjective
<1>4. Cardinality(1..l) <= Cardinality(RdNodes) BY <1>3, RdCounts, FS_Injection
<1>5. Cardinality(1..l) = l
  <2>1. Cardinality(1..l) = IF 1 > l THEN 0 ELSE l - 1 + 1 BY FS_Interval
  <2>2. QED BY <2>1
<1>6. QED BY <1>1, <1>4, <1>5, RdCounts

\* There are as many requests as callers that are suspended,
LEMMA RdOneEach ==
    ASSUME NEW q, NEW S \in Seq(RdNodes), NEW C, NEW g, RdRequests(q, S, C, g)
    PROVE  IsFiniteSet(C) /\ Cardinality(C) = Len(S)
<1>1. PICK l \in Nat : l = Len(S) OBVIOUS
<1>2. PICK f : f = [i \in 1..l |-> q.node[S[i]].pid] OBVIOUS
<1>3. f \in [1..l -> C] /\ (\A i, j \in 1..l : f[i] = f[j] => i = j) /\ \A p \in C : \E i \in 1..l : f[i] = p
  BY <1>1, <1>2 DEF RdRequests
<1>4. f \in Bijection(1..l, C) BY <1>3 DEF Bijection, Injection, IsInjective, Surjection
<1>5. ExistsBijection(1..l, C) BY <1>4 DEF ExistsBijection
<1>6. IsFiniteSet(1..l) /\ Cardinality(1..l) = l
  <2>1. Cardinality(1..l) = IF 1 > l THEN 0 ELSE l - 1 + 1 BY FS_Interval
  <2>2. IsFiniteSet(1..l) BY FS_Interval
  <2>3. QED BY <2>1, <2>2
<1>7. QED BY <1>1, <1>5, <1>6, FS_Bijection

\* so that a node is free for one that is not.
LEMMA RdHasFree ==
    ASSUME NEW q, NEW S \in Seq(RdNodes), NEW F, NEW C \in SUBSET RdProcs, NEW g, RdRequests(q, S, C, g), RdFreed(q, S, F),
           NEW p \in RdProcs, p \notin C
    PROVE  F # << >>
<1>1. SUFFICES ASSUME F = << >> PROVE FALSE OBVIOUS
<1>2. PICK l \in Nat : l = Len(S) OBVIOUS
<1>3. IsFiniteSet(C) /\ Cardinality(C) = l BY <1>2, RdOneEach
<1>4. S \in Surjection(1..l, RdNodes)
  <2>1. \A n \in RdNodes : \E i \in 1..l : S[i] = n
    <3>1. Len(F) = 0 BY <1>1
    <3>2. ~\E i \in 1..Len(F) : TRUE BY <3>1
    <3>3. QED BY <1>2, <3>2 DEF RdFreed
  <2>2. S \in [1..l -> RdNodes] BY <1>2
  <2>3. QED BY <2>1, <2>2 DEF Surjection
<1>5. IsFiniteSet(1..l) /\ Cardinality(1..l) = l
  <2>1. Cardinality(1..l) = IF 1 > l THEN 0 ELSE l - 1 + 1 BY FS_Interval
  <2>2. IsFiniteSet(1..l) BY FS_Interval
  <2>3. QED BY <2>1, <2>2
<1>6. RD_QNODES <= l BY <1>4, <1>5, RdCounts, FS_Surjection
<1>7. IsFiniteSet(RdProcs) /\ Cardinality(RdProcs) <= RD_QNODES BY RdAssumption
<1>8. Cardinality(RdProcs) \in Nat BY <1>7, FS_CardinalityType
<1>9. Cardinality(C) <= Cardinality(RdProcs) /\ (Cardinality(C) = Cardinality(RdProcs) => C = RdProcs)
  BY <1>7, FS_Subset
<1>10. Cardinality(C) = Cardinality(RdProcs) BY <1>3, <1>6, <1>7, <1>8, <1>9, RdCounts
<1>11. QED BY <1>9, <1>10

\* The function that follows links.
RdWalkTo(f, link, n, N) ==
    f = [i \in 0..N |-> IF i = 0 THEN n ELSE IF f[i - 1] = NULL THEN NULL ELSE link[f[i - 1]]]
LEMMA RdWalkBuilt == ASSUME NEW link, NEW n PROVE \A N \in Nat : \E f : RdWalkTo(f, link, n, N)
<1> DEFINE T == {N \in Nat : \E f : RdWalkTo(f, link, n, N)}
           St(v) == IF v = NULL THEN NULL ELSE link[v]
<1>1. 0 \in T
  <2>1. PICK f : f = [i \in 0..0 |-> n] OBVIOUS
  <2>2. f = [i \in 0..0 |-> IF i = 0 THEN n ELSE St(f[i - 1])] BY <2>1
  <2>3. RdWalkTo(f, link, n, 0) BY <2>2 DEF RdWalkTo
  <2>4. QED BY <2>3
<1>2. ASSUME NEW N \in Nat, N \in T PROVE N + 1 \in T
  <2>1. PICK f : RdWalkTo(f, link, n, N) BY <1>2
  <2>2. f = [i \in 0..N |-> IF i = 0 THEN n ELSE St(f[i - 1])] BY <2>1 DEF RdWalkTo
  <2>3. PICK y : y = St(f[N]) OBVIOUS
  <2>4. PICK g : g = [i \in 0..(N + 1) |-> IF i = N + 1 THEN y ELSE f[i]] OBVIOUS
  <2>5. \A i \in 0..(N + 1) : g[i] = IF i = 0 THEN n ELSE St(g[i - 1])
    <3> TAKE i \in 0..(N + 1)
    <3> HIDE DEF St
    <3>1. CASE i = N + 1
      <4>1. g[i] = y /\ i # 0 /\ i - 1 = N BY <2>4, <3>1
      <4>2. g[N] = f[N] BY <2>4
      <4>3. QED BY <2>3, <4>1, <4>2
    <3>2. CASE i # N + 1
      <4>1. i \in 0..N /\ g[i] = f[i] BY <2>4, <3>2
      <4>2. f[i] = IF i = 0 THEN n ELSE St(f[i - 1]) BY <2>2, <4>1
      <4>3. i # 0 => i - 1 \in 0..(N + 1) /\ i - 1 # N + 1 BY <4>1
      <4>4. i # 0 => g[i - 1] = f[i - 1] BY <2>4, <4>3
      <4>5. QED BY <4>1, <4>2, <4>4
    <3>3. QED BY <3>1, <3>2
  <2>6. g = [i \in 0..(N + 1) |-> IF i = 0 THEN n ELSE St(g[i - 1])]
    <3> HIDE DEF St
    <3>1. QED BY <2>4, <2>5
  <2>7. RdWalkTo(g, link, n, N + 1) BY <2>6 DEF RdWalkTo
  <2>8. QED BY <2>7
<1>3. \A N \in Nat : N \in T
  <2> HIDE DEF T
  <2>1. QED BY <1>1, <1>2, Induction, Zenon
<1>4. QED BY <1>3

\* A walk is at its places, one after the other, until it ends.
RdWalks(w, f, link, n) ==
    /\ w = [i \in {j \in 1..(RD_QNODES + 1) : f[j - 1] # NULL} |-> f[i - 1]]
    /\ f[0] = n
    /\ \A i \in Nat : i + 1 <= RD_QNODES => f[i + 1] = IF f[i] = NULL THEN NULL ELSE link[f[i]]
LEMMA RdWalkIsWalk ==
    ASSUME NEW link, NEW n PROVE \E f : RdWalks(RdWalk(link, n), f, link, n)
<1>1. PICK N \in Nat : N = RD_QNODES BY RdCounts
<1>2. PICK f : f = CHOOSE g : RdWalkTo(g, link, n, N) OBVIOUS
<1>3. RdWalkTo(f, link, n, N) BY <1>2, RdWalkBuilt
<1>4. RdWalk(link, n) = [i \in {j \in 1..(RD_QNODES + 1) : f[j - 1] # NULL} |-> f[i - 1]]
  BY <1>1, <1>2 DEF RdWalk, RdWalkTo
<1>5. f = [i \in 0..N |-> IF i = 0 THEN n ELSE IF f[i - 1] = NULL THEN NULL ELSE link[f[i - 1]]]
  BY <1>3 DEF RdWalkTo
<1>6. f[0] = n
  <2>1. 0 \in 0..N OBVIOUS
  <2>2. QED BY <1>5, <2>1
<1>7. ASSUME NEW i \in Nat, i + 1 <= N PROVE f[i + 1] = IF f[i] = NULL THEN NULL ELSE link[f[i]]
  <2>1. i + 1 \in 0..N /\ i + 1 # 0 /\ (i + 1) - 1 = i BY <1>7
  <2>2. f[i + 1] = IF f[(i + 1) - 1] = NULL THEN NULL ELSE link[f[(i + 1) - 1]] BY <1>5, <2>1
  <2>3. QED BY <2>1, <2>2
<1>8. QED BY <1>1, <1>4, <1>6, <1>7 DEF RdWalks

LEMMA RdWalkNodes ==
    ASSUME NEW link \in [RdNodes -> 0..RD_QNODES], NEW n \in 0..RD_QNODES,
           NEW i \in DOMAIN RdWalk(link, n)
    PROVE  RdWalk(link, n)[i] \in RdNodes
<1>1. PICK N \in Nat : N = RD_QNODES BY RdCounts
<1>2. PICK w, f : w = RdWalk(link, n) /\ RdWalks(w, f, link, n) BY RdWalkIsWalk
<1> DEFINE T == {k \in Nat : k <= N => f[k] \in 0..N}
<1>3. 0 \in T
  <2>1. f[0] \in 0..N BY <1>1, <1>2 DEF RdWalks
  <2>2. QED BY <2>1
<1>4. ASSUME NEW k \in Nat, k \in T PROVE k + 1 \in T
  <2>1. CASE k + 1 <= N
    <3>1. f[k] \in 0..N BY <1>4, <2>1
    <3>2. f[k + 1] = IF f[k] = NULL THEN NULL ELSE link[f[k]] BY <1>1, <1>2, <2>1 DEF RdWalks
    <3>3. NULL = 0 /\ RdNodes = 1..N BY <1>1, RdCounts
    <3>4. f[k] = 0 => f[k + 1] = 0 BY <3>2, <3>3
    <3>5. f[k] # 0 => f[k] \in RdNodes BY <3>1, <3>3
    <3>6. f[k] # 0 => f[k + 1] \in 0..N BY <1>1, <3>2, <3>3, <3>5
    <3>7. f[k + 1] \in 0..N BY <3>4, <3>6
    <3>8. QED BY <3>7
  <2>2. CASE ~(k + 1 <= N) BY <2>2
  <2>3. QED BY <2>1, <2>2
<1>5. \A k \in Nat : k \in T
  <2> HIDE DEF T
  <2>1. QED BY <1>3, <1>4, Induction, Zenon
<1>6. DOMAIN w = {j \in 1..(N + 1) : f[j - 1] # NULL} /\ w[i] = f[i - 1] BY <1>1, <1>2 DEF RdWalks
<1>7. i \in 1..(N + 1) /\ f[i - 1] # NULL BY <1>2, <1>6
<1>8. i - 1 \in Nat /\ i - 1 <= N BY <1>7
<1>9. f[i - 1] \in 0..N BY <1>5, <1>8
<1>10. w[i] \in 1..N BY <1>6, <1>7, <1>9, RdCounts
<1>11. QED BY <1>1, <1>2, <1>10, RdCounts

\* A walk along nodes that are linked in a list is that list.
RdPath(link, n, S) ==
    /\ S \in Seq(RdNodes) /\ \A i, j \in 1..Len(S) : S[i] = S[j] => i = j
    /\ n = IF S = << >> THEN NULL ELSE S[1]
    /\ \A i \in 1..Len(S) : link[S[i]] = IF i = Len(S) THEN NULL ELSE S[i + 1]
LEMMA RdWalkIs == ASSUME NEW link, NEW S, NEW n, RdPath(link, n, S) PROVE RdWalk(link, n) = S
<1> SUFFICES ASSUME S \in Seq(RdNodes), \A i, j \in 1..Len(S) : S[i] = S[j] => i = j,
                    n = (IF S = << >> THEN NULL ELSE S[1]),
                    \A i \in 1..Len(S) : link[S[i]] = IF i = Len(S) THEN NULL ELSE S[i + 1]
             PROVE  RdWalk(link, n) = S
  BY DEF RdPath
<1>1. PICK N \in Nat : N = RD_QNODES BY RdCounts
<1>2. PICK l \in Nat : l = Len(S) /\ l <= N BY <1>1, RdFits
<1>3. PICK w, f : w = RdWalk(link, n) /\ RdWalks(w, f, link, n) BY RdWalkIsWalk
<1>4. \A i \in 1..l : S[i] \in RdNodes /\ S[i] # NULL BY <1>2, RdCounts
<1>5. l = 0 <=> S = << >> BY <1>2
<1> DEFINE T == {k \in Nat : k <= N => f[k] = IF k < l THEN S[k + 1] ELSE NULL}
<1>6. 0 \in T
  <2>1. f[0] = n BY <1>3 DEF RdWalks
  <2>2. n = IF 0 < l THEN S[0 + 1] ELSE NULL BY <1>2, <1>5
  <2>3. QED BY <2>1, <2>2
<1>7. ASSUME NEW k \in Nat, k \in T PROVE k + 1 \in T
  <2>1. CASE k + 1 <= N
    <3>1. f[k] = IF k < l THEN S[k + 1] ELSE NULL BY <1>7, <2>1
    <3>2. f[k + 1] = IF f[k] = NULL THEN NULL ELSE link[f[k]] BY <1>1, <1>3, <2>1 DEF RdWalks
    <3>3. CASE k < l
      <4>1. k + 1 \in 1..l BY <3>3
      <4>2. PICK m : m = k + 1 OBVIOUS
      <4>3. link[S[m]] = IF m = l THEN NULL ELSE S[m + 1] BY <1>2, <4>1, <4>2
      <4>4. f[m] = link[S[m]] BY <1>4, <3>1, <3>2, <3>3, <4>1, <4>2
      <4>5. m < l <=> m # l BY <4>1, <4>2
      <4>6. f[m] = IF m < l THEN S[m + 1] ELSE NULL BY <4>3, <4>4, <4>5
      <4>7. QED BY <4>2, <4>6
    <3>4. CASE ~(k < l)
      <4>1. f[k + 1] = NULL /\ ~(k + 1 < l) BY <3>1, <3>2, <3>4
      <4>2. QED BY <4>1
    <3>5. QED BY <3>3, <3>4
  <2>2. CASE ~(k + 1 <= N) BY <2>2
  <2>3. QED BY <2>1, <2>2
<1>8. \A k \in Nat : k \in T
  <2> HIDE DEF T
  <2>1. QED BY <1>6, <1>7, Induction, Zenon
<1>9. ASSUME NEW j \in 1..(N + 1) PROVE f[j - 1] = IF j <= l THEN S[j] ELSE NULL
  <2>1. PICK k \in Nat : k = j - 1 /\ k <= N /\ k + 1 = j BY <1>9
  <2>2. f[k] = IF k < l THEN S[k + 1] ELSE NULL BY <1>8, <2>1
  <2>3. QED BY <2>1, <2>2
<1>10. {j \in 1..(N + 1) : f[j - 1] # NULL} = 1..l
  <2>1. ASSUME NEW j \in 1..(N + 1), f[j - 1] # NULL PROVE j \in 1..l
    <3>1. f[j - 1] = IF j <= l THEN S[j] ELSE NULL BY <1>9
    <3>2. j <= l BY <2>1, <3>1
    <3>3. QED BY <3>2
  <2>2. ASSUME NEW j \in 1..l PROVE j \in 1..(N + 1) /\ f[j - 1] # NULL
    <3>1. j \in 1..(N + 1) /\ j <= l BY <1>2
    <3>2. QED BY <1>4, <1>9, <3>1
  <2>3. QED BY <2>1, <2>2
<1>11. w = [i \in {j \in 1..(N + 1) : f[j - 1] # NULL} |-> f[i - 1]] BY <1>1, <1>3 DEF RdWalks
<1>12. w = [i \in 1..l |-> f[i - 1]] BY <1>10, <1>11
<1>13. \A i \in 1..l : f[i - 1] = S[i]
  <2>1. \A i \in 1..l : i \in 1..(N + 1) /\ i <= l BY <1>2
  <2>2. QED BY <1>9, <2>1
<1>14. w = [i \in 1..l |-> S[i]] BY <1>12, <1>13
<1>15. S = [i \in 1..l |-> S[i]] BY <1>2
<1>16. QED BY <1>3, <1>14, <1>15

\* A node is entered behind the tail.
RdAppended(q, r, S, F, n) ==
    /\ S \in Seq(RdNodes) /\ F \in Seq(RdNodes) /\ RdLinked(q, S) /\ RdFreed(q, S, F)
    /\ F # << >> /\ n = q.free
    /\ r.free = q.node[n].next /\ r.tail = n /\ r.head = IF S = << >> THEN n ELSE q.head
    /\ r.node[n].next = NULL /\ (S # << >> => r.node[n].prev = q.tail)
    /\ S # << >> => r.node[q.tail].next = n /\ r.node[q.tail].prev = q.node[q.tail].prev
    /\ \A m \in RdNodes : m # n /\ (S # << >> => m # q.tail) => r.node[m] = q.node[m]
LEMMA RdAppends ==
    ASSUME NEW q, NEW r, NEW S, NEW F, NEW n, RdAppended(q, r, S, F, n)
    PROVE  RdLinked(r, Append(S, n)) /\ RdFreed(r, Append(S, n), Tail(F))
<1> SUFFICES ASSUME
        S \in Seq(RdNodes), F \in Seq(RdNodes), RdLinked(q, S), RdFreed(q, S, F), F # << >>, n = q.free,
        r.free = q.node[n].next, r.tail = n, r.head = (IF S = << >> THEN n ELSE q.head),
        r.node[n].next = NULL, S # << >> => r.node[n].prev = q.tail,
        S # << >> => r.node[q.tail].next = n /\ r.node[q.tail].prev = q.node[q.tail].prev,
        \A m \in RdNodes : m # n /\ (S # << >> => m # q.tail) => r.node[m] = q.node[m]
             PROVE  RdLinked(r, Append(S, n)) /\ RdFreed(r, Append(S, n), Tail(F))
  BY DEF RdAppended
<1>1. PICK l \in Nat, t \in Nat : l = Len(S) /\ t = Len(F)
  <2>1. Len(S) \in Nat /\ Len(F) \in Nat OBVIOUS
  <2>2. QED BY <2>1
<1>2. t > 0 /\ t \in 1..t /\ 1 \in 1..t BY <1>1
<1>3. n = F[1] /\ n \in RdNodes BY <1>1, <1>2 DEF RdFreed
<1>4. \A i \in 1..l : S[i] # n /\ S[i] \in RdNodes
  <2>1. \E i \in 1..Len(F) : F[i] = n BY <1>1, <1>2, <1>3
  <2>2. ~\E i \in 1..Len(S) : S[i] = n BY <1>3, <2>1 DEF RdFreed
  <2>3. QED BY <1>1, <2>2
<1>5. PICK u : u = Append(S, n) OBVIOUS
<1>6. /\ u \in Seq(RdNodes) /\ Len(u) = l + 1 /\ u[l + 1] = n /\ u # << >>
      /\ \A i \in 1..l : u[i] = S[i]
  BY <1>1, <1>3, <1>5
<1>7. l # 0 <=> S # << >> BY <1>1
<1>8. l # 0 => q.tail = S[l] /\ q.head = S[1] BY <1>1, <1>7 DEF RdLinked
<1>9. \A i, j \in 1..l : S[i] = S[j] => i = j BY <1>1 DEF RdLinked
<1>10. \A i \in 1..l : i # l => r.node[S[i]] = q.node[S[i]]
  <2>1. ASSUME NEW i \in 1..l, i # l PROVE r.node[S[i]] = q.node[S[i]]
    <3>1. l \in 1..l /\ l # 0 BY <2>1
    <3>2. S[i] # S[l] BY <1>9, <2>1, <3>1
    <3>3. S[i] # q.tail BY <1>8, <3>1, <3>2
    <3>4. QED BY <1>4, <2>1, <3>3
  <2>2. QED BY <2>1
<1>11. RdLinked(r, u)
  <2>1. \A i, j \in 1..(l + 1) : u[i] = u[j] => i = j
    <3>1. SUFFICES ASSUME NEW i \in 1..(l + 1), NEW j \in 1..(l + 1), u[i] = u[j] PROVE i = j OBVIOUS
    <3>2. CASE i = l + 1 /\ j # l + 1
      <4>1. j \in 1..l BY <3>2
      <4>2. QED BY <1>4, <1>6, <3>1, <3>2, <4>1
    <3>3. CASE i # l + 1 /\ j = l + 1
      <4>1. i \in 1..l BY <3>3
      <4>2. QED BY <1>4, <1>6, <3>1, <3>3, <4>1
    <3>4. CASE i # l + 1 /\ j # l + 1
      <4>1. i \in 1..l /\ j \in 1..l BY <3>4
      <4>2. QED BY <1>6, <1>9, <3>1, <4>1
    <3>5. QED BY <3>2, <3>3, <3>4
  <2>2. r.head = u[1]
    <3>1. CASE l = 0 BY <1>6, <1>7, <3>1
    <3>2. CASE l # 0
      <4>1. 1 \in 1..l BY <3>2
      <4>2. QED BY <1>6, <1>7, <1>8, <3>2, <4>1
    <3>3. QED BY <3>1, <3>2
  <2>3. r.tail = u[l + 1] BY <1>6
  <2>4. \A i \in 1..(l + 1) : r.node[u[i]].next = IF i = l + 1 THEN NULL ELSE u[i + 1]
    <3>1. SUFFICES ASSUME NEW i \in 1..(l + 1)
                   PROVE  r.node[u[i]].next = IF i = l + 1 THEN NULL ELSE u[i + 1]
      OBVIOUS
    <3>2. CASE i = l + 1 BY <1>6, <3>2
    <3>3. CASE i = l
      <4>1. i \in 1..l /\ l # 0 /\ i # l + 1 BY <3>1, <3>3
      <4>2. u[i] = q.tail BY <1>6, <1>8, <3>3, <4>1
      <4>3. r.node[u[i]].next = n BY <1>7, <4>1, <4>2
      <4>4. u[i + 1] = n BY <1>6, <3>3
      <4>5. QED BY <4>1, <4>3, <4>4
    <3>4. CASE i # l + 1 /\ i # l
      <4>1. i \in 1..l /\ i + 1 \in 1..l BY <3>1, <3>4
      <4>2. r.node[u[i]] = q.node[S[i]] BY <1>6, <1>10, <3>4, <4>1
      <4>3. q.node[S[i]].next = S[i + 1] BY <1>1, <3>4, <4>1 DEF RdLinked
      <4>4. u[i + 1] = S[i + 1] BY <1>6, <4>1
      <4>5. QED BY <3>4, <4>2, <4>3, <4>4
    <3>5. QED BY <3>2, <3>3, <3>4
  <2>5. \A i \in 2..(l + 1) : r.node[u[i]].prev = u[i - 1]
    <3>1. SUFFICES ASSUME NEW i \in 2..(l + 1) PROVE  r.node[u[i]].prev = u[i - 1] OBVIOUS
    <3>2. i - 1 \in 1..l /\ l # 0 /\ u[i - 1] = S[i - 1] BY <1>6, <3>1
    <3>3. CASE i = l + 1
      <4>1. u[i - 1] = q.tail BY <1>8, <3>2, <3>3
      <4>2. QED BY <1>6, <1>7, <3>2, <3>3, <4>1
    <3>4. CASE i = l
      <4>1. i \in 1..l /\ i \in 2..l BY <3>1, <3>4
      <4>2. u[i] = q.tail BY <1>6, <1>8, <3>2, <3>4, <4>1
      <4>3. r.node[u[i]].prev = q.node[S[i]].prev BY <1>7, <1>8, <3>2, <3>4, <4>2
      <4>4. q.node[S[i]].prev = S[i - 1] BY <1>1, <4>1 DEF RdLinked
      <4>5. QED BY <3>2, <4>3, <4>4
    <3>5. CASE i # l + 1 /\ i # l
      <4>1. i \in 1..l /\ i \in 2..l BY <3>1, <3>5
      <4>2. r.node[u[i]] = q.node[S[i]] BY <1>6, <1>10, <3>5, <4>1
      <4>3. q.node[S[i]].prev = S[i - 1] BY <1>1, <4>1 DEF RdLinked
      <4>4. QED BY <3>2, <4>2, <4>3
    <3>6. QED BY <3>3, <3>4, <3>5
  <2>6. QED BY <1>6, <2>1, <2>2, <2>3, <2>4, <2>5 DEF RdLinked
<1>12. PICK w : w = Tail(F) OBVIOUS
<1>13. w \in Seq(RdNodes) /\ Len(w) = t - 1 /\ \A i \in 1..(t - 1) : w[i] = F[i + 1] BY <1>1, <1>2, <1>12
<1>14. \A i, j \in 1..t : F[i] = F[j] => i = j BY <1>1 DEF RdFreed
<1>15. \A i \in 1..t : q.node[F[i]].next = IF i = t THEN NULL ELSE F[i + 1] BY <1>1 DEF RdFreed
<1>16. \A i \in 1..(t - 1) : r.node[w[i]] = q.node[w[i]]
  <2>1. SUFFICES ASSUME NEW i \in 1..(t - 1) PROVE r.node[w[i]] = q.node[w[i]] OBVIOUS
  <2>2. i + 1 \in 1..t /\ i + 1 # 1 BY <2>1
  <2>3. w[i] = F[i + 1] /\ w[i] \in RdNodes BY <1>13, <2>2
  <2>4. w[i] # n BY <1>2, <1>3, <1>14, <2>2, <2>3
  <2>5. ~\E j \in 1..l : S[j] = w[i]
    <3>1. \E j \in 1..Len(F) : F[j] = w[i] BY <1>1, <2>2, <2>3
    <3>2. QED BY <1>1, <2>3, <3>1 DEF RdFreed
  <2>6. l # 0 => w[i] # q.tail
    <3>1. l # 0 => l \in 1..l OBVIOUS
    <3>2. QED BY <1>8, <2>5, <3>1
  <2>7. QED BY <1>7, <2>3, <2>4, <2>6
<1>17. RdFreed(r, u, w)
  <2>1. \A i, j \in 1..(t - 1) : w[i] = w[j] => i = j
    <3>1. SUFFICES ASSUME NEW i \in 1..(t - 1), NEW j \in 1..(t - 1), w[i] = w[j] PROVE i = j OBVIOUS
    <3>2. i + 1 \in 1..t /\ j + 1 \in 1..t OBVIOUS
    <3>3. i + 1 = j + 1 BY <1>13, <1>14, <3>1, <3>2
    <3>4. QED BY <3>3
  <2>2. r.free = IF w = << >> THEN NULL ELSE w[1]
    <3>1. r.free = IF 1 = t THEN NULL ELSE F[2] BY <1>2, <1>3, <1>15
    <3>2. w = << >> <=> t = 1 BY <1>2, <1>13
    <3>3. t # 1 => w[1] = F[2]
      <4>1. t # 1 => 1 \in 1..(t - 1) /\ 1 + 1 = 2 BY <1>2
      <4>2. QED BY <1>13, <4>1
    <3>4. QED BY <3>1, <3>2, <3>3
  <2>3. \A i \in 1..(t - 1) : r.node[w[i]].next = IF i = t - 1 THEN NULL ELSE w[i + 1]
    <3>1. SUFFICES ASSUME NEW i \in 1..(t - 1)
                   PROVE  r.node[w[i]].next = IF i = t - 1 THEN NULL ELSE w[i + 1]
      OBVIOUS
    <3>2. i + 1 \in 1..t /\ w[i] = F[i + 1] BY <1>13, <3>1
    <3>3. r.node[w[i]].next = IF i + 1 = t THEN NULL ELSE F[(i + 1) + 1] BY <1>15, <1>16, <3>2
    <3>4. i # t - 1 => i + 1 \in 1..(t - 1) BY <3>1
    <3>5. i # t - 1 => w[i + 1] = F[(i + 1) + 1] BY <1>13, <3>4
    <3>6. i + 1 = t <=> i = t - 1 BY <3>1
    <3>7. QED BY <3>3, <3>5, <3>6
  <2>4. ASSUME NEW m \in RdNodes
        PROVE  (\E i \in 1..(t - 1) : w[i] = m) <=> ~\E i \in 1..(l + 1) : u[i] = m
    <3>1. (\E i \in 1..t : F[i] = m) <=> ~\E i \in 1..l : S[i] = m BY <1>1 DEF RdFreed
    <3>2. (\E i \in 1..(l + 1) : u[i] = m) <=> m = n \/ \E i \in 1..l : S[i] = m
      <4>1. 1..(l + 1) = 1..l \cup {l + 1} OBVIOUS
      <4>2. QED BY <1>6, <4>1
    <3>3. (\E i \in 1..(t - 1) : w[i] = m) => m # n /\ \E i \in 1..t : F[i] = m
      <4>1. SUFFICES ASSUME NEW i \in 1..(t - 1), w[i] = m PROVE m # n /\ \E j \in 1..t : F[j] = m
        OBVIOUS
      <4>2. i + 1 \in 1..t /\ i + 1 # 1 /\ F[i + 1] = m BY <1>13, <4>1
      <4>3. QED BY <1>2, <1>3, <1>14, <4>2
    <3>4. m # n /\ (\E i \in 1..t : F[i] = m) => \E i \in 1..(t - 1) : w[i] = m
      <4>1. SUFFICES ASSUME m # n, NEW i \in 1..t, F[i] = m PROVE \E j \in 1..(t - 1) : w[j] = m
        OBVIOUS
      <4>2. i # 1 BY <1>3, <4>1
      <4>3. i - 1 \in 1..(t - 1) /\ (i - 1) + 1 = i BY <4>1, <4>2
      <4>4. w[i - 1] = m BY <1>13, <4>1, <4>3
      <4>5. QED BY <4>3, <4>4
    <3>5. QED BY <3>1, <3>2, <3>3, <3>4
  <2>5. Len(w) = t - 1 /\ Len(u) = l + 1 BY <1>6, <1>13
  <2>6. \A m \in RdNodes : (\E i \in 1..Len(w) : w[i] = m) <=> ~\E i \in 1..Len(u) : u[i] = m
    BY <2>4, <2>5, Zenon
  <2>7. \A i, j \in 1..Len(w) : w[i] = w[j] => i = j BY <2>1, <2>5, Zenon
  <2>8. \A i \in 1..Len(w) : r.node[w[i]].next = IF i = Len(w) THEN NULL ELSE w[i + 1]
    BY <2>3, <2>5, Zenon
  <2>9. QED BY <1>13, <2>2, <2>6, <2>7, <2>8, Zenon DEF RdFreed
<1>18. QED BY <1>5, <1>11, <1>12, <1>17

\* What rdqunlink changes.
RdUnlinked(q, r, n, x, y) ==
    /\ r.node \in [RdNodes -> RdNodeSet] /\ r.free = n
    /\ \A m \in RdNodes : /\ r.node[m].op = q.node[m].op /\ r.node[m].blk = q.node[m].blk
                          /\ r.node[m].val = q.node[m].val /\ r.node[m].pid = q.node[m].pid
    /\ \A m \in RdNodes : r.node[m].next = IF m = n THEN q.free
                                           ELSE IF n # q.head /\ m = y THEN x ELSE q.node[m].next
    /\ \A m \in RdNodes : r.node[m].prev = IF n # q.head /\ n # q.tail /\ m = x THEN y ELSE q.node[m].prev
    /\ r.head = IF n # q.head THEN q.head ELSE IF n = q.tail THEN NULL ELSE x
    /\ r.tail = IF n # q.tail THEN q.tail ELSE IF n = q.head THEN NULL ELSE y
RdNextSet(k, g, y, v) ==
    /\ k \in [RdNodes -> RdNodeSet]
    /\ \A m \in RdNodes : /\ k[m].op = g[m].op /\ k[m].blk = g[m].blk /\ k[m].prev = g[m].prev
                          /\ k[m].val = g[m].val /\ k[m].pid = g[m].pid
    /\ \A m \in RdNodes : k[m].next = IF m = y THEN v ELSE g[m].next
LEMMA RdNextIsSet ==
    ASSUME NEW g \in [RdNodes -> RdNodeSet], NEW y, NEW v \in 0..RD_QNODES
    PROVE  RdNextSet([g EXCEPT ![y].next = v], g, y, v)
<1>1. PICK k : k = [g EXCEPT ![y].next = v] OBVIOUS
<1>2. ASSUME NEW m \in RdNodes
      PROVE  /\ k[m] \in RdNodeSet /\ k[m].op = g[m].op /\ k[m].blk = g[m].blk /\ k[m].prev = g[m].prev
             /\ k[m].val = g[m].val /\ k[m].pid = g[m].pid
             /\ k[m].next = IF m = y THEN v ELSE g[m].next
  <2>1. PICK e : e = g[m] /\ e \in RdNodeSet OBVIOUS
  <2>2. CASE m = y
    <3>1. k[m] = [e EXCEPT !.next = v] BY <1>1, <2>1, <2>2
    <3>2. QED BY <2>1, <2>2, <3>1 DEF RdNodeSet
  <2>3. CASE m # y
    <3>1. k[m] = e BY <1>1, <2>1, <2>3
    <3>2. QED BY <2>1, <2>3, <3>1
  <2>4. QED BY <2>2, <2>3
<1>3. k = [m \in RdNodes |-> k[m]] BY <1>1
<1>4. k \in [RdNodes -> RdNodeSet] BY <1>2, <1>3
<1>5. QED BY <1>1, <1>2, <1>4 DEF RdNextSet
RdPrevSet(k, g, y, v) ==
    /\ k \in [RdNodes -> RdNodeSet]
    /\ \A m \in RdNodes : /\ k[m].op = g[m].op /\ k[m].blk = g[m].blk /\ k[m].next = g[m].next
                          /\ k[m].val = g[m].val /\ k[m].pid = g[m].pid
    /\ \A m \in RdNodes : k[m].prev = IF m = y THEN v ELSE g[m].prev
LEMMA RdPrevIsSet ==
    ASSUME NEW g \in [RdNodes -> RdNodeSet], NEW y, NEW v \in 0..RD_QNODES
    PROVE  RdPrevSet([g EXCEPT ![y].prev = v], g, y, v)
<1>1. PICK k : k = [g EXCEPT ![y].prev = v] OBVIOUS
<1>2. ASSUME NEW m \in RdNodes
      PROVE  /\ k[m] \in RdNodeSet /\ k[m].op = g[m].op /\ k[m].blk = g[m].blk /\ k[m].next = g[m].next
             /\ k[m].val = g[m].val /\ k[m].pid = g[m].pid
             /\ k[m].prev = IF m = y THEN v ELSE g[m].prev
  <2>1. PICK e : e = g[m] /\ e \in RdNodeSet OBVIOUS
  <2>2. CASE m = y
    <3>1. k[m] = [e EXCEPT !.prev = v] BY <1>1, <2>1, <2>2
    <3>2. QED BY <2>1, <2>2, <3>1 DEF RdNodeSet
  <2>3. CASE m # y
    <3>1. k[m] = e BY <1>1, <2>1, <2>3
    <3>2. QED BY <2>1, <2>3, <3>1
  <2>4. QED BY <2>2, <2>3
<1>3. k = [m \in RdNodes |-> k[m]] BY <1>1
<1>4. k \in [RdNodes -> RdNodeSet] BY <1>2, <1>3
<1>5. QED BY <1>1, <1>2, <1>4 DEF RdPrevSet
LEMMA RdUnlinkedIs ==
    ASSUME NEW q, q.node \in [RdNodes -> RdNodeSet], q.free \in 0..RD_QNODES, NEW n \in RdNodes,
           NEW x, NEW y, x = q.node[n].next, y = q.node[n].prev, n = q.tail => x = NULL
    PROVE  RdUnlinked(q, rdqunlink(q, n), n, x, y)
<1>1. PICK g : g = q.node OBVIOUS
<1>2. g \in [RdNodes -> RdNodeSet] /\ x \in 0..RD_QNODES /\ y \in 0..RD_QNODES BY <1>1 DEF RdNodeSet
<1>3. PICK h : h = IF n = q.head THEN g
                   ELSE IF n = q.tail THEN [g EXCEPT ![y].next = NULL]
                   ELSE [g EXCEPT ![y].next = x, ![x].prev = y]
  OBVIOUS
<1>4. PICK r : r = rdqunlink(q, n) OBVIOUS
<1>5. /\ r.node = [h EXCEPT ![n].next = q.free] /\ r.free = n
      /\ r.head = IF n # q.head THEN q.head ELSE IF n = q.tail THEN NULL ELSE x
      /\ r.tail = IF n # q.tail THEN q.tail ELSE IF n = q.head THEN NULL ELSE y
  <2>1. CASE n = q.head BY <1>1, <1>3, <1>4, <2>1 DEF rdqunlink
  <2>2. CASE n # q.head /\ n = q.tail BY <1>1, <1>3, <1>4, <2>2 DEF rdqunlink
  <2>3. CASE n # q.head /\ n # q.tail BY <1>1, <1>3, <1>4, <2>3 DEF rdqunlink
  <2>4. QED BY <2>1, <2>2, <2>3
<1>6. NULL \in 0..RD_QNODES BY RdCounts
<1>7. /\ h \in [RdNodes -> RdNodeSet]
      /\ \A m \in RdNodes : /\ h[m].op = g[m].op /\ h[m].blk = g[m].blk
                            /\ h[m].val = g[m].val /\ h[m].pid = g[m].pid
      /\ \A m \in RdNodes : h[m].next = IF n # q.head /\ m = y THEN x ELSE g[m].next
      /\ \A m \in RdNodes : h[m].prev = IF n # q.head /\ n # q.tail /\ m = x THEN y ELSE g[m].prev
  <2>1. CASE n = q.head BY <1>2, <1>3, <2>1
  <2>2. CASE n # q.head /\ n = q.tail
    <3>1. h = [g EXCEPT ![y].next = NULL] BY <1>3, <2>2
    <3>2. RdNextSet(h, g, y, NULL) BY <1>2, <1>6, <3>1, RdNextIsSet, Zenon
    <3>3. x = NULL BY <2>2
    <3>4. QED BY <2>2, <3>2, <3>3 DEF RdNextSet
  <2>3. CASE n # q.head /\ n # q.tail
    <3>1. PICK k : k = [g EXCEPT ![y].next = x] OBVIOUS
    <3>2. h = [k EXCEPT ![x].prev = y] BY <1>3, <2>3, <3>1
    <3>3. /\ k \in [RdNodes -> RdNodeSet]
          /\ \A m \in RdNodes : /\ k[m].op = g[m].op /\ k[m].blk = g[m].blk /\ k[m].prev = g[m].prev
                                /\ k[m].val = g[m].val /\ k[m].pid = g[m].pid
          /\ \A m \in RdNodes : k[m].next = IF m = y THEN x ELSE g[m].next
      <4>1. RdNextSet(k, g, y, x) BY <1>2, <3>1, RdNextIsSet, Zenon
      <4>2. QED BY <4>1 DEF RdNextSet
    <3>4. /\ h \in [RdNodes -> RdNodeSet]
          /\ \A m \in RdNodes : /\ h[m].op = k[m].op /\ h[m].blk = k[m].blk /\ h[m].next = k[m].next
                                /\ h[m].val = k[m].val /\ h[m].pid = k[m].pid
          /\ \A m \in RdNodes : h[m].prev = IF m = x THEN y ELSE k[m].prev
      <4>1. RdPrevSet(h, k, x, y) BY <1>2, <3>2, <3>3, RdPrevIsSet, Zenon
      <4>2. QED BY <4>1 DEF RdPrevSet
    <3>5. QED BY <2>3, <3>3, <3>4
  <2>4. QED BY <2>1, <2>2, <2>3
<1>8. /\ r.node \in [RdNodes -> RdNodeSet]
      /\ \A m \in RdNodes : /\ r.node[m].op = h[m].op /\ r.node[m].blk = h[m].blk /\ r.node[m].prev = h[m].prev
                            /\ r.node[m].val = h[m].val /\ r.node[m].pid = h[m].pid
      /\ \A m \in RdNodes : r.node[m].next = IF m = n THEN q.free ELSE h[m].next
  <2>1. PICK v \in 0..RD_QNODES : v = q.free OBVIOUS
  <2>2. h \in [RdNodes -> RdNodeSet] BY <1>7
  <2>3. RdNextSet([h EXCEPT ![n].next = v], h, n, v) BY <2>2, RdNextIsSet, Zenon
  <2>4. r.node = [h EXCEPT ![n].next = v] BY <1>5, <2>1
  <2>5. RdNextSet(r.node, h, n, v) BY <2>3, <2>4
  <2>6. QED BY <2>1, <2>5 DEF RdNextSet
<1>9. /\ \A m \in RdNodes : /\ r.node[m].op = q.node[m].op /\ r.node[m].blk = q.node[m].blk
                            /\ r.node[m].val = q.node[m].val /\ r.node[m].pid = q.node[m].pid
      /\ \A m \in RdNodes : r.node[m].prev = IF n # q.head /\ n # q.tail /\ m = x THEN y ELSE q.node[m].prev
  BY <1>1, <1>7, <1>8
<1>10. \A m \in RdNodes : r.node[m].next = IF m = n THEN q.free
                                           ELSE IF n # q.head /\ m = y THEN x ELSE q.node[m].next
  BY <1>1, <1>7, <1>8
<1>11. QED BY <1>4, <1>5, <1>8, <1>9, <1>10 DEF RdUnlinked

\* The list S without its k-th node.
RdBut(S, k) == [i \in 1..(Len(S) - 1) |-> IF i < k THEN S[i] ELSE S[i + 1]]
IsRdBut(u, S, k) ==
    /\ u \in Seq(RdNodes) /\ Len(u) = Len(S) - 1
    /\ \A i, j \in 1..Len(u) : u[i] = u[j] => i = j
    /\ \A m : (\E i \in 1..Len(u) : u[i] = m) <=> m # S[k] /\ \E i \in 1..Len(S) : S[i] = m
LEMMA RdButIs ==
    ASSUME NEW S \in Seq(RdNodes), NEW k \in 1..Len(S), \A i, j \in 1..Len(S) : S[i] = S[j] => i = j
    PROVE  IsRdBut(RdBut(S, k), S, k)
<1>1. PICK l \in Nat : l = Len(S) OBVIOUS
<1>2. PICK u : u = RdBut(S, k) OBVIOUS
<1>3. u = [i \in 1..(l - 1) |-> IF i < k THEN S[i] ELSE S[i + 1]] BY <1>1, <1>2 DEF RdBut
<1>4. k \in 1..l /\ l - 1 \in Nat BY <1>1
<1>5. \A i \in 1..(l - 1) : i \in 1..l /\ i + 1 \in 1..l BY <1>4
<1>6. u \in [1..(l - 1) -> RdNodes]
  <2>1. \A i \in 1..(l - 1) : S[i] \in RdNodes /\ S[i + 1] \in RdNodes BY <1>1, <1>5
  <2>2. QED BY <1>3, <2>1
<1>7. u \in Seq(RdNodes) /\ Len(u) = l - 1 BY <1>4, <1>6
<1>8. \A i, j \in 1..(l - 1) : u[i] = u[j] => i = j
  <2>1. SUFFICES ASSUME NEW i \in 1..(l - 1), NEW j \in 1..(l - 1), u[i] = u[j] PROVE i = j OBVIOUS
  <2>2. PICK a \in 1..l : u[i] = S[a] /\ a = IF i < k THEN i ELSE i + 1 BY <1>3, <1>5
  <2>3. PICK b \in 1..l : u[j] = S[b] /\ b = IF j < k THEN j ELSE j + 1 BY <1>3, <1>5
  <2>4. a = b BY <1>1, <2>1, <2>2, <2>3
  <2>5. QED BY <1>4, <2>2, <2>3, <2>4
<1>9. ASSUME NEW m PROVE (\E i \in 1..(l - 1) : u[i] = m) <=> m # S[k] /\ \E i \in 1..l : S[i] = m
  <2>1. ASSUME NEW i \in 1..(l - 1), u[i] = m PROVE m # S[k] /\ \E j \in 1..l : S[j] = m
    <3>1. PICK a \in 1..l : u[i] = S[a] /\ a = IF i < k THEN i ELSE i + 1 BY <1>3, <1>5
    <3>2. a # k BY <1>4, <3>1
    <3>3. S[a] # S[k] BY <1>1, <1>4, <3>2
    <3>4. QED BY <2>1, <3>1, <3>3
  <2>2. ASSUME m # S[k], NEW i \in 1..l, S[i] = m PROVE \E j \in 1..(l - 1) : u[j] = m
    <3>1. i # k BY <2>2
    <3>2. CASE i < k
      <4>1. i \in 1..(l - 1) BY <1>4, <3>2
      <4>2. u[i] = m BY <1>3, <2>2, <3>2, <4>1
      <4>3. QED BY <4>1, <4>2
    <3>3. CASE i > k
      <4>1. i - 1 \in 1..(l - 1) /\ ~(i - 1 < k) /\ (i - 1) + 1 = i BY <1>4, <3>3
      <4>2. u[i - 1] = m BY <1>3, <2>2, <4>1
      <4>3. QED BY <4>1, <4>2
    <3>4. QED BY <1>4, <3>1, <3>2, <3>3
  <2>3. QED BY <2>1, <2>2
<1>10. QED BY <1>1, <1>2, <1>7, <1>8, <1>9, Zenon DEF IsRdBut

\* A request is taken off, wherever it is in the queue.
RdSameRequests(q, r) ==
    \A m \in RdNodes : /\ r.node[m].op = q.node[m].op /\ r.node[m].blk = q.node[m].blk
                       /\ r.node[m].val = q.node[m].val /\ r.node[m].pid = q.node[m].pid
RdIsWithout(q, r, S, F, k, n) ==
    /\ r.node \in [RdNodes -> RdNodeSet] /\ r.free = n /\ RdSameRequests(q, r)
    /\ RdLinked(r, RdBut(S, k)) /\ RdFreed(r, RdBut(S, k), <<n>> \o F)
LEMMA RdUnlinks ==
    ASSUME NEW q, q.node \in [RdNodes -> RdNodeSet], q.free \in 0..RD_QNODES,
           NEW S \in Seq(RdNodes), NEW F \in Seq(RdNodes), RdLinked(q, S), RdFreed(q, S, F),
           NEW k \in 1..Len(S), NEW n, n = S[k]
    PROVE  RdIsWithout(q, rdqunlink(q, n), S, F, k, n)
<1>1. PICK l \in Nat, t \in Nat : l = Len(S) /\ t = Len(F)
  <2>1. Len(S) \in Nat /\ Len(F) \in Nat OBVIOUS
  <2>2. QED BY <2>1
<1>2. k \in 1..l /\ l - 1 \in Nat /\ 1 \in 1..l /\ l \in 1..l BY <1>1
<1>3. \A i \in 1..l : S[i] \in RdNodes /\ S[i] # NULL BY <1>1, RdCounts
<1>4. \A i, j \in 1..l : S[i] = S[j] => i = j BY <1>1 DEF RdLinked
<1>5. q.head = S[1] /\ q.tail = S[l] BY <1>1, <1>2 DEF RdLinked
<1>6. \A i \in 1..l : q.node[S[i]].next = IF i = l THEN NULL ELSE S[i + 1] BY <1>1 DEF RdLinked
<1>7. \A i \in 2..l : q.node[S[i]].prev = S[i - 1] BY <1>1 DEF RdLinked
<1>8. PICK x, y : x = q.node[n].next /\ y = q.node[n].prev OBVIOUS
<1>9. /\ x = IF k = l THEN NULL ELSE S[k + 1]
      /\ k # 1 => y = S[k - 1]
      /\ n = q.head <=> k = 1
      /\ n = q.tail <=> k = l
  <2>1. x = IF k = l THEN NULL ELSE S[k + 1] BY <1>2, <1>6, <1>8
  <2>2. k # 1 => k \in 2..l BY <1>2
  <2>3. k # 1 => y = S[k - 1] BY <1>7, <1>8, <2>2
  <2>4. n = q.head <=> k = 1 BY <1>2, <1>4, <1>5
  <2>5. n = q.tail <=> k = l BY <1>2, <1>4, <1>5
  <2>6. QED BY <2>1, <2>3, <2>4, <2>5
<1>10. PICK r : r = rdqunlink(q, n) OBVIOUS
<1>11. n \in RdNodes BY <1>2, <1>3
<1>12. RdUnlinked(q, r, n, x, y)
  <2>1. n = q.tail => x = NULL BY <1>9
  <2>2. QED BY <1>8, <1>10, <1>11, <2>1, RdUnlinkedIs
<1>13. /\ r.node \in [RdNodes -> RdNodeSet] /\ r.free = n /\ RdSameRequests(q, r)
  BY <1>12 DEF RdUnlinked, RdSameRequests
<1>14. /\ \A m \in RdNodes : r.node[m].next = IF m = n THEN q.free
                                           ELSE IF k # 1 /\ m = y THEN x ELSE q.node[m].next
       /\ \A m \in RdNodes : r.node[m].prev = IF k # 1 /\ k # l /\ m = x THEN y ELSE q.node[m].prev
  BY <1>9, <1>12 DEF RdUnlinked
<1>15. /\ r.head = IF k # 1 THEN S[1] ELSE IF k = l THEN NULL ELSE x
       /\ r.tail = IF k # l THEN S[l] ELSE IF k = 1 THEN NULL ELSE y
  BY <1>5, <1>9, <1>12 DEF RdUnlinked
<1>16. PICK u : u = RdBut(S, k) OBVIOUS
<1>17. /\ u \in Seq(RdNodes) /\ Len(u) = l - 1
       /\ \A i, j \in 1..(l - 1) : u[i] = u[j] => i = j
       /\ \A m : (\E i \in 1..(l - 1) : u[i] = m) <=> m # n /\ \E i \in 1..l : S[i] = m
  <2>1. \A i, j \in 1..Len(S) : S[i] = S[j] => i = j BY <1>1, <1>4
  <2>2. IsRdBut(u, S, k) BY <1>16, <2>1, RdButIs, Zenon
  <2>3. Len(u) = l - 1 BY <1>1, <2>2 DEF IsRdBut
  <2>4. QED BY <1>1, <2>2, <2>3, Zenon DEF IsRdBut
<1>18. \A i \in 1..(l - 1) : u[i] = IF i < k THEN S[i] ELSE S[i + 1] BY <1>1, <1>16 DEF RdBut
<1>19. u = << >> <=> l = 1 BY <1>2, <1>17
<1>20. RdLinked(r, u)
  <2>1. r.head = IF u = << >> THEN NULL ELSE u[1]
    <3>1. l # 1 => 1 \in 1..(l - 1) BY <1>2
    <3>2. l # 1 => u[1] = IF 1 < k THEN S[1] ELSE S[2] BY <1>18, <3>1
    <3>3. k # 1 => l # 1 /\ 1 < k BY <1>2
    <3>4. CASE k # 1 BY <1>15, <1>19, <3>2, <3>3, <3>4
    <3>5. CASE k = 1 BY <1>9, <1>15, <1>19, <3>2, <3>5
    <3>6. QED BY <3>4, <3>5
  <2>2. r.tail = IF u = << >> THEN NULL ELSE u[l - 1]
    <3>1. l # 1 => l - 1 \in 1..(l - 1) /\ (l - 1) + 1 = l /\ (l - 1 < k <=> k = l) BY <1>2
    <3>2. l # 1 => u[l - 1] = IF k = l THEN S[l - 1] ELSE S[l] BY <1>18, <3>1
    <3>3. k # l => l # 1 BY <1>2
    <3>4. CASE k # l BY <1>15, <1>19, <3>2, <3>3, <3>4
    <3>5. CASE k = l /\ k # 1 BY <1>9, <1>15, <1>19, <3>2, <3>5
    <3>6. CASE k = l /\ k = 1 BY <1>15, <1>19, <3>6
    <3>7. QED BY <3>4, <3>5, <3>6
  <2>3. ASSUME NEW i \in 1..(l - 1)
        PROVE  r.node[u[i]].next = IF i = l - 1 THEN NULL ELSE u[i + 1]
    <3>1. i \in 1..l /\ i + 1 \in 1..l BY <1>2
    <3>2. i # l - 1 => i + 1 \in 1..(l - 1) BY <1>2
    <3>3. i # l - 1 => u[i + 1] = IF i + 1 < k THEN S[i + 1] ELSE S[(i + 1) + 1] BY <1>18, <3>2
    <3>4. CASE i + 1 < k
      <4>1. u[i] = S[i] /\ i # k /\ i # l - 1 /\ k - 1 \in 1..l /\ i # k - 1 /\ i # l BY <1>2, <1>18, <3>1, <3>4
      <4>2. S[i] # n /\ S[i] # S[k - 1] BY <1>2, <1>4, <3>1, <4>1
      <4>3. ~(k # 1 /\ S[i] = y) BY <1>9, <4>2
      <4>4. r.node[S[i]].next = q.node[S[i]].next BY <1>3, <1>14, <3>1, <4>2, <4>3
      <4>5. q.node[S[i]].next = S[i + 1] BY <1>6, <3>1, <4>1
      <4>6. QED BY <3>3, <3>4, <4>1, <4>4, <4>5
    <3>5. CASE i + 1 = k
      <4>1. u[i] = S[i] /\ i # k /\ i = k - 1 /\ k # 1 BY <1>2, <1>18, <3>1, <3>5
      <4>2. S[i] # n /\ S[i] = y BY <1>2, <1>4, <1>9, <3>1, <4>1
      <4>3. r.node[S[i]].next = x BY <1>3, <1>14, <3>1, <4>1, <4>2
      <4>4. i = l - 1 <=> k = l BY <1>2, <3>1, <3>5
      <4>5. i # l - 1 => u[i + 1] = S[k + 1] BY <3>3, <3>5
      <4>6. QED BY <1>9, <4>1, <4>3, <4>4, <4>5
    <3>6. CASE i + 1 > k
      <4>1. u[i] = S[i + 1] /\ i + 1 # k /\ (k # 1 => k - 1 \in 1..l /\ i + 1 # k - 1)
        BY <1>2, <1>18, <3>1, <3>6
      <4>2. S[i + 1] # n /\ ~(k # 1 /\ S[i + 1] = y) BY <1>2, <1>4, <1>9, <3>1, <4>1
      <4>3. r.node[S[i + 1]].next = q.node[S[i + 1]].next BY <1>3, <1>14, <3>1, <4>2
      <4>4. q.node[S[i + 1]].next = IF i + 1 = l THEN NULL ELSE S[(i + 1) + 1] BY <1>6, <3>1
      <4>5. (i + 1 = l <=> i = l - 1) /\ ~(i + 1 < k) BY <1>2, <3>1, <3>6
      <4>6. QED BY <3>3, <4>1, <4>3, <4>4, <4>5
    <3>7. QED BY <1>2, <3>1, <3>4, <3>5, <3>6
  <2>4. ASSUME NEW i \in 2..(l - 1) PROVE r.node[u[i]].prev = u[i - 1]
    <3>1. i \in 1..(l - 1) /\ i - 1 \in 1..(l - 1) /\ i \in 1..l /\ i + 1 \in 1..l /\ i - 1 \in 1..l
          /\ i \in 2..l /\ i + 1 \in 2..l /\ (i - 1) + 1 = i /\ (i + 1) - 1 = i
      BY <1>2
    <3>2. u[i] = (IF i < k THEN S[i] ELSE S[i + 1]) /\ u[i - 1] = IF i - 1 < k THEN S[i - 1] ELSE S[i]
      BY <1>18, <3>1
    <3>3. CASE i < k
      <4>1. u[i] = S[i] /\ u[i - 1] = S[i - 1] /\ (k # l => k + 1 \in 1..l /\ i # k + 1)
        BY <1>2, <3>1, <3>2, <3>3
      <4>2. ~(k # l /\ S[i] = x) BY <1>4, <1>9, <3>1, <4>1
      <4>3. r.node[S[i]].prev = q.node[S[i]].prev BY <1>3, <1>14, <3>1, <4>2
      <4>4. q.node[S[i]].prev = S[i - 1] BY <1>7, <3>1
      <4>5. QED BY <4>1, <4>3, <4>4
    <3>4. CASE i = k
      <4>1. u[i] = S[k + 1] /\ u[i - 1] = S[k - 1] /\ k # 1 /\ k # l BY <1>2, <3>1, <3>2, <3>4
      <4>2. S[k + 1] = x /\ y = S[k - 1] /\ S[k + 1] \in RdNodes BY <1>3, <1>9, <3>1, <3>4, <4>1
      <4>3. r.node[x].prev = y BY <1>14, <4>1, <4>2
      <4>4. QED BY <4>1, <4>2, <4>3
    <3>5. CASE i > k
      <4>1. u[i] = S[i + 1] /\ u[i - 1] = S[i] /\ (k # l => k + 1 \in 1..l /\ i + 1 # k + 1)
        BY <1>2, <3>1, <3>2, <3>5
      <4>2. ~(k # l /\ S[i + 1] = x) BY <1>4, <1>9, <3>1, <4>1
      <4>3. r.node[S[i + 1]].prev = q.node[S[i + 1]].prev BY <1>3, <1>14, <3>1, <4>2
      <4>4. q.node[S[i + 1]].prev = S[(i + 1) - 1] BY <1>7, <3>1
      <4>5. QED BY <3>1, <4>1, <4>3, <4>4
    <3>6. QED BY <1>2, <3>1, <3>3, <3>4, <3>5
  <2>5. \A i \in 1..Len(u) : r.node[u[i]].next = IF i = Len(u) THEN NULL ELSE u[i + 1]
    BY <1>17, <2>3
  <2>6. \A i \in 2..Len(u) : r.node[u[i]].prev = u[i - 1] BY <1>17, <2>4
  <2>7. \A i, j \in 1..Len(u) : u[i] = u[j] => i = j BY <1>17
  <2>8. r.tail = IF u = << >> THEN NULL ELSE u[Len(u)] BY <1>17, <2>2
  <2>9. u \in Seq(RdNodes) BY <1>17
  <2>10. QED BY <2>1, <2>5, <2>6, <2>7, <2>8, <2>9 DEF RdLinked
<1>21. PICK w : w = <<n>> \o F OBVIOUS
<1>22. /\ w \in Seq(RdNodes) /\ Len(w) = t + 1 /\ w[1] = n /\ w # << >>
       /\ \A i \in 2..(t + 1) : w[i] = F[i - 1]
  <2>1. <<n>> \in Seq(RdNodes) /\ Len(<<n>>) = 1 /\ <<n>>[1] = n BY <1>11
  <2>2. QED BY <1>1, <1>21, <2>1
<1>23. \A i \in 1..t : F[i] \in RdNodes /\ \A j \in 1..l : S[j] # F[i]
  <2>1. SUFFICES ASSUME NEW i \in 1..t PROVE F[i] \in RdNodes /\ \A j \in 1..l : S[j] # F[i] OBVIOUS
  <2>2. F[i] \in RdNodes /\ \E j \in 1..t : F[j] = F[i] BY <1>1
  <2>3. QED BY <1>1, <2>2 DEF RdFreed
<1>24. \A i, j \in 1..t : F[i] = F[j] => i = j BY <1>1 DEF RdFreed
<1>25. q.free = (IF t = 0 THEN NULL ELSE F[1])
       /\ \A i \in 1..t : q.node[F[i]].next = IF i = t THEN NULL ELSE F[i + 1]
  <2>1. F = << >> <=> t = 0 BY <1>1
  <2>2. QED BY <1>1, <2>1 DEF RdFreed
<1>26. RdFreed(r, u, w)
  <2>1. ASSUME NEW i \in 1..(t + 1), NEW j \in 1..(t + 1), w[i] = w[j] PROVE i = j
    <3>1. CASE i = 1 /\ j # 1
      <4>1. j \in 2..(t + 1) /\ j - 1 \in 1..t BY <3>1
      <4>2. F[j - 1] = n BY <1>22, <2>1, <3>1, <4>1
      <4>3. QED BY <1>2, <1>23, <4>1, <4>2
    <3>2. CASE i # 1 /\ j = 1
      <4>1. i \in 2..(t + 1) /\ i - 1 \in 1..t BY <3>2
      <4>2. F[i - 1] = n BY <1>22, <2>1, <3>2, <4>1
      <4>3. QED BY <1>2, <1>23, <4>1, <4>2
    <3>3. CASE i # 1 /\ j # 1
      <4>1. i \in 2..(t + 1) /\ i - 1 \in 1..t /\ j \in 2..(t + 1) /\ j - 1 \in 1..t BY <3>3
      <4>2. F[i - 1] = F[j - 1] BY <1>22, <2>1, <4>1
      <4>3. i - 1 = j - 1 BY <1>24, <4>1, <4>2
      <4>4. QED BY <4>3
    <3>4. QED BY <3>1, <3>2, <3>3
  <2>2. ASSUME NEW i \in 1..(t + 1)
        PROVE  r.node[w[i]].next = IF i = t + 1 THEN NULL ELSE w[i + 1]
    <3>1. i # t + 1 => i + 1 \in 2..(t + 1) /\ (i + 1) - 1 = i OBVIOUS
    <3>2. i # t + 1 => w[i + 1] = F[i] BY <1>22, <3>1
    <3>3. CASE i = 1
      <4>1. r.node[w[i]].next = q.free BY <1>11, <1>14, <1>22, <3>3
      <4>2. t = 0 <=> i = t + 1 BY <3>3
      <4>3. QED BY <1>25, <3>2, <3>3, <4>1, <4>2
    <3>4. CASE i # 1
      <4>1. i \in 2..(t + 1) /\ i - 1 \in 1..t /\ (i - 1 = t <=> i = t + 1) /\ (i - 1) + 1 = i BY <3>4
      <4>2. PICK m : m = F[i - 1] /\ w[i] = m /\ m \in RdNodes /\ \A j \in 1..l : S[j] # m
        BY <1>22, <1>23, <4>1
      <4>3. k # 1 => k - 1 \in 1..l BY <1>2
      <4>4. m # n /\ ~(k # 1 /\ m = y) BY <1>2, <1>9, <4>2, <4>3
      <4>5. r.node[m].next = q.node[m].next BY <1>14, <4>2, <4>4
      <4>6. q.node[m].next = IF i = t + 1 THEN NULL ELSE F[i] BY <1>25, <4>1, <4>2
      <4>7. QED BY <3>2, <4>2, <4>5, <4>6
    <3>5. QED BY <3>3, <3>4
  <2>3. ASSUME NEW m \in RdNodes
        PROVE  (\E i \in 1..(t + 1) : w[i] = m) <=> ~\E i \in 1..(l - 1) : u[i] = m
    <3>1. (\E i \in 1..t : F[i] = m) <=> ~\E i \in 1..l : S[i] = m BY <1>1 DEF RdFreed
    <3>2. (\E i \in 1..(t + 1) : w[i] = m) <=> m = n \/ \E i \in 1..t : F[i] = m
      <4>1. ASSUME NEW i \in 1..(t + 1), w[i] = m PROVE m = n \/ \E j \in 1..t : F[j] = m
        <5>1. i # 1 => i \in 2..(t + 1) /\ i - 1 \in 1..t OBVIOUS
        <5>2. QED BY <1>22, <4>1, <5>1
      <4>2. ASSUME NEW i \in 1..t, F[i] = m PROVE \E j \in 1..(t + 1) : w[j] = m
        <5>1. i + 1 \in 2..(t + 1) /\ i + 1 \in 1..(t + 1) /\ (i + 1) - 1 = i OBVIOUS
        <5>2. w[i + 1] = m BY <1>22, <4>2, <5>1
        <5>3. QED BY <5>1, <5>2
      <4>3. ASSUME m = n PROVE \E j \in 1..(t + 1) : w[j] = m
        <5>1. 1 \in 1..(t + 1) OBVIOUS
        <5>2. QED BY <1>22, <4>3, <5>1
      <4>4. QED BY <4>1, <4>2, <4>3
    <3>3. \E i \in 1..l : S[i] = n BY <1>2
    <3>4. (\E i \in 1..(l - 1) : u[i] = m) <=> m # n /\ \E i \in 1..l : S[i] = m BY <1>17
    <3>5. QED BY <3>1, <3>2, <3>3, <3>4
  <2>4. Len(w) = t + 1 /\ Len(u) = l - 1 BY <1>17, <1>22
  <2>5. \A m \in RdNodes : (\E i \in 1..Len(w) : w[i] = m) <=> ~\E i \in 1..Len(u) : u[i] = m
    BY <2>3, <2>4, Zenon
  <2>6. \A i, j \in 1..Len(w) : w[i] = w[j] => i = j BY <2>1, <2>4, Zenon
  <2>7. \A i \in 1..Len(w) : r.node[w[i]].next = IF i = Len(w) THEN NULL ELSE w[i + 1]
    BY <2>2, <2>4, Zenon
  <2>8. r.free = IF w = << >> THEN NULL ELSE w[1] BY <1>13, <1>22
  <2>9. w \in Seq(RdNodes) BY <1>22
  <2>10. QED BY <2>5, <2>6, <2>7, <2>8, <2>9, Zenon DEF RdFreed
<1>27. QED BY <1>10, <1>13, <1>16, <1>20, <1>21, <1>26 DEF RdIsWithout

\* The queue q, its nodes, and the callers C whose requests they are.
RdList(q, S, F, C) ==
    /\ q.node \in [RdNodes -> RdNodeSet] /\ q.free \in 0..RD_QNODES
    /\ RdLinked(q, S) /\ RdFreed(q, S, F) /\ RdRequests(q, S, C, rdproc)
RdIsOff(q, r, S, u, F, C, n) ==
    /\ RdList(r, u, <<n>> \o F, C \ {q.node[n].pid})
    /\ RdRequest(q.node[n], rdproc) /\ q.node[n].pid \in C /\ Len(u) = Len(S) - 1
LEMMA RdTakesOff ==
    ASSUME NEW q, NEW S, NEW F, NEW C, RdList(q, S, F, C), NEW k \in 1..Len(S), NEW n, n = S[k]
    PROVE  RdIsOff(q, rdqunlink(q, n), S, RdBut(S, k), F, C, n)
<1>1. S \in Seq(RdNodes) /\ F \in Seq(RdNodes) /\ \A i, j \in 1..Len(S) : S[i] = S[j] => i = j
  BY DEF RdList, RdLinked, RdFreed
<1>2. PICK r : r = rdqunlink(q, n) OBVIOUS
<1>3. /\ r.node \in [RdNodes -> RdNodeSet] /\ r.free = n
      /\ RdSameRequests(q, r)
      /\ RdLinked(r, RdBut(S, k)) /\ RdFreed(r, RdBut(S, k), <<n>> \o F)
  <2>1. q.node \in [RdNodes -> RdNodeSet] /\ q.free \in 0..RD_QNODES /\ RdLinked(q, S) /\ RdFreed(q, S, F)
    BY DEF RdList
  <2>2. RdIsWithout(q, r, S, F, k, n) BY <1>1, <1>2, <2>1, RdUnlinks, Zenon
  <2>3. QED BY <2>2, Zenon DEF RdIsWithout
<1>4. PICK u : u = RdBut(S, k) OBVIOUS
<1>5. IsRdBut(u, S, k) BY <1>1, <1>4, RdButIs, Zenon
<1>6. \A i \in 1..Len(S) : S[i] \in RdNodes BY <1>1
<1>7. n \in RdNodes BY <1>6
<1>8. RdRequests(q, S, C, rdproc) BY DEF RdList
<1>9. RdRequest(q.node[n], rdproc) /\ q.node[n].pid \in C BY <1>8 DEF RdRequests
<1>10. ASSUME NEW m \in RdNodes PROVE RdRequest(r.node[m], rdproc) <=> RdRequest(q.node[m], rdproc)
  BY <1>3 DEF RdSameRequests, RdRequest
<1>11. RdRequests(r, u, C \ {q.node[n].pid}, rdproc)
  <2>1. ASSUME NEW i \in 1..Len(u)
        PROVE  \E j \in 1..Len(S) : u[i] = S[j] /\ j # k /\ u[i] \in RdNodes /\ r.node[u[i]].pid = q.node[S[j]].pid
    <3>1. PICK j \in 1..Len(S) : S[j] = u[i] /\ u[i] # n BY <1>5 DEF IsRdBut
    <3>2. u[i] \in RdNodes BY <1>6, <3>1
    <3>3. r.node[u[i]].pid = q.node[u[i]].pid BY <1>3, <3>2 DEF RdSameRequests
    <3>4. QED BY <3>1, <3>2, <3>3
  <2>2. ASSUME NEW i \in 1..Len(u)
        PROVE  RdRequest(r.node[u[i]], rdproc) /\ r.node[u[i]].pid \in C \ {q.node[n].pid}
    <3>1. PICK j \in 1..Len(S) : u[i] = S[j] /\ j # k /\ u[i] \in RdNodes /\ r.node[u[i]].pid = q.node[S[j]].pid
      BY <2>1
    <3>2. RdRequest(q.node[S[j]], rdproc) /\ q.node[S[j]].pid \in C /\ q.node[S[j]].pid # q.node[S[k]].pid
      BY <1>8, <3>1 DEF RdRequests
    <3>3. QED BY <1>10, <3>1, <3>2
  <2>3. ASSUME NEW i \in 1..Len(u), NEW j \in 1..Len(u), r.node[u[i]].pid = r.node[u[j]].pid PROVE i = j
    <3>1. PICK a \in 1..Len(S) : u[i] = S[a] /\ r.node[u[i]].pid = q.node[S[a]].pid BY <2>1
    <3>2. PICK b \in 1..Len(S) : u[j] = S[b] /\ r.node[u[j]].pid = q.node[S[b]].pid BY <2>1
    <3>3. a = b BY <1>8, <2>3, <3>1, <3>2 DEF RdRequests
    <3>4. QED BY <1>5, <3>1, <3>2, <3>3 DEF IsRdBut
  <2>4. ASSUME NEW p \in C \ {q.node[n].pid} PROVE \E i \in 1..Len(u) : r.node[u[i]].pid = p
    <3>1. PICK j \in 1..Len(S) : q.node[S[j]].pid = p BY <1>8 DEF RdRequests
    <3>2. S[j] # n BY <3>1
    <3>3. PICK i \in 1..Len(u) : u[i] = S[j] BY <1>5, <3>2 DEF IsRdBut
    <3>4. r.node[S[j]].pid = q.node[S[j]].pid BY <1>3, <1>6 DEF RdSameRequests
    <3>5. QED BY <3>1, <3>3, <3>4
  <2>5. QED BY <2>2, <2>3, <2>4 DEF RdRequests
<1>12. r.free \in 0..RD_QNODES
  <2>1. r.free \in 1..RD_QNODES BY <1>3, <1>7, RdCounts
  <2>2. QED BY <2>1, RdCounts
<1>13. RdList(r, u, <<n>> \o F, C \ {q.node[n].pid}) BY <1>3, <1>4, <1>11, <1>12 DEF RdList
<1>14. Len(u) = Len(S) - 1 BY <1>5 DEF IsRdBut
<1>15. QED BY <1>2, <1>4, <1>9, <1>13, <1>14 DEF RdIsOff

\* Who goes back from the tail then comes to no other nodes than before.
RdOffBehind(q, r, S, u, B, n) ==
    /\ RdBehind(r, u, B) /\ RdSameRequests(q, r) /\ n \in RdNodes
    /\ \A m : m \in RdLeft(u, B) <=> m = n \/ m \in RdLeft(S, B)
LEMMA RdStaysBehind ==
    ASSUME NEW q, NEW S, NEW F, NEW C, RdList(q, S, F, C), NEW k \in 1..Len(S), NEW n, n = S[k],
           NEW B, RdBehind(q, S, B)
    PROVE  RdOffBehind(q, rdqunlink(q, n), S, RdBut(S, k), B, n)
<1>1. /\ S \in Seq(RdNodes) /\ (\A i, j \in 1..Len(S) : S[i] = S[j] => i = j)
      /\ q.node \in [RdNodes -> RdNodeSet] /\ q.free \in 0..RD_QNODES
  BY DEF RdList, RdLinked
<1>2. PICK l \in Nat : l = Len(S) BY <1>1
<1>3. n \in RdNodes /\ n \in B BY <1>1 DEF RdBehind
<1>4. PICK x, y : x = q.node[n].next /\ y = q.node[n].prev OBVIOUS
<1>5. n = q.tail => x = NULL
  <2>1. q.tail = S[l] /\ l \in 1..l
    <3>1. S # << >> /\ l \in 1..l BY <1>1, <1>2
    <3>2. QED BY <1>2, <3>1 DEF RdList, RdLinked
  <2>2. n = q.tail => k = l BY <1>1, <1>2, <2>1
  <2>3. q.node[S[k]].next = IF k = l THEN NULL ELSE S[k + 1] BY <1>2 DEF RdList, RdLinked
  <2>4. QED BY <1>4, <2>2, <2>3
<1>6. PICK r : r = rdqunlink(q, n) OBVIOUS
<1>7. RdUnlinked(q, r, n, x, y) BY <1>1, <1>3, <1>4, <1>5, <1>6, RdUnlinkedIs
<1>8. RdSameRequests(q, r) BY <1>7 DEF RdUnlinked, RdSameRequests
<1>9. PICK u : u = RdBut(S, k) OBVIOUS
<1>10. IsRdBut(u, S, k) BY <1>1, <1>9, RdButIs, Zenon
<1>11. \A m : (\E i \in 1..Len(u) : u[i] = m) <=> m # n /\ \E i \in 1..Len(S) : S[i] = m
  BY <1>10 DEF IsRdBut
<1>12. RdBehind(r, u, B)
  <2>1. y \in B \cup {NULL} BY <1>3, <1>4 DEF RdBehind
  <2>2. ASSUME NEW m \in B PROVE r.node[m].prev \in B \cup {NULL}
    <3>1. m \in RdNodes BY DEF RdBehind
    <3>2. r.node[m].prev \in {y, q.node[m].prev} BY <1>7, <3>1 DEF RdUnlinked
    <3>3. q.node[m].prev \in B \cup {NULL} BY DEF RdBehind
    <3>4. QED BY <2>1, <3>2, <3>3
  <2>3. \A i \in 1..Len(u) : u[i] \in B
    <3>1. SUFFICES ASSUME NEW i \in 1..Len(u) PROVE u[i] \in B OBVIOUS
    <3>2. \E j \in 1..Len(S) : S[j] = u[i] BY <1>11
    <3>3. QED BY <3>2 DEF RdBehind
  <2>4. B \subseteq RdNodes BY DEF RdBehind
  <2>5. QED BY <2>2, <2>3, <2>4 DEF RdBehind
<1>13. \A m : m \in RdLeft(u, B) <=> m = n \/ m \in RdLeft(S, B) BY <1>3, <1>11 DEF RdLeft
<1>14. QED BY <1>3, <1>6, <1>8, <1>9, <1>12, <1>13 DEF RdOffBehind

\* A read has been answered, and the walk goes on: the requests S remain, of the callers
\* C without those who go on, who read the block; of the nodes B that a search comes to
\* none but those has a write.
RdOnlyQueued(q, S, B) == RdBehind(q, S, B) /\ \A n \in RdLeft(S, B) : q.node[n].op # "write"
RdServing(st, S, F, C, b, B) ==
    /\ st = [q |-> st.q, at |-> st.at, pids |-> st.pids]
    /\ RdList(st.q, S, F, C \ st.pids)
    /\ st.pids \subseteq C /\ \A p \in st.pids : rdproc[p].val = 0 /\ rdproc[p].blk = b
    /\ st.at = NULL \/ \E i \in 1..Len(S) : st.at = S[i]
    /\ RdOnlyQueued(st.q, S, B)
LEMMA RdServesOn ==
    ASSUME NEW st, NEW S, NEW F, NEW C, NEW b, NEW B, RdServing(st, S, F, C, b, B)
    PROVE  \E T, G : RdServing(RdServes(st, b), T, G, C, b, B) /\ Len(T) <= Len(S)
<1>1. S \in Seq(RdNodes) BY DEF RdServing, RdList, RdLinked
<1>2. PICK l \in Nat : l = Len(S) BY <1>1
<1>3. CASE st.at = NULL
  <2>1. RdServes(st, b) = st BY <1>3 DEF RdServes
  <2>2. Len(S) <= Len(S) BY <1>2
  <2>3. QED BY <2>1, <2>2
<1>4. CASE st.at # NULL
  <2>1. PICK k \in 1..l : st.at = S[k] BY <1>2, <1>4 DEF RdServing
  <2>2. PICK n, q, e : n = S[k] /\ q = st.q /\ e = q.node[n] OBVIOUS
  <2>3. RdList(q, S, F, C \ st.pids) BY <2>2 DEF RdServing
  <2>4. e.next = NULL \/ (k # l /\ k + 1 \in 1..l /\ e.next = S[k + 1])
    <3>1. e.next = IF k = l THEN NULL ELSE S[k + 1] BY <1>2, <2>2, <2>3 DEF RdList, RdLinked
    <3>2. k # l => k + 1 \in 1..l OBVIOUS
    <3>3. QED BY <3>1, <3>2
  <2>5. PICK s : s = [st EXCEPT !.at = e.next] OBVIOUS
  <2>6. RdServing(s, S, F, C, b, B)
    <3>1. s = [q |-> st.q, at |-> e.next, pids |-> st.pids] BY <2>5 DEF RdServing
    <3>2. s.q = st.q /\ s.at = e.next /\ s.pids = st.pids BY <3>1
    <3>3. s.at = NULL \/ \E i \in 1..Len(S) : s.at = S[i] BY <1>2, <2>4, <3>2
    <3>4. QED BY <3>1, <3>2, <3>3 DEF RdServing
  <2>7. CASE e.blk = b /\ e.op = "read"
    <3>1. RdServes(st, b) = [q |-> rdqunlink(q, n), at |-> e.next, pids |-> st.pids \cup {e.pid}]
      BY <1>4, <2>1, <2>2, <2>7 DEF RdServes
    <3>2. PICK z : z = RdServes(st, b) OBVIOUS
    <3>3. z.q = rdqunlink(q, n) /\ z.at = e.next /\ z.pids = st.pids \cup {e.pid}
          /\ z = [q |-> z.q, at |-> z.at, pids |-> z.pids]
      BY <3>1, <3>2
    <3>4. PICK u : u = RdBut(S, k) OBVIOUS
    <3>5. k \in 1..Len(S) BY <1>2
    <3>6. /\ RdList(z.q, u, <<n>> \o F, (C \ st.pids) \ {e.pid})
          /\ RdRequest(e, rdproc) /\ e.pid \in C \ st.pids /\ Len(u) = Len(S) - 1
      <4>1. RdIsOff(q, rdqunlink(q, n), S, RdBut(S, k), F, C \ st.pids, n) BY <2>2, <2>3, <3>5, RdTakesOff, Zenon
      <4>2. QED BY <2>2, <3>3, <3>4, <4>1, Zenon DEF RdIsOff
    <3>7. (C \ st.pids) \ {e.pid} = C \ z.pids BY <3>3
    <3>8. e.val = 0 BY <2>7, <3>6 DEF RdRequest
    <3>9. rdproc[e.pid].val = 0 /\ rdproc[e.pid].blk = b BY <2>7, <3>6, <3>8 DEF RdRequest
    <3>10. z.pids \subseteq C /\ \A p \in z.pids : rdproc[p].val = 0 /\ rdproc[p].blk = b
      BY <3>3, <3>6, <3>9 DEF RdServing
    <3>11. z.at = NULL \/ \E i \in 1..Len(u) : z.at = u[i]
      <4>1. ASSUME k # l, k + 1 \in 1..l, e.next = S[k + 1] PROVE \E i \in 1..Len(u) : z.at = u[i]
        <5>1. k \in 1..(l - 1) BY <4>1
        <5>2. u[k] = S[k + 1] BY <1>2, <3>4, <5>1 DEF RdBut
        <5>3. Len(u) = l - 1 BY <1>2, <3>6
        <5>4. QED BY <3>3, <4>1, <5>1, <5>2, <5>3
      <4>2. QED BY <2>4, <3>3, <4>1
    <3>12. RdOnlyQueued(z.q, u, B)
      <4>1. RdOnlyQueued(q, S, B) BY <2>2 DEF RdServing
      <4>2. RdOffBehind(q, rdqunlink(q, n), S, RdBut(S, k), B, n)
        BY <2>2, <2>3, <3>5, <4>1, RdStaysBehind, Zenon DEF RdOnlyQueued
      <4>3. RdOffBehind(q, z.q, S, u, B, n) BY <3>3, <3>4, <4>2
      <4>4. \A m \in RdLeft(u, B) : z.q.node[m].op # "write"
        <5>1. SUFFICES ASSUME NEW m, m = n \/ m \in RdLeft(S, B) PROVE z.q.node[m].op # "write"
          BY <4>3 DEF RdOffBehind
        <5>2. m \in RdNodes
          <6>1. RdBehind(q, S, B) BY <4>1 DEF RdOnlyQueued
          <6>2. QED BY <4>3, <5>1, <6>1 DEF RdLeft, RdBehind, RdOffBehind
        <5>3. q.node[m].op # "write" BY <2>2, <2>7, <4>1, <5>1 DEF RdOnlyQueued
        <5>4. QED BY <4>3, <5>2, <5>3 DEF RdOffBehind, RdSameRequests
      <4>5. QED BY <4>3, <4>4 DEF RdOffBehind, RdOnlyQueued
    <3>13. RdServing(z, u, <<n>> \o F, C, b, B) BY <3>3, <3>6, <3>7, <3>10, <3>11, <3>12 DEF RdServing
    <3>14. Len(u) <= Len(S) BY <1>2, <3>6
    <3>15. QED BY <3>2, <3>13, <3>14
  <2>8. CASE ~(e.blk = b /\ e.op = "read")
    <3>1. RdServes(st, b) = st \/ RdServes(st, b) = s BY <1>4, <2>1, <2>2, <2>5, <2>8 DEF RdServes
    <3>2. Len(S) <= Len(S) BY <1>2
    <3>3. QED BY <2>6, <3>1, <3>2
  <2>9. QED BY <2>7, <2>8
<1>5. QED BY <1>3, <1>4

\* The function of the walk.
RdServedTo(f, st, b, N) == f = [k \in 0..N |-> IF k = 0 THEN st ELSE RdServes(f[k - 1], b)]
LEMMA RdServedBuilt == ASSUME NEW st, NEW b PROVE \A N \in Nat : \E f : RdServedTo(f, st, b, N)
<1> DEFINE T == {N \in Nat : \E f : RdServedTo(f, st, b, N)}
<1>1. 0 \in T
  <2>1. PICK f : f = [k \in 0..0 |-> st] OBVIOUS
  <2>2. f = [k \in 0..0 |-> IF k = 0 THEN st ELSE RdServes(f[k - 1], b)] BY <2>1
  <2>3. RdServedTo(f, st, b, 0) BY <2>2 DEF RdServedTo
  <2>4. QED BY <2>3
<1>2. ASSUME NEW N \in Nat, N \in T PROVE N + 1 \in T
  <2>1. PICK f : RdServedTo(f, st, b, N) BY <1>2
  <2>2. f = [k \in 0..N |-> IF k = 0 THEN st ELSE RdServes(f[k - 1], b)] BY <2>1 DEF RdServedTo
  <2>3. PICK y : y = RdServes(f[N], b) OBVIOUS
  <2>4. PICK g : g = [k \in 0..(N + 1) |-> IF k = N + 1 THEN y ELSE f[k]] OBVIOUS
  <2>5. \A k \in 0..(N + 1) : g[k] = IF k = 0 THEN st ELSE RdServes(g[k - 1], b)
    <3> TAKE k \in 0..(N + 1)
    <3>1. CASE k = N + 1
      <4>1. g[k] = y /\ k # 0 /\ k - 1 = N BY <2>4, <3>1
      <4>2. g[N] = f[N] BY <2>4
      <4>3. QED BY <2>3, <4>1, <4>2
    <3>2. CASE k # N + 1
      <4>1. k \in 0..N /\ g[k] = f[k] BY <2>4, <3>2
      <4>2. f[k] = IF k = 0 THEN st ELSE RdServes(f[k - 1], b) BY <2>2, <4>1
      <4>3. k # 0 => k - 1 \in 0..(N + 1) /\ k - 1 # N + 1 BY <4>1
      <4>4. k # 0 => g[k - 1] = f[k - 1] BY <2>4, <4>3
      <4>5. QED BY <4>1, <4>2, <4>4
    <3>3. QED BY <3>1, <3>2
  <2>6. g = [k \in 0..(N + 1) |-> IF k = 0 THEN st ELSE RdServes(g[k - 1], b)] BY <2>4, <2>5
  <2>7. RdServedTo(g, st, b, N + 1) BY <2>6 DEF RdServedTo
  <2>8. QED BY <2>7
<1>3. \A N \in Nat : N \in T
  <2> HIDE DEF T
  <2>1. QED BY <1>1, <1>2, Induction, Zenon
<1>4. QED BY <1>3

\* From the first request, a read, those of the block up to a write of it are served.
LEMMA RdServedIs ==
    ASSUME NEW S, NEW F, NEW C, RdList(RdQ, S, F, C), S # << >>, NEW n, n = S[1],
           rdnode[n].op = "read", NEW b, rdnode[n].blk = b, NEW B, RdOnlyQueued(RdQ, S, B)
    PROVE  \E T, G : RdServing(RdServed(n, b), T, G, C, b, B) /\ Len(T) <= Len(S) - 1
<1>1. S \in Seq(RdNodes) BY DEF RdList, RdLinked
<1>2. PICK l \in Nat : l = Len(S) /\ l # 0 BY <1>1
<1>3. 1 \in 1..Len(S) BY <1>2
<1>4. PICK q : q = rdqunlink(RdQ, n) OBVIOUS
<1>5. PICK u : u = RdBut(S, 1) OBVIOUS
<1>6. PICK e : e = rdnode[n] OBVIOUS
<1>7. RdQ.node[n] = e BY <1>6 DEF RdQ
<1>8. /\ RdList(q, u, <<n>> \o F, C \ {e.pid})
      /\ RdRequest(e, rdproc) /\ e.pid \in C /\ Len(u) = Len(S) - 1
  <2>1. RdIsOff(RdQ, rdqunlink(RdQ, n), S, RdBut(S, 1), F, C, n) BY <1>3, RdTakesOff, Zenon
  <2>2. QED BY <1>4, <1>5, <1>7, <2>1, Zenon DEF RdIsOff
<1>9. PICK st : st = [q |-> q, at |-> q.head, pids |-> {e.pid}] OBVIOUS
<1>10. st.q = q /\ st.at = q.head /\ st.pids = {e.pid} /\ st = [q |-> st.q, at |-> st.at, pids |-> st.pids]
  BY <1>9
<1>11. rdproc[e.pid].val = 0 /\ rdproc[e.pid].blk = b BY <1>6, <1>8 DEF RdRequest
<1>12. q.head = NULL \/ \E i \in 1..Len(u) : q.head = u[i]
  <2>1. u \in Seq(RdNodes) /\ q.head = IF u = << >> THEN NULL ELSE u[1] BY <1>8 DEF RdList, RdLinked
  <2>2. u # << >> => 1 \in 1..Len(u) BY <2>1
  <2>3. QED BY <2>1, <2>2
<1>13. RdServing(st, u, <<n>> \o F, C, b, B)
  <2>1. RdOffBehind(RdQ, rdqunlink(RdQ, n), S, RdBut(S, 1), B, n)
    BY <1>3, RdStaysBehind, Zenon DEF RdOnlyQueued
  <2>2. RdOffBehind(RdQ, q, S, u, B, n) BY <1>4, <1>5, <2>1
  <2>3. \A m \in RdLeft(u, B) : q.node[m].op # "write"
    <3>1. SUFFICES ASSUME NEW m, m = n \/ m \in RdLeft(S, B) PROVE q.node[m].op # "write"
      BY <2>2 DEF RdOffBehind
    <3>2. m \in RdNodes
      <4>1. RdBehind(RdQ, S, B) BY DEF RdOnlyQueued
      <4>2. QED BY <2>2, <3>1, <4>1 DEF RdLeft, RdBehind, RdOffBehind
    <3>3. RdQ.node[m].op # "write" BY <1>6, <1>7, <3>1 DEF RdOnlyQueued
    <3>4. QED BY <2>2, <3>2, <3>3 DEF RdOffBehind, RdSameRequests
  <2>4. RdOnlyQueued(q, u, B) BY <2>2, <2>3 DEF RdOffBehind, RdOnlyQueued
  <2>5. QED BY <1>8, <1>10, <1>11, <1>12, <2>4 DEF RdServing
<1>14. PICK N \in Nat : N = RD_QNODES BY RdCounts
<1>15. PICK f : f = CHOOSE g : RdServedTo(g, st, b, N) OBVIOUS
<1>16. RdServedTo(f, st, b, N) BY <1>15, RdServedBuilt
<1>17. RdServed(n, b) = f[N] BY <1>4, <1>6, <1>9, <1>14, <1>15 DEF RdServed, RdServedTo
<1> DEFINE Is(k) == \E T, G : RdServing(f[k], T, G, C, b, B) /\ Len(T) <= l - 1
           K == {k \in Nat : k <= N => Is(k)}
<1>18. 0 \in K
  <2>1. 0 \in 0..N OBVIOUS
  <2>2. f[0] = st BY <1>16, <2>1 DEF RdServedTo
  <2>3. Len(u) <= l - 1 BY <1>2, <1>8
  <2>4. Is(0) BY <1>13, <2>2, <2>3
  <2>5. QED BY <2>4
<1>19. ASSUME NEW k \in Nat, k \in K PROVE k + 1 \in K
  <2>1. CASE k + 1 <= N
    <3>1. k <= N /\ k + 1 \in 0..N /\ k + 1 # 0 /\ (k + 1) - 1 = k BY <2>1
    <3>2. PICK T, G : RdServing(f[k], T, G, C, b, B) /\ Len(T) <= l - 1 BY <1>19, <3>1
    <3>3. f[k + 1] = RdServes(f[(k + 1) - 1], b) BY <1>16, <3>1 DEF RdServedTo
    <3>4. f[k + 1] = RdServes(f[k], b) BY <3>1, <3>3
    <3>5. PICK U, H : RdServing(f[k + 1], U, H, C, b, B) /\ Len(U) <= Len(T) BY <3>2, <3>4, RdServesOn
    <3>6. Len(T) \in Nat /\ Len(U) \in Nat
      <4>1. T \in Seq(RdNodes) /\ U \in Seq(RdNodes) BY <3>2, <3>5 DEF RdServing, RdList, RdLinked
      <4>2. QED BY <4>1
    <3>7. Len(U) <= l - 1 BY <3>2, <3>5, <3>6
    <3>8. Is(k + 1) BY <3>5, <3>7
    <3>9. QED BY <3>8
  <2>2. CASE ~(k + 1 <= N) BY <2>2
  <2>3. QED BY <2>1, <2>2
<1>20. \A k \in Nat : k \in K
  <2> HIDE DEF K
  <2>1. QED BY <1>18, <1>19, Induction, Zenon
<1>21. Is(N)
  <2>1. N <= N OBVIOUS
  <2>2. N \in K BY <1>20
  <2>3. QED BY <2>1, <2>2
<1>22. QED BY <1>2, <1>17, <1>21

\* The queue, its requests and those who made them.
RdChained(S, F) ==
    /\ RdLinked(RdQ, S) /\ RdFreed(RdQ, S, F) /\ RdRequests(RdQ, S, RdSuspended, rdproc)
    /\ RdSearchable(RdQ, S)
LEMMA RdRequestsKept ==
    ASSUME NEW q, NEW S, NEW C, NEW g, NEW h, RdRequests(q, S, C, g),
           \A p \in C : h[p].at = g[p].at /\ h[p].blk = g[p].blk /\ h[p].val = g[p].val
    PROVE  RdRequests(q, S, C, h)
BY DEF RdRequests, RdRequest

\* A step of callers that are not suspended leaves the queue as it is,
RdNoneGoes ==
    \A p \in RdProcs : rdproc'[p].at = "suspended" \/ rdproc[p].at = "suspended" =>
        rdproc'[p].at = rdproc[p].at /\ rdproc'[p].blk = rdproc[p].blk /\ rdproc'[p].val = rdproc[p].val
LEMMA RdChainedKept ==
    ASSUME NEW S, NEW F, RdChained(S, F), UNCHANGED rdqueue, RdNoneGoes
    PROVE  RdChained(S, F)'
<1>1. RdQ' = RdQ BY DEF RdQ, rdqueue
<1>2. RdSuspended' = RdSuspended BY DEF RdSuspended, RdNoneGoes
<1>3. \A p \in RdSuspended : /\ rdproc'[p].at = rdproc[p].at /\ rdproc'[p].blk = rdproc[p].blk
                             /\ rdproc'[p].val = rdproc[p].val
  BY DEF RdSuspended, RdNoneGoes
<1>4. RdRequests(RdQ, S, RdSuspended, rdproc) BY DEF RdChained
<1>5. PICK q, C, g, h : q = RdQ /\ C = RdSuspended /\ g = rdproc /\ h = rdproc' OBVIOUS
<1>6. RdRequests(q, S, C, h) BY <1>3, <1>4, <1>5, RdRequestsKept
<1>7. RdRequests(RdQ', S, RdSuspended', rdproc') BY <1>1, <1>2, <1>5, <1>6
<1>8. RdLinked(RdQ', S) /\ RdFreed(RdQ', S, F) /\ RdSearchable(RdQ', S) BY <1>1 DEF RdChained
<1>9. QED BY <1>7, <1>8 DEF RdChained
LEMMA RdQueuedKept ==
    ASSUME RdQueued, UNCHANGED <<rdqueue, rdsem, rdcom>>, RdNoneGoes
    PROVE  RdQueued'
<1>1. PICK S, F : RdHolds(S, F) BY DEF RdQueued
<1>2. RdChained(S, F)' BY <1>1, RdChainedKept DEF RdHolds, RdChained
<1>3. RdComHas(S)' BY <1>1 DEF RdHolds, RdComHas, RdComReads, rdqueue
<1>4. RdHolds(S, F)' BY <1>2, <1>3 DEF RdHolds, RdChained
<1>5. QED BY <1>4 DEF RdQueued

\* and the parts that a step does not touch stay as they are.
LEMMA RdCallersKept == ASSUME RdCallers, UNCHANGED <<rdproc, rdlive>> PROVE RdCallers'
BY DEF RdCallers, RdCaller, RdWriting, RdLive
LEMMA RdNumberedKept == ASSUME RdNumbered, UNCHANGED <<rdproc, rdlive, RdGiven>> PROVE RdNumbered'
BY DEF RdNumbered, RdWriting
LEMMA RdGivenKept == ASSUME UNCHANGED rdbudget PROVE UNCHANGED RdGiven
BY DEF RdGiven
LEMMA RdCopiesKept == ASSUME RdCopies, UNCHANGED <<rdcache, rdproc, rdlive>> PROVE RdCopies'
BY DEF RdCopies, RdCurrent, RdWriting, RdLive
LEMMA RdOnDiskKept == ASSUME RdOnDisk, UNCHANGED <<rdcom, rddisk, rdlive, rddoubt>> PROVE RdOnDisk'
BY DEF RdOnDisk, RdComWrites, RdLive
LEMMA RdCarriedKept == ASSUME RdCarried, UNCHANGED <<rdcom, rdnet, rdlive, rddoubt>> PROVE RdCarried'
BY DEF RdCarried, RdLive, rdnet
LEMMA RdGoodKept ==
    ASSUME RdGood,
           UNCHANGED <<rdqueue, rdcache, rdsem, rdcom, rdproc, rdnet, rdlive, rddoubt>>,
           rdbudget' \in RdBudget, UNCHANGED RdGiven, "stale read" \notin rdfault'
    PROVE  RdGood'
<1>1. RdTyped' BY DEF RdGood, RdTyped, rdqueue, rdnet
<1>2. RdQueued'
  <2>1. RdNoneGoes BY DEF RdNoneGoes
  <2>2. QED BY <2>1, RdQueuedKept DEF RdGood
<1>3. RdValues' BY RdCallersKept, RdNumberedKept, RdCopiesKept DEF RdGood, RdValues
<1>4. RdTransfer' BY RdOnDiskKept, RdCarriedKept DEF RdGood, RdTransfer, rdnet
<1>5. QED BY <1>1, <1>2, <1>3, <1>4 DEF RdGood

\* A block of RdBlocks, and the first of several.
LEMMA RdBlockIn == RdBlocks \subseteq RdBlock /\ RdNode.blk \in RdBlock
BY DEF RdBlock
LEMMA RdFirstIs == ASSUME NEW S \in SUBSET Nat, S # {} PROVE RdFirst(S) \in S /\ \A j \in S : RdFirst(S) <= j
<1>1. \E i \in S : \A j \in S : i <= j BY LeastNat, Zenon
<1>2. QED BY <1>1, Zenon DEF RdFirst
LEMMA RdIdleIs ==
    /\ RdIdle \in RdProcSet /\ RdIdle.at = "idle" /\ RdIdle.blk = RdNode.blk /\ RdIdle.val = 0
    /\ RdIdle.may = {} /\ RdIdle.older = {}
BY RdBlockIn DEF RdIdle, RdProcSet
LEMMA RdComIdleIs ==
    /\ RdComIdle \in RdComSet /\ RdComIdle.at = "idle" /\ RdComIdle.op = "none" /\ RdComIdle.node = NULL
BY RdBlockIn, RdCounts DEF RdComIdle, RdComSet
-----------------------------------------------------------------------------
\* At first every node is free.
LEMMA RdStarts == rdsinit => RdInv
<1> SUFFICES ASSUME rdsinit PROVE RdGood BY DEF RdInv
<1> USE DEF rdsinit
<1>1. PICK n \in Nat : n = RD_QNODES /\ n # 0 BY RdAssumption
<1>2. PICK F : F = [i \in 1..n |-> i] OBVIOUS
<1>3. F \in Seq(RdNodes) /\ Len(F) = n /\ (\A i \in 1..n : F[i] = i) /\ F # << >>
  <2>1. F \in Seq(1..n) /\ Len(F) = n BY <1>2
  <2>2. \A i \in 1..n : F[i] = i BY <1>2
  <2>3. F # << >> BY <1>1, <2>1
  <2>4. QED BY <1>1, <2>1, <2>2, <2>3, RdCounts
<1>4. \A m \in RdNodes : /\ rdnode[m] \in RdNodeSet
                         /\ rdnode[m].next = IF m = n THEN NULL ELSE m + 1
  <2>1. SUFFICES ASSUME NEW m \in RdNodes
                 PROVE  rdnode[m] \in RdNodeSet /\ rdnode[m].next = IF m = n THEN NULL ELSE m + 1
    OBVIOUS
  <2>2. PICK x : x = IF m = n THEN NULL ELSE m + 1 OBVIOUS
  <2>3. rdnode[m] = [RdNode EXCEPT !.next = x] BY <1>1, <2>2
  <2>4. x \in 0..RD_QNODES BY <1>1, <2>2, RdCounts
  <2>5. RdNode.blk \in RdBlock BY RdBlockIn
  <2>6. RdNode \in RdNodeSet BY <2>5, RdCounts DEF RdNode, RdNodeSet
  <2>7. QED BY <2>2, <2>3, <2>4, <2>6 DEF RdNodeSet
<1>5. RdQueued
  <2>1. RdQ.head = NULL /\ RdQ.tail = NULL /\ RdQ.free = 1 /\ RdQ.node = rdnode BY DEF RdQ
  <2>2. RdLinked(RdQ, << >>) BY <2>1 DEF RdLinked
  <2>3. RdFreed(RdQ, << >>, F)
    <3>1. 1 \in 1..n BY <1>1
    <3>2. \A i \in 1..n : rdnode[F[i]].next = IF i = n THEN NULL ELSE F[i + 1]
      <4>1. SUFFICES ASSUME NEW i \in 1..n PROVE rdnode[i].next = IF i = n THEN NULL ELSE F[i + 1] BY <1>3
      <4>2. i \in RdNodes BY <1>1, RdCounts
      <4>3. i # n => i + 1 \in 1..n BY <1>1
      <4>4. QED BY <1>3, <1>4, <4>2, <4>3
    <3>3. \A m \in RdNodes : \E i \in 1..n : F[i] = m BY <1>1, <1>3, RdCounts
    <3>4. ~\E i \in 1..Len(<< >>) : TRUE OBVIOUS
    <3>5. RdQ.free = IF F = << >> THEN NULL ELSE F[1] BY <1>3, <2>1, <3>1
    <3>6. \A i, j \in 1..n : F[i] = F[j] => i = j BY <1>3
    <3>7. \A i \in 1..Len(F) : RdQ.node[F[i]].next = IF i = Len(F) THEN NULL ELSE F[i + 1]
      BY <1>3, <2>1, <3>2, Zenon
    <3>8. \A i, j \in 1..Len(F) : F[i] = F[j] => i = j BY <1>3, <3>6, Zenon
    <3>9. \A m \in RdNodes : (\E i \in 1..Len(F) : F[i] = m) <=> ~\E i \in 1..Len(<< >>) : << >>[i] = m
      BY <1>3, <3>3, <3>4, Zenon
    <3>10. QED BY <1>3, <3>5, <3>7, <3>8, <3>9, Zenon DEF RdFreed
  <2>4. RdSuspended = {} BY RdIdleIs DEF RdSuspended
  <2>5. RdRequests(RdQ, << >>, RdSuspended, rdproc) BY <2>4 DEF RdRequests
  <2>6. RdComHas(<< >>) BY RdComIdleIs DEF RdComHas, RdComReads
  <2>7. RdSearchable(RdQ, << >>)
    <3>1. RdBehind(RdQ, << >>, {}) BY DEF RdBehind
    <3>2. RdLeft(<< >>, {}) = {} BY DEF RdLeft
    <3>3. QED BY <3>1, <3>2 DEF RdSearchable
  <2>8. QED BY <2>2, <2>3, <2>5, <2>6, <2>7 DEF RdQueued, RdHolds
<1>6. RdTyped
  <2>1. rdnode \in [RdNodes -> RdNodeSet]
    <3>1. rdnode = [m \in RdNodes |-> rdnode[m]] OBVIOUS
    <3>2. QED BY <1>4, <3>1
  <2>2. rdbudget \in RdBudget BY RdAssumption DEF RdBudget
  <2>3. rdlive \in [RdBlocks -> SUBSET [val : Nat, done : BOOLEAN]] OBVIOUS
  <2>4. rdproc \in [RdProcs -> RdProcSet] /\ rdcom \in RdComSet BY RdIdleIs, RdComIdleIs
  <2>5. rddisk \in [RdBlocks -> Nat] /\ rdcache \in Seq([blk : RdBlocks, val : Nat]) OBVIOUS
  <2>6. QED BY <2>1, <2>2, <2>3, <2>4, <2>5 DEF RdTyped
<1>7. RdCallers BY RdIdleIs DEF RdCallers, RdCaller, RdWriting
<1>8. RdNumbered
  <2>1. RdGiven \in Nat BY <1>6, RdCounts DEF RdGiven, RdTyped, RdBudget
  <2>2. \A p \in RdProcs : rdproc[p].val = 0 /\ rdproc[p].older = {} BY RdIdleIs
  <2>3. \A b \in RdBlocks : \A x \in rdlive[b] : x.val = 0 OBVIOUS
  <2>4. 0 <= RdGiven BY <2>1
  <2>5. QED BY <2>2, <2>3, <2>4 DEF RdNumbered, RdWriting
<1>9. RdCopies BY DEF RdCopies
<1>10. RdOnDisk /\ RdCarried
  <2>1. \A b \in RdBlocks : 0 \in RdLive(b) BY DEF RdLive
  <2>2. QED BY <2>1, RdComIdleIs DEF RdOnDisk, RdCarried, RdComWrites
<1>11. QED BY <1>5, <1>6, <1>7, <1>8, <1>9, <1>10 DEF RdGood, RdValues, RdTransfer

\* What the callers do, one by one.
LEMMA RdProcIs ==
    ASSUME RdTyped, NEW p \in RdProcs
    PROVE  /\ rdproc[p] \in RdProcSet /\ rdproc[p].val \in Nat /\ rdproc[p].blk \in RdBlock
           /\ rdproc[p].may \in SUBSET Nat /\ rdproc[p].older \in SUBSET Nat
<1>1. rdproc[p] \in RdProcSet BY DEF RdTyped
<1>2. QED BY <1>1 DEF RdProcSet
LEMMA RdLiveIs ==
    ASSUME RdTyped, NEW b \in RdBlocks
    PROVE  rdlive[b] \in SUBSET [val : Nat, done : BOOLEAN] /\ RdLive(b) \in SUBSET Nat
<1>1. rdlive[b] \in SUBSET [val : Nat, done : BOOLEAN] BY DEF RdTyped
<1>2. QED BY <1>1 DEF RdLive
LEMMA RdBudgetIs ==
    ASSUME RdTyped
    PROVE  /\ rdbudget \in RdBudget /\ rdbudget.reads \in Nat /\ rdbudget.writes \in Nat
           /\ rdbudget.writes <= RdWrites /\ RdGiven \in Nat /\ RdGiven + rdbudget.writes = RdWrites
           /\ rdbudget.asked \cup rdbudget.given \subseteq RdBlocks
<1>1. rdbudget \in RdBudget BY DEF RdTyped
<1>2. /\ rdbudget.reads \in Nat /\ rdbudget.writes \in 0..RdWrites
      /\ rdbudget.asked \cup rdbudget.given \subseteq RdBlocks
  BY <1>1 DEF RdBudget
<1>3. QED BY <1>1, <1>2, RdCounts DEF RdGiven
LEMMA RdCacheIs ==
    ASSUME RdTyped
    PROVE  /\ Len(rdcache) \in Nat /\ DOMAIN rdcache = 1..Len(rdcache)
           /\ \A i \in 1..Len(rdcache) : rdcache[i] \in [blk : RdBlocks, val : Nat]
<1>1. PICK X : X = [blk : RdBlocks, val : Nat] OBVIOUS
<1>2. rdcache \in Seq(X) BY <1>1 DEF RdTyped
<1>3. PICK s \in Seq(X) : s = rdcache BY <1>2
<1>4. Len(s) \in Nat /\ DOMAIN s = 1..Len(s) /\ \A i \in 1..Len(s) : s[i] \in X OBVIOUS
<1>5. QED BY <1>1, <1>3, <1>4

\* A search finds a request to write only if it is on the queue: a free one would be found after
\* the head of the queue, which is then a request to write that block.
RdSearching(w, f) == RdWalks(w, f, RdPrev, rdtail)
LEMMA RdSearchVisits ==
    ASSUME RdTyped, NEW S, NEW F, RdHolds(S, F), NEW w, NEW f, RdSearching(w, f)
    PROVE  \A k \in Nat : k < Len(S) => f[k] = S[Len(S) - k]
<1>1. S \in Seq(RdNodes) /\ RdLinked(RdQ, S) /\ \A i, j \in 1..Len(S) : S[i] = S[j] => i = j
  BY DEF RdHolds, RdLinked
<1>2. PICK l \in Nat, N \in Nat : l = Len(S) /\ N = RD_QNODES /\ l <= N BY <1>1, RdFits, RdCounts
<1>3. f[0] = rdtail /\ \A i \in Nat : i + 1 <= N => f[i + 1] = IF f[i] = NULL THEN NULL ELSE RdPrev[f[i]]
  BY <1>2 DEF RdSearching, RdWalks
<1> DEFINE T == {k \in Nat : k < l => f[k] = S[l - k]}
<1>4. 0 \in T
  <2>1. 0 < l => f[0] = S[l - 0]
    <3>1. 0 < l => S # << >> /\ l - 0 = l BY <1>1, <1>2
    <3>2. 0 < l => rdtail = S[l] BY <1>1, <1>2, <3>1 DEF RdLinked, RdQ
    <3>3. QED BY <1>3, <3>1, <3>2
  <2>2. QED BY <2>1
<1>5. ASSUME NEW k \in Nat, k \in T PROVE k + 1 \in T
  <2>1. CASE k + 1 < l
    <3>1. k < l /\ k + 1 <= N /\ l - k \in 2..l /\ (l - k) - 1 = l - (k + 1) BY <1>2, <2>1
    <3>2. f[k] = S[l - k] BY <1>5, <3>1
    <3>3. S[l - k] \in RdNodes /\ S[l - k] # NULL
      <4>1. l - k \in 1..l BY <3>1
      <4>2. QED BY <1>1, <1>2, <4>1, RdCounts
    <3>4. f[k + 1] = RdPrev[S[l - k]] BY <1>3, <3>1, <3>2, <3>3
    <3>5. RdPrev[S[l - k]] = rdnode[S[l - k]].prev BY <3>3 DEF RdPrev
    <3>6. rdnode[S[l - k]].prev = S[(l - k) - 1] BY <1>1, <1>2, <3>1 DEF RdLinked, RdQ
    <3>7. QED BY <3>1, <3>4, <3>5, <3>6
  <2>2. CASE ~(k + 1 < l) BY <2>2
  <2>3. QED BY <2>1, <2>2
<1>6. \A k \in Nat : k \in T
  <2> HIDE DEF T
  <2>1. QED BY <1>4, <1>5, Induction, Zenon
<1>7. QED BY <1>2, <1>6
LEMMA RdSearchStays ==
    ASSUME RdTyped, NEW S, NEW F, RdHolds(S, F), NEW w, NEW f, RdSearching(w, f), NEW B, RdBehind(RdQ, S, B)
    PROVE  \A k \in Nat : k <= RD_QNODES => f[k] \in B \cup {NULL}
<1>1. S \in Seq(RdNodes) /\ RdLinked(RdQ, S) BY DEF RdHolds, RdLinked
<1>2. PICK N \in Nat : N = RD_QNODES BY RdCounts
<1>3. f[0] = rdtail /\ \A i \in Nat : i + 1 <= N => f[i + 1] = IF f[i] = NULL THEN NULL ELSE RdPrev[f[i]]
  BY <1>2 DEF RdSearching, RdWalks
<1>4. B \subseteq RdNodes /\ (\A i \in 1..Len(S) : S[i] \in B) /\ \A n \in B : rdnode[n].prev \in B \cup {NULL}
  BY DEF RdBehind, RdQ
<1> DEFINE T == {k \in Nat : k <= N => f[k] \in B \cup {NULL}}
<1>5. 0 \in T
  <2>1. S # << >> => Len(S) \in 1..Len(S) /\ rdtail = S[Len(S)] BY <1>1 DEF RdLinked, RdQ
  <2>2. S = << >> => rdtail = NULL BY <1>1 DEF RdLinked, RdQ
  <2>3. f[0] \in B \cup {NULL} BY <1>3, <1>4, <2>1, <2>2
  <2>4. QED BY <2>3
<1>6. ASSUME NEW k \in Nat, k \in T PROVE k + 1 \in T
  <2>1. CASE k + 1 <= N
    <3>1. f[k] \in B \cup {NULL} BY <1>6, <2>1
    <3>2. f[k + 1] = IF f[k] = NULL THEN NULL ELSE RdPrev[f[k]] BY <1>3, <2>1
    <3>3. f[k] # NULL => RdPrev[f[k]] = rdnode[f[k]].prev /\ f[k] \in B BY <1>4, <3>1 DEF RdPrev
    <3>4. f[k + 1] \in B \cup {NULL} BY <1>4, <3>2, <3>3
    <3>5. QED BY <3>4
  <2>2. CASE ~(k + 1 <= N) BY <2>2
  <2>3. QED BY <2>1, <2>2
<1>7. \A k \in Nat : k \in T
  <2> HIDE DEF T
  <2>1. QED BY <1>5, <1>6, Induction, Zenon
<1>8. QED BY <1>2, <1>7
LEMMA RdSearchFinds ==
    ASSUME RdTyped, NEW S, NEW F, RdHolds(S, F), NEW b, NEW n \in RdQueuedWrites(b)
    PROVE  /\ \E i \in 1..Len(S) : S[i] = n
           /\ rdnode[n].blk = b /\ rdnode[n].op = "write"
<1>1. PICK w, f : w = RdWalk(RdPrev, rdtail) /\ RdSearching(w, f) BY RdWalkIsWalk DEF RdSearching
<1>2. PICK N \in Nat : N = RD_QNODES BY RdCounts
<1>3. DOMAIN w = {j \in 1..(N + 1) : f[j - 1] # NULL} /\ \A j \in DOMAIN w : w[j] = f[j - 1]
  BY <1>1, <1>2 DEF RdSearching, RdWalks
<1>4. PICK hits : hits = {i \in DOMAIN w : rdnode[w[i]].blk = b} OBVIOUS
<1>5. hits # {} /\ n = w[RdFirst(hits)] /\ rdnode[n].op = "write"
  <2>1. n \in RdSearched(b) /\ rdnode[n].op = "write" BY DEF RdQueuedWrites
  <2>2. n \in IF hits # {} THEN {w[RdFirst(hits)]} ELSE {} BY <1>1, <1>4, <2>1 DEF RdSearched
  <2>3. QED BY <2>1, <2>2
<1>6. hits \in SUBSET Nat /\ hits \subseteq 1..(N + 1)
  <2>1. hits \subseteq 1..(N + 1) BY <1>3, <1>4
  <2>2. 1..(N + 1) \subseteq Nat OBVIOUS
  <2>3. QED BY <2>1, <2>2
<1>7. PICK k : k = RdFirst(hits) /\ k \in hits /\ \A j \in hits : k <= j BY <1>5, <1>6, RdFirstIs
<1>8. k \in 1..(N + 1) /\ n = f[k - 1] /\ n # NULL /\ rdnode[n].blk = b
  BY <1>3, <1>4, <1>5, <1>6, <1>7
<1>9. PICK l \in Nat : l = Len(S) /\ S \in Seq(RdNodes) /\ l <= N
  <2>1. S \in Seq(RdNodes) /\ \A i, j \in 1..Len(S) : S[i] = S[j] => i = j BY DEF RdHolds, RdLinked
  <2>2. QED BY <1>2, <2>1, RdFits
<1>10. \A i \in Nat : i < l => f[i] = S[l - i] BY <1>1, <1>9, RdSearchVisits
<1>11. CASE k <= l
  <2>1. k - 1 \in Nat /\ k - 1 < l /\ l - (k - 1) \in 1..l BY <1>8, <1>11
  <2>2. f[k - 1] = S[l - (k - 1)] BY <1>10, <2>1
  <2>3. QED BY <1>5, <1>8, <1>9, <2>1, <2>2
<1>12. CASE ~(k <= l)
  <2>1. PICK B : RdBehind(RdQ, S, B) /\ \A m \in RdLeft(S, B) : RdCovered(RdQ, S, m)
    BY DEF RdHolds, RdSearchable
  <2>2. n \in B
    <3>1. k - 1 \in Nat /\ k - 1 <= N BY <1>8
    <3>2. f[k - 1] \in B \cup {NULL} BY <1>1, <1>2, <2>1, <3>1, RdSearchStays
    <3>3. QED BY <1>8, <3>2
  <2>3. CASE n \in RdLeft(S, B)
    <3>1. S # << >> /\ rdnode[S[1]].blk = b BY <1>5, <1>8, <2>1, <2>3 DEF RdCovered, RdQ
    <3>2. l - 1 \in Nat /\ l - 1 < l /\ l - (l - 1) = 1 /\ 1 \in 1..l /\ l \in 1..(N + 1)
      <4>1. l # 0 BY <1>9, <3>1
      <4>2. QED BY <1>9, <4>1
    <3>3. f[l - 1] = S[1] BY <1>10, <3>2
    <3>4. S[1] # NULL BY <1>9, <3>2, RdCounts
    <3>5. l \in DOMAIN w /\ w[l] = S[1] BY <1>3, <3>2, <3>3, <3>4
    <3>6. l \in hits BY <1>4, <3>1, <3>5
    <3>7. k <= l BY <1>7, <3>6
    <3>8. QED BY <1>12, <3>7
  <2>4. CASE n \notin RdLeft(S, B) BY <1>5, <1>8, <2>2, <2>4 DEF RdLeft
  <2>5. QED BY <2>3, <2>4
<1>13. QED BY <1>11, <1>12

\* rdsread finds a current copy in the cache, or a request to write the block,
LEMMA RdBudgetRead ==
    ASSUME RdTyped, rdbudget.reads > 0, rdbudget' = [rdbudget EXCEPT !.reads = @ - 1]
    PROVE  rdbudget' \in RdBudget /\ UNCHANGED RdGiven
<1>1. rdbudget \in RdBudget /\ rdbudget.reads - 1 \in Nat BY RdBudgetIs
<1>2. rdbudget' \in RdBudget /\ rdbudget'.writes = rdbudget.writes BY <1>1 DEF RdBudget
<1>3. QED BY <1>2 DEF RdGiven
LEMMA RdReadsHere ==
    ASSUME RdGood, NEW p \in RdProcs, NEW b \in RdBlocks, RdReadHere(p, b),
           rdbudget' \in RdBudget, UNCHANGED RdGiven,
           UNCHANGED <<rdstate, rdcache, rdcom, rdnet, rdlive, rddoubt>>
    PROVE  RdGood'
<1>1. RdTyped /\ RdCallers BY DEF RdGood, RdValues
<1>2. UNCHANGED <<rdqueue, rdproc, rdsem>> BY DEF RdReadHere
<1>3. ASSUME RdCached(b) # {} PROVE rdcache[RdFirst(RdCached(b))].val \in RdLive(b)
  <2>1. PICK n \in Nat : n = Len(rdcache) /\ DOMAIN rdcache = 1..n BY <1>1, RdCacheIs
  <2>2. RdCached(b) \in SUBSET Nat
    <3>1. RdCached(b) \subseteq 1..n BY <2>1 DEF RdCached
    <3>2. 1..n \subseteq Nat OBVIOUS
    <3>3. QED BY <3>1, <3>2
  <2>3. RdFirst(RdCached(b)) \in RdCached(b) BY <1>3, <2>2, RdFirstIs
  <2>4. PICK i \in 1..n : i = RdFirst(RdCached(b)) /\ rdcache[i].blk = b BY <2>1, <2>3 DEF RdCached
  <2>5. QED BY <2>1, <2>4 DEF RdGood, RdValues, RdCopies, RdCurrent
<1>4. ASSUME NEW n \in RdQueuedWrites(b) PROVE rdnode[n].val \in RdLive(b)
  <2>1. PICK S, F : RdHolds(S, F) BY DEF RdGood, RdQueued
  <2>2. (\E i \in 1..Len(S) : S[i] = n) /\ rdnode[n].blk = b /\ rdnode[n].op = "write"
    BY <1>1, <1>4, <2>1, RdSearchFinds
  <2>3. RdRequest(rdnode[n], rdproc) BY <2>1, <2>2 DEF RdHolds, RdRequests, RdQ
  <2>4. PICK w : w = rdnode[n].pid OBVIOUS
  <2>5. w \in RdProcs /\ RdWriting(w) /\ rdnode[n].val = rdproc[w].val /\ rdproc[w].blk = b
    BY <2>2, <2>3, <2>4 DEF RdRequest, RdWriting
  <2>6. [val |-> rdproc[w].val, done |-> FALSE] \in rdlive[b] BY <1>1, <2>5 DEF RdCallers, RdCaller
  <2>7. QED BY <2>5, <2>6 DEF RdLive
<1>5. "stale read" \notin rdfault'
  <2>1. "stale read" \notin rdfault BY DEF RdGood
  <2>2. CASE RdCached(b) # {} /\ RdFaults(rdcache[RdFirst(RdCached(b))].val \notin RdLive(b), "stale read")
    BY <1>3, <2>1, <2>2 DEF RdFaults
  <2>3. CASE \E n \in RdQueuedWrites(b) : RdFaults(rdnode[n].val \notin RdLive(b), "stale read")
    BY <1>4, <2>1, <2>3 DEF RdFaults
  <2>4. CASE rdfault' = rdfault \cup {"endless walk"} BY <2>1, <2>4
  <2>5. QED BY <2>2, <2>3, <2>4 DEF RdReadHere
<1>6. QED BY <1>2, <1>5, RdGoodKept

\* The communication process: it takes a request,
LEMMA RdExchangeIs ==
    ASSUME RdTyped, NEW op \in {"read", "write"}, NEW b \in RdBlocks, NEW v \in Nat, NEW n \in 0..RD_QNODES,
           RdExchange(op, b, v, n)
    PROVE  /\ rdcom' \in RdComSet /\ rdcom'.at = "send" /\ rdcom'.op = op /\ rdcom'.blk = b
           /\ rdcom'.val = v /\ rdcom'.seq = rdseq /\ rdcom'.node = n
<1>1. rdseq \in Nat /\ b \in RdBlock BY RdBlockIn DEF RdTyped
<1>2. PICK c : c = [RdComIdle EXCEPT !.at = "send", !.op = op, !.blk = b, !.val = v, !.seq = rdseq, !.node = n]
  OBVIOUS
<1>3. /\ c \in RdComSet /\ c.at = "send" /\ c.op = op /\ c.blk = b /\ c.val = v /\ c.seq = rdseq /\ c.node = n
  BY <1>1, <1>2 DEF RdComIdle, RdComSet
<1>4. QED BY <1>2, <1>3 DEF RdExchange
LEMMA RdTakesNothing == ASSUME RdGood, RdTakesNone PROVE RdGood'
<1>1. /\ UNCHANGED <<rdqueue, rdcache, rdcom, rdproc, rdnet, rdbudget, rdlive, rddoubt, rdfault>>
      /\ rdcom.at = "idle" /\ rdsem > 0 /\ rdhead = NULL /\ rdsem' = rdsem - 1
  BY DEF RdTakesNone
<1>2. rdsem' \in Nat
  <2>1. rdsem \in Nat BY DEF RdGood, RdTyped
  <2>2. QED BY <1>1, <2>1
<1>3. RdTyped' BY <1>1, <1>2 DEF RdGood, RdTyped, rdqueue, rdnet
<1>4. RdQueued'
  <2>1. PICK S, F : RdHolds(S, F) BY DEF RdGood, RdQueued
  <2>2. RdNoneGoes BY <1>1 DEF RdNoneGoes
  <2>3. RdChained(S, F)' BY <1>1, <2>1, <2>2, RdChainedKept DEF RdHolds, RdChained
  <2>4. S = << >>
    <3>1. S # << >> => 1 \in 1..Len(S) /\ S[1] \in RdNodes BY <2>1 DEF RdHolds, RdLinked
    <3>2. S # << >> => S[1] = NULL BY <1>1, <2>1 DEF RdHolds, RdLinked, RdQ
    <3>3. QED BY <3>1, <3>2, RdCounts
  <2>5. Len(S) = 0 BY <2>4
  <2>6. RdComHas(S)' BY <1>1, <1>2, <2>1, <2>5 DEF RdHolds, RdComHas, RdComReads
  <2>7. RdHolds(S, F)' BY <2>3, <2>6 DEF RdHolds, RdChained
  <2>8. QED BY <2>7 DEF RdQueued
<1>5. RdValues' BY <1>1, RdCallersKept, RdNumberedKept, RdGivenKept, RdCopiesKept DEF RdGood, RdValues
<1>6. RdTransfer' BY <1>1, RdOnDiskKept, RdCarriedKept DEF RdGood, RdTransfer, rdnet
<1>7. QED BY <1>1, <1>3, <1>4, <1>5, <1>6 DEF RdGood
LEMMA RdTakesReading == ASSUME RdGood, RdTakesRead PROVE RdGood'
<1>1. /\ UNCHANGED <<rdqueue, rdcache, rdproc, rdreq, rdrep, rddisk, rdbudget, rdlive, rddoubt, rdfault>>
      /\ rdcom.at = "idle" /\ rdsem > 0 /\ rdhead # NULL /\ rdnode[rdhead].op = "read"
      /\ rdsem' = rdsem - 1 /\ rdseq' = rdseq + 1
      /\ RdExchange("read", rdnode[rdhead].blk, 0, rdhead)
  BY DEF RdTakesRead
<1>2. RdTyped BY DEF RdGood
<1>3. PICK S, F : RdHolds(S, F) BY DEF RdGood, RdQueued
<1>4. S # << >> /\ rdhead = S[1] /\ rdhead \in RdNodes /\ RdRequest(rdnode[rdhead], rdproc)
  <2>1. RdLinked(RdQ, S) /\ RdRequests(RdQ, S, RdSuspended, rdproc) BY <1>3 DEF RdHolds
  <2>2. S # << >> /\ rdhead = S[1] BY <1>1, <2>1 DEF RdLinked, RdQ
  <2>3. 1 \in 1..Len(S) /\ S[1] \in RdNodes BY <2>1, <2>2 DEF RdLinked
  <2>4. QED BY <2>1, <2>2, <2>3 DEF RdRequests, RdQ
<1>5. rdnode[rdhead].blk \in RdBlocks
  <2>1. RdCallers BY DEF RdGood, RdValues
  <2>2. QED BY <1>4, <2>1 DEF RdCallers, RdCaller, RdRequest
<1>6. /\ rdcom' \in RdComSet /\ rdcom'.at = "send" /\ rdcom'.op = "read" /\ rdcom'.blk = rdnode[rdhead].blk
      /\ rdcom'.seq = rdseq /\ rdcom'.node = rdhead
  <2>1. rdhead \in 0..RD_QNODES BY <1>4, RdCounts
  <2>2. QED BY <1>1, <1>2, <1>5, <2>1, RdExchangeIs
<1>7. rdsem' \in Nat /\ rdsem' + 1 = rdsem /\ rdseq' \in Nat /\ rdseq \in Nat BY <1>1, <1>2 DEF RdTyped
<1>8. RdTyped' BY <1>1, <1>2, <1>6, <1>7 DEF RdTyped, rdqueue
<1>9. RdQueued'
  <2>1. RdNoneGoes BY <1>1 DEF RdNoneGoes
  <2>2. RdChained(S, F)' BY <1>1, <1>3, <2>1, RdChainedKept DEF RdHolds, RdChained
  <2>3. rdsem >= Len(S)
    <3>1. rdsem + 0 >= Len(S) BY <1>1, <1>3 DEF RdHolds, RdComHas, RdComReads
    <3>2. rdsem + 0 = rdsem BY <1>2 DEF RdTyped
    <3>3. QED BY <3>1, <3>2
  <2>4. rdsem' + 1 >= Len(S) BY <1>7, <2>3
  <2>5. rdnode' = rdnode BY <1>1 DEF rdqueue
  <2>6. RdComHas(S)' BY <1>1, <1>4, <1>6, <2>4, <2>5 DEF RdComHas, RdComReads
  <2>7. RdHolds(S, F)' BY <2>2, <2>6 DEF RdHolds, RdChained
  <2>8. QED BY <2>7 DEF RdQueued
<1>10. RdValues' BY <1>1, RdCallersKept, RdNumberedKept, RdGivenKept, RdCopiesKept DEF RdGood, RdValues
<1>11. RdOnDisk'
  <2>1. RdOnDisk BY DEF RdGood, RdTransfer
  <2>2. QED BY <1>1, <1>6, <2>1 DEF RdOnDisk, RdComWrites, RdLive
<1>12. RdCarried'
  <2>1. RdCarried BY DEF RdGood, RdTransfer
  <2>2. \A m \in rdreq : m.seq < rdseq /\ m.seq \in Nat BY <1>2, <2>1 DEF RdCarried, RdTyped, RdMessage
  <2>3. \A r \in rdrep : r.seq < rdseq /\ r.seq \in Nat BY <1>2, <2>1 DEF RdCarried, RdTyped, RdAnswer
  <2>4. \A m \in rdreq : m.seq < rdseq' /\ m.seq # rdcom'.seq BY <1>1, <1>6, <1>7, <2>2
  <2>5. \A r \in rdrep : r.seq < rdseq' /\ r.seq # rdcom'.seq BY <1>1, <1>6, <1>7, <2>3
  <2>6. rdcom'.blk \in RdBlocks /\ rdcom'.seq < rdseq' /\ rdcom'.op # "none" BY <1>1, <1>5, <1>6, <1>7
  <2>7. rdreq' = rdreq /\ rdrep' = rdrep BY <1>1
  <2>8. QED BY <2>4, <2>5, <2>6, <2>7 DEF RdCarried
<1>13. QED BY <1>1, <1>8, <1>9, <1>10, <1>11, <1>12 DEF RdGood, RdTransfer

\* sends it, waits, and sends it again;
LEMMA RdComGoesOn ==
    ASSUME RdGood, UNCHANGED <<rdqueue, rdcache, rdsem, rdproc, rdseq, rddisk, rdbudget, rdlive, rddoubt, rdfault>>,
           rdcom' \in RdComSet, rdcom'.at = "idle" <=> rdcom.at = "idle",
           rdcom'.op = rdcom.op /\ rdcom'.blk = rdcom.blk /\ rdcom'.val = rdcom.val,
           rdcom'.seq = rdcom.seq /\ rdcom'.node = rdcom.node,
           rdrep' \subseteq rdrep, rdreq' \subseteq RdMessage,
           \A m \in rdreq' : m \in rdreq \/ ( /\ rdcom.at # "idle" /\ m.op = rdcom.op /\ m.blk = rdcom.blk
                                             /\ m.val = rdcom.val /\ m.seq = rdcom.seq)
    PROVE  RdGood'
<1>1. RdTyped' BY DEF RdGood, RdTyped, rdqueue
<1>2. RdQueued'
  <2>1. PICK S, F : RdHolds(S, F) BY DEF RdGood, RdQueued
  <2>2. RdNoneGoes BY DEF RdNoneGoes
  <2>3. RdChained(S, F)' BY <2>1, <2>2, RdChainedKept DEF RdHolds, RdChained
  <2>4. RdComReads' <=> RdComReads BY DEF RdComReads
  <2>5. rdnode' = rdnode BY DEF rdqueue
  <2>6. RdComHas(S)' BY <2>1, <2>4, <2>5 DEF RdHolds, RdComHas
  <2>7. RdHolds(S, F)' BY <2>3, <2>6 DEF RdHolds, RdChained
  <2>8. QED BY <2>7 DEF RdQueued
<1>3. RdValues' BY RdCallersKept, RdNumberedKept, RdGivenKept, RdCopiesKept DEF RdGood, RdValues
<1>4. RdOnDisk'
  <2>1. \A b : RdComWrites(b)' <=> RdComWrites(b) BY DEF RdComWrites
  <2>2. QED BY <2>1 DEF RdGood, RdTransfer, RdOnDisk, RdLive
<1>5. RdCarried'
  <2>1. RdCarried BY DEF RdGood, RdTransfer
  <2>2. /\ rdcom'.at # "idle" => rdcom'.blk \in RdBlocks /\ rdcom'.seq < rdseq' /\ rdcom'.op # "none"
    BY <2>1 DEF RdCarried
  <2>3. ASSUME NEW m \in rdreq'
        PROVE  /\ m.seq < rdseq'
               /\ rdcom'.at # "idle" /\ m.seq = rdcom'.seq =>
                     m.op = rdcom'.op /\ m.blk = rdcom'.blk /\ m.val = rdcom'.val
    BY <2>1 DEF RdCarried
  <2>4. \A b : RdLive(b)' = RdLive(b) BY DEF RdLive
  <2>5. ASSUME NEW r \in rdrep'
        PROVE  /\ r.seq < rdseq'
               /\ rdcom'.at # "idle" /\ r.seq = rdcom'.seq =>
                     /\ r.op = rdcom'.op
                     /\ rdcom'.blk \notin rddoubt' =>
                           IF r.op = "read" THEN r.val \in RdLive(rdcom.blk)' ELSE rddisk'[rdcom'.blk] = rdcom'.val
    BY <2>1, <2>4 DEF RdCarried
  <2>6. QED BY <2>2, <2>3, <2>5 DEF RdCarried
<1>6. QED BY <1>1, <1>2, <1>3, <1>4, <1>5 DEF RdGood, RdTransfer

LEMMA RdComIs ==
    ASSUME RdTyped
    PROVE  /\ rdcom \in RdComSet /\ rdcom.at \in {"idle", "send", "receive"} /\ rdcom.tries \in Nat
           /\ rdcom.val \in Nat /\ rdcom.seq \in Nat /\ rdcom.op \in {"none", "read", "write"}
           /\ rdcom.node \in 0..RD_QNODES
<1>1. rdcom \in RdComSet BY DEF RdTyped
<1>2. QED BY <1>1 DEF RdComSet
LEMMA RdSends == ASSUME RdGood, RdSend PROVE RdGood'
<1>1. /\ UNCHANGED <<rdqueue, rdcache, rdsem, rdproc, rdseq, rdrep, rddisk, rdbudget, rdlive, rddoubt, rdfault>>
      /\ rdcom.at = "send" /\ rdcom' = [rdcom EXCEPT !.at = "receive", !.xmit = TRUE]
      /\ \A m \in rdreq' : m \in rdreq \/ m = [op |-> rdcom.op, blk |-> rdcom.blk, val |-> rdcom.val,
                                              seq |-> rdcom.seq]
  BY DEF RdSend
<1>2. RdTyped BY DEF RdGood
<1>3. /\ rdcom' \in RdComSet /\ rdcom'.at = "receive" /\ rdcom'.op = rdcom.op /\ rdcom'.blk = rdcom.blk
      /\ rdcom'.val = rdcom.val /\ rdcom'.seq = rdcom.seq /\ rdcom'.node = rdcom.node
  <2>1. rdcom \in RdComSet BY <1>2, RdComIs
  <2>2. QED BY <1>1, <2>1 DEF RdComSet
<1>4. rdcom.op \in {"read", "write"} /\ rdcom.blk \in RdBlocks
  <2>1. RdCarried BY DEF RdGood, RdTransfer
  <2>2. rdcom.op # "none" /\ rdcom.blk \in RdBlocks BY <1>1, <2>1 DEF RdCarried
  <2>3. QED BY <1>2, <2>2, RdComIs
<1>5. \A m \in rdreq' : m \in rdreq \/ ( /\ rdcom.at # "idle" /\ m.op = rdcom.op /\ m.blk = rdcom.blk
                                        /\ m.val = rdcom.val /\ m.seq = rdcom.seq)
  BY <1>1
<1>6. rdreq' \subseteq RdMessage
  <2>1. rdreq \subseteq RdMessage BY <1>2 DEF RdTyped
  <2>2. [op |-> rdcom.op, blk |-> rdcom.blk, val |-> rdcom.val, seq |-> rdcom.seq] \in RdMessage
    BY <1>2, <1>4, RdComIs DEF RdMessage
  <2>3. QED BY <1>1, <2>1, <2>2
<1>7. QED BY <1>1, <1>3, <1>5, <1>6, RdComGoesOn
LEMMA RdRetries ==
    ASSUME RdGood, NEW x \in BOOLEAN, RdRetry(x), rdcom.at # "idle",
           UNCHANGED <<rdqueue, rdcache, rdsem, rdproc, rdseq, rdreq, rddisk, rdbudget, rdlive, rddoubt, rdfault>>,
           rdrep' \subseteq rdrep
    PROVE  RdGood'
<1>1. RdTyped BY DEF RdGood
<1>2. rdcom' = rdcom \/ rdcom' = [rdcom EXCEPT !.at = "send", !.tries = @ + 1, !.xmit = x] BY DEF RdRetry
<1>3. /\ rdcom' \in RdComSet /\ rdcom'.at # "idle" /\ rdcom'.op = rdcom.op /\ rdcom'.blk = rdcom.blk
      /\ rdcom'.val = rdcom.val /\ rdcom'.seq = rdcom.seq /\ rdcom'.node = rdcom.node
  <2>1. rdcom \in RdComSet /\ rdcom.tries + 1 \in Nat BY <1>1, RdComIs
  <2>2. QED BY <1>2, <2>1 DEF RdComSet
<1>4. rdreq' \subseteq RdMessage BY <1>1 DEF RdTyped
<1>5. QED BY <1>3, <1>4, RdComGoesOn
LEMMA RdLoses == ASSUME RdGood, RdLost PROVE RdGood'
<1>1. /\ UNCHANGED <<rdqueue, rdcache, rdsem, rdcom, rdproc, rdseq, rddisk, rdbudget, rdlive, rddoubt, rdfault>>
      /\ rdreq' \subseteq rdreq /\ rdrep' \subseteq rdrep
  BY DEF RdLost
<1>2. RdTyped BY DEF RdGood
<1>3. rdcom' \in RdComSet BY <1>1, <1>2, RdComIs
<1>4. rdreq' \subseteq RdMessage BY <1>1, <1>2 DEF RdTyped
<1>5. QED BY <1>1, <1>3, <1>4, RdComGoesOn

\* and the server does what it is sent: a copy of a request of earlier puts the block in doubt.
LEMMA RdServerServes ==
    ASSUME RdGood, NEW m \in rdreq, RdServer(m)
    PROVE  RdGood'
<1>1. /\ UNCHANGED <<rdqueue, rdcache, rdsem, rdcom, rdproc, rdseq, rdbudget, rdlive, rdfault>>
      /\ rdreq' = rdreq \ {m}
      /\ rddisk' = IF m.op = "write" THEN [rddisk EXCEPT ![m.blk] = m.val] ELSE rddisk
      /\ rdrep' = rdrep \cup {[op |-> m.op, seq |-> m.seq, val |-> rddisk'[m.blk]]}
      /\ rddoubt' = IF RdIsLate(m) THEN rddoubt \cup {m.blk} ELSE rddoubt
  BY DEF RdServer
<1>2. RdTyped /\ RdCarried /\ RdOnDisk BY DEF RdGood, RdTransfer
<1>3. m.op \in {"read", "write"} /\ m.blk \in RdBlocks /\ m.val \in Nat /\ m.seq \in Nat
  BY <1>2 DEF RdTyped, RdMessage
<1>4. \A b : b \notin rddoubt' => b \notin rddoubt /\ (b = m.blk => ~RdIsLate(m)) BY <1>1
<1>5. rddisk \in [RdBlocks -> Nat] BY <1>2 DEF RdTyped
<1>6. rddisk' \in [RdBlocks -> Nat] BY <1>1, <1>3, <1>5
<1>7. PICK d : d = rddisk'[m.blk] /\ d \in Nat BY <1>3, <1>6
<1>8. PICK r : r = [op |-> m.op, seq |-> m.seq, val |-> d] OBVIOUS
<1>9. r \in RdAnswer BY <1>3, <1>7, <1>8 DEF RdAnswer
<1>10. \A s \in rdrep' : s \in rdrep \/ s = r BY <1>1, <1>7, <1>8
<1>11. RdTyped'
  <2>1. rdreq' \subseteq RdMessage BY <1>1, <1>2 DEF RdTyped
  <2>2. rdrep' \subseteq RdAnswer BY <1>2, <1>9, <1>10 DEF RdTyped
  <2>3. QED BY <1>1, <1>2, <1>6, <2>1, <2>2 DEF RdTyped, rdqueue
<1>12. RdQueued'
  <2>1. RdNoneGoes BY <1>1 DEF RdNoneGoes
  <2>2. QED BY <1>1, <2>1, RdQueuedKept DEF RdGood
<1>13. RdValues' BY <1>1, RdCallersKept, RdNumberedKept, RdGivenKept, RdCopiesKept DEF RdGood, RdValues
\* A block that is not in doubt changes only when it is being written.
<1>14. \A b \in RdBlocks : rddisk'[b] # rddisk[b] /\ b \notin rddoubt' =>
           /\ b = m.blk /\ m.op = "write" /\ rdcom.at # "idle" /\ rdcom.seq = m.seq /\ rddisk'[b] = m.val
  BY <1>1, <1>3, <1>4, <1>5 DEF RdIsLate
<1>15. rdcom.at # "idle" /\ m.seq = rdcom.seq => m.op = rdcom.op /\ m.blk = rdcom.blk /\ m.val = rdcom.val
  BY <1>2 DEF RdCarried
<1>16. \A b \in RdBlocks : rddisk'[b] # rddisk[b] /\ b \notin rddoubt' => RdComWrites(b) /\ rddisk'[b] = rdcom.val
  BY <1>14, <1>15 DEF RdComWrites
<1>17. \A b : RdLive(b)' = RdLive(b) /\ (RdComWrites(b)' <=> RdComWrites(b)) BY <1>1 DEF RdLive, RdComWrites
<1>18. RdOnDisk'
  <2>1. SUFFICES ASSUME NEW b \in RdBlocks
                 PROVE  IF RdComWrites(b) THEN rdcom.val \in RdLive(b)
                        ELSE b \notin rddoubt' => rddisk'[b] \in RdLive(b)
    BY <1>1, <1>17 DEF RdOnDisk
  <2>2. QED BY <1>2, <1>4, <1>16 DEF RdOnDisk
<1>19. RdCarried'
  <2>1. rdcom.at # "idle" => rdcom.blk \in RdBlocks /\ rdcom.seq < rdseq /\ rdcom.op # "none"
    BY <1>2 DEF RdCarried
  <2>2. \A s \in rdreq' : s \in rdreq BY <1>1
  <2>3. ASSUME NEW s \in rdrep'
        PROVE  /\ s.seq < rdseq
               /\ rdcom.at # "idle" /\ s.seq = rdcom.seq =>
                     /\ s.op = rdcom.op
                     /\ rdcom.blk \notin rddoubt' =>
                           IF s.op = "read" THEN s.val \in RdLive(rdcom.blk) ELSE rddisk'[rdcom.blk] = rdcom.val
    <3>1. CASE s \in rdrep
      <4>1. /\ s.seq < rdseq
            /\ rdcom.at # "idle" /\ s.seq = rdcom.seq =>
                  /\ s.op = rdcom.op
                  /\ rdcom.blk \notin rddoubt =>
                        IF s.op = "read" THEN s.val \in RdLive(rdcom.blk) ELSE rddisk[rdcom.blk] = rdcom.val
        BY <1>2, <3>1 DEF RdCarried
      <4>2. QED BY <1>4, <1>16, <2>1, <4>1
    <3>2. CASE s = r
      <4>1. s.op = m.op /\ s.seq = m.seq /\ s.val = d BY <1>8, <3>2
      <4>2. m.seq < rdseq BY <1>2 DEF RdCarried
      <4>3. ASSUME rdcom.at # "idle", m.seq = rdcom.seq
            PROVE  /\ m.op = rdcom.op
                   /\ rdcom.blk \notin rddoubt' =>
                         IF m.op = "read" THEN d \in RdLive(rdcom.blk) ELSE rddisk'[rdcom.blk] = rdcom.val
        <5>1. m.op = rdcom.op /\ m.blk = rdcom.blk /\ m.val = rdcom.val BY <1>15, <4>3
        <5>2. m.op = "write" => rddisk'[m.blk] = m.val BY <1>1, <1>3, <1>5
        <5>3. m.op = "read" => ~RdComWrites(m.blk) /\ rddisk' = rddisk BY <1>1, <5>1 DEF RdComWrites
        <5>4. m.op = "read" /\ m.blk \notin rddoubt' => rddisk[m.blk] \in RdLive(m.blk)
          BY <1>2, <1>3, <1>4, <5>3 DEF RdOnDisk
        <5>5. QED BY <1>3, <1>7, <5>1, <5>2, <5>3, <5>4
      <4>4. QED BY <4>1, <4>2, <4>3
    <3>3. QED BY <1>10, <3>1, <3>2
  <2>4. \A s \in rdreq : s.seq < rdseq /\ (rdcom.at # "idle" /\ s.seq = rdcom.seq =>
                                              s.op = rdcom.op /\ s.blk = rdcom.blk /\ s.val = rdcom.val)
    BY <1>2 DEF RdCarried
  <2>5. QED BY <1>1, <1>17, <2>1, <2>2, <2>3, <2>4 DEF RdCarried
<1>20. "stale read" \notin rdfault' BY <1>1 DEF RdGood
<1>21. QED BY <1>11, <1>12, <1>13, <1>18, <1>19, <1>20 DEF RdGood, RdTransfer

\* A node is filled with a request and put behind the tail.
RdEntered(nodes, n, op, b, v, p) ==
    /\ nodes \in [RdNodes -> RdNodeSet]
    /\ nodes[n].op = op /\ nodes[n].blk = b /\ nodes[n].val = v /\ nodes[n].pid = p
    /\ \A m \in RdNodes : m # n => nodes[m] = rdnode[m]
LEMMA RdFilledIs ==
    ASSUME RdTyped, NEW n \in RdNodes, NEW op \in {"read", "write"}, NEW p \in RdProcs,
           NEW b \in RdBlock, NEW v \in Nat
    PROVE  RdEntered(RdFilled(n, op, b, v, p), n, op, b, v, p)
<1>1. rdnode \in [RdNodes -> RdNodeSet] BY DEF RdTyped
<1>2. PICK e \in RdNodeSet : e = rdnode[n] BY <1>1
<1>3. PICK f : f = [e EXCEPT !.op = op, !.blk = b, !.val = v, !.pid = p] OBVIOUS
<1>4. f \in RdNodeSet /\ f.op = op /\ f.blk = b /\ f.val = v /\ f.pid = p BY <1>3 DEF RdNodeSet
<1>5. RdFilled(n, op, b, v, p) = [rdnode EXCEPT ![n] = f] BY <1>2, <1>3 DEF RdFilled
<1>6. PICK g : g = [rdnode EXCEPT ![n] = f] OBVIOUS
<1>7. g \in [RdNodes -> RdNodeSet] /\ g[n] = f /\ \A m \in RdNodes : m # n => g[m] = rdnode[m]
  BY <1>1, <1>4, <1>6
<1>8. QED BY <1>4, <1>5, <1>6, <1>7 DEF RdEntered
\* Both ways to insert put the node behind those that are queued.
RdPuts(S, n, nodes) ==
    /\ rdfree' = rdnode[n].next /\ rdtail' = n /\ rdhead' = (IF S = << >> THEN n ELSE rdhead)
    /\ rdnode' = IF S = << >> THEN [nodes EXCEPT ![n].next = NULL, ![n].prev = NULL]
                 ELSE [nodes EXCEPT ![n].next = NULL, ![n].prev = rdtail, ![rdtail].next = n]
LEMMA RdInsertIs ==
    ASSUME NEW S \in Seq(RdNodes), RdLinked(RdQ, S), NEW n \in RdNodes, NEW nodes,
           rdqinsert(n, nodes) \/ RdReadInsert(n, nodes)
    PROVE  RdPuts(S, n, nodes)
<1>1. rdhead = NULL <=> S = << >>
  <2>1. S # << >> => 1 \in 1..Len(S) OBVIOUS
  <2>2. S # << >> => S[1] # NULL BY <2>1, RdCounts
  <2>3. QED BY <2>2 DEF RdLinked, RdQ
<1>2. rdtail = NULL <=> S = << >>
  <2>1. S # << >> => Len(S) \in 1..Len(S) OBVIOUS
  <2>2. S # << >> => S[Len(S)] # NULL BY <2>1, RdCounts
  <2>3. QED BY <2>2 DEF RdLinked, RdQ
<1>3. CASE rdqinsert(n, nodes) BY <1>2, <1>3 DEF rdqinsert, RdPuts
<1>4. CASE RdReadInsert(n, nodes) BY <1>1, <1>4 DEF RdReadInsert, RdPuts
<1>5. QED BY <1>3, <1>4
LEMMA RdPutBehind ==
    ASSUME RdTyped, NEW S, NEW F, RdLinked(RdQ, S), RdFreed(RdQ, S, F), F # << >>,
           NEW p \in RdProcs, NEW op \in {"read", "write"}, NEW b \in RdBlock, NEW v \in Nat, NEW nodes,
           RdEntered(nodes, rdfree, op, b, v, p),
           rdqinsert(rdfree, nodes) \/ RdReadInsert(rdfree, nodes)
    PROVE  /\ rdnode' \in [RdNodes -> RdNodeSet] /\ rdfree \in RdNodes
           /\ RdAppended(RdQ, RdQ', S, F, rdfree)
           /\ rdnode'[rdfree].op = op /\ rdnode'[rdfree].blk = b
           /\ rdnode'[rdfree].val = v /\ rdnode'[rdfree].pid = p /\ (S # << >> => rdnode'[rdfree].prev = rdtail)
           /\ \A m \in RdNodes : m # rdfree =>
                 /\ rdnode'[m].op = rdnode[m].op /\ rdnode'[m].blk = rdnode[m].blk
                 /\ rdnode'[m].val = rdnode[m].val /\ rdnode'[m].pid = rdnode[m].pid
                 /\ rdnode'[m].prev = rdnode[m].prev
<1>1. S \in Seq(RdNodes) /\ F \in Seq(RdNodes) BY DEF RdLinked, RdFreed
<1>2. PICK n : n = rdfree OBVIOUS
<1>3. n = F[1] /\ n \in RdNodes /\ \E i \in 1..Len(F) : F[i] = n
  <2>1. 1 \in 1..Len(F) BY <1>1
  <2>2. QED BY <1>1, <1>2, <2>1 DEF RdFreed, RdQ
<1>4. PICK t : t = rdtail OBVIOUS
<1>5. t \in 0..RD_QNODES /\ (S = << >> => t = NULL) /\ (S # << >> => t \in RdNodes /\ t # n)
  <2>1. S # << >> => Len(S) \in 1..Len(S) /\ t = S[Len(S)] BY <1>1, <1>4 DEF RdLinked, RdQ
  <2>2. S # << >> => t \in RdNodes BY <1>1, <2>1
  <2>3. S # << >> => t # n BY <1>3, <2>1 DEF RdFreed
  <2>4. S = << >> => t = NULL BY <1>4 DEF RdLinked, RdQ
  <2>5. QED BY <2>2, <2>3, <2>4, RdCounts
<1>6. n \in 0..RD_QNODES /\ NULL \in 0..RD_QNODES BY <1>3, RdCounts
<1>7. RdEntered(nodes, n, op, b, v, p) BY <1>2
<1>8. nodes \in [RdNodes -> RdNodeSet] BY <1>7 DEF RdEntered
<1>9. /\ rdfree' = rdnode[n].next /\ rdtail' = n /\ rdhead' = (IF S = << >> THEN n ELSE rdhead)
      /\ rdnode' = IF S = << >> THEN [nodes EXCEPT ![n].next = NULL, ![n].prev = NULL]
                   ELSE [nodes EXCEPT ![n].next = NULL, ![n].prev = t, ![t].next = n]
  <2>1. rdqinsert(n, nodes) \/ RdReadInsert(n, nodes) BY <1>2
  <2>2. RdLinked(RdQ, S) /\ S \in Seq(RdNodes) /\ n \in RdNodes BY <1>1, <1>3
  <2>3. RdPuts(S, n, nodes) BY <2>1, <2>2, RdInsertIs, Zenon
  <2>4. QED BY <1>4, <2>3, Zenon DEF RdPuts
<1>10. PICK a : a = [nodes EXCEPT ![n].next = NULL] OBVIOUS
<1>11. PICK d : d = [a EXCEPT ![n].prev = t] OBVIOUS
<1>12. PICK c : c = IF S = << >> THEN d ELSE [d EXCEPT ![t].next = n] OBVIOUS
<1>13. rdnode' = c BY <1>5, <1>9, <1>10, <1>11, <1>12
<1>14. RdNextSet(a, nodes, n, NULL) BY <1>6, <1>8, <1>10, RdNextIsSet, Zenon
<1>15. a \in [RdNodes -> RdNodeSet] BY <1>14 DEF RdNextSet
<1>16. RdPrevSet(d, a, n, t) BY <1>5, <1>11, <1>15, RdPrevIsSet, Zenon
<1>17. d \in [RdNodes -> RdNodeSet] BY <1>16 DEF RdPrevSet
<1>18. /\ c \in [RdNodes -> RdNodeSet]
       /\ \A m \in RdNodes : /\ c[m].op = d[m].op /\ c[m].blk = d[m].blk /\ c[m].prev = d[m].prev
                             /\ c[m].val = d[m].val /\ c[m].pid = d[m].pid
       /\ \A m \in RdNodes : c[m].next = IF S # << >> /\ m = t THEN n ELSE d[m].next
  <2>1. CASE S = << >> BY <1>12, <1>17, <2>1
  <2>2. CASE S # << >>
    <3>1. c = [d EXCEPT ![t].next = n] BY <1>12, <2>2
    <3>2. RdNextSet(c, d, t, n) BY <1>6, <1>17, <3>1, RdNextIsSet, Zenon
    <3>3. QED BY <2>2, <3>2 DEF RdNextSet
  <2>3. QED BY <2>1, <2>2
<1>19. \A m \in RdNodes : /\ c[m].op = nodes[m].op /\ c[m].blk = nodes[m].blk
                          /\ c[m].val = nodes[m].val /\ c[m].pid = nodes[m].pid
                          /\ c[m].prev = IF m = n THEN t ELSE nodes[m].prev
                          /\ c[m].next = IF S # << >> /\ m = t THEN n
                                         ELSE IF m = n THEN NULL ELSE nodes[m].next
  BY <1>14, <1>16, <1>18 DEF RdNextSet, RdPrevSet
<1>20. \A m \in RdNodes : m # n /\ (S # << >> => m # t) => c[m] = nodes[m] BY <1>8, <1>10, <1>11, <1>12
<1>21. \A m \in RdNodes : m # n => nodes[m] = rdnode[m] BY <1>7 DEF RdEntered
<1>22. RdAppended(RdQ, RdQ', S, F, n)
  <2>1. PICK q, r : q = RdQ /\ r = RdQ' OBVIOUS
  <2>2. /\ q.node = rdnode /\ q.head = rdhead /\ q.tail = t /\ q.free = n
        /\ r.node = c /\ r.head = rdhead' /\ r.tail = rdtail' /\ r.free = rdfree'
    BY <1>2, <1>4, <1>13, <2>1 DEF RdQ
  <2>3. /\ r.free = q.node[n].next /\ r.tail = n /\ r.head = IF S = << >> THEN n ELSE q.head BY <1>9, <2>2
  <2>4. r.node[n].next = NULL /\ (S # << >> => r.node[n].prev = q.tail) BY <1>3, <1>5, <1>19, <2>2
  <2>5. S # << >> => r.node[q.tail].next = n /\ r.node[q.tail].prev = q.node[q.tail].prev
    BY <1>5, <1>19, <1>21, <2>2
  <2>6. \A m \in RdNodes : m # n /\ (S # << >> => m # q.tail) => r.node[m] = q.node[m]
    BY <1>20, <1>21, <2>2
  <2>7. RdLinked(q, S) /\ RdFreed(q, S, F) BY <2>1
  <2>8. RdAppended(q, r, S, F, n) BY <1>1, <2>2, <2>3, <2>4, <2>5, <2>6, <2>7, Zenon DEF RdAppended
  <2>9. QED BY <2>1, <2>8
<1>23. /\ c[n].op = op /\ c[n].blk = b /\ c[n].val = v /\ (S # << >> => c[n].prev = t) /\ c[n].pid = p
  BY <1>3, <1>5, <1>7, <1>19 DEF RdEntered
<1>24. QED BY <1>2, <1>3, <1>4, <1>13, <1>18, <1>19, <1>21, <1>22, <1>23

\* A caller enters its request for the block b, with the value v or to read it, and is suspended.
RdAsked(p, b, v) ==
    /\ rdproc[p].at = "idle"
    /\ rdproc'[p].at = "suspended" /\ rdproc'[p].blk = b /\ rdproc'[p].val = v
    /\ \A q \in RdProcs : q # p =>
          rdproc'[q].at = rdproc[q].at /\ rdproc'[q].blk = rdproc[q].blk /\ rdproc'[q].val = rdproc[q].val
LEMMA RdEnters ==
    ASSUME RdTyped, RdQueued, NEW p \in RdProcs, NEW b \in RdBlocks, NEW v \in Nat, RdAsked(p, b, v),
           NEW op, op = (IF v = 0 THEN "read" ELSE "write"), NEW nodes,
           nodes = RdFilled(rdfree, op, b, v, p),
           rdqinsert(rdfree, nodes) \/ RdReadInsert(rdfree, nodes), rdsem' = rdsem + 1, UNCHANGED rdcom
    PROVE  rdnode' \in [RdNodes -> RdNodeSet] /\ rdsem' \in Nat /\ RdQueued'
<1>1. b \in RdBlock /\ rdsem \in Nat BY RdBlockIn DEF RdTyped
<1>2. PICK S, F : RdHolds(S, F) BY DEF RdQueued
<1>3. /\ RdLinked(RdQ, S) /\ RdFreed(RdQ, S, F) /\ RdRequests(RdQ, S, RdSuspended, rdproc) /\ RdComHas(S)
      /\ RdSearchable(RdQ, S)
  BY <1>2 DEF RdHolds
<1>4. S \in Seq(RdNodes) /\ F \in Seq(RdNodes) BY <1>3 DEF RdLinked, RdFreed
<1>5. RdSuspended \in SUBSET RdProcs /\ p \notin RdSuspended BY DEF RdSuspended, RdAsked
<1>6. F # << >>
  <2>1. PICK C, g, q : C = RdSuspended /\ g = rdproc /\ q = RdQ OBVIOUS
  <2>2. RdRequests(q, S, C, g) /\ RdFreed(q, S, F) /\ C \in SUBSET RdProcs /\ p \notin C BY <1>3, <1>5, <2>1
  <2>3. QED BY <1>4, <2>2, RdHasFree, Zenon
<1>7. PICK n : n = rdfree OBVIOUS
<1>8. n \in RdNodes
  <2>1. 1 \in 1..Len(F) BY <1>4, <1>6
  <2>2. QED BY <1>3, <1>4, <1>6, <1>7, <2>1 DEF RdFreed, RdQ
<1>9. op \in {"read", "write"} OBVIOUS
<1>10. RdEntered(nodes, rdfree, op, b, v, p) BY <1>1, <1>7, <1>8, <1>9, RdFilledIs
<1>11. /\ rdnode' \in [RdNodes -> RdNodeSet]
       /\ RdAppended(RdQ, RdQ', S, F, n)
       /\ rdnode'[n].op = op /\ rdnode'[n].blk = b /\ rdnode'[n].val = v /\ rdnode'[n].pid = p
       /\ S # << >> => rdnode'[n].prev = rdtail
       /\ \A m \in RdNodes : m # n =>
             /\ rdnode'[m].op = rdnode[m].op /\ rdnode'[m].blk = rdnode[m].blk
             /\ rdnode'[m].val = rdnode[m].val /\ rdnode'[m].pid = rdnode[m].pid
             /\ rdnode'[m].prev = rdnode[m].prev
  BY <1>1, <1>3, <1>6, <1>7, <1>9, <1>10, RdPutBehind
<1>12. PICK u : u = Append(S, n) OBVIOUS
<1>13. PICK l \in Nat : l = Len(S) BY <1>4
<1>14. Len(u) = l + 1 /\ u[l + 1] = n /\ (\A i \in 1..l : u[i] = S[i] /\ S[i] \in RdNodes) /\ u # << >>
  BY <1>4, <1>8, <1>12, <1>13
<1>15. \A i \in 1..l : S[i] # n
  <2>1. 1 \in 1..Len(F) /\ F[1] = n BY <1>3, <1>4, <1>6, <1>7 DEF RdFreed, RdQ
  <2>2. QED BY <1>3, <1>8, <1>13, <2>1 DEF RdFreed
<1>16. RdLinked(RdQ', u) /\ RdFreed(RdQ', u, Tail(F))
  <2>1. PICK q, r : q = RdQ /\ r = RdQ' OBVIOUS
  <2>2. RdLinked(r, Append(S, n)) /\ RdFreed(r, Append(S, n), Tail(F)) BY <1>11, <2>1, RdAppends
  <2>3. QED BY <1>12, <2>1, <2>2
<1>17. RdSuspended' = RdSuspended \cup {p} BY DEF RdSuspended, RdAsked
<1>18. ASSUME NEW i \in 1..l
       PROVE  /\ RdRequest(rdnode'[u[i]], rdproc') /\ rdnode'[u[i]].pid = rdnode[S[i]].pid
              /\ rdnode[S[i]].pid \in RdSuspended
  <2>1. i \in 1..Len(S) BY <1>13
  <2>2. RdRequest(rdnode[S[i]], rdproc) /\ rdnode[S[i]].pid \in RdSuspended
    BY <1>3, <2>1 DEF RdRequests, RdQ
  <2>3. /\ u[i] = S[i] /\ rdnode'[S[i]].op = rdnode[S[i]].op /\ rdnode'[S[i]].blk = rdnode[S[i]].blk
        /\ rdnode'[S[i]].val = rdnode[S[i]].val /\ rdnode'[S[i]].pid = rdnode[S[i]].pid
    BY <1>11, <1>14, <1>15
  <2>4. PICK s \in RdProcs : s = rdnode[S[i]].pid /\ s # p BY <1>5, <2>2
  <2>5. rdproc'[s].at = rdproc[s].at /\ rdproc'[s].blk = rdproc[s].blk /\ rdproc'[s].val = rdproc[s].val
    BY <2>4 DEF RdAsked
  <2>6. QED BY <2>2, <2>3, <2>4, <2>5 DEF RdRequest
<1>19. RdRequest(rdnode'[u[l + 1]], rdproc') /\ rdnode'[u[l + 1]].pid = p
  BY <1>11, <1>14 DEF RdRequest, RdAsked
<1>20. RdRequests(RdQ', u, RdSuspended', rdproc')
  <2>1. PICK r : r = RdQ' /\ r.node = rdnode'
    <3>1. RdQ'.node = rdnode' BY DEF RdQ
    <3>2. QED BY <3>1
  <2>2. ASSUME NEW i \in 1..(l + 1)
        PROVE  RdRequest(r.node[u[i]], rdproc') /\ r.node[u[i]].pid \in RdSuspended'
    <3>1. i = l + 1 \/ i \in 1..l OBVIOUS
    <3>2. QED BY <1>17, <1>18, <1>19, <2>1, <3>1
  <2>3. ASSUME NEW i \in 1..(l + 1), NEW j \in 1..(l + 1), r.node[u[i]].pid = r.node[u[j]].pid PROVE i = j
    <3>1. (i = l + 1 \/ i \in 1..l) /\ (j = l + 1 \/ j \in 1..l) OBVIOUS
    <3>2. \A k \in 1..l : r.node[u[k]].pid = rdnode[S[k]].pid /\ r.node[u[k]].pid # p BY <1>5, <1>18, <2>1
    <3>3. r.node[u[l + 1]].pid = p BY <1>19, <2>1
    <3>4. CASE i \in 1..l /\ j \in 1..l
      <4>1. rdnode[S[i]].pid = rdnode[S[j]].pid BY <2>3, <3>2, <3>4
      <4>2. QED BY <1>3, <1>13, <3>4, <4>1 DEF RdRequests, RdQ
    <3>5. QED BY <2>3, <3>1, <3>2, <3>3, <3>4
  <2>4. ASSUME NEW s \in RdSuspended' PROVE \E i \in 1..(l + 1) : r.node[u[i]].pid = s
    <3>1. CASE s = p
      <4>1. l + 1 \in 1..(l + 1) BY <1>13
      <4>2. QED BY <1>19, <2>1, <3>1, <4>1
    <3>2. CASE s \in RdSuspended
      <4>1. PICK i \in 1..l : rdnode[S[i]].pid = s BY <1>3, <1>13, <3>2 DEF RdRequests, RdQ
      <4>2. i \in 1..(l + 1) BY <1>13
      <4>3. QED BY <1>18, <2>1, <4>1, <4>2
    <3>3. QED BY <1>17, <3>1, <3>2
  <2>5. RdRequests(r, u, RdSuspended', rdproc')
    <3>1. \A i \in 1..Len(u) : RdRequest(r.node[u[i]], rdproc') /\ r.node[u[i]].pid \in RdSuspended'
      BY <1>14, <2>2, Zenon
    <3>2. \A i, j \in 1..Len(u) : r.node[u[i]].pid = r.node[u[j]].pid => i = j BY <1>14, <2>3, Zenon
    <3>3. \A s \in RdSuspended' : \E i \in 1..Len(u) : r.node[u[i]].pid = s BY <1>14, <2>4, Zenon
    <3>4. QED BY <3>1, <3>2, <3>3, Zenon DEF RdRequests
  <2>6. QED BY <2>1, <2>5
<1>21. RdComHas(u)'
  <2>1. (RdComReads' <=> RdComReads) /\ rdcom' = rdcom BY DEF RdComReads
  <2>2. RdComReads => S # << >> /\ rdcom.node = S[1] /\ rdnode[S[1]].op = "read" /\ rdnode[S[1]].blk = rdcom.blk
    BY <1>3 DEF RdComHas
  <2>3. S # << >> => 1 \in 1..l BY <1>4, <1>13
  <2>4. S # << >> => u[1] = S[1] /\ rdnode'[S[1]].op = rdnode[S[1]].op /\ rdnode'[S[1]].blk = rdnode[S[1]].blk
    BY <1>11, <1>14, <1>15, <2>3
  <2>5. RdComReads => u # << >> /\ rdcom.node = u[1] /\ rdnode'[u[1]].op = "read" /\ rdnode'[u[1]].blk = rdcom.blk
    BY <1>14, <2>2, <2>4
  <2>6. ~RdComReads => rdcom.node = NULL BY <1>3 DEF RdComHas
  <2>7. PICK k \in {0, 1} : k = IF RdComReads THEN 1 ELSE 0 OBVIOUS
  <2>8. rdsem + k >= l BY <1>3, <1>13, <2>7 DEF RdComHas
  <2>9. rdsem \in Nat /\ rdsem' = rdsem + 1 BY <1>1
  <2>10. rdsem' + k >= Len(u) BY <1>14, <2>8, <2>9
  <2>11. QED BY <2>1, <2>5, <2>6, <2>7, <2>10 DEF RdComHas
<1>22. RdSearchable(RdQ', u)
  <2>1. PICK q, s : q = RdQ /\ s = RdQ' OBVIOUS
  <2>2. q.node = rdnode /\ s.node = rdnode' /\ q.tail = rdtail BY <2>1 DEF RdQ
  <2>3. CASE S = << >>
    <3>1. l = 0 /\ \A i \in 1..Len(u) : u[i] = n BY <1>13, <1>14, <2>3
    <3>2. rdnode'[n].prev = NULL
      <4>1. RdPuts(S, n, nodes) BY <1>3, <1>4, <1>7, <1>8, RdInsertIs, Zenon
      <4>2. rdnode' = [nodes EXCEPT ![n].next = NULL, ![n].prev = NULL] BY <2>3, <4>1 DEF RdPuts
      <4>3. nodes \in [RdNodes -> RdNodeSet] BY <1>10 DEF RdEntered
      <4>4. PICK a : a = [nodes EXCEPT ![n].next = NULL] OBVIOUS
      <4>5. NULL \in 0..RD_QNODES BY RdCounts
      <4>6. RdNextSet(a, nodes, n, NULL) BY <1>8, <4>3, <4>4, <4>5, RdNextIsSet, Zenon
      <4>7. a \in [RdNodes -> RdNodeSet] BY <4>6 DEF RdNextSet
      <4>8. PICK c : c = [a EXCEPT ![n].prev = NULL] OBVIOUS
      <4>9. RdPrevSet(c, a, n, NULL) BY <1>8, <4>5, <4>7, <4>8, RdPrevIsSet, Zenon
      <4>10. rdnode' = c BY <4>2, <4>4, <4>8
      <4>11. QED BY <1>8, <4>9, <4>10 DEF RdPrevSet
    <3>3. RdBehind(s, u, {n}) BY <1>8, <2>2, <3>1, <3>2 DEF RdBehind
    <3>4. RdLeft(u, {n}) = {}
      <4>1. l + 1 \in 1..Len(u) BY <1>13, <1>14
      <4>2. QED BY <1>14, <4>1 DEF RdLeft
    <3>5. QED BY <2>1, <3>3, <3>4 DEF RdSearchable
  <2>4. CASE S # << >>
    <3>1. PICK B : RdBehind(q, S, B) /\ \A m \in RdLeft(S, B) : RdCovered(q, S, m)
      BY <1>3, <2>1 DEF RdSearchable
    <3>2. B \subseteq RdNodes /\ (\A i \in 1..l : S[i] \in B) /\ \A m \in B : rdnode[m].prev \in B \cup {NULL}
      BY <1>13, <2>2, <3>1 DEF RdBehind
    <3>3. l \in 1..l /\ 1 \in 1..l /\ rdtail = S[l] BY <1>3, <1>4, <1>13, <2>2, <2>4 DEF RdLinked, RdQ
    <3>4. \A m \in B \cup {n} : rdnode'[m].prev \in (B \cup {n}) \cup {NULL} BY <1>11, <2>4, <3>2, <3>3
    <3>5. \A i \in 1..Len(u) : u[i] \in B \cup {n}
      <4>1. \A i \in 1..(l + 1) : i = l + 1 \/ i \in 1..l OBVIOUS
      <4>2. QED BY <1>14, <3>2, <4>1
    <3>6. RdBehind(s, u, B \cup {n}) BY <1>8, <2>2, <3>2, <3>4, <3>5 DEF RdBehind
    <3>7. ASSUME NEW m \in RdLeft(u, B \cup {n}) PROVE RdCovered(s, u, m)
      <4>1. m \in B /\ m # n /\ \A i \in 1..l : S[i] # m
        <5>1. l + 1 \in 1..Len(u) /\ \A i \in 1..l : i \in 1..Len(u) BY <1>13, <1>14
        <5>2. QED BY <1>14, <5>1 DEF RdLeft
      <4>2. RdCovered(q, S, m) BY <1>13, <3>1, <4>1 DEF RdLeft
      <4>3. u[1] = S[1] /\ S[1] # n /\ S[1] \in RdNodes /\ m \in RdNodes /\ u # << >>
        BY <1>14, <1>15, <3>2, <3>3, <4>1
      <4>4. QED BY <1>11, <2>2, <2>4, <4>1, <4>2, <4>3 DEF RdCovered
    <3>8. QED BY <2>1, <3>6, <3>7 DEF RdSearchable
  <2>5. QED BY <2>3, <2>4
<1>23. RdHolds(u, Tail(F))' BY <1>16, <1>20, <1>21, <1>22 DEF RdHolds
<1>24. QED BY <1>1, <1>11, <1>23 DEF RdQueued

\* rdsread asks for the block, and notes the values it may return,
LEMMA RdAsks ==
    ASSUME RdGood, NEW p \in RdProcs, NEW b \in RdBlocks, RdReadAsks(p, b), rdproc[p].at = "idle",
           rdbudget' \in RdBudget, UNCHANGED <<RdGiven, rdcache, rdcom, rdnet, rdlive, rddoubt>>
    PROVE  RdGood'
<1>1. RdTyped BY DEF RdGood
<1>2. PICK c : c = [RdIdle EXCEPT !.at = "suspended", !.blk = b, !.may = RdLive(b)] OBVIOUS
<1>3. /\ RdReadInsert(rdfree, RdFilled(rdfree, "read", b, 0, p)) /\ rdsem' = rdsem + 1
      /\ rdproc' = [rdproc EXCEPT ![p] = c] /\ UNCHANGED rdfault
  BY <1>2 DEF RdReadAsks
<1>4. c \in RdProcSet /\ c.at = "suspended" /\ c.blk = b /\ c.val = 0 /\ c.older = {} /\ c.may = RdLive(b)
  <2>1. RdLive(b) \in SUBSET Nat /\ b \in RdBlock BY <1>1, RdLiveIs, RdBlockIn
  <2>2. QED BY <1>2, <2>1, RdIdleIs DEF RdProcSet, RdIdle
<1>5. \A q \in RdProcs : rdproc'[q] = IF q = p THEN c ELSE rdproc[q] BY <1>1, <1>3 DEF RdTyped
<1>6. UNCHANGED rdlive /\ \A a : RdLive(a)' = RdLive(a) BY DEF RdLive
<1>7. RdAsked(p, b, 0) BY <1>4, <1>5 DEF RdAsked
<1>8. rdnode' \in [RdNodes -> RdNodeSet] /\ rdsem' \in Nat /\ RdQueued'
  <2>1. PICK nodes : nodes = RdFilled(rdfree, "read", b, 0, p) OBVIOUS
  <2>2. RdReadInsert(rdfree, nodes) BY <1>3, <2>1
  <2>3. RdQueued /\ 0 \in Nat BY DEF RdGood
  <2>4. "read" = IF 0 = 0 THEN "read" ELSE "write" OBVIOUS
  <2>5. QED BY <1>1, <1>3, <1>7, <2>1, <2>2, <2>3, <2>4, RdEnters
<1>9. RdTyped'
  <2>1. rdproc' \in [RdProcs -> RdProcSet]
    <3>1. rdproc \in [RdProcs -> RdProcSet] BY <1>1 DEF RdTyped
    <3>2. QED BY <1>3, <1>4, <3>1
  <2>2. QED BY <1>1, <1>8, <2>1 DEF RdTyped, rdnet
<1>10. RdCallers'
  <2>1. RdCallers BY DEF RdGood, RdValues
  <2>2. SUFFICES ASSUME NEW q \in RdProcs PROVE RdCaller(q)' BY DEF RdCallers
  <2>3. RdCaller(q) BY <2>1 DEF RdCallers
  <2>4. CASE rdproc'[q] = rdproc[q] BY <1>6, <2>3, <2>4 DEF RdCaller, RdWriting
  <2>5. CASE q = p BY <1>4, <1>5, <1>6, <2>5 DEF RdCaller, RdWriting
  <2>6. QED BY <1>5, <2>4, <2>5
<1>11. RdNumbered'
  <2>1. RdGiven \in Nat /\ 0 <= RdGiven BY <1>1, RdBudgetIs
  <2>2. RdNumbered BY DEF RdGood, RdValues
  <2>3. \A q \in RdProcs : /\ rdproc'[q].val = rdproc[q].val \/ rdproc'[q].val = 0
                           /\ rdproc'[q].older = rdproc[q].older \/ rdproc'[q].older = {}
    BY <1>4, <1>5
  <2>4. \A q \in RdProcs : rdproc'[q].val <= RdGiven /\ \A v \in rdproc'[q].older : v <= RdGiven
    BY <2>1, <2>2, <2>3 DEF RdNumbered
  <2>5. \A q, s \in RdProcs : RdWriting(q)' => /\ rdproc'[q].val \notin rdproc'[s].older
                                               /\ rdproc'[q].val = rdproc'[s].val => q = s
    BY <2>2, <2>3 DEF RdNumbered, RdWriting
  <2>6. \A q \in RdProcs, a \in RdBlocks : RdWriting(q)' => [val |-> rdproc'[q].val, done |-> TRUE] \notin rdlive[a]
    BY <2>2, <2>3 DEF RdNumbered, RdWriting
  <2>7. \A a \in RdBlocks : \A x \in rdlive[a] : x.val <= RdGiven BY <2>2 DEF RdNumbered
  <2>8. QED BY <1>6, <2>4, <2>5, <2>6, <2>7 DEF RdNumbered
<1>12. RdCopies'
  <2>1. RdCopies BY DEF RdGood, RdValues
  <2>2. \A q \in RdProcs : RdWriting(q)' => RdWriting(q) /\ rdproc'[q].blk = rdproc[q].blk
    BY <1>4, <1>5 DEF RdWriting
  <2>3. \A d : RdCurrent(d) => RdCurrent(d)' BY <1>6, <2>2 DEF RdCurrent
  <2>4. QED BY <2>1, <2>3 DEF RdCopies
<1>13. RdTransfer' BY RdOnDiskKept, RdCarriedKept DEF RdGood, RdTransfer, rdnet
<1>14. "stale read" \notin rdfault' BY <1>3 DEF RdGood
<1>15. QED BY <1>8, <1>9, <1>10, <1>11, <1>12, <1>13, <1>14 DEF RdGood, RdValues

\* unless it finds it.
LEMMA RdReads ==
    ASSUME RdGood, NEW p \in RdProcs, NEW b \in rdbudget.asked, rdsread(p, b)
    PROVE  RdGood'
<1>1. /\ rdproc[p].at = "idle" /\ rdbudget.reads > 0 /\ rdbudget' = [rdbudget EXCEPT !.reads = @ - 1]
      /\ RdReadHere(p, b) \/ RdReadAsks(p, b)
      /\ UNCHANGED <<rdstate, rdcache, rdcom, rdnet, rdlive, rddoubt>>
  BY DEF rdsread, RdMayCall
<1>2. b \in RdBlocks BY RdBudgetIs DEF RdGood
<1>3. rdbudget' \in RdBudget /\ UNCHANGED RdGiven BY <1>1, RdBudgetRead DEF RdGood
<1>4. CASE RdReadHere(p, b) BY <1>1, <1>2, <1>3, <1>4, RdReadsHere
<1>5. CASE RdReadAsks(p, b) BY <1>1, <1>2, <1>3, <1>5, RdAsks
<1>6. QED BY <1>1, <1>4, <1>5

\* The cache w holds new and copies of other blocks than b that are there.  A copy of b
\* that is dropped was the only one,
RdHasCopies(w, new, b) ==
    /\ w \in Seq([blk : RdBlocks, val : Nat])
    /\ \A i \in 1..Len(w) : w[i] \in new \/ (w[i].blk # b /\ \E j \in 1..Len(rdcache) : w[i] = rdcache[j])
    /\ \A i, j \in 1..Len(w) : w[i].blk = w[j].blk => i = j
LEMMA RdUnlinksCopy ==
    ASSUME RdTyped, RdCopies, NEW b \in RdBlocks
    PROVE  RdHasCopies(rdcunlink(b), {}, b)
<1>1. PICK X : X = [blk : RdBlocks, val : Nat] OBVIOUS
<1>2. PICK s \in Seq(X) : s = rdcache BY <1>1 DEF RdTyped
<1>3. PICK l \in Nat : l = Len(s) /\ DOMAIN s = 1..l OBVIOUS
<1>4. \A i, j \in 1..l : s[i].blk = s[j].blk => i = j BY <1>2, <1>3 DEF RdCopies
<1>5. CASE RdCached(b) = {}
  <2>1. rdcunlink(b) = s BY <1>2, <1>5 DEF rdcunlink
  <2>2. \A i \in 1..l : s[i].blk # b BY <1>2, <1>3, <1>5 DEF RdCached
  <2>3. \A i \in 1..Len(s) : s[i].blk # b /\ \E j \in 1..Len(rdcache) : s[i] = rdcache[j] BY <1>2, <1>3, <2>2
  <2>4. \A i, j \in 1..Len(s) : s[i].blk = s[j].blk => i = j BY <1>3, <1>4, Zenon
  <2>5. QED BY <1>1, <2>1, <2>3, <2>4, Zenon DEF RdHasCopies
<1>6. CASE RdCached(b) # {}
  <2>1. PICK k : k = RdFirst(RdCached(b)) OBVIOUS
  <2>2. k \in 1..l /\ s[k].blk = b
    <3>1. RdCached(b) \subseteq 1..l BY <1>2, <1>3 DEF RdCached
    <3>2. 1..l \subseteq Nat OBVIOUS
    <3>3. RdCached(b) \in SUBSET Nat BY <3>1, <3>2
    <3>4. k \in RdCached(b) BY <1>6, <2>1, <3>3, RdFirstIs
    <3>5. QED BY <1>2, <3>1, <3>4 DEF RdCached
  <2>3. PICK u : u = SubSeq(s, 1, k - 1) \o SubSeq(s, k + 1, l) OBVIOUS
  <2>4. rdcunlink(b) = u BY <1>2, <1>3, <1>6, <2>1, <2>3 DEF rdcunlink, RemoveAt
  <2>5. /\ u \in Seq(X) /\ Len(u) = l - 1
        /\ \A i \in 1..(l - 1) : u[i] = IF i < k THEN s[i] ELSE s[i + 1]
    <3>1. PICK a : a = SubSeq(s, 1, k - 1) OBVIOUS
    <3>2. PICK c : c = SubSeq(s, k + 1, l) OBVIOUS
    <3>3. a \in Seq(X) /\ Len(a) = k - 1 /\ \A i \in 1..(k - 1) : a[i] = s[i] BY <1>3, <2>2, <3>1
    <3>4. c \in Seq(X) /\ Len(c) = l - k /\ \A i \in 1..(l - k) : c[i] = s[k + i] BY <1>3, <2>2, <3>2
    <3>5. u \in Seq(X) /\ Len(u) = Len(a) + Len(c) BY <2>3, <3>1, <3>2, <3>3, <3>4
    <3>6. \A i \in 1..(l - 1) : u[i] = IF i <= Len(a) THEN a[i] ELSE c[i - Len(a)]
      <4>1. u = a \o c /\ a \in Seq(X) /\ c \in Seq(X) BY <2>3, <3>1, <3>2, <3>3, <3>4
      <4>2. \A i \in 1..(Len(a) + Len(c)) : u[i] = IF i <= Len(a) THEN a[i] ELSE c[i - Len(a)] BY <4>1
      <4>3. Len(a) + Len(c) = l - 1 BY <1>3, <2>2, <3>3, <3>4
      <4>4. QED BY <4>2, <4>3
    <3>7. ASSUME NEW i \in 1..(l - 1) PROVE u[i] = IF i < k THEN s[i] ELSE s[i + 1]
      <4>1. CASE i < k
        <5>1. i \in 1..(k - 1) /\ i <= k - 1 BY <2>2, <3>7, <4>1
        <5>2. QED BY <3>3, <3>6, <4>1, <5>1
      <4>2. CASE ~(i < k)
        <5>1. ~(i <= k - 1) /\ i - (k - 1) \in 1..(l - k) /\ k + (i - (k - 1)) = i + 1 BY <2>2, <3>7, <4>2
        <5>2. u[i] = c[i - (k - 1)] BY <3>3, <3>6, <5>1
        <5>3. QED BY <3>4, <4>2, <5>1, <5>2
      <4>3. QED BY <4>1, <4>2
    <3>8. QED BY <1>3, <2>2, <3>3, <3>4, <3>5, <3>7
  <2>6. ASSUME NEW i \in 1..(l - 1)
        PROVE  u[i].blk # b /\ \E j \in 1..l : u[i] = s[j] /\ j # k /\ j = IF i < k THEN i ELSE i + 1
    <3>1. PICK j : j = IF i < k THEN i ELSE i + 1 OBVIOUS
    <3>2. j \in 1..l /\ j # k BY <2>2, <3>1
    <3>3. u[i] = s[j] BY <2>5, <3>1
    <3>4. s[j].blk # b BY <1>4, <2>2, <3>2
    <3>5. QED BY <3>1, <3>2, <3>3, <3>4
  <2>7. ASSUME NEW i \in 1..(l - 1), NEW j \in 1..(l - 1), u[i].blk = u[j].blk PROVE i = j
    <3>1. PICK m \in 1..l : u[i] = s[m] /\ m = IF i < k THEN i ELSE i + 1 BY <2>6
    <3>2. PICK n \in 1..l : u[j] = s[n] /\ n = IF j < k THEN j ELSE j + 1 BY <2>6
    <3>3. m = n BY <1>4, <2>7, <3>1, <3>2
    <3>4. QED BY <2>2, <3>1, <3>2, <3>3
  <2>8. \A i \in 1..Len(u) : u[i].blk # b /\ \E j \in 1..Len(rdcache) : u[i] = rdcache[j]
    BY <1>2, <1>3, <2>5, <2>6, Zenon
  <2>9. \A i, j \in 1..Len(u) : u[i].blk = u[j].blk => i = j BY <2>5, <2>7, Zenon
  <2>10. QED BY <1>1, <2>4, <2>5, <2>8, <2>9, Zenon DEF RdHasCopies
<1>7. QED BY <1>5, <1>6

\* and one that is entered comes first, before as many of the others as there is room for.
LEMMA RdInsertsCopy ==
    ASSUME RdTyped, RdCopies, NEW b \in RdBlocks, NEW v \in Nat, \A i \in 1..Len(rdcache) : rdcache[i].blk # b
    PROVE  RdHasCopies(rdcinsert(b, v), {[blk |-> b, val |-> v]}, b)
<1>1. PICK X : X = [blk : RdBlocks, val : Nat] OBVIOUS
<1>2. PICK s \in Seq(X) : s = rdcache BY <1>1 DEF RdTyped
<1>3. PICK l \in Nat : l = Len(s) OBVIOUS
<1>4. PICK c : c = [blk |-> b, val |-> v] OBVIOUS
<1>5. c \in X /\ c.blk = b BY <1>1, <1>4
<1>6. PICK u : u = <<c>> \o s OBVIOUS
<1>7. u \in Seq(X) /\ Len(u) = l + 1 /\ u[1] = c /\ \A i \in 2..(l + 1) : u[i] = s[i - 1]
  BY <1>3, <1>5, <1>6
<1>8. \A i, j \in 1..l : s[i].blk = s[j].blk => i = j BY <1>2, <1>3 DEF RdCopies
<1>9. \A i \in 1..(l + 1) : i = 1 \/ (i \in 2..(l + 1) /\ i - 1 \in 1..l) OBVIOUS
<1>10. \A i \in 1..(l + 1) : u[i] = c \/ \E j \in 1..l : u[i] = s[j] BY <1>7, <1>9
<1>11. ASSUME NEW i \in 1..(l + 1), NEW j \in 1..(l + 1), u[i].blk = u[j].blk PROVE i = j
  <2>1. \A k \in 2..(l + 1) : u[k].blk # b
    <3>1. \A k \in 1..l : s[k].blk # b BY <1>2, <1>3
    <3>2. \A k \in 2..(l + 1) : k - 1 \in 1..l OBVIOUS
    <3>3. QED BY <1>7, <3>1, <3>2
  <2>2. CASE i = 1 BY <1>5, <1>7, <1>9, <1>11, <2>1, <2>2
  <2>3. CASE j = 1 BY <1>5, <1>7, <1>9, <1>11, <2>1, <2>3
  <2>4. CASE i # 1 /\ j # 1
    <3>1. i - 1 \in 1..l /\ j - 1 \in 1..l /\ u[i] = s[i - 1] /\ u[j] = s[j - 1] BY <1>7, <1>9, <2>4
    <3>2. i - 1 = j - 1 BY <1>8, <1>11, <3>1
    <3>3. QED BY <3>2
  <2>5. QED BY <2>2, <2>3, <2>4
<1>12. PICK w : w = rdcinsert(b, v) OBVIOUS
<1>13. PICK N \in Nat : N = RD_CNODES BY RdCounts
<1>14. PICK k \in Nat : w \in Seq(X) /\ Len(w) = k /\ k <= l + 1 /\ \A i \in 1..k : w[i] = u[i]
  <2>1. w = IF Len(u) <= N THEN u ELSE SubSeq(u, 1, N) BY <1>2, <1>4, <1>6, <1>12, <1>13 DEF rdcinsert
  <2>2. CASE l + 1 <= N BY <1>7, <2>1, <2>2
  <2>3. CASE ~(l + 1 <= N)
    <3>1. w = SubSeq(u, 1, N) BY <1>7, <2>1, <2>3
    <3>2. N <= l + 1 /\ \A i \in 1..N : i \in 1..(l + 1) BY <2>3
    <3>3. w \in Seq(X) /\ Len(w) = N /\ \A i \in 1..N : w[i] = u[i] BY <1>7, <3>1, <3>2
    <3>4. QED BY <3>2, <3>3
  <2>4. QED BY <2>2, <2>3
<1>15. \A i \in 1..k : i \in 1..(l + 1) BY <1>14
<1>16. \A i \in 1..Len(w) : w[i] \in {c} \/ (w[i].blk # b /\ \E j \in 1..Len(rdcache) : w[i] = rdcache[j])
  <2>1. \A i \in 1..k : w[i] = c \/ \E j \in 1..l : w[i] = s[j] BY <1>10, <1>14, <1>15
  <2>2. \A i \in 1..Len(w) : w[i] = c \/ \E j \in 1..Len(rdcache) : w[i] = rdcache[j]
    BY <1>2, <1>3, <1>14, <2>1, Zenon
  <2>3. QED BY <2>2, Zenon
<1>17. \A i, j \in 1..Len(w) : w[i].blk = w[j].blk => i = j
  <2>1. \A i, j \in 1..k : w[i].blk = w[j].blk => i = j BY <1>11, <1>14, <1>15
  <2>2. QED BY <1>14, <2>1, Zenon
<1>18. QED BY <1>1, <1>4, <1>12, <1>14, <1>16, <1>17, Zenon DEF RdHasCopies

\* A caller begins to write: the block is in the cache no more, and who reads it at the
\* same time may have the new value.
RdBegun(p, b, v) ==
    /\ RdGiven' = v /\ rdbudget' \in RdBudget
    /\ rdproc' \in [RdProcs -> RdProcSet]
    /\ rdproc'[p].at = "suspended" /\ rdproc'[p].blk = b /\ rdproc'[p].val = v
    /\ rdproc'[p].older = {x.val : x \in {x \in rdlive[b] : x.done}}
    /\ \A q \in RdProcs : q # p =>
          /\ rdproc'[q].at = rdproc[q].at /\ rdproc'[q].blk = rdproc[q].blk
          /\ rdproc'[q].val = rdproc[q].val /\ rdproc'[q].older = rdproc[q].older
          /\ rdproc'[q].may = IF rdproc[q].blk = b THEN rdproc[q].may \cup {v} ELSE rdproc[q].may
    /\ rdlive' \in [RdBlocks -> SUBSET [val : Nat, done : BOOLEAN]]
    /\ \A a \in RdBlocks : rdlive'[a] = IF a = b THEN rdlive[b] \cup {[val |-> v, done |-> FALSE]}
                                        ELSE rdlive[a]
LEMMA RdBegins ==
    ASSUME RdTyped, NEW p \in RdProcs, NEW b \in RdBlocks, rdswrite(p, b)
    PROVE  RdBegun(p, b, RdGiven + 1)
<1>1. PICK v : v = RdGiven + 1 OBVIOUS
<1>2. v \in Nat /\ rdbudget.writes > 0 /\ rdbudget \in RdBudget
  <2>1. rdbudget.writes > 0 BY DEF rdswrite
  <2>2. RdGiven \in Nat /\ rdbudget \in RdBudget BY RdBudgetIs
  <2>3. QED BY <1>1, <2>1, <2>2
<1>3. rdbudget' = [rdbudget EXCEPT !.writes = @ - 1] BY DEF rdswrite
<1>4. rdbudget' \in RdBudget /\ rdbudget'.writes = rdbudget.writes - 1
  <2>1. rdbudget.writes \in 0..RdWrites /\ rdbudget.writes - 1 \in 0..RdWrites BY <1>2, RdCounts DEF RdBudget
  <2>2. QED BY <1>2, <1>3, <2>1 DEF RdBudget
<1>5. RdGiven' = v
  <2>1. rdbudget.writes \in Nat BY RdBudgetIs
  <2>2. QED BY <1>1, <1>4, <2>1, RdCounts DEF RdGiven
<1>6. PICK O : O = {x.val : x \in {x \in rdlive[b] : x.done}} OBVIOUS
<1>7. PICK c : c = [RdIdle EXCEPT !.at = "suspended", !.blk = b, !.val = v, !.older = O] OBVIOUS
<1>8. rdlive[b] \in SUBSET [val : Nat, done : BOOLEAN] BY RdLiveIs
<1>9. c \in RdProcSet /\ c.at = "suspended" /\ c.blk = b /\ c.val = v /\ c.older = O
  <2>1. O \in SUBSET Nat BY <1>6, <1>8
  <2>2. b \in RdBlock BY RdBlockIn
  <2>3. QED BY <1>2, <1>7, <2>1, <2>2, RdIdleIs DEF RdProcSet, RdIdle
<1>10. RdWrites - rdbudget.writes + 1 = v BY <1>1 DEF RdGiven
<1>11. rdproc' = [q \in RdProcs |-> IF q = p THEN c ELSE IF rdproc[q].blk = b
                                    THEN [rdproc[q] EXCEPT !.may = @ \cup {v}] ELSE rdproc[q]]
  BY <1>6, <1>7, <1>10 DEF rdswrite
<1>12. rdproc'[p] = c BY <1>11
<1>13. ASSUME NEW q \in RdProcs, q # p
       PROVE  /\ rdproc'[q] \in RdProcSet
              /\ rdproc'[q].at = rdproc[q].at /\ rdproc'[q].blk = rdproc[q].blk
              /\ rdproc'[q].val = rdproc[q].val /\ rdproc'[q].older = rdproc[q].older
              /\ rdproc'[q].may = IF rdproc[q].blk = b THEN rdproc[q].may \cup {v} ELSE rdproc[q].may
  <2>1. PICK d \in RdProcSet : d = rdproc[q] BY RdProcIs
  <2>2. rdproc'[q] = IF d.blk = b THEN [d EXCEPT !.may = @ \cup {v}] ELSE d BY <1>11, <1>13, <2>1
  <2>3. d.may \cup {v} \in SUBSET Nat BY <1>2, <2>1 DEF RdProcSet
  <2>4. QED BY <2>1, <2>2, <2>3 DEF RdProcSet
<1>14. rdproc' \in [RdProcs -> RdProcSet]
  <2>1. rdproc' = [q \in RdProcs |-> rdproc'[q]] BY <1>11
  <2>2. \A q \in RdProcs : rdproc'[q] \in RdProcSet BY <1>9, <1>12, <1>13
  <2>3. QED BY <2>1, <2>2
<1>15. /\ rdlive' \in [RdBlocks -> SUBSET [val : Nat, done : BOOLEAN]]
       /\ \A a \in RdBlocks : rdlive'[a] = IF a = b THEN rdlive[b] \cup {[val |-> v, done |-> FALSE]}
                                           ELSE rdlive[a]
  <2>1. PICK M : M = rdlive[b] \cup {[val |-> v, done |-> FALSE]} OBVIOUS
  <2>2. M \in SUBSET [val : Nat, done : BOOLEAN]
    <3>1. [val |-> v, done |-> FALSE] \in [val : Nat, done : BOOLEAN] BY <1>2
    <3>2. QED BY <1>8, <2>1, <3>1, Zenon
  <2>3. rdlive' = [rdlive EXCEPT ![b] = M] BY <1>10, <2>1 DEF rdswrite
  <2>4. rdlive \in [RdBlocks -> SUBSET [val : Nat, done : BOOLEAN]] BY DEF RdTyped
  <2>5. QED BY <2>1, <2>2, <2>3, <2>4
<1>16. RdBegun(p, b, v) BY <1>4, <1>5, <1>6, <1>9, <1>12, <1>13, <1>14, <1>15 DEF RdBegun
<1>17. QED BY <1>1, <1>16
LEMMA RdWriteBegins ==
    ASSUME RdGood, NEW p \in RdProcs, NEW b \in rdbudget.given, rdswrite(p, b)
    PROVE  RdGood'
<1>1. RdTyped /\ RdCallers /\ RdNumbered /\ RdCopies BY DEF RdGood, RdValues
<1>2. b \in RdBlocks BY <1>1, RdBudgetIs
<1>3. /\ UNCHANGED <<rdcom, rdnet, rddoubt, rdfault>> /\ rdcache' = rdcunlink(b) /\ rdsem' = rdsem + 1
      /\ rdproc[p].at = "idle"
      /\ rdqinsert(rdfree, RdFilled(rdfree, "write", b, RdGiven + 1, p))
  BY DEF rdswrite, RdDropped, RdMayCall, RdGiven
<1>4. PICK v : v = RdGiven + 1 OBVIOUS
<1>5. RdBegun(p, b, v) BY <1>1, <1>2, <1>3, <1>4, RdBegins
<1>6. RdGiven \in Nat /\ v \in Nat /\ RdGiven' = v
  <2>1. RdGiven \in Nat BY <1>1, RdBudgetIs
  <2>2. QED BY <1>4, <1>5, <2>1 DEF RdBegun
<1>7. /\ rdbudget' \in RdBudget /\ rdproc' \in [RdProcs -> RdProcSet]
      /\ rdlive' \in [RdBlocks -> SUBSET [val : Nat, done : BOOLEAN]]
  BY <1>5 DEF RdBegun
<1>8. /\ rdproc'[p].at = "suspended" /\ rdproc'[p].blk = b /\ rdproc'[p].val = v
      /\ rdproc'[p].older = {x.val : x \in {x \in rdlive[b] : x.done}}
  BY <1>5 DEF RdBegun
<1>9. \A q \in RdProcs : q # p =>
          /\ rdproc'[q].at = rdproc[q].at /\ rdproc'[q].blk = rdproc[q].blk
          /\ rdproc'[q].val = rdproc[q].val /\ rdproc'[q].older = rdproc[q].older
          /\ rdproc'[q].may = IF rdproc[q].blk = b THEN rdproc[q].may \cup {v} ELSE rdproc[q].may
  BY <1>5 DEF RdBegun
<1>10. \A a \in RdBlocks : rdlive'[a] = IF a = b THEN rdlive[b] \cup {[val |-> v, done |-> FALSE]} ELSE rdlive[a]
  BY <1>5 DEF RdBegun
<1>11. \A a \in RdBlocks : /\ rdlive[a] \subseteq rdlive'[a] /\ RdLive(a) \subseteq RdLive(a)'
                           /\ RdLive(a)' \subseteq RdLive(a) \cup {v}
                           /\ a # b => RdLive(a)' = RdLive(a)
  BY <1>10 DEF RdLive
<1>12. RdHasCopies(rdcache', {}, b) BY <1>1, <1>2, <1>3, RdUnlinksCopy
<1>13. rdnode' \in [RdNodes -> RdNodeSet] /\ rdsem' \in Nat /\ RdQueued'
  <2>1. PICK nodes : nodes = RdFilled(rdfree, "write", b, v, p) OBVIOUS
  <2>2. rdqinsert(rdfree, nodes) BY <1>3, <1>4, <2>1
  <2>3. RdQueued BY DEF RdGood
  <2>4. RdAsked(p, b, v) BY <1>3, <1>8, <1>9 DEF RdAsked
  <2>5. "write" = IF v = 0 THEN "read" ELSE "write"
    <3>1. v # 0 BY <1>4, <1>6
    <3>2. QED BY <3>1
  <2>6. QED BY <1>1, <1>2, <1>3, <1>6, <2>1, <2>2, <2>3, <2>4, <2>5, RdEnters
<1>14. RdTyped'
  <2>1. rdcache' \in Seq([blk : RdBlocks, val : Nat]) BY <1>12 DEF RdHasCopies
  <2>2. QED BY <1>1, <1>3, <1>7, <1>13, <2>1 DEF RdTyped, rdnet
<1>15. \A q \in RdProcs : rdproc[q].val \in Nat /\ rdproc[q].older \subseteq Nat BY <1>1, RdProcIs
<1>16. \A q \in RdProcs : rdproc[q].val # v /\ v \notin rdproc[q].older
  <2>1. \A q \in RdProcs : rdproc[q].val <= RdGiven /\ \A x \in rdproc[q].older : x <= RdGiven
    BY <1>1 DEF RdNumbered
  <2>2. QED BY <1>4, <1>6, <1>15, <2>1
<1>17. RdCallers'
  <2>1. SUFFICES ASSUME NEW q \in RdProcs PROVE RdCaller(q)' BY DEF RdCallers
  <2>2. CASE q = p
    <3>1. v # 0 BY <1>4, <1>6
    <3>2. [val |-> v, done |-> FALSE] \in rdlive'[b] BY <1>2, <1>10
    <3>3. QED BY <1>2, <1>8, <2>2, <3>1, <3>2 DEF RdCaller, RdWriting
  <2>3. CASE q # p
    <3>1. RdCaller(q) BY <1>1 DEF RdCallers
    <3>2. /\ rdproc'[q].at = rdproc[q].at /\ rdproc'[q].blk = rdproc[q].blk /\ rdproc'[q].val = rdproc[q].val
          /\ rdproc'[q].may = IF rdproc[q].blk = b THEN rdproc[q].may \cup {v} ELSE rdproc[q].may
      BY <1>9, <2>3
    <3>3. rdproc[q].at # "idle" => rdproc[q].blk \in RdBlocks BY <3>1 DEF RdCaller
    <3>4. RdWriting(q) => /\ rdproc[q].at = "suspended"
                          /\ [val |-> rdproc[q].val, done |-> FALSE] \in rdlive'[rdproc[q].blk]
      BY <1>11, <3>1, <3>3 DEF RdCaller
    <3>5. rdproc[q].at # "idle" /\ ~RdWriting(q) => RdLive(rdproc[q].blk)' \subseteq rdproc'[q].may
      BY <1>11, <3>1, <3>2, <3>3 DEF RdCaller
    <3>6. RdWriting(q)' <=> RdWriting(q) BY <3>2 DEF RdWriting
    <3>7. QED BY <3>2, <3>3, <3>4, <3>5, <3>6 DEF RdCaller, RdLive
  <2>4. QED BY <2>2, <2>3
<1>18. RdNumbered'
  <2>1. rdlive[b] \in SUBSET [val : Nat, done : BOOLEAN] BY <1>1, <1>2, RdLiveIs
  <2>2. \A a \in RdBlocks : \A x \in rdlive[a] : x.val <= RdGiven /\ x.val \in Nat
    BY <1>1, RdLiveIs DEF RdNumbered
  <2>3. \A x \in rdproc'[p].older : x <= RdGiven /\ [val |-> x, done |-> TRUE] \in rdlive[b]
    <3>1. SUFFICES ASSUME NEW y \in rdlive[b], y.done
                   PROVE  y.val <= RdGiven /\ [val |-> y.val, done |-> TRUE] \in rdlive[b]
      BY <1>8
    <3>2. y \in [val : Nat, done : BOOLEAN] BY <2>1
    <3>3. y = [val |-> y.val, done |-> TRUE] BY <3>1, <3>2
    <3>4. QED BY <1>2, <2>2, <3>3
  <2>4. \A q \in RdProcs : rdproc'[q].val <= v /\ \A x \in rdproc'[q].older : x <= v
    <3>1. SUFFICES ASSUME NEW q \in RdProcs
                   PROVE  rdproc'[q].val <= v /\ \A x \in rdproc'[q].older : x <= v
      OBVIOUS
    <3>2. CASE q = p
      <4>1. \A x \in rdproc'[p].older : x <= RdGiven /\ x \in Nat
        <5>1. \A x \in rdproc'[p].older : \E y \in rdlive[b] : x = y.val BY <1>8
        <5>2. QED BY <1>2, <2>2, <5>1
      <4>2. \A x \in rdproc'[p].older : x <= v BY <1>4, <1>6, <4>1
      <4>3. QED BY <1>6, <1>8, <3>2, <4>2
    <3>3. CASE q # p
      <4>1. rdproc[q].val <= RdGiven /\ \A x \in rdproc[q].older : x <= RdGiven BY <1>1 DEF RdNumbered
      <4>2. rdproc[q].val <= v /\ \A x \in rdproc[q].older : x <= v BY <1>4, <1>6, <1>15, <4>1
      <4>3. QED BY <1>9, <3>3, <4>2
    <3>4. QED BY <3>2, <3>3
  <2>5. \A a \in RdBlocks : \A x \in rdlive'[a] : x.val <= v
    <3>1. SUFFICES ASSUME NEW a \in RdBlocks, NEW x \in rdlive'[a] PROVE x.val <= v OBVIOUS
    <3>2. CASE x \in rdlive[a] BY <1>4, <1>6, <2>2, <3>2
    <3>3. CASE x = [val |-> v, done |-> FALSE] BY <1>6, <3>3
    <3>4. QED BY <1>10, <3>2, <3>3
  <2>6. ASSUME NEW q \in RdProcs, NEW s \in RdProcs, RdWriting(q)'
        PROVE  rdproc'[q].val \notin rdproc'[s].older /\ (rdproc'[q].val = rdproc'[s].val => q = s)
    <3>1. CASE q = p
      <4>1. rdproc'[q].val = v BY <1>8, <3>1
      <4>2. s # p => rdproc'[s].val # v /\ v \notin rdproc'[s].older BY <1>9, <1>16
      <4>3. v \notin rdproc'[p].older
        <5>1. v \in rdproc'[p].older => v <= RdGiven BY <2>3
        <5>2. QED BY <1>4, <1>6, <5>1
      <4>4. QED BY <3>1, <4>1, <4>2, <4>3
    <3>2. CASE q # p
      <4>1. rdproc'[q].val = rdproc[q].val /\ RdWriting(q) BY <1>9, <2>6, <3>2 DEF RdWriting
      <4>2. CASE s = p
        <5>1. rdproc[q].val # v BY <1>16
        <5>2. [val |-> rdproc[q].val, done |-> TRUE] \notin rdlive[b] BY <1>1, <1>2, <4>1 DEF RdNumbered
        <5>3. QED BY <1>8, <2>3, <4>1, <4>2, <5>1, <5>2
      <4>3. CASE s # p
        <5>1. rdproc[q].val \notin rdproc[s].older /\ (rdproc[q].val = rdproc[s].val => q = s)
          BY <1>1, <4>1 DEF RdNumbered
        <5>2. rdproc'[s].val = rdproc[s].val /\ rdproc'[s].older = rdproc[s].older BY <1>9, <4>3
        <5>3. QED BY <4>1, <5>1, <5>2
      <4>4. QED BY <4>2, <4>3
    <3>3. QED BY <3>1, <3>2
  <2>7. ASSUME NEW q \in RdProcs, NEW a \in RdBlocks, RdWriting(q)'
        PROVE  [val |-> rdproc'[q].val, done |-> TRUE] \notin rdlive'[a]
    <3>1. [val |-> rdproc'[q].val, done |-> TRUE] # [val |-> v, done |-> FALSE] OBVIOUS
    <3>2. [val |-> rdproc'[q].val, done |-> TRUE] \notin rdlive[a]
      <4>1. CASE q = p
        <5>1. [val |-> v, done |-> TRUE] \in rdlive[a] => v <= RdGiven BY <2>2
        <5>2. ~(v <= RdGiven) BY <1>4, <1>6
        <5>3. QED BY <1>8, <4>1, <5>1, <5>2
      <4>2. CASE q # p
        <5>1. rdproc'[q].val = rdproc[q].val /\ RdWriting(q) BY <1>9, <2>7, <4>2 DEF RdWriting
        <5>2. QED BY <1>1, <5>1 DEF RdNumbered
      <4>3. QED BY <4>1, <4>2
    <3>3. QED BY <1>10, <3>1, <3>2
  <2>8. QED BY <1>6, <2>4, <2>5, <2>6, <2>7 DEF RdNumbered
<1>19. RdCopies'
  <2>1. ASSUME NEW i \in 1..Len(rdcache'), NEW c, c = rdcache'[i] PROVE RdCurrent(c)'
    <3>1. PICK j \in 1..Len(rdcache) : rdcache'[i] = rdcache[j] /\ rdcache'[i].blk # b
      BY <1>12 DEF RdHasCopies
    <3>2. c = rdcache[j] BY <2>1, <3>1
    <3>3. RdCurrent(c) /\ c.blk # b /\ c.blk \in RdBlocks BY <1>1, <3>1, <3>2, RdCacheIs DEF RdCopies
    <3>4. c.val \in RdLive(c.blk)' BY <1>11, <3>3 DEF RdCurrent
    <3>5. \A q \in RdProcs : RdWriting(q)' => rdproc'[q].blk # c.blk
      <4>1. SUFFICES ASSUME NEW q \in RdProcs, RdWriting(q)' PROVE rdproc'[q].blk # c.blk OBVIOUS
      <4>2. CASE q = p BY <1>8, <3>3, <4>2
      <4>3. CASE q # p BY <1>9, <3>3, <4>1, <4>3 DEF RdCurrent, RdWriting
      <4>4. QED BY <4>2, <4>3
    <3>6. QED BY <3>4, <3>5 DEF RdCurrent
  <2>2. \A i, j \in 1..Len(rdcache') : rdcache'[i].blk = rdcache'[j].blk => i = j BY <1>12 DEF RdHasCopies
  <2>3. QED BY <2>1, <2>2 DEF RdCopies, RdCurrent, RdLive
<1>20. RdOnDisk'
  <2>1. RdOnDisk BY DEF RdGood, RdTransfer
  <2>2. rddisk' = rddisk /\ rdcom' = rdcom /\ rddoubt' = rddoubt BY <1>3 DEF rdnet
  <2>3. \A a : RdComWrites(a)' <=> RdComWrites(a) BY <2>2 DEF RdComWrites
  <2>4. QED BY <1>11, <2>1, <2>2, <2>3 DEF RdOnDisk
<1>21. RdCarried'
  <2>1. RdCarried BY DEF RdGood, RdTransfer
  <2>2. /\ rdseq' = rdseq /\ rdreq' = rdreq /\ rdrep' = rdrep /\ rddisk' = rddisk /\ rdcom' = rdcom
        /\ rddoubt' = rddoubt
    BY <1>3 DEF rdnet
  <2>3. rdcom.at # "idle" => rdcom.blk \in RdBlocks /\ RdLive(rdcom.blk) \subseteq RdLive(rdcom.blk)'
    <3>1. rdcom.at # "idle" => rdcom.blk \in RdBlocks BY <2>1 DEF RdCarried
    <3>2. PICK k : k = rdcom.blk /\ k = rdcom'.blk BY <2>2
    <3>3. rdcom.at # "idle" => RdLive(k) \subseteq RdLive(k)' BY <1>11, <3>1, <3>2
    <3>4. QED BY <3>1, <3>2, <3>3 DEF RdLive
  <2>4. QED BY <2>1, <2>2, <2>3 DEF RdCarried, RdLive
<1>22. "stale read" \notin rdfault' BY <1>3 DEF RdGood
<1>23. QED BY <1>13, <1>14, <1>17, <1>18, <1>19, <1>20, <1>21, <1>22 DEF RdGood, RdValues, RdTransfer

\* Callers who go on leave the others as they were.
LEMMA RdGoneRequests ==
    ASSUME RdTyped, NEW q, NEW S, NEW O \in SUBSET RdSuspended, RdRequests(q, S, RdSuspended \ O, rdproc),
           rdproc' = [p \in RdProcs |-> IF p \in O THEN RdIdle ELSE rdproc[p]]
    PROVE  RdRequests(q, S, RdSuspended', rdproc')
<1>1. RdSuspended' = RdSuspended \ O BY RdIdleIs DEF RdSuspended
<1>2. PICK C, g, h : C = RdSuspended \ O /\ g = rdproc /\ h = rdproc' OBVIOUS
<1>3. \A p \in C : h[p].at = g[p].at /\ h[p].blk = g[p].blk /\ h[p].val = g[p].val BY <1>2 DEF RdSuspended
<1>4. RdRequests(q, S, C, h) BY <1>2, <1>3, RdRequestsKept
<1>5. QED BY <1>1, <1>2, <1>4

\* What a write that is taken leaves of the values of its block: its own and those begun later.
RdFinished(w, b, v) ==
    /\ rdlive' \in [RdBlocks -> SUBSET [val : Nat, done : BOOLEAN]]
    /\ \A a \in RdBlocks : a # b => rdlive'[a] = rdlive[a]
    /\ [val |-> v, done |-> TRUE] \in rdlive'[b]
    /\ \A x \in rdlive'[b] : x \in rdlive[b] \/ x = [val |-> v, done |-> TRUE]
    /\ \A x \in rdlive[b] : x.val \notin rdproc[w].older /\ x.val # v => x \in rdlive'[b]
LEMMA RdCompletes ==
    ASSUME RdTyped, RdCallers, NEW w \in RdProcs, RdWriting(w), rdlive' = RdCompleted(w)
    PROVE  RdFinished(w, rdproc[w].blk, rdproc[w].val)
<1>1. RdCaller(w) BY DEF RdCallers
<1>2. PICK b \in RdBlocks : b = rdproc[w].blk BY <1>1 DEF RdCaller
<1>3. PICK v \in Nat : v = rdproc[w].val BY RdProcIs
<1>4. PICK M : M = {x \in rdlive[b] : x.val \notin rdproc[w].older /\ x.val # v} \cup {[val |-> v, done |-> TRUE]}
  OBVIOUS
<1>5. rdlive[b] \in SUBSET [val : Nat, done : BOOLEAN] BY RdLiveIs
<1>6. [val |-> v, done |-> TRUE] \in [val : Nat, done : BOOLEAN] OBVIOUS
<1>7. M \in SUBSET [val : Nat, done : BOOLEAN] BY <1>4, <1>5, <1>6, Zenon
<1>8. rdlive' = [rdlive EXCEPT ![b] = M] BY <1>2, <1>3, <1>4 DEF RdCompleted
<1>9. rdlive \in [RdBlocks -> SUBSET [val : Nat, done : BOOLEAN]] BY DEF RdTyped
<1>10. rdlive' \in [RdBlocks -> SUBSET [val : Nat, done : BOOLEAN]] BY <1>7, <1>8, <1>9
<1>11. \A a \in RdBlocks : rdlive'[a] = IF a = b THEN M ELSE rdlive[a] BY <1>8, <1>9
<1>12. QED BY <1>2, <1>3, <1>4, <1>10, <1>11 DEF RdFinished

\* A write is taken: its caller goes on, and the block is cached unless it is written again.
LEMMA RdTakesWriting == ASSUME RdGood, RdTakesWrite, RdSound' PROVE RdGood'
<1> DEFINE e == rdnode[rdhead]
<1>1. /\ rdcom.at = "idle" /\ rdsem > 0 /\ rdhead # NULL /\ e.op = "write" /\ rdsem' = rdsem - 1
      /\ UNCHANGED <<rdreq, rdrep, rddisk, rdbudget, rddoubt>>
      /\ \/ rdfault' = rdfault \cup {"endless walk"}
         \/ /\ e.next = NULL \/ RdLaterWrite(e.next)
            /\ rdcache' = IF RdIsLatest(rdhead) THEN rdcinsert(e.blk, e.val) ELSE rdcache
            /\ rdproc' = RdEnds(e.pid) /\ rdlive' = RdCompleted(e.pid)
            /\ RdSetQ(rdqunlink(RdQ, rdhead))
            /\ rdseq' = rdseq + 1 /\ RdExchange("write", e.blk, e.val, NULL)
            /\ UNCHANGED rdfault
  BY DEF RdTakesWrite
<1>2. PICK w, b, v : w = e.pid /\ b = e.blk /\ v = e.val OBVIOUS
<1>3. /\ e.next = NULL \/ RdLaterWrite(e.next)
      /\ rdcache' = (IF RdIsLatest(rdhead) THEN rdcinsert(b, v) ELSE rdcache)
      /\ rdproc' = RdEnds(w) /\ rdlive' = RdCompleted(w)
      /\ RdSetQ(rdqunlink(RdQ, rdhead))
      /\ rdseq' = rdseq + 1 /\ RdExchange("write", b, v, NULL)
      /\ rdfault' = rdfault
  <2>1. rdfault' # rdfault \cup {"endless walk"} BY DEF RdSound
  <2>2. QED BY <1>1, <1>2, <2>1
<1>4. RdTyped /\ RdCallers /\ RdNumbered /\ RdCopies /\ RdOnDisk /\ RdCarried BY DEF RdGood, RdValues, RdTransfer
<1>5. PICK S, F : RdHolds(S, F) BY DEF RdGood, RdQueued
<1>6. /\ RdLinked(RdQ, S) /\ RdFreed(RdQ, S, F) /\ RdRequests(RdQ, S, RdSuspended, rdproc) /\ RdComHas(S)
      /\ RdSearchable(RdQ, S)
  BY <1>5 DEF RdHolds
<1>7. S \in Seq(RdNodes) /\ F \in Seq(RdNodes) BY <1>6 DEF RdLinked, RdFreed
<1>8. PICK l \in Nat : l = Len(S) BY <1>7
<1>9. S # << >> /\ rdhead = S[1] /\ 1 \in 1..l /\ rdhead \in RdNodes
  <2>1. S # << >> /\ rdhead = S[1] BY <1>1, <1>6 DEF RdLinked, RdQ
  <2>2. 1 \in 1..l BY <1>7, <1>8, <2>1
  <2>3. QED BY <1>7, <1>8, <2>1, <2>2
<1>10. RdRequest(e, rdproc)
  <2>1. 1 \in 1..Len(S) BY <1>8, <1>9
  <2>2. QED BY <1>6, <1>9, <2>1 DEF RdRequests, RdQ
<1>11. /\ w \in RdProcs /\ rdproc[w].at = "suspended" /\ RdWriting(w) /\ rdproc[w].blk = b /\ rdproc[w].val = v
       /\ b \in RdBlocks /\ v \in Nat
  <2>1. /\ w \in RdProcs /\ rdproc[w].at = "suspended" /\ rdproc[w].blk = b /\ rdproc[w].val = v
        /\ rdproc[w].val # 0
    BY <1>1, <1>2, <1>10 DEF RdRequest
  <2>2. rdproc[w].blk \in RdBlocks BY <1>4, <2>1 DEF RdCallers, RdCaller
  <2>3. QED BY <1>4, <2>1, <2>2, RdProcIs DEF RdWriting
<1> HIDE DEF e
<1>12. RdFinished(w, b, v) BY <1>3, <1>4, <1>11, RdCompletes
<1>13. /\ rdcom' \in RdComSet /\ rdcom'.at = "send" /\ rdcom'.op = "write" /\ rdcom'.blk = b
       /\ rdcom'.val = v /\ rdcom'.seq = rdseq /\ rdcom'.node = NULL
  <2>1. NULL \in 0..RD_QNODES BY RdCounts
  <2>2. QED BY <1>3, <1>4, <1>11, <2>1, RdExchangeIs
<1>14. rdproc' = [p \in RdProcs |-> IF p \in {w} THEN RdIdle ELSE rdproc[p]]
  <2>1. rdproc \in [RdProcs -> RdProcSet] BY <1>4 DEF RdTyped
  <2>2. QED BY <1>3, <2>1 DEF RdEnds
<1>15. rdsem \in Nat /\ rdsem' \in Nat /\ rdsem' + 1 = rdsem /\ rdseq \in Nat /\ rdseq' \in Nat
  <2>1. rdsem \in Nat /\ rdseq \in Nat BY <1>4 DEF RdTyped
  <2>2. rdsem > 0 /\ rdsem' = rdsem - 1 BY <1>1, Zenon
  <2>3. rdseq' = rdseq + 1 BY <1>3, Zenon
  <2>4. QED BY <2>1, <2>2, <2>3
\* The queue.
<1>16. PICK u : u = RdBut(S, 1) OBVIOUS
<1>17. PICK n : n = rdhead OBVIOUS
<1>18. RdList(RdQ, S, F, RdSuspended)
  <2>1. RdQ.node = rdnode /\ RdQ.free = rdfree BY DEF RdQ
  <2>2. F # << >> => 1 \in 1..Len(F) /\ F[1] \in RdNodes BY <1>7
  <2>3. rdfree = IF F = << >> THEN NULL ELSE F[1] BY <1>6, <2>1 DEF RdFreed
  <2>4. rdfree \in 0..RD_QNODES BY <2>2, <2>3, RdCounts
  <2>5. QED BY <1>4, <1>6, <2>1, <2>4 DEF RdList, RdTyped
<1>19. RdQ' = rdqunlink(RdQ, n)
  <2>1. PICK x : x = rdqunlink(RdQ, n) OBVIOUS
  <2>2. rdnode' = x.node /\ rdhead' = x.head /\ rdtail' = x.tail /\ rdfree' = x.free
    BY <1>3, <1>17, <2>1 DEF RdSetQ
  <2>3. x = [node |-> x.node, head |-> x.head, tail |-> x.tail, free |-> x.free]
    BY <2>1 DEF rdqunlink
  <2>4. RdQ' = x BY <2>2, <2>3 DEF RdQ
  <2>5. QED BY <2>1, <2>4
<1>20. RdIsOff(RdQ, RdQ', S, u, F, RdSuspended, n)
  <2>1. PICK q, r, C : q = RdQ /\ r = RdQ' /\ C = RdSuspended OBVIOUS
  <2>2. RdList(q, S, F, C) BY <1>18, <2>1
  <2>3. 1 \in 1..Len(S) /\ n = S[1] BY <1>8, <1>9, <1>17
  <2>4. RdIsOff(q, rdqunlink(q, n), S, RdBut(S, 1), F, C, n) BY <2>2, <2>3, RdTakesOff, Zenon
  <2>5. QED BY <1>16, <1>19, <2>1, <2>4
<1>21. RdList(RdQ', u, <<n>> \o F, RdSuspended \ {w}) /\ Len(u) = l - 1
  <2>1. RdQ.node[n].pid = w BY <1>2, <1>17 DEF RdQ, e
  <2>2. QED BY <1>8, <1>20, <2>1 DEF RdIsOff
<1>22. RdQueued'
  <2>1. RdLinked(RdQ', u) /\ RdFreed(RdQ', u, <<n>> \o F) /\ RdRequests(RdQ', u, RdSuspended \ {w}, rdproc)
    BY <1>21 DEF RdList
  <2>2. {w} \in SUBSET RdSuspended BY <1>11 DEF RdSuspended
  <2>3. RdRequests(RdQ', u, RdSuspended', rdproc')
    <3>1. PICK r, O : r = RdQ' /\ O = {w} OBVIOUS
    <3>2. RdRequests(r, u, RdSuspended \ O, rdproc) /\ O \in SUBSET RdSuspended BY <2>1, <2>2, <3>1
    <3>3. rdproc' = [p \in RdProcs |-> IF p \in O THEN RdIdle ELSE rdproc[p]] BY <1>14, <3>1
    <3>4. RdRequests(r, u, RdSuspended', rdproc') BY <1>4, <3>2, <3>3, RdGoneRequests
    <3>5. QED BY <3>1, <3>4
  <2>4. RdComHas(u)'
    <3>1. ~RdComReads /\ ~RdComReads' BY <1>1, <1>13 DEF RdComReads
    <3>2. rdsem >= l
      <4>1. rdsem + 0 >= l BY <1>6, <1>8, <3>1 DEF RdComHas
      <4>2. QED BY <1>15, <4>1
    <3>3. rdsem' + 0 >= Len(u)
      <4>1. Len(u) = l - 1 BY <1>21
      <4>2. l \in Nat /\ rdsem \in Nat /\ rdsem' \in Nat /\ rdsem' + 1 = rdsem BY <1>8, <1>15, Zenon
      <4>3. PICK x, y, k : x = rdsem /\ y = rdsem' /\ k = Len(u) OBVIOUS
      <4>4. x \in Nat /\ y \in Nat /\ y + 1 = x /\ x >= l /\ k = l - 1 BY <3>2, <4>1, <4>2, <4>3
      <4>5. y + 0 >= k BY <4>2, <4>4
      <4>6. QED BY <4>3, <4>5
    <3>4. QED BY <1>13, <3>1, <3>3 DEF RdComHas
\* The next request is a write of the block, or there is none.
  <2>5. RdSearchable(RdQ', u)
    <3>1. PICK q, s, C : q = RdQ /\ s = RdQ' /\ C = RdSuspended OBVIOUS
    <3>2. q.node = rdnode /\ RdLinked(q, S) /\ RdSearchable(q, S) BY <1>6, <3>1 DEF RdQ
    <3>3. u \in Seq(RdNodes) BY <2>1 DEF RdLinked
    <3>4. CASE u = << >>
      <4>1. RdBehind(s, u, {}) BY <3>4 DEF RdBehind
      <4>2. RdLeft(u, {}) = {} BY DEF RdLeft
      <4>3. QED BY <3>1, <4>1, <4>2 DEF RdSearchable
    <3>5. CASE u # << >>
      <4>1. PICK B : RdBehind(q, S, B) /\ \A m \in RdLeft(S, B) : RdCovered(q, S, m) BY <3>2 DEF RdSearchable
      <4>2. RdOffBehind(q, rdqunlink(q, n), S, RdBut(S, 1), B, n)
        <5>1. RdList(q, S, F, C) BY <1>18, <3>1
        <5>2. 1 \in 1..Len(S) /\ n = S[1] BY <1>8, <1>9, <1>17
        <5>3. QED BY <4>1, <5>1, <5>2, RdStaysBehind, Zenon
      <4>3. RdOffBehind(q, s, S, u, B, n) BY <1>16, <1>19, <3>1, <4>2
      <4>4. Len(u) # 0 /\ l - 1 # 0 /\ 1 \in 1..(l - 1) /\ 2 \in 1..l
        <5>1. Len(u) # 0 BY <3>3, <3>5
        <5>2. l \in Nat /\ Len(u) = l - 1 BY <1>8, <1>21
        <5>3. l - 1 # 0 BY <5>1, <5>2
        <5>4. QED BY <1>9, <5>1, <5>3
      <4>5. u[1] = S[2]
        <5>1. u = [i \in 1..(l - 1) |-> IF i < 1 THEN S[i] ELSE S[i + 1]] BY <1>8, <1>16 DEF RdBut
        <5>2. u[1] = IF 1 < 1 THEN S[1] ELSE S[1 + 1] BY <4>4, <5>1
        <5>3. QED BY <5>2
      <4>6. e.next = S[2] /\ S[2] \in RdNodes /\ S[2] # NULL
        <5>1. rdnode[S[1]].next = IF 1 = l THEN NULL ELSE S[1 + 1] BY <1>8, <1>9, <3>2 DEF RdLinked
        <5>2. 1 # l BY <4>4
        <5>3. S[2] \in RdNodes BY <1>7, <1>8, <4>4
        <5>4. QED BY <1>9, <5>1, <5>2, <5>3, RdCounts DEF e
      <4>7. rdnode[u[1]].op = "write" /\ rdnode[u[1]].blk = b BY <1>2, <1>3, <4>5, <4>6 DEF RdLaterWrite, e
      <4>8. u[1] \in RdNodes BY <4>5, <4>6
      <4>9. s.node[u[1]].op = "write" /\ s.node[u[1]].blk = b
        BY <3>2, <4>3, <4>7, <4>8 DEF RdOffBehind, RdSameRequests
      <4>10. ASSUME NEW m \in RdLeft(u, B) PROVE RdCovered(s, u, m)
        <5>1. m \in RdNodes BY <4>3 DEF RdOffBehind, RdLeft, RdBehind
        <5>2. s.node[m].op = rdnode[m].op /\ s.node[m].blk = rdnode[m].blk
          BY <3>2, <4>3, <5>1 DEF RdOffBehind, RdSameRequests
        <5>3. rdnode[m].op = "write" => rdnode[m].blk = b
          <6>1. CASE m = n BY <1>2, <1>17, <6>1 DEF e
          <6>2. CASE m \in RdLeft(S, B)
            <7>1. RdCovered(q, S, m) BY <4>1, <6>2
            <7>2. rdnode[S[1]].blk = b BY <1>2, <1>9 DEF e
            <7>3. QED BY <3>2, <7>1, <7>2 DEF RdCovered
          <6>3. QED BY <4>3, <6>1, <6>2 DEF RdOffBehind
        <5>4. QED BY <3>5, <4>9, <5>2, <5>3 DEF RdCovered
      <4>11. RdBehind(s, u, B) BY <4>3 DEF RdOffBehind
      <4>12. QED BY <3>1, <4>10, <4>11 DEF RdSearchable
    <3>6. QED BY <3>4, <3>5
  <2>6. RdHolds(u, <<n>> \o F)' BY <2>1, <2>3, <2>4, <2>5 DEF RdHolds
  <2>7. QED BY <2>6 DEF RdQueued
\* The values.
<1>23. \A p \in RdProcs : rdproc'[p] = IF p = w THEN RdIdle ELSE rdproc[p] BY <1>14
<1>24. \A p \in RdProcs : RdWriting(p)' => RdWriting(p) /\ p # w /\ rdproc'[p] = rdproc[p]
  BY <1>23, RdIdleIs DEF RdWriting
<1>25. v \in RdLive(b)
  <2>1. [val |-> v, done |-> FALSE] \in rdlive[b] BY <1>4, <1>11 DEF RdCallers, RdCaller
  <2>2. QED BY <2>1 DEF RdLive
<1>26. /\ v \in RdLive(b)' /\ RdLive(b)' \subseteq RdLive(b)
       /\ \A a \in RdBlocks : RdLive(a)' \subseteq RdLive(a) /\ (a # b => RdLive(a)' = RdLive(a))
  <2>1. v \in RdLive(b)' BY <1>12 DEF RdLive, RdFinished
  <2>2. \A x \in rdlive'[b] : x.val \in RdLive(b) BY <1>12, <1>25 DEF RdLive, RdFinished
  <2>3. RdLive(b)' \subseteq RdLive(b) BY <2>2 DEF RdLive
  <2>4. \A a \in RdBlocks : a # b => RdLive(a)' = RdLive(a) BY <1>12 DEF RdLive, RdFinished
  <2>5. QED BY <1>11, <2>1, <2>3, <2>4
<1>27. \A p \in RdProcs : RdWriting(p)' => rdproc[p].val # v /\ rdproc[p].val \notin rdproc[w].older
  BY <1>4, <1>11, <1>24 DEF RdNumbered
<1>28. RdCallers'
  <2>1. SUFFICES ASSUME NEW q \in RdProcs PROVE RdCaller(q)' BY DEF RdCallers
  <2>2. CASE q = w
    <3>1. rdproc'[q] = RdIdle BY <1>23, <2>2
    <3>2. QED BY <3>1, RdIdleIs DEF RdCaller, RdWriting
  <2>3. CASE q # w
    <3>1. RdCaller(q) BY <1>4 DEF RdCallers
    <3>2. rdproc'[q] = rdproc[q] BY <1>23, <2>3
    <3>3. PICK d : d = rdproc[q] OBVIOUS
    <3>4. d.at # "idle" => d.blk \in RdBlocks BY <3>1, <3>3 DEF RdCaller
    <3>5. d.val # 0 => d.at = "suspended" /\ [val |-> d.val, done |-> FALSE] \in rdlive[d.blk]
      BY <3>1, <3>3 DEF RdCaller, RdWriting
    <3>6. d.val # 0 => [val |-> d.val, done |-> FALSE] \in rdlive'[d.blk]
      <4>1. SUFFICES ASSUME d.val # 0 PROVE [val |-> d.val, done |-> FALSE] \in rdlive'[d.blk] OBVIOUS
      <4>2. d.val # v /\ d.val \notin rdproc[w].older BY <1>27, <3>2, <3>3, <4>1 DEF RdWriting
      <4>3. d.blk \in RdBlocks BY <3>4, <3>5, <4>1
      <4>4. QED BY <1>12, <3>5, <4>1, <4>2, <4>3 DEF RdFinished
    <3>7. d.at # "idle" /\ d.val = 0 => RdLive(d.blk) \subseteq d.may BY <3>1, <3>3 DEF RdCaller, RdWriting
    <3>8. d.at # "idle" /\ d.val = 0 => RdLive(d.blk)' \subseteq d.may BY <1>26, <3>4, <3>7
    <3>9. QED BY <3>2, <3>3, <3>4, <3>5, <3>6, <3>8 DEF RdCaller, RdWriting, RdLive
  <2>4. QED BY <2>2, <2>3
<1>29. RdGiven' = RdGiven BY <1>1 DEF RdGiven
<1>30. RdGiven \in Nat /\ 0 <= RdGiven BY <1>4, RdBudgetIs
<1>31. RdNumbered'
  <2>1. \A q \in RdProcs : /\ rdproc'[q].val = rdproc[q].val \/ rdproc'[q].val = 0
                           /\ rdproc'[q].older \subseteq rdproc[q].older
    BY <1>23, RdIdleIs
  <2>2. \A q \in RdProcs : rdproc'[q].val <= RdGiven /\ \A x \in rdproc'[q].older : x <= RdGiven
    BY <1>4, <1>30, <2>1 DEF RdNumbered
  <2>3. \A q, s \in RdProcs : RdWriting(q)' => /\ rdproc'[q].val \notin rdproc'[s].older
                                               /\ rdproc'[q].val = rdproc'[s].val => q = s
    BY <1>4, <1>24, <2>1 DEF RdNumbered, RdWriting
  <2>4. \A a \in RdBlocks : \A x \in rdlive'[a] : x \in rdlive[a] \/ x = [val |-> v, done |-> TRUE]
    BY <1>12 DEF RdFinished
  <2>5. ASSUME NEW q \in RdProcs, NEW a \in RdBlocks, RdWriting(q)'
        PROVE  [val |-> rdproc'[q].val, done |-> TRUE] \notin rdlive'[a]
    <3>1. rdproc'[q].val = rdproc[q].val /\ RdWriting(q) /\ rdproc[q].val # v BY <1>24, <1>27, <2>5
    <3>2. [val |-> rdproc[q].val, done |-> TRUE] \notin rdlive[a] BY <1>4, <3>1 DEF RdNumbered
    <3>3. [val |-> rdproc[q].val, done |-> TRUE] # [val |-> v, done |-> TRUE] BY <3>1
    <3>4. QED BY <2>4, <3>1, <3>2, <3>3
  <2>6. \A a \in RdBlocks : \A x \in rdlive'[a] : x.val <= RdGiven
    <3>1. v <= RdGiven BY <1>4, <1>11 DEF RdNumbered
    <3>2. \A a \in RdBlocks : \A x \in rdlive[a] : x.val <= RdGiven BY <1>4 DEF RdNumbered
    <3>3. QED BY <2>4, <3>1, <3>2
  <2>7. QED BY <1>29, <2>2, <2>3, <2>5, <2>6 DEF RdNumbered
<1>32. \A i \in 1..Len(rdcache) : rdcache[i].blk # b /\ rdcache[i].blk \in RdBlocks
  <2>1. SUFFICES ASSUME NEW i \in 1..Len(rdcache), NEW c, c = rdcache[i] PROVE c.blk # b /\ c.blk \in RdBlocks
    OBVIOUS
  <2>2. RdCurrent(c) /\ c.blk \in RdBlocks BY <1>4, <2>1, RdCacheIs DEF RdCopies
  <2>3. QED BY <1>11, <2>2 DEF RdCurrent
<1>33. ASSUME NEW c, NEW i \in 1..Len(rdcache), c = rdcache[i] PROVE RdCurrent(c)'
  <2>1. RdCurrent(c) /\ c.blk # b /\ c.blk \in RdBlocks BY <1>4, <1>32, <1>33 DEF RdCopies
  <2>2. c.val \in RdLive(c.blk)' BY <1>26, <2>1 DEF RdCurrent
  <2>3. \A q \in RdProcs : RdWriting(q)' => rdproc'[q].blk # c.blk BY <1>24, <2>1 DEF RdCurrent
  <2>4. QED BY <2>2, <2>3 DEF RdCurrent
\* Who else writes the block has his request behind this one.
<1>34. RdIsLatest(rdhead) => \A q \in RdProcs : RdWriting(q)' => rdproc'[q].blk # b
  <2>1. SUFFICES ASSUME RdIsLatest(rdhead), NEW q \in RdProcs, RdWriting(q)' PROVE rdproc'[q].blk # b OBVIOUS
  <2>2. RdWriting(q) /\ q # w /\ rdproc'[q] = rdproc[q] BY <1>24, <2>1
  <2>3. q \in RdSuspended BY <1>4, <2>2 DEF RdCallers, RdCaller, RdSuspended
  <2>4. rdnode[S[1]].next = IF 1 = l THEN NULL ELSE S[1 + 1] BY <1>6, <1>8, <1>9 DEF RdLinked, RdQ
  <2>5. l # 1 => 1 + 1 \in 1..l BY <1>9
  <2>6. l # 1 => S[1 + 1] # NULL BY <1>7, <1>8, <2>5, RdCounts
  <2>7. l = 1 BY <1>9, <2>1, <2>4, <2>6 DEF RdIsLatest
  <2>8. PICK i \in 1..l : rdnode[S[i]].pid = q BY <1>6, <1>8, <2>3 DEF RdRequests, RdQ
  <2>9. i = 1 BY <2>7
  <2>10. QED BY <1>2, <1>9, <2>2, <2>8, <2>9 DEF e
<1>35. RdCopies' /\ rdcache' \in Seq([blk : RdBlocks, val : Nat])
  <2>1. CASE ~RdIsLatest(rdhead)
    <3>1. rdcache' = rdcache BY <1>3, <2>1
    <3>2. \A i, j \in 1..Len(rdcache) : rdcache[i].blk = rdcache[j].blk => i = j BY <1>4 DEF RdCopies
    <3>3. QED BY <1>4, <1>33, <3>1, <3>2 DEF RdCopies, RdCurrent, RdLive, RdTyped
  <2>2. CASE RdIsLatest(rdhead)
    <3>1. rdcache' = rdcinsert(b, v) BY <1>3, <2>2
    <3>2. RdHasCopies(rdcache', {[blk |-> b, val |-> v]}, b) BY <1>4, <1>11, <1>32, <3>1, RdInsertsCopy
    <3>3. ASSUME NEW i \in 1..Len(rdcache'), NEW c, c = rdcache'[i] PROVE RdCurrent(c)'
      <4>1. CASE c = [blk |-> b, val |-> v]
        <5>1. c.blk = b /\ c.val = v BY <4>1
        <5>2. QED BY <1>26, <1>34, <2>2, <5>1 DEF RdCurrent
      <4>2. CASE c # [blk |-> b, val |-> v]
        <5>1. \E j \in 1..Len(rdcache) : c = rdcache[j] BY <3>2, <3>3, <4>2 DEF RdHasCopies
        <5>2. QED BY <1>33, <5>1
      <4>3. QED BY <4>1, <4>2
    <3>4. /\ \A i, j \in 1..Len(rdcache') : rdcache'[i].blk = rdcache'[j].blk => i = j
          /\ rdcache' \in Seq([blk : RdBlocks, val : Nat])
      BY <3>2 DEF RdHasCopies
    <3>5. QED BY <3>3, <3>4 DEF RdCopies, RdCurrent, RdLive
  <2>3. QED BY <2>1, <2>2
\* The exchange.
<1>36. RdOnDisk'
  <2>1. SUFFICES ASSUME NEW a \in RdBlocks
                 PROVE  IF RdComWrites(a)' THEN rdcom'.val \in RdLive(a)' ELSE a \notin rddoubt' => rddisk'[a] \in RdLive(a)'
    BY DEF RdOnDisk
  <2>2. RdComWrites(a)' <=> a = b BY <1>13 DEF RdComWrites
  <2>3. ~RdComWrites(a) BY <1>1 DEF RdComWrites
  <2>4. a \notin rddoubt => rddisk[a] \in RdLive(a) BY <1>4, <2>3 DEF RdOnDisk
  <2>5. QED BY <1>1, <1>13, <1>26, <2>2, <2>4
<1>37. RdCarried'
  <2>1. \A m \in rdreq : m.seq < rdseq /\ m.seq \in Nat BY <1>4 DEF RdCarried, RdTyped, RdMessage
  <2>2. \A r \in rdrep : r.seq < rdseq /\ r.seq \in Nat BY <1>4 DEF RdCarried, RdTyped, RdAnswer
  <2>3. \A m \in rdreq : m.seq < rdseq' /\ m.seq # rdcom'.seq BY <1>3, <1>13, <1>15, <2>1
  <2>4. \A r \in rdrep : r.seq < rdseq' /\ r.seq # rdcom'.seq BY <1>3, <1>13, <1>15, <2>2
  <2>5. rdcom'.blk \in RdBlocks /\ rdcom'.seq < rdseq' /\ rdcom'.op # "none" BY <1>3, <1>11, <1>13, <1>15
  <2>6. rdreq' = rdreq /\ rdrep' = rdrep BY <1>1
  <2>7. QED BY <2>3, <2>4, <2>5, <2>6 DEF RdCarried
<1>38. RdTyped'
  <2>1. rdnode' \in [RdNodes -> RdNodeSet]
    <3>1. RdQ'.node \in [RdNodes -> RdNodeSet] BY <1>21 DEF RdList
    <3>2. QED BY <3>1 DEF RdQ
  <2>2. rdproc' \in [RdProcs -> RdProcSet]
    <3>1. rdproc \in [RdProcs -> RdProcSet] BY <1>4 DEF RdTyped
    <3>2. QED BY <1>14, <3>1, RdIdleIs
  <2>3. rdlive' \in [RdBlocks -> SUBSET [val : Nat, done : BOOLEAN]] BY <1>12 DEF RdFinished
  <2>4. QED BY <1>1, <1>4, <1>13, <1>15, <1>35, <2>1, <2>2, <2>3 DEF RdTyped
<1>39. QED BY <1>3, <1>22, <1>28, <1>31, <1>35, <1>36, <1>37, <1>38 DEF RdGood, RdValues, RdTransfer

\* A reply ends the exchange: a read goes on, and the reads behind it.
LEMMA RdEndsRead ==
    ASSUME RdGood, NEW v, NEW g \in BOOLEAN, RdReadDone(v, g), RdComReads,
           g /\ rdcom.blk \notin rddoubt => v \in RdLive(rdcom.blk),
           UNCHANGED <<rdcache, rdsem, rdseq, rdreq, rddisk, rdbudget, rdlive, rddoubt>>, rdrep' \subseteq rdrep
    PROVE  RdGood'
<1>1. RdTyped /\ RdCallers /\ RdNumbered /\ RdCopies /\ RdOnDisk /\ RdCarried BY DEF RdGood, RdValues, RdTransfer
<1>2. PICK S, F : RdHolds(S, F) BY DEF RdGood, RdQueued
<1>3. /\ RdLinked(RdQ, S) /\ RdFreed(RdQ, S, F) /\ RdRequests(RdQ, S, RdSuspended, rdproc) /\ RdComHas(S)
      /\ RdSearchable(RdQ, S)
  BY <1>2 DEF RdHolds
<1>4. S \in Seq(RdNodes) /\ F \in Seq(RdNodes) BY <1>3 DEF RdLinked, RdFreed
<1>5. PICK n, b : n = rdcom.node /\ b = rdcom.blk OBVIOUS
<1>6. S # << >> /\ n = S[1] /\ rdnode[n].op = "read" /\ rdnode[n].blk = b BY <1>3, <1>5 DEF RdComHas
<1>7. RdList(RdQ, S, F, RdSuspended)
  <2>1. RdQ.node = rdnode /\ RdQ.free = rdfree BY DEF RdQ
  <2>2. F # << >> => 1 \in 1..Len(F) /\ F[1] \in RdNodes BY <1>4
  <2>3. rdfree = IF F = << >> THEN NULL ELSE F[1] BY <1>3, <2>1 DEF RdFreed
  <2>4. rdfree \in 0..RD_QNODES BY <2>2, <2>3, RdCounts
  <2>5. QED BY <1>1, <1>3, <2>1, <2>4 DEF RdList, RdTyped
<1>8. PICK st : st = RdServed(n, b) OBVIOUS
\* The first request is a read, so that no node that is free has a write a search would find.
<1>9. PICK B : RdOnlyQueued(RdQ, S, B)
  <2>1. PICK B : RdBehind(RdQ, S, B) /\ \A m \in RdLeft(S, B) : RdCovered(RdQ, S, m) BY <1>3 DEF RdSearchable
  <2>2. RdQ.node[S[1]].op = "read" BY <1>6 DEF RdQ
  <2>3. \A m \in RdLeft(S, B) : RdQ.node[m].op # "write" BY <2>1, <2>2 DEF RdCovered
  <2>4. QED BY <2>1, <2>3 DEF RdOnlyQueued
<1>10. PICK T, G : RdServing(st, T, G, RdSuspended, b, B) /\ Len(T) <= Len(S) - 1
  <2>1. PICK C : C = RdSuspended OBVIOUS
  <2>2. RdList(RdQ, S, F, C) BY <1>7, <2>1
  <2>3. \E T, G : RdServing(RdServed(n, b), T, G, C, b, B) /\ Len(T) <= Len(S) - 1
    BY <1>6, <1>9, <2>2, RdServedIs
  <2>4. QED BY <1>8, <2>1, <2>3
<1>11. /\ RdSetQ(st.q) /\ rdproc' = [p \in RdProcs |-> IF p \in st.pids THEN RdIdle ELSE rdproc[p]]
       /\ \/ ~g /\ RdFaults(TRUE, "stale reply")
          \/ g /\ RdFaults(b \notin rddoubt /\ \E p \in st.pids : v \notin rdproc[p].may, "stale read")
       /\ rdcom' = RdComIdle
  BY <1>5, <1>8 DEF RdReadDone
<1>12. /\ RdList(st.q, T, G, RdSuspended \ st.pids)
       /\ st.pids \subseteq RdSuspended /\ \A p \in st.pids : rdproc[p].val = 0 /\ rdproc[p].blk = b
  BY <1>10 DEF RdServing
<1>13. PICK O : O = st.pids /\ O \in SUBSET RdSuspended BY <1>12
<1>14. PICK r : r = st.q OBVIOUS
<1>15. RdLinked(RdQ', T) /\ RdFreed(RdQ', T, G) /\ rdnode' = r.node
  <2>1. rdnode' = r.node /\ rdhead' = r.head /\ rdtail' = r.tail /\ rdfree' = r.free
    BY <1>11, <1>14 DEF RdSetQ
  <2>2. RdLinked(r, T) /\ RdFreed(r, T, G) BY <1>12, <1>14 DEF RdList
  <2>3. PICK x : x = RdQ' OBVIOUS
  <2>4. x.node = r.node /\ x.head = r.head /\ x.tail = r.tail /\ x.free = r.free BY <2>1, <2>3 DEF RdQ
  <2>5. RdLinked(x, T) BY <2>2, <2>4 DEF RdLinked
  <2>6. RdFreed(x, T, G) BY <2>2, <2>4 DEF RdFreed
  <2>7. QED BY <2>1, <2>3, <2>5, <2>6
<1>16. RdQueued'
  <2>1. RdRequests(RdQ', T, RdSuspended', rdproc')
    <3>1. RdRequests(r, T, RdSuspended \ O, rdproc) BY <1>12, <1>13, <1>14 DEF RdList
    <3>2. rdproc' = [p \in RdProcs |-> IF p \in O THEN RdIdle ELSE rdproc[p]] BY <1>11, <1>13
    <3>3. RdRequests(r, T, RdSuspended', rdproc') BY <1>1, <1>13, <3>1, <3>2, RdGoneRequests
    <3>4. PICK x, C, h : x = RdQ' /\ C = RdSuspended' /\ h = rdproc' OBVIOUS
    <3>5. x.node = r.node BY <1>15, <3>4 DEF RdQ
    <3>6. RdRequests(x, T, C, h) BY <3>3, <3>4, <3>5 DEF RdRequests
    <3>7. QED BY <3>4, <3>6
  <2>2. RdComHas(T)'
    <3>1. ~RdComReads' /\ rdcom'.node = NULL BY <1>11, RdComIdleIs DEF RdComReads
    <3>2. rdsem + 1 >= Len(S) BY <1>3 DEF RdComHas
    <3>3. rdsem \in Nat BY <1>1 DEF RdTyped
    <3>4. Len(S) \in Nat /\ Len(T) \in Nat
      <4>1. T \in Seq(RdNodes) BY <1>15 DEF RdLinked
      <4>2. QED BY <1>4, <4>1
    <3>5. rdsem' + 0 >= Len(T) BY <1>10, <3>2, <3>3, <3>4
    <3>6. QED BY <3>1, <3>5 DEF RdComHas
  <2>3. RdSearchable(RdQ', T)
    <3>1. PICK z : z = RdQ' /\ z.node = r.node BY <1>15 DEF RdQ
    <3>2. RdOnlyQueued(r, T, B) BY <1>10, <1>14 DEF RdServing
    <3>3. RdBehind(z, T, B) /\ \A m \in RdLeft(T, B) : z.node[m].op # "write" BY <3>1, <3>2 DEF RdOnlyQueued, RdBehind
    <3>4. QED BY <3>1, <3>3 DEF RdSearchable, RdCovered
  <2>4. RdHolds(T, G)' BY <1>15, <2>1, <2>2, <2>3 DEF RdHolds
  <2>5. QED BY <2>4 DEF RdQueued
\* They were not writing, and so may have what is on the disk.
<1>17. \A p \in st.pids : p \in RdProcs /\ RdLive(b) \subseteq rdproc[p].may
  <2>1. SUFFICES ASSUME NEW p \in st.pids PROVE p \in RdProcs /\ RdLive(b) \subseteq rdproc[p].may OBVIOUS
  <2>2. p \in RdProcs /\ rdproc[p].at = "suspended" /\ rdproc[p].val = 0 /\ rdproc[p].blk = b
    BY <1>12 DEF RdSuspended
  <2>3. QED BY <1>1, <2>2 DEF RdCallers, RdCaller, RdWriting
<1>18. "stale read" \notin rdfault'
  <2>1. g /\ b \notin rddoubt => ~\E p \in st.pids : v \notin rdproc[p].may BY <1>5, <1>17
  <2>2. "stale read" \notin rdfault BY DEF RdGood
  <2>3. CASE ~g /\ RdFaults(TRUE, "stale reply") BY <2>2, <2>3 DEF RdFaults
  <2>4. CASE g /\ RdFaults(b \notin rddoubt /\ \E p \in st.pids : v \notin rdproc[p].may, "stale read")
    BY <2>1, <2>2, <2>4 DEF RdFaults
  <2>5. QED BY <1>11, <2>3, <2>4
<1>19. \A p \in RdProcs : rdproc'[p] = IF p \in st.pids THEN RdIdle ELSE rdproc[p] BY <1>11
<1>20. \A p \in RdProcs : RdWriting(p)' => RdWriting(p) /\ rdproc'[p] = rdproc[p]
  BY <1>19, RdIdleIs DEF RdWriting
<1>21. \A a : RdLive(a)' = RdLive(a) BY DEF RdLive
<1>22. RdCallers'
  <2>1. SUFFICES ASSUME NEW q \in RdProcs PROVE RdCaller(q)' BY DEF RdCallers
  <2>2. CASE q \in st.pids
    <3>1. rdproc'[q] = RdIdle BY <1>19, <2>2
    <3>2. QED BY <3>1, RdIdleIs DEF RdCaller, RdWriting
  <2>3. CASE q \notin st.pids
    <3>1. RdCaller(q) BY <1>1 DEF RdCallers
    <3>2. rdproc'[q] = rdproc[q] BY <1>19, <2>3
    <3>3. QED BY <1>21, <3>1, <3>2 DEF RdCaller, RdWriting
  <2>4. QED BY <2>2, <2>3
<1>23. RdNumbered'
  <2>1. RdGiven' = RdGiven BY DEF RdGiven
  <2>2. RdGiven \in Nat /\ 0 <= RdGiven BY <1>1, RdBudgetIs
  <2>3. \A q \in RdProcs : /\ rdproc'[q].val = rdproc[q].val \/ rdproc'[q].val = 0
                           /\ rdproc'[q].older \subseteq rdproc[q].older
    BY <1>19, RdIdleIs
  <2>4. \A q \in RdProcs : rdproc'[q].val <= RdGiven /\ \A x \in rdproc'[q].older : x <= RdGiven
    BY <1>1, <2>2, <2>3 DEF RdNumbered
  <2>5. \A q, s \in RdProcs : RdWriting(q)' => /\ rdproc'[q].val \notin rdproc'[s].older
                                               /\ rdproc'[q].val = rdproc'[s].val => q = s
    BY <1>1, <1>20, <2>3 DEF RdNumbered, RdWriting
  <2>6. \A q \in RdProcs, a \in RdBlocks : RdWriting(q)' => [val |-> rdproc'[q].val, done |-> TRUE] \notin rdlive[a]
    BY <1>1, <1>20 DEF RdNumbered
  <2>7. \A a \in RdBlocks : \A x \in rdlive[a] : x.val <= RdGiven BY <1>1 DEF RdNumbered
  <2>8. QED BY <2>1, <2>4, <2>5, <2>6, <2>7 DEF RdNumbered
<1>24. RdCopies'
  <2>1. \A d : RdCurrent(d) => RdCurrent(d)' BY <1>20, <1>21 DEF RdCurrent
  <2>2. QED BY <1>1, <2>1 DEF RdCopies
<1>25. RdOnDisk'
  <2>1. \A a : ~RdComWrites(a) /\ ~RdComWrites(a)' BY <1>11, RdComIdleIs DEF RdComWrites, RdComReads
  <2>2. QED BY <1>1, <1>21, <2>1 DEF RdOnDisk
<1>26. RdCarried' BY <1>1, <1>11, RdComIdleIs DEF RdCarried
<1>27. RdTyped'
  <2>1. rdnode' \in [RdNodes -> RdNodeSet] BY <1>12, <1>14, <1>15 DEF RdList
  <2>2. rdproc' \in [RdProcs -> RdProcSet]
    <3>1. rdproc \in [RdProcs -> RdProcSet] BY <1>1 DEF RdTyped
    <3>2. QED BY <1>11, <3>1, RdIdleIs
  <2>3. rdcom' \in RdComSet BY <1>11, RdComIdleIs
  <2>4. rdrep' \subseteq RdAnswer BY <1>1 DEF RdTyped
  <2>5. QED BY <1>1, <2>1, <2>2, <2>3, <2>4 DEF RdTyped
<1>28. QED BY <1>16, <1>18, <1>22, <1>23, <1>24, <1>25, <1>26, <1>27 DEF RdGood, RdValues, RdTransfer

\* A write that the server has answered is on its disk, or in doubt.
LEMMA RdEndsWrite ==
    ASSUME RdGood, rdcom' = RdComIdle, rdcom.at # "idle", rdcom.op = "write",
           rddoubt \ {rdcom.blk} \subseteq rddoubt', rdcom.blk \notin rddoubt' => rddisk[rdcom.blk] = rdcom.val,
           "stale read" \notin rdfault',
           UNCHANGED <<rdqueue, rdproc, rdcache, rdsem, rdseq, rdreq, rddisk, rdbudget, rdlive>>,
           rdrep' \subseteq rdrep
    PROVE  RdGood'
<1>1. rdcom' \in RdComSet /\ rdcom'.at = "idle" /\ rdcom'.node = NULL BY RdComIdleIs
<1>2. RdTyped' BY <1>1 DEF RdGood, RdTyped, rdqueue
<1>3. RdQueued'
  <2>1. PICK S, F : RdHolds(S, F) BY DEF RdGood, RdQueued
  <2>2. RdNoneGoes BY DEF RdNoneGoes
  <2>3. RdChained(S, F)' BY <2>1, <2>2, RdChainedKept DEF RdHolds, RdChained
  <2>4. ~RdComReads /\ ~RdComReads' BY <1>1 DEF RdComReads
  <2>5. RdComHas(S)' BY <1>1, <2>1, <2>4 DEF RdHolds, RdComHas
  <2>6. RdHolds(S, F)' BY <2>3, <2>5 DEF RdHolds, RdChained
  <2>7. QED BY <2>6 DEF RdQueued
<1>4. RdValues' BY RdCallersKept, RdNumberedKept, RdGivenKept, RdCopiesKept DEF RdGood, RdValues
<1>5. RdOnDisk'
  <2>1. RdOnDisk BY DEF RdGood, RdTransfer
  <2>2. \A b : ~RdComWrites(b)' BY <1>1 DEF RdComWrites
  <2>3. \A b \in RdBlocks : b \notin rddoubt' => rddisk[b] \in RdLive(b)
    <3>1. SUFFICES ASSUME NEW b \in RdBlocks, b \notin rddoubt' PROVE rddisk[b] \in RdLive(b) OBVIOUS
    <3>2. CASE RdComWrites(b)
      <4>1. rdcom.blk = b BY <3>2 DEF RdComWrites
      <4>2. rddisk[b] = rdcom.val BY <3>1, <4>1
      <4>3. QED BY <2>1, <3>2, <4>2 DEF RdOnDisk
    <3>3. CASE ~RdComWrites(b)
      <4>1. b # rdcom.blk BY <3>3 DEF RdComWrites
      <4>2. b \notin rddoubt BY <3>1, <4>1
      <4>3. QED BY <2>1, <3>3, <4>2 DEF RdOnDisk
    <3>4. QED BY <3>2, <3>3
  <2>4. \A b : RdLive(b)' = RdLive(b) BY DEF RdLive
  <2>5. QED BY <2>2, <2>3, <2>4 DEF RdOnDisk
<1>6. RdCarried'
  <2>1. RdCarried BY DEF RdGood, RdTransfer
  <2>2. QED BY <1>1, <2>1 DEF RdCarried
<1>7. QED BY <1>2, <1>3, <1>4, <1>5, <1>6 DEF RdGood, RdTransfer

\* A reply ends the exchange, or is followed by another try.
LEMMA RdReplies ==
    ASSUME RdGood, NEW r \in rdrep, RdReply(r)
    PROVE  RdGood'
<1>1. PICK g \in BOOLEAN : g = (r.seq = rdcom.seq) OBVIOUS
<1>2. /\ rdcom.at = "receive" /\ rdrep' = rdrep \ {r}
      /\ UNCHANGED <<rdcache, rdsem, rdseq, rdreq, rddisk, rdbudget, rdlive>>
      /\ \/ RdAccepts(r) /\ r.op = "read" /\ RdReadDone(r.val, g) /\ UNCHANGED rddoubt
         \/ /\ RdAccepts(r) /\ r.op = "write" /\ rdcom' = RdComIdle
            /\ rddoubt' = IF rddisk[rdcom.blk] = rdcom.val THEN rddoubt \ {rdcom.blk} ELSE rddoubt \cup {rdcom.blk}
            /\ RdFaults(~g, "stale reply") /\ UNCHANGED <<rdqueue, rdproc>>
         \/ RdRetry(r.seq >= rdcom.seq) /\ UNCHANGED <<rdqueue, rdproc, rddoubt, rdfault>>
  BY <1>1 DEF RdReply
<1>3. r.seq \in Nat /\ rdcom.seq \in Nat /\ r.op \in {"read", "write"}
  <2>1. RdTyped BY DEF RdGood
  <2>2. QED BY <2>1, RdComIs DEF RdTyped, RdAnswer
<1>4. g /\ rdcom.blk \notin rddoubt =>
          IF r.op = "read" THEN r.val \in RdLive(rdcom.blk) ELSE rddisk[rdcom.blk] = rdcom.val
  BY <1>1, <1>2 DEF RdGood, RdTransfer, RdCarried
<1>5. rdcom.at # "idle" /\ rdrep' \subseteq rdrep BY <1>2
<1>6. CASE RdAccepts(r) /\ r.op = "read" /\ RdReadDone(r.val, g) /\ UNCHANGED rddoubt
  <2>1. RdComReads BY <1>2, <1>6 DEF RdComReads, RdAccepts
  <2>2. g /\ rdcom.blk \notin rddoubt => r.val \in RdLive(rdcom.blk) BY <1>4, <1>6
  <2>3. QED BY <1>2, <1>5, <1>6, <2>1, <2>2, RdEndsRead
<1>7. CASE /\ RdAccepts(r) /\ r.op = "write" /\ rdcom' = RdComIdle
           /\ rddoubt' = IF rddisk[rdcom.blk] = rdcom.val THEN rddoubt \ {rdcom.blk} ELSE rddoubt \cup {rdcom.blk}
           /\ RdFaults(~g, "stale reply") /\ UNCHANGED <<rdqueue, rdproc>>
  <2>1. rdcom.op = "write" BY <1>7 DEF RdAccepts
  <2>2. rddoubt \ {rdcom.blk} \subseteq rddoubt' BY <1>7
  <2>3. rdcom.blk \notin rddoubt' => rddisk[rdcom.blk] = rdcom.val BY <1>7
  <2>4. "stale read" \notin rdfault' BY <1>7 DEF RdFaults, RdGood
  <2>5. QED BY <1>2, <1>5, <1>7, <2>1, <2>2, <2>3, <2>4, RdEndsWrite
<1>8. CASE RdRetry(r.seq >= rdcom.seq) /\ UNCHANGED <<rdqueue, rdproc, rddoubt, rdfault>>
  <2>1. PICK j, k : j = r.seq /\ k = rdcom.seq /\ j \in Nat /\ k \in Nat BY <1>3
  <2>2. PICK x \in BOOLEAN : RdRetry(x)
    <3>1. (j >= k) \in BOOLEAN BY <2>1
    <3>2. RdRetry(j >= k) BY <1>8, <2>1, Zenon
    <3>3. QED BY <3>1, <3>2, Zenon
  <2>3. QED BY <1>2, <1>5, <1>8, <2>2, RdRetries
<1>9. QED BY <1>2, <1>6, <1>7, <1>8, Zenon
LEMMA RdTimesOut == ASSUME RdGood, RdTimeout PROVE RdGood'
<1>1. rdcom.at # "idle" /\ RdRetry(TRUE) BY DEF RdTimeout
<1>2. UNCHANGED <<rdqueue, rdcache, rdsem, rdproc, rdseq, rdreq, rddisk, rdbudget, rdlive, rddoubt, rdfault>>
      /\ rdrep' \subseteq rdrep
  BY DEF RdTimeout, rdnet
<1>3. QED BY <1>1, <1>2, RdRetries

-----------------------------------------------------------------------------
\* What has gone wrong stays so.
LEMMA RdSounder == ASSUME RdsNext, RdSound' PROVE RdSound
<1>1. rdfault \subseteq rdfault'
  <2>1. CASE rdsopen \/ rdsopenRest BY <2>1 DEF rdsopen, rdsopenRest
  <2>2. CASE \E p \in RdProcs, b \in rdbudget.asked : rdsread(p, b) BY <2>2 DEF rdsread, RdReadHere, RdReadAsks, RdFaults
  <2>3. CASE \E p \in RdProcs, b \in rdbudget.given : rdswrite(p, b) BY <2>3 DEF rdswrite
  <2>4. CASE \E p \in RdProcs : rdscontrol(p) BY <2>4 DEF rdscontrol
  <2>5. CASE RdTakesNone \/ RdTakesRead BY <2>5 DEF RdTakesNone, RdTakesRead
  <2>6. CASE RdTakesWrite BY <2>6 DEF RdTakesWrite
  <2>7. CASE RdSend \/ RdTimeout \/ RdLost BY <2>7 DEF RdSend, RdTimeout, RdLost
  <2>8. CASE \E r \in rdrep : RdReply(r) BY <2>8 DEF RdReply, RdReadDone, RdFaults
  <2>9. CASE \E m \in rdreq : RdServer(m) BY <2>9 DEF RdServer
  <2>10. QED BY <2>1, <2>2, <2>3, <2>4, <2>5, <2>6, <2>7, <2>8, <2>9 DEF RdsNext
<1>2. QED BY <1>1 DEF RdSound
LEMMA RdSame ==
    ASSUME RdGood, UNCHANGED <<rdqueue, rdcache, rdsem, rdcom, rdproc, rdnet, rdbudget, rdlive, rddoubt, rdfault>>
    PROVE  RdGood'
<1>1. rdbudget' \in RdBudget /\ UNCHANGED RdGiven BY RdGivenKept DEF RdGood, RdTyped
<1>2. "stale read" \notin rdfault' BY DEF RdGood
<1>3. QED BY <1>1, <1>2, RdGoodKept
LEMMA RdStep == RdInv /\ [RdsNext]_rdvars => RdInv'
<1> SUFFICES ASSUME RdInv, [RdsNext]_rdvars, RdSound' PROVE RdGood' BY DEF RdInv
<1>1. CASE UNCHANGED rdvars
  <2>1. RdSound BY <1>1 DEF rdvars, RdSound
  <2>2. QED BY <1>1, <2>1, RdSame DEF rdvars, RdInv
<1>2. CASE RdsNext
  <2>1. RdGood BY <1>2, RdSounder DEF RdInv
  <2>2. CASE rdsopen \/ rdsopenRest BY <2>1, <2>2, RdSame DEF rdsopen, rdsopenRest
  <2>3. CASE \E p \in RdProcs, b \in rdbudget.asked : rdsread(p, b) BY <2>1, <2>3, RdReads
  <2>4. CASE \E p \in RdProcs, b \in rdbudget.given : rdswrite(p, b) BY <2>1, <2>4, RdWriteBegins
  <2>5. CASE \E p \in RdProcs : rdscontrol(p)
    <3>1. "sync not linked" \in rdfault' BY <2>5 DEF rdscontrol
    <3>2. QED BY <3>1 DEF RdSound
  <2>6. CASE RdTakesNone \/ RdTakesRead \/ RdTakesWrite
    BY <2>1, <2>6, RdTakesNothing, RdTakesReading, RdTakesWriting
  <2>7. CASE RdSend \/ RdTimeout \/ RdLost BY <2>1, <2>7, RdSends, RdTimesOut, RdLoses
  <2>8. CASE \E r \in rdrep : RdReply(r) BY <2>1, <2>8, RdReplies
  <2>9. CASE \E m \in rdreq : RdServer(m) BY <2>1, <2>9, RdServerServes
  <2>10. QED BY <1>2, <2>2, <2>3, <2>4, <2>5, <2>6, <2>7, <2>8, <2>9 DEF RdsNext
<1>3. QED BY <1>1, <1>2
LEMMA RdAlways == RdsSpec => []RdInv
<1>1. RdInv /\ [RdsNext]_rdvars => RdInv' BY RdStep
<1>2. QED BY <1>1, RdStarts, PTL DEF RdsSpec

\* In such a state the nodes from the head on are the requests of the callers that
\* are suspended.
LEMMA RdHasQueue == ASSUME RdTyped, RdQueued, RdSound PROVE RdRequestsQueued
<1>1. PICK S, F : RdHolds(S, F) BY DEF RdQueued
<1>2. /\ RdLinked(RdQ, S) /\ RdRequests(RdQ, S, RdSuspended, rdproc) /\ RdComHas(S)
      /\ S \in Seq(RdNodes)
  BY <1>1 DEF RdHolds, RdLinked
<1>3. RdQ.node = rdnode /\ RdQ.head = rdhead /\ RdQ.tail = rdtail BY DEF RdQ
<1>4. PICK queue : queue = RdWalk(RdNext, rdhead) OBVIOUS
<1>5. queue = S
  <2>1. \A i \in 1..Len(S) : RdNext[S[i]] = IF i = Len(S) THEN NULL ELSE S[i + 1]
    <3>1. \A i \in 1..Len(S) : S[i] \in RdNodes BY <1>2
    <3>2. \A i \in 1..Len(S) : rdnode[S[i]].next = IF i = Len(S) THEN NULL ELSE S[i + 1]
      BY <1>2, <1>3 DEF RdLinked
    <3>3. QED BY <3>1, <3>2 DEF RdNext
  <2>2. \A i, j \in 1..Len(S) : S[i] = S[j] => i = j BY <1>2 DEF RdLinked
  <2>3. rdhead = IF S = << >> THEN NULL ELSE S[1] BY <1>2, <1>3 DEF RdLinked
  <2>4. RdPath(RdNext, rdhead, S) BY <1>2, <2>1, <2>2, <2>3 DEF RdPath
  <2>5. QED BY <1>4, <2>4, RdWalkIs
<1>6. {rdnode[n].pid : n \in ToSet(queue)} = RdSuspended
  <2>1. ToSet(S) = {S[i] : i \in 1..Len(S)} BY <1>2 DEF ToSet
  <2>2. \A i \in 1..Len(S) : rdnode[S[i]].pid \in RdSuspended BY <1>2, <1>3 DEF RdRequests
  <2>3. \A p \in RdSuspended : \E i \in 1..Len(S) : rdnode[S[i]].pid = p BY <1>2, <1>3 DEF RdRequests
  <2>4. QED BY <1>5, <2>1, <2>2, <2>3
<1>7. Len(queue) = Cardinality(RdSuspended) BY <1>2, <1>5, RdOneEach
<1>8. rdsem + (IF rdcom.node # NULL THEN 1 ELSE 0) >= Len(queue)
  <2>1. rdcom.node # NULL <=> RdComReads
    <3>1. S # << >> => S[1] \in RdNodes BY <1>2
    <3>2. NULL \notin RdNodes BY RdCounts
    <3>3. QED BY <1>2, <3>1, <3>2 DEF RdComHas
  <2>2. QED BY <1>2, <1>5, <2>1 DEF RdComHas
<1>9. queue # << >> => rdtail = Last(queue) BY <1>2, <1>3, <1>5 DEF RdLinked, Last
<1>10. QED BY <1>4, <1>6, <1>7, <1>8, <1>9 DEF RdRequestsQueued, RdSuspended

\* RdRequestsQueued: as long as nothing has gone wrong, every caller that is suspended
\* has its request on the queue and a permit there for it, and nobody else has.
THEOREM RequestsAreQueued == RdsSpec => []RdRequestsQueued
<1>1. RdInv => RdRequestsQueued
  <2>1. ~RdSound => RdRequestsQueued BY DEF RdRequestsQueued
  <2>2. QED BY <2>1, RdHasQueue DEF RdInv, RdGood
<1>2. QED BY <1>1, RdAlways, PTL

\* RdReadsFresh: whatever the order of the calls, the messages that are lost, late or repeated, and
\* the retries, a read that is served with the reply to its own request, of a block that no late
\* message has put in doubt, returns a value that it may.
THEOREM ReadsAreFresh == RdsSpec => []RdReadsFresh
<1>1. RdInv => RdReadsFresh BY DEF RdInv, RdGood, RdReadsFresh
<1>2. QED BY <1>1, RdAlways, PTL
=============================================================================
