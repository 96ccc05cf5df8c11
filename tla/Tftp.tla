-------------------------------- MODULE Tftp ---------------------------------
(***************************************************************************)
(* Reading a file with TFTP (net/tftp.c) over a network that loses,        *)
(* repeats and delays packets.  The server is external: each read request  *)
(* that reaches it starts a transfer on a port of its own, and each        *)
(* acknowledgement of the block it sent last makes it send the next.       *)
(***************************************************************************)
EXTENDS Integers, Sequences, SequencesExt, FiniteSets

CONSTANTS TfFile,              \* the file: a sequence of octets
          TfSizes,             \* values of rcv_buf_sizes
          TFTP_MAXDATA, TFTP_MAXRETRIES,
          TfMod,               \* block numbers are modulo this (2^16)
          TfPorts              \* ports on which the server answers

\* tftpget_mb refuses a call without buffers or with an empty one.
ASSUME TfAssumption ==
    /\ TfFile \in Seq(ToSet(TfFile)) /\ TfSizes \subseteq Seq(Nat \ {0}) \ {<< >>}
    /\ TFTP_MAXDATA \in Nat \ {0} /\ TFTP_MAXRETRIES \in Nat /\ TfMod \in Nat
\* No block number is used twice.
ASSUME TfNoWrap == Len(TfFile) \div TFTP_MAXDATA + 1 < TfMod

VARIABLES tfsock,              \* the UDP slot is registered
          tfcli,               \* local variables of tftpget_mb
          tfnet,               \* packets on their way to the client
          tfreq,               \* packets on their way to the server
          tfserver             \* last block sent on each port, 0 if none
tfvars == <<tfsock, tfcli, tfnet, tfreq, tfserver>>

TFTP_PORT == 0
TfAck(n) == [op |-> "ACK", blk |-> n]
tftp_msg(port, op, blk, data) == [port |-> port, op |-> op, blk |-> blk, data |-> data]
TfBuffers(sizes) == [sizes |-> sizes, ind |-> 1, used |-> 0, filesiz |-> 0, full |-> FALSE,
                     bufs |-> [i \in DOMAIN sizes |-> << >>]]
tfinit ==
    /\ tfsock = FALSE /\ tfnet = {} /\ tfreq = {} /\ tfserver = [t \in TfPorts |-> 0]
    /\ tfcli = [at |-> "idle", out |-> TfAck(0), remport |-> TFTP_PORT, expected |-> 1,
                tries |-> 0, rcv |-> TfBuffers(<< >>), ret |-> "none"]

\* The blocks of the file; the last is short, and may be empty.
TfData(n) == SubSeq(TfFile, (n - 1) * TFTP_MAXDATA + 1,
                    IF n * TFTP_MAXDATA < Len(TfFile) THEN n * TFTP_MAXDATA ELSE Len(TfFile))
TfBlocks == Len(TfFile) \div TFTP_MAXDATA + 1
-----------------------------------------------------------------------------
\* tftp_send1 sends what is in outmsg to the port that was heard from last.
TfSend(c) == tfreq' = tfreq \cup {[port |-> c.remport, msg |-> c.out]}
\* Every way out of tftpget_mb releases the slot.
TfReturn(c, ret) == tfcli' = [c EXCEPT !.at = "done", !.ret = ret] /\ tfsock' = FALSE

tftpget(sizes) ==              \* tftpget and tftpget_mb, to the first receive
    /\ tfcli.at = "idle" /\ tfsock' = TRUE
    /\ LET c == [tfcli EXCEPT !.at = "wait", !.rcv = TfBuffers(sizes),
                              !.out = [op |-> "RRQ", blk |-> 0]] IN
       tfcli' = c /\ TfSend(c)
    /\ UNCHANGED <<tfnet, tfserver>>

\* One octet goes into the current buffer, or the next if that is full.
TfByte(r, c) ==
    LET i == IF r.used >= r.sizes[r.ind] THEN r.ind + 1 ELSE r.ind
        u == IF r.used >= r.sizes[r.ind] THEN 0 ELSE r.used IN
    IF r.full \/ i > Len(r.sizes) THEN [r EXCEPT !.full = TRUE]
    ELSE [r EXCEPT !.ind = i, !.used = u + 1, !.bufs[i] = Append(@, c), !.filesiz = @ + 1]
TfStore(r, data) ==
    LET after[n \in 0..Len(data)] == IF n = 0 THEN r ELSE TfByte(after[n - 1], data[n])
    IN  after[Len(data)]

\* tftpget_mb with a block of data: store, acknowledge, go on.
TfBlock(c, data) ==
    LET r == TfStore(c.rcv, data)
        d == [c EXCEPT !.rcv = r, !.out = TfAck(c.expected), !.tries = 0] IN
    \/ r.full /\ TfReturn([c EXCEPT !.rcv = r], "OK") /\ UNCHANGED tfreq
    \/ ~r.full /\ Len(data) < TFTP_MAXDATA /\ TfReturn(d, "OK") /\ TfSend(d)
    \/ /\ ~r.full /\ Len(data) >= TFTP_MAXDATA
       /\ LET e == [d EXCEPT !.expected = (@ + 1) % TfMod] IN tfcli' = e /\ TfSend(e)
       /\ UNCHANGED tfsock

\* tftp_send1 with a packet; the port of the sender is taken from every one.
BugAnyBlock(c, m) == m.op = "DATA"
TfExpected(c, m) == m.op = "DATA" /\ m.blk = c.expected
tftp_send1(m) ==
    LET c == [tfcli EXCEPT !.remport = m.port] IN
    /\ tfcli.at = "wait"
    /\ \/ TfExpected(c, m) /\ TfBlock(c, m.data)
       \/ m.op = "ERROR" /\ TfReturn(c, "SYSERR") /\ UNCHANGED tfreq
       \/ ~TfExpected(c, m) /\ m.op # "ERROR" /\ tfcli' = c /\ UNCHANGED <<tfsock, tfreq>>
    /\ UNCHANGED <<tfnet, tfserver>>
TfTimeout ==
    LET c == [tfcli EXCEPT !.tries = @ + 1] IN
    /\ tfcli.at = "wait"
    /\ \/ c.tries >= TFTP_MAXRETRIES /\ TfReturn(c, "SYSERR") /\ UNCHANGED tfreq
       \/ c.tries < TFTP_MAXRETRIES /\ tfcli' = c /\ TfSend(c) /\ UNCHANGED tfsock
    /\ UNCHANGED <<tfnet, tfserver>>
-----------------------------------------------------------------------------
\* External: the server.  It may refuse, and sends its last block again.
TfServe(q) ==
    \/ /\ q.port = TFTP_PORT /\ q.msg.op = "RRQ"
       /\ \E t \in TfPorts :
             /\ tfserver[t] = 0
             /\ \/ /\ tfserver' = [tfserver EXCEPT ![t] = 1]
                   /\ tfnet' = tfnet \cup {tftp_msg(t, "DATA", 1, TfData(1))}
                \/ tfnet' = tfnet \cup {tftp_msg(t, "ERROR", 0, << >>)} /\ UNCHANGED tfserver
    \/ /\ q.port \in TfPorts /\ q.msg.op = "ACK"
       /\ q.msg.blk = tfserver[q.port] % TfMod /\ tfserver[q.port] \in 1..(TfBlocks - 1)
       /\ tfserver' = [tfserver EXCEPT ![q.port] = @ + 1]
       /\ tfnet' = tfnet \cup {tftp_msg(q.port, "DATA", (q.msg.blk + 1) % TfMod,
                                        TfData(tfserver[q.port] + 1))}
TfNext ==
    \/ \E sizes \in TfSizes : tftpget(sizes)
    \/ TfTimeout
    \/ \E m \in tfnet : tftp_send1(m)
    \/ \E q \in tfreq : TfServe(q) /\ UNCHANGED <<tfsock, tfcli, tfreq>>
TfSpec == tfinit /\ [][TfNext]_tfvars
-----------------------------------------------------------------------------
\* Whatever is lost, repeated or late, and whichever of several transfers of
\* the file the packets belong to (a repeated request starts another, and
\* tftp.c:59 changes the port even for packets that are ignored), the octets
\* in the buffers are the beginning of the file in order; a call that returns
\* a size has stored all that fits; and the slot is kept no longer than the
\* call.
TfStored == FlattenSeq(tfcli.rcv.bufs)
TfCapacity ==
    LET room[n \in 0..Len(tfcli.rcv.sizes)] == IF n = 0 THEN 0 ELSE room[n - 1] + tfcli.rcv.sizes[n]
    IN  room[Len(tfcli.rcv.sizes)]
TfIntact ==
    /\ TfStored = SubSeq(TfFile, 1, tfcli.rcv.filesiz)
    /\ \A i \in DOMAIN tfcli.rcv.sizes : Len(tfcli.rcv.bufs[i]) <= tfcli.rcv.sizes[i]
    /\ tfcli.ret = "OK" =>
          tfcli.rcv.filesiz = IF TfCapacity < Len(TfFile) THEN TfCapacity ELSE Len(TfFile)
    /\ tfsock <=> tfcli.at = "wait"
==============================================================================
