--------------------------------- MODULE Eth ---------------------------------
(***************************************************************************)
(* The Ethernet driver (device/eth): the receive and transmit rings shared *)
(* with the adapter, the two semaphores, the interrupt handler, one reader *)
(* (netin) and several writers.                                            *)
(*                                                                         *)
(* ethread and ethwrite are called through read and write, which disable   *)
(* interrupts (system/read.c:19, write.c:19): a process gives the          *)
(* processor up where it waits and nowhere else, and one that was released *)
(* is ready, while others may run before it does.  Only the adapter goes   *)
(* on meanwhile.                                                           *)
(***************************************************************************)
EXTENDS Sem

CONSTANTS EthWriters,
          EthRxSize, EthTxSize,     \* E1000_RX_RING_SIZE, E1000_TX_RING_SIZE
          E1000_RING_BOUNDARY,
          EthFrames                 \* bounds: [in, out]
EthReader == "netin"

\* Rings have descriptors, and the receive ring is handed back in whole batches
\* (32, 16 and 16 in e1000e.h:20).
ASSUME EthAssumption ==
    /\ IsFiniteSet(EthWriters) /\ {"none", EthReader} \cap EthWriters = {}
    /\ {EthRxSize, EthTxSize, E1000_RING_BOUNDARY} \subseteq Nat \ {0}
    /\ EthRxSize % E1000_RING_BOUNDARY = 0

VARIABLES ethstate,                 \* of the initialization, then UP or DOWN
          rx,     \* [full, head, tail, rdh, rdt]: descriptors with a packet, ring indices
          isem, rxpc,               \* the reader's step
          tx,     \* [done, head, tail, tdh, tdt, slot]
          osem, txpc, ethirq, ethbudget,
          ethcpu,                   \* the process that runs in the driver, past its wait
          ethfault                  \* auxiliary
ethvars == <<ethstate, rx, isem, rxpc, tx, osem, txpc, ethirq, ethbudget, ethcpu, ethfault>>

EthSlots == 0..(EthTxSize - 1)
EthInit ==
    /\ ethstate = "DOWN"
    /\ rx = [full |-> {}, head |-> 0, tail |-> 0, rdh |-> 0, rdt |-> 0]
    /\ tx = [done |-> {}, head |-> 0, tail |-> 0, tdh |-> 0, tdt |-> 0,
             sent |-> [i \in EthSlots |-> "none"]]
    /\ isem = SemNew(0) /\ osem = SemNew(EthTxSize) /\ rxpc = "idle"
    /\ txpc = [w \in EthWriters |-> [at |-> "idle", slot |-> 0]]
    /\ ethirq = [rx |-> FALSE, tx |-> FALSE, on |-> FALSE] /\ ethbudget = EthFrames
    /\ ethcpu = "none" /\ ethfault = {}
-----------------------------------------------------------------------------
\* ethinit and _82545EMInit: each stage is entered when the one before it has
\* succeeded.  A PHY register that does not get ready, or reports an error,
\* leaves the interface down; the wait for the link has no end of its own.
EthStages == <<"DOWN", "memory", "reset", "phy", "link", "rx", "tx", "UP">>
EthStage(from, to) ==
    /\ ethstate = from /\ ethstate' = to
    /\ UNCHANGED <<isem, rxpc, osem, txpc, ethbudget, ethcpu>>
EthKeeps == UNCHANGED <<rx, tx, ethirq>>

\* Rings and buffers are allocated; getmem's failure is looked for in an
\* address that has been rounded, where it can no longer be seen.
_82545EMInit ==
    \E ok \in BOOLEAN :
        EthStage("DOWN", "memory") /\ EthKeeps
        /\ ethfault' = IF ok THEN ethfault ELSE ethfault \cup {"no_memory"}
_82545EM_reset_hw == EthStage("memory", "reset") /\ EthKeeps /\ UNCHANGED ethfault
PhyOk == {"ready", "not_ready", "error"}
_82545EM_phy_reg == \E r \in PhyOk :           \* read_phy_reg, write_phy_reg
    /\ EthStage("reset", IF r = "ready" THEN "phy" ELSE "failed")
    /\ EthKeeps /\ UNCHANGED ethfault
_82545EM_init_hw ==
    /\ \E up \in BOOLEAN : EthStage("phy", IF up THEN "link" ELSE "phy")
    /\ EthKeeps /\ UNCHANGED ethfault
\* The adapter is given all descriptors but the last E1000_RING_BOUNDARY.
RxFirstTail == EthRxSize - E1000_RING_BOUNDARY
_82545EM_configure_rx ==
    /\ EthStage("link", "rx") /\ rx' = [rx EXCEPT !.rdh = 0, !.rdt = RxFirstTail]
    /\ UNCHANGED <<tx, ethirq, ethfault>>
_82545EM_configure_tx ==
    /\ EthStage("rx", "tx") /\ tx' = [tx EXCEPT !.tdh = 0, !.tdt = 0]
    /\ UNCHANGED <<rx, ethirq, ethfault>>
ethinit ==                                     \* set_evec, ethIrqEnable, state
    /\ EthStage("tx", "UP") /\ ethirq' = [ethirq EXCEPT !.on = TRUE]
    /\ UNCHANGED <<rx, tx, ethfault>>
-----------------------------------------------------------------------------
\* External: the adapter fills the descriptors from RDH to RDT and transmits
\* those from TDH to TDT, and asks for an interrupt.  It receives from the time
\* _82545EM_configure_rx has enabled its receiver.
EthUp == ethstate = "UP"
EthReceives == ethstate \in {"rx", "tx", "UP"}
RxArrives ==
    /\ EthReceives /\ ethbudget.in > 0 /\ rx.rdh # rx.rdt
    /\ rx' = [rx EXCEPT !.full = @ \cup {rx.rdh}, !.rdh = (@ + 1) % EthRxSize]
    /\ ethirq' = [ethirq EXCEPT !.rx = TRUE]
    /\ ethbudget' = [ethbudget EXCEPT !.in = @ - 1]
    /\ UNCHANGED <<ethstate, isem, rxpc, tx, osem, txpc, ethcpu, ethfault>>
TxLeaves ==
    /\ EthUp /\ tx.tdh # tx.tdt
    /\ tx' = [tx EXCEPT !.done = @ \cup {tx.tdh}, !.tdh = (@ + 1) % EthTxSize]
    /\ ethirq' = [ethirq EXCEPT !.tx = TRUE]
    /\ UNCHANGED <<ethstate, rx, isem, rxpc, osem, txpc, ethbudget, ethcpu, ethfault>>

\* Interrupts are enabled, and other processes may run, unless somebody runs in
\* the driver; p may run on there, or after its release begin to.
EthCpuFree == ethcpu = "none"
EthMayRun(p) == ethcpu \in {"none", p}

\* The number of descriptors, from i on, that are in S, all of them at most.
EthRun(S, i, size) ==
    LET stops == {n \in 0..(size - 1) : (i + n) % size \notin S} IN
    IF stops = {} THEN size ELSE CHOOSE n \in stops : \A m \in stops : n <= m

\* ethhandler: both parts, as the cause register says, before a process runs.
eth_rxPackets(n) ==
    /\ rx' = [rx EXCEPT !.tail = (@ + n) % EthRxSize]
    /\ isem' = VN(isem, n)
eth_txPackets(n) ==
    /\ tx' = [tx EXCEPT !.done = @ \ {(tx.head + i) % EthTxSize : i \in 0..(n - 1)},
                        !.sent = [i \in EthSlots |-> IF (i - tx.head) % EthTxSize < n
                                                     THEN "none" ELSE tx.sent[i]],
                        !.head = (@ + n) % EthTxSize]
    /\ osem' = VN(osem, n)
ethhandler ==
    /\ EthUp /\ EthCpuFree /\ ethirq.on /\ (ethirq.rx \/ ethirq.tx)
    /\ ethirq' = [ethirq EXCEPT !.rx = FALSE, !.tx = FALSE]
    /\ \/ ethirq.rx /\ eth_rxPackets(EthRun(rx.full, rx.tail, EthRxSize))
       \/ ~ethirq.rx /\ UNCHANGED <<rx, isem>>
    /\ \/ ethirq.tx /\ eth_txPackets(EthRun(tx.done, tx.head, EthTxSize))
       \/ ~ethirq.tx /\ UNCHANGED <<tx, osem>>
    /\ UNCHANGED <<ethstate, rxpc, txpc, ethbudget, ethcpu, ethfault>>
-----------------------------------------------------------------------------
\* ethread: wait, then copy the packet and clear the descriptor, then hand
\* a batch of descriptors back to the adapter and advance.
ethread ==
    /\ EthUp /\ EthCpuFree /\ rxpc = "idle"
    /\ isem' = P(isem, EthReader) /\ rxpc' = "copy"
    /\ ethcpu' = IF Passes(isem) THEN EthReader ELSE "none"
    /\ UNCHANGED <<ethstate, rx, tx, osem, txpc, ethirq, ethbudget, ethfault>>
ethreadCopy ==
    /\ rxpc = "copy" /\ ~Waits(isem, EthReader) /\ EthMayRun(EthReader)
    /\ ethcpu' = EthReader
    /\ rx' = [rx EXCEPT !.full = @ \ {rx.head}] /\ rxpc' = "advance"
    /\ ethfault' = IF rx.head \in rx.full THEN ethfault ELSE ethfault \cup {"packet_error"}
    /\ UNCHANGED <<ethstate, isem, tx, osem, txpc, ethirq, ethbudget>>
ethreadAdvance ==
    /\ rxpc = "advance" /\ EthMayRun(EthReader)
    /\ rxpc' = "idle" /\ ethcpu' = "none"
    /\ rx' = [rx EXCEPT !.head = (@ + 1) % EthRxSize,
                        !.rdt = IF rx.head % E1000_RING_BOUNDARY = 0
                                THEN (@ + E1000_RING_BOUNDARY) % EthRxSize ELSE @]
    /\ UNCHANGED <<ethstate, isem, tx, osem, txpc, ethirq, ethbudget, ethfault>>

\* ethwrite: wait, then fill the descriptor at the tail, then advance.
ethwrite(w) ==
    /\ EthUp /\ EthCpuFree /\ txpc[w].at = "idle" /\ ethbudget.out > 0
    /\ osem' = P(osem, w) /\ txpc' = [txpc EXCEPT ![w].at = "fill"]
    /\ ethcpu' = IF Passes(osem) THEN w ELSE "none"
    /\ ethbudget' = [ethbudget EXCEPT !.out = @ - 1]
    /\ UNCHANGED <<ethstate, rx, isem, rxpc, tx, ethirq, ethfault>>
BugTdtStays(t) == [t EXCEPT !.tail = (@ + 1) % EthTxSize]
EthAdvanced(t) == [t EXCEPT !.tdt = (@ + 1) % EthTxSize, !.tail = (@ + 1) % EthTxSize]
ethwriteFill(w) ==
    /\ txpc[w].at = "fill" /\ ~Waits(osem, w) /\ EthMayRun(w)
    /\ ethcpu' = w
    /\ tx' = [tx EXCEPT !.sent[tx.tail] = w, !.done = @ \ {tx.tail}]
    /\ txpc' = [txpc EXCEPT ![w] = [at |-> "advance", slot |-> tx.tail]]
    /\ UNCHANGED <<ethstate, rx, isem, rxpc, osem, ethirq, ethbudget, ethfault>>
ethwriteAdvance(w) ==
    /\ txpc[w].at = "advance" /\ EthMayRun(w) /\ ethcpu' = "none"
    /\ tx' = EthAdvanced(tx) /\ txpc' = [txpc EXCEPT ![w] = [at |-> "idle", slot |-> 0]]
    /\ UNCHANGED <<ethstate, rx, isem, rxpc, osem, ethirq, ethbudget, ethfault>>

EthNext ==
    \/ _82545EMInit \/ _82545EM_reset_hw \/ _82545EM_phy_reg \/ _82545EM_init_hw
    \/ _82545EM_configure_rx \/ _82545EM_configure_tx \/ ethinit
    \/ RxArrives \/ TxLeaves \/ ethhandler
    \/ ethread \/ ethreadCopy \/ ethreadAdvance
    \/ \E w \in EthWriters : ethwrite(w) \/ ethwriteFill(w) \/ ethwriteAdvance(w)
EthSpec == EthInit /\ [][EthNext]_ethvars
-----------------------------------------------------------------------------
\* The reader is let through only for a descriptor with a packet in it: it
\* never gets the error on which netin panics (net.c:93), although the
\* handler goes on counting as long as descriptors are full (ethhandler.c:18).
\* The batches in which descriptors go back always leave one that is not.
RxPermits ==
    LET unread == {(rx.head + i) % EthRxSize : i \in 0..(EthRun(rx.full, rx.head, EthRxSize) - 1)}
        passed == IF rxpc = "copy" /\ ~Waits(isem, EthReader) THEN 1 ELSE 0 IN
    /\ "packet_error" \notin ethfault
    /\ rxpc # "advance" =>
          /\ rx.full = unread
          /\ isem.val + passed = (rx.tail - rx.head) % EthRxSize
          /\ isem.val + passed <= Cardinality(unread)

\* A packet that ethwrite was given is in a descriptor of its own until the
\* adapter has sent it, and while packets are left the adapter has work.  It
\* fails once all descriptors are used at once: TDT has then come round to TDH,
\* which means empty (82545EMInit.c:71, where osem counts every descriptor).
EthInFill == {w \in EthWriters : txpc[w].at = "advance"}
TxPending == {i \in EthSlots : tx.sent[i] # "none" /\ i \notin tx.done}
TxOwnSlots ==
    Cardinality(TxPending) < EthTxSize =>
        LET filling == {txpc[w].slot : w \in EthInFill} IN
        /\ TxPending \ filling = {(tx.tdh + i) % EthTxSize :
                                     i \in 0..(((tx.tdt - tx.tdh) % EthTxSize) - 1)}
        /\ osem.val + Cardinality({w \in EthWriters : txpc[w].at = "fill" /\ ~Waits(osem, w)})
             = Cardinality({i \in EthSlots : tx.sent[i] = "none"})

\* Both rings, and the semaphores that count their descriptors.
EthRingsSound == RxPermits /\ TxOwnSlots
==============================================================================
