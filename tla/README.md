# A TLA+ model of the Xinu kernel with paging, its drivers and its network

This directory specifies the operating system of this repository, Xinu for x86 with
the beginnings of virtual memory (`xinu-vbox/`): the kernel, memory and paging, ports
and buffers, the terminal and Ethernet drivers, the network stack with its clients,
and the file systems and disks. The specifications are checked with TLC on small
instances, and what they say of the kernel, memory, paging, ports, buffers, the terminal
and Ethernet drivers, the network, the remote disk and files, and names is also proved
with TLAPS for tables of any size. All paths below are relative to `xinu-vbox/`.

## 1. The system

| Component | State | Operations | What makes it correct |
|---|---|---|---|
| Process queues (`system/queue.c`, `insert.c`, `insertd.c`, `getitem.c`, `unsleep.c`) | `queuetab`: one node per process with `qkey`, `qnext`, `qprev` | enqueue, dequeue, insert by key, insert in a delta list, unlink | a process is on at most one queue; order of keys; delays preserved |
| Scheduler (`resched.c`, `ready.c`, `yield.c`, `ctxsw.S`) | `currpid`, `readylist`, `preempt`, `Defer` | resched, ready, resched_cntl, yield | exactly one current process, ready list never empty, deferral bracketed, highest priority first, round robin |
| Process manager (`create.c`, `resume.c`, `suspend.c`, `kill.c`, `exit.c`, `chprio.c`, `xdone.c`) | `proctab`, `prcount`, `nextpid` | create, resume, suspend, kill, exit, chprio, halt | states agree with queues, count of live processes, stacks owned once |
| Semaphores (`semcreate.c` ... `signaln.c`) | `semtab`, `nextsem` | create, wait, signal, signaln, delete, reset | count = waiters, FIFO, no waiter on a deleted semaphore |
| Messages (`send.c`, `receive.c`, `recvclr.c`, `recvtime.c`) | `prmsg`, `prhasmsg` | send, receive, recvclr, recvtime | one message is kept until taken; no receive without a message |
| Clock (`clkhandler.c`, `wakeup.c`, `sleep.c`) | `sleepq`, `preempt`, `count1000`, `clktime` | tick, wakeup, sleep | delays exact, every sleeper wakes, time slices end |
| Memory allocator (`meminit.c`, `getmem.c`, `getstk.c`, `freemem.c`) | `memlist`, `minheap`, `maxheap` | init, getmem, getstk, freemem, freestk | no cell lost or given twice, coalescing, double free refused |
| Paging (`helper_functions.c`, `control_reg.c`, `i386.c`, `evec.c`) | page directory and tables, `next_free_pt_frame`, cr2, cr3, CR0.PG | page_table_init, write_cr3, dump_pd, enable_paging, page fault | identity map of exactly the pages below maxheap, tables out of reach |
| Ports (`pt*.c`) | `porttab`, `ptfree`, two semaphores a port | create, send, receive, count, reset, delete | slots and permits agree whatever is reset or deleted under a caller |
| Buffer pools (`bufinit.c`, `mkbufpool.c`, `getbuf.c`, `freebuf.c`) | `buftab`, the word in front of each buffer | make a pool, get, free | a buffer is free or held once; permits count the free ones |
| Tty (`device/tty`) | input, output and echo buffers, two semaphores, mode | interrupt handler, read, write, getc, putc, control | no character lost, duplicated or out of order; output does not stall |
| Ethernet (`device/eth`) | descriptor rings shared with the adapter, two semaphores | init, interrupt handler, read, write | descriptors recycled in order, none used twice |
| IP (`net/net.c`, `net/ip.c`) | output queue, `NetData`, packet buffers | netin, ip_in, ip_send, ip_enqueue, ipout, checksum | every path gives its buffer back once |
| ARP (`net/arp.c`) | cache | resolve, arp_in | the address that is used was claimed by that host; no entry pends for ever |
| UDP, ICMP (`net/udp.c`, `net/icmp.c`) | slots with a queue of buffers each | register, receive with timeout, send, release, input | no lost wakeup, no stale slot, no lost buffer |
| DHCP, DNS, TFTP clients (`net/dhcp.c`, `net/dns.c`, `net/tftp.c`) | their UDP slot, local variables | getlocalip, dnslookup, tftpget | right under lost, repeated and late answers; the slot is released |
| Remote disk (`device/rds`) | request queue, cache, sequence number | open, read, write, sync, communication process | reads see the last write; no request forgotten |
| Remote files (`device/rfs`) | open files, mutex, sequence number | open, read, write, seek, close, control | an answer belongs to its call; the mutex is balanced |
| Local files (`device/lfs`, on `device/ram`) | directory, index and data blocks in memory and on disk, mutexes | create, open, read, write, seek, truncate, close | blocks owned once; what is read was written |
| Namespace (`device/nam`) | `nametab` | init, mount, map, open | the rest of a name survives; no overflow |
| Shell, C library, device switch, config program, `mark.c`, SD card, PXE | | | sequential code, formatting, build tools, code that is not linked |

How they interact. There is one processor. A system call disables interrupts, so
it is atomic up to a call of `resched`; a process that is switched away inside a
call continues there later. The interrupt handlers run on whichever process is
current and call the same kernel functions (`signal`, `signaln`, `ready`) that
processes call. Ports, buffer pools, drivers and file systems use semaphores of the
kernel; network code and disks also use messages with a timeout (`recvtime`). A packet
goes from the receive ring (`ethread`, called by `netin`) through `ip_in` to a UDP or
ICMP queue, and from `ip_send` or, through the output queue, from `ipout` to ARP and
the transmit ring; its buffer comes from one pool and must return to it. Remote disk,
remote files and the three clients are users of UDP. `create` and `kill` use the
allocator, and all memory is accessed through the one page directory that `sysinit`
installs.

What is hard to test here: a switch in the middle of a call that has checked its
arguments before (`kill`, `_ptclear`, and `lfscreate`, which is called with interrupts
enabled), several processes released in one call (deferral), the clock against answers
and kills, a table entry used after a wait (`arp_resolve`, `udp_recv`), a list that is
walked and changed by the same process (`rdsprocess`), rings and circular buffers at
their limits, late and repeated messages, and the arithmetic of delta lists, block lengths,
checksums and name lengths. `PROJECT.json` lists these hazards with the lines where
they bite and the properties that cover them.

## 2. Modules

| Module | Content |
|---|---|
| `ProcQueue` | the process queues as operators on sequences |
| `Kernel` | processes, scheduler, semaphores, messages, sleep and clock as one state machine |
| `Sem`, `SemSpec` | a semaphore as operators on a record; a table of them as a specification, which `Kernel` implements |
| `Heap`, `Memory` | what an allocator promises; the free list of Xinu, which implements it |
| `Paging` | boot of the paging, translation of stores, faults, context switches |
| `Ports`, `BufPool`, `Tty`, `Eth` | ports, buffer pools, the two drivers, on `Sem` |
| `Ip`, `Cksum`, `Arp`, `Udp`, `Icmp` | the network stack |
| `Dhcp`, `Dns`, `Tftp` | the network clients |
| `Rds`, `Rfs`, `Lfs`, `Nam` | remote disk, remote files, local files on the RAM disk, namespace |
| `MCKernel`, `MCResources`, `MCNet`, `MCStorage` | instances for TLC |
| `ProcQueueProofs`, `SemProofs` | lemmas on the operators of `ProcQueue` and `Sem` |
| `KernelProofs`, `KernelOrderProofs` | inductive invariants and theorems of `Kernel`: states and queues; priorities, accounts, delays, and that it implements `SemSpec` |
| `ResourceProofs` | the same for `Paging`, `Ports`, `BufPool` and `Memory`; that `Memory` implements `Heap` |
| `DriverProofs` | the same for `Tty` and `Eth` |
| `ClientProofs` | the same for `Cksum`, `Tftp`, `Dns` and `Rds` |
| `ServiceProofs` | the same for `Rfs`, `Arp`, `Ip`, `Udp`, `Icmp`, `Dhcp` and `Nam` |

Definitions named `Bug...` are wrong variants of the definition that follows them,
the way a slip in that code would look; each property of a passing run is violated
when the variant takes the place of the original. They are used by no specification.
Variables that the code does not have are marked auxiliary where they are declared:
they remember what a property compares with, or that a fault of the code has occurred,
and no guard depends on them.

### How concurrency is modelled

`Kernel` has the scheduler itself: priorities, the ready list, `resched`. The modules
above it have `Sem` and messages instead, and no priorities: a process that has been
made ready continues at any later time, so that every order which priorities and time
slices could impose is among the behaviours. Where the code depends on a priority
(the communication process of the remote disk, `ipout`), the header of the module says
so and the steps are arranged accordingly. A step is a stretch of code that nothing
can interrupt: with interrupts disabled, up to a wait that blocks or a call that may
reschedule; with interrupts enabled, up to the next access to shared state.

The functions of a device are reached through `read`, `write`, `open`, `close`,
`control`, `seek`, `getc` and `putc`, each of which disables interrupts around the call
(`system/read.c:19` and its like; `ip.c:271` writes to the Ethernet through `write` as
well, and `device/rds/NOTES:11` relies on it). So a driver's function gives the processor
up where it waits and nowhere else. Interrupts are enabled in the network processes, the
communication process of the remote disk, and `lfscreate`, which is called directly.

`Sem` is what these modules assume of semaphores. That the kernel provides it is
`IsSemTable` in `Kernel`, which maps `semtab` to the records of `Sem` and the release
loops of `signaln`, `semdelete` and `semreset` to single signals.

### ProcQueue

`queuetab` is a table of doubly linked nodes, one per process, shared by all queues.
The model keeps a sequence per queue and one key per process, `qkey`. `insert`,
`insertd`, `getitem`, `unsleepKeys` say where the walk along the links stops and
what it does to the keys. That a process is on one queue only, which the shared
nodes rely on, is not assumed but an invariant of `Kernel` (`QueuesMatchStates`).

### Kernel

The variables have the names of the C globals and fields; `freestks` stands for the
allocator (which stack blocks are free), `halted` for the endless loop of `xdone`.
`cont[p]` is the program counter that matters: what process `p` still has to do in
the call or interrupt it is in. It is `User` when `p` runs its own code with
interrupts on. A system call is one action if nothing is left to do after `resched`
(`wait`, `suspend`, `sleepms`, ...); otherwise the part after `resched` is an action
of its own (`receiveRest`, `recvtimeRest`, `killRest`, `clkhandlerRest`). The loops
of `signaln`, `semdelete`, `semreset` and `wakeup` release one process a step, so
that the states inside a deferral are visible to the invariants.

* `kill` is split at `send(prparent, pid)`: the message may wake a parent of higher
  priority, and everything may happen before `killRest` runs. `killRest` therefore
  looks at the state the victim has then, as the code's `switch` does. Closing the
  three descriptors is `ionull` for the console and has no effect.
* `signal` and `signaln` may also come from device interrupt handlers, hence on the
  null process too (`CallOrIntr`). The handlers' own bracket of deferral is not
  modelled: `DEFER_START` and `DEFER_STOP` count, as the code does, but no modelled
  call nests.
* `chprio` changes the priority and nothing else, as in the code.
* `exit` and the return of a process's function (`userret`) are `kill` of oneself,
  with a name of their own in `Calls` so that an instance can have them alone.
* `sleepms(0)` is `yield`; a call that fails without changing anything is a stutter.
* The startup state is the one in which `nulluser` has resumed the startup process.
  The processes that `net_init` starts are like any that `create` makes.

### Memory and Heap

Blocks are `[addr, len]` in the order of the list; arithmetic on addresses and sizes
is modulo `W`. The list lives in the free blocks themselves in the code; the model
keeps it apart, which is faithful as long as free blocks are disjoint
(`Partition`, part of `FreeListSound`). `held` records what callers hold, with the
pointer and the size they will free it by, so that `freestk`'s arithmetic from the
highest word back to the block is part of the check.

### Paging

`mem` is the physical memory frame by frame, including the frames that become the
directory and the tables; memory holds garbage at power-on. A page is a pair of
indices, as in `virt_addr_t`. `Pde`, `Pte`, `Mapped` and `Physical` are the
processor's page walk. `page_table_init` is one step for the directory and one per
table. After boot, processes store any word at any page, mapped or not; a store
through the mapping is a change of `mem`, so a mapping that reaches a table would
let a store change the mapping. A fault goes to `trap` and `panic`, because nothing
installs `pagefault_handler_disp.S`.

`vmalloc`, `vfree`, a frame pool, per-process directories and swapping, named in the
repository's README, have no code in the repository and no model here.

### Ports and BufPool

A process in `ptsend`, `ptrecv` or `getbuf` is in `ptpc` or `bufwait` from its wait
until it has used the permit; between the two anything may happen to the port.
`_ptclear` is cut before each message it disposes of and before each of its calls on
the semaphores, since dispose is the caller's own function and the others reschedule;
the port is in `PT_LIMBO` meanwhile. A kill is possible wherever a process waits or
has been let through. A permit that dies with its process is counted in `ptlost` and
`buflost`: the code has no way to give it back.

### Tty and Eth

In `Tty` characters are classes: ordinary, newline, carriage return, backspace, kill,
end of file, control, stop, start. Of the echo queue only the length matters. `uart`
is the transmitter: busy, interrupting, output interrupt enabled. In `Eth`, the
adapter is the process that fills descriptors from RDH to RDT and sends from TDH to
TDT; `ethirq` is a pending interrupt. `ethread` and `ethwrite` yield only in their wait:
`ethcpu` is the process that has come past it and runs in the driver, and while it does
only the adapter goes on. A process that a handler has released is ready, not running;
the handler, the reader and other writers may come before it. The stages of the
initialization are steps. The receiver is on from `82545EMInit.c:390`, before the
interface is `UP` (`ethinit.c:52`), so packets may fill descriptors before the first
interrupt.

### The network

Each module has its neighbours as nondeterminism: `Udp` gets any packet at any time,
`Ip` any outcome of ARP and of the slots above. `netbuf` in `Ip` says who has each
buffer. `Udp`, `Icmp` and `Arp` have processes that wait with a time limit
(`recvtime`); the timer and the message that answers may come in either order, and
other processes may send them messages of their own, among them OK, which ends the
wait with nothing in the queue (`icmp.c:202`), and others, which `udp_recv` returns as
SYSERR: `Dhcp` leaves then without releasing its slot (`dhcp.c:186`). The answer to an
echo request takes a second buffer while the request's is held, and may block in `getbuf`
for it (`icmpasks`). Servers (TFTP, DHCP, DNS) are
external: they answer late, more than once or not at all, and DHCP and TFTP have
several at once. Octets of options, fields of names and block numbers are kept as far
as the parsing code looks at them. `Cksum` sums words of any width.

### The disks and file systems

In `Rds`, the request queue is the linked nodes of the code (`rdhead`, `rdtail`,
`next`, `prev`), since searches follow links of nodes that have been moved and freed; the
cache is a sequence, most recently used first. A call of `rdsread`, `rdswrite` or
`rdscontrol` is one step until it returns or suspends its caller with the request
entered; `rdsprocess` is one step from one wait to the next. In `Lfs`, `lfdisk` is the
RAM disk's contents and `lfdir` and `lfltab` are what is in memory; a sector holds several
index blocks, which are read and written together. The RAM disk never blocks
(`main.c:13` puts the directory on it), so each call of an open file, and `lfsopen`, is one
step and finds the mutexes free. `lfscreate` is cut at every access to the disk, with opens,
reads and writes of other processes in between, and between its check of `lf_dskdev` and
setting it. `lflread` and `lflwrite` are repeated `lflgetc` and `lflputc`.
In `Rfs`, the server carries out a request whenever a copy of it arrives.
`Nam` counts NULLCH and the width of a char as the code does.

## 3. Runs

Every run is one `.cfg`. The modules of `MCResources`, `MCNet` and `MCStorage` are
checked side by side: a variable `part` is chosen in the initial state and only that
component steps, the others keep one initial state.

| Run | Result | Question |
|---|---|---|
| `KernelSem` | pass | deferral, deletion and first-come service among three processes of two priorities, with `chprio`; refinement of `SemSpec` |
| `KernelMsg` | pass | messages, timeouts, a semaphore, suspend and kill: states, queues, counts and priorities |
| `KernelDelay` | pass | the delta list with two sleepers and a third process that wakes one early |
| `KernelLive` | pass | count of processes, halting and stacks when processes end by themselves; no starvation; sleeps and timeouts end |
| `Resources` | pass | paging, heap (refinement of `Heap`), ports, buffer pools, terminal |
| `Net` | pass | Ethernet rings, ARP, IP, checksums, UDP, ICMP, TFTP, DHCP, DNS |
| `Storage` | pass | remote disk, local files, remote files, namespace |
| `KernelHalt` | violation | a process killed while it is inside its own `kill` is counted out twice: the machine may halt too early |
| `KernelZero` | violation | with `recvtime(0)`, sleepers may sleep for ever |
| `MemoryImage` | violation | with the linker's real layout memory outside the heap is given out |
| `PagingShared` | violation | processes are not isolated from each other |
| `RdsReply` | violation | an exchange with the disk server may be ended by the reply to an earlier one |

### What the properties say, and their conditions

Several parts of the system can really go wrong, and the properties of those parts
say what holds as long as a named fault of the code has not occurred. The fault is an
auxiliary value that is set by the very step that commits it; the run visits the
states before and, where that is of use, after it.

| Property | Says | Except after |
|---|---|---|
| `QueuesMatchStates`, `CountsWaiters`, `ReceiverHasMessage`, `ProcessorBusy`, `DeferralOwned`, `DeletedHasNoWaiters` | the kernel's tables agree (also proved) | - |
| `HighestPriorityRuns` | the current process has the highest ready priority | `chprio`, which does not move a ready process (`chprio.c:25`): not in `KernelMsg` |
| `EntriesAccounted` | `prcount`, halting and stacks agree with `proctab` | kill by others: not in `KernelLive` |
| `DelaysKept`, `SleepEnds` | delays exact; sleeps end | delay 0: not in these runs |
| `PermitsMatchMessages`, `NodesConserved`, `BuffersConserved` | permits, nodes and buffers | a permit that a killed process took along is counted |
| `TtyBuffersIntact` | buffers hold what was put and not taken, in order, and the semaphores agree | a newline or end of file stored in a full buffer (`ttyhandle_in.c:126`, `158`); a character sent before its writer stored it (`ttyhandle_out.c:57`) |
| `OutputFlows` | no step of handler or writer strands output that is pending | output that ^S holds |
| `EthRingsSound` | every permit is for a descriptor with a packet; a packet being sent has its own descriptor, and while there are packets the adapter has work | all transmit descriptors in use at once (`82545EMInit.c:71`) |
| `ResolvedByOwner`, `PendingOwned` | what `arp_resolve` returns was claimed by that host; pending entries have an owner | eviction before the caller's turn, a stray message (`arp.c:148`); kills and stray messages are counted |
| `NetBuffersKept` | the output queue holds distinct buffers, none is lost | - |
| `ChecksumsAccepted` | what is sent is accepted, what is accepted adds up | a second carry (`ip.c:307`) |
| `UdpQueuesSound`, `IcmpQueuesSound` | counts, queues and buffers agree; nobody waits beside a packet | release under a receiver, two receivers or a stray OK (`udp.c:190`, `icmp.c:202`); overrun of a ping queue (`icmp.c:97`) and reading past its end (`icmp.c:210`) |
| `TfIntact` | buffers hold the beginning of the file; the slot ends with the call | - |
| `DhFromOneAck` | settings come from acks, never from offers; the slot ends with the call | an offer without server id (`dhcp.c:234`) or a message of another process (`dhcp.c:186`) keeps the slot |
| `DnsRightAnswer` | the address is one of the name's, local if there is one | a name that begins with the name counts as it (`dns.c:290`); too long a name keeps the slot (`dns.c:94`) |
| `RdReadsFresh` | a read returns the last or a concurrent write, wherever it finds it: cache, queue or server | a reply of an earlier exchange taken for this one's (`rdscomm.c:96`, finding 5), and the block it or a late copy of a write (`rdscomm.c:72`) leaves old at the server; the two faults of the next line |
| `RdRequestsQueued` | whoever is suspended is on the queue, once, with a permit | the walk that does not end (`rdsprocess.c:138`, `rdsread.c:55`); a sync that is not linked into the queue (`rdscontrol.c:64`) |
| `LfReadsBack`, `LfBlocksOwned` | bytes come back; blocks belong to one file or the free list | a call that goes to the disk while `lfscreate` is between its check and its last write (`lfscreate.c:33`) |
| `RfAnswered`, `RfMutexBalanced` | success means this call was carried out; one holder of the mutex | - |
| `NamMapsRest` | the result fits and keeps the rest of the name | names whose length does not fit a char (`nammap.c:55`), and a first prefix that leads back to the namespace |

### Bounds

* **Kernel.** `NPROC` is 3 or 4 including the null process: two or three user
  processes are what a race needs (a victim, a killer, a parent). `QUANTUM` is 1 where
  the point is that the processor may be taken at any tick, 2 (the configured value)
  elsewhere. One semaphore, counts up to `MaxCount`, delays of 1 to 3 ticks. `Calls`
  names the system calls of an instance, so that each run explores a family of calls
  completely; together the passing runs take every action and every branch.
* **Memory, paging.** Words have 64 values and blocks are 2 units, and the image ends
  at three alignments; up to four blocks handed out produce every case of `freemem`
  (merge below, above, both, none). A directory of 3 entries, of which 2
  are used, tables of 3 entries and a page table area of 3 frames directly above the
  mapped pages reproduce the real layout, in which the area begins at the first
  unmapped byte; the stored words include 0 and present entries that point into the
  area. `meminit` computes its first block for an image that ends below the hole at
  640K, and `Resources` checks the allocator on that layout; `compile/ld.script` puts
  the image at 1 MB, above the hole, and then the two blocks overlap from the start:
  `MemoryImage` is that case.
* **Ports, pools.** Two processes, two ports of two messages over two nodes, so that
  nodes run out before permits do; three semaphores, so that a second port cannot be
  made; `ptseq` up to 3, one kill. Two pools of one or two buffers, memory for 50 bytes and one
  semaphore, so that each of them runs out first in some behaviour.
* **Tty.** Buffers of 3, 2 and 5, a FIFO of 2. Four scenarios (`Budgets`) bound what is
  typed, written and controlled, each about one group of characters: line editing,
  mode changes, kill of a line, flow control.
* **Ethernet.** 4 receive and 2 transmit descriptors, batches of 2, six packets in and
  three out: every ring wraps.
* **Network.** Two processes of each kind, two UDP slots and three buffers with queues of two, three
  ICMP slots, two ARP entries for three hosts; two to four packets in, so that every buffer
  can be in use when a reply asks for one; one stray message and one kill.
  Timeouts are free. `NetBound` does not follow a UDP or ICMP
  queue further once it has gone wrong. A TFTP file of three blocks, the last one
  short; block numbers do not wrap (`TfNoWrap`). Bytes in `Cksum` have 4 values, and
  a header 10 words, so that sums reach every value including those that carry twice.
* **Storage.** Two processes, a request queue of three nodes and a cache of one block,
  four scenarios of reads, writes and syncs of two blocks (three writes of a block that is
  read, a block that nobody writes read beside them, two readers), two tries of each
  request. A disk of six sectors with two index blocks per sector, index blocks of one data
  block, data blocks of two bytes, two files and two devices, two processes that format it,
  three scenarios (open and close; read, write and seek; truncate and write again).
  `StorBound` does not follow a disk or a request list that has gone wrong. Three calls of
  the remote file system, one of them killed. Prefixes of up to 5 characters, 16 for
  a name.

The budgets of `Resources`, `Net`, `Storage` and `RdsReply` run out, and a machine that
has panicked stops: deadlock is not checked there. It is checked in all the others.

### Fairness

`Kernel!FairSpec` assumes that a call or handler that has begun goes on
(`WF` of `KernelStep`: nothing but the processor is needed), and that the clock
interrupt is taken again and again (`SF` of `clkhandler`: it is not enabled inside
calls, but a tick that comes then stays pending at the interrupt controller until
interrupts are on again). Nothing is assumed of the processes. The other modules
assume no fairness: their processes depend on a network, a user and other processes of
which the code assumes nothing. What could be lost for good there is stated as safety:
`OutputFlows` (output never strands), `PendingOwned`, `RdRequestsQueued`, and the last
parts of `UdpQueuesSound` and `IcmpQueuesSound` (no lost wakeup).

### Findings

Five places where the code disagrees with its comments or with the repository's
README, each shown by a run:

1. `kill.c:24`: a process killed again while its first killer is switched out in
   `send` is subtracted from `prcount` twice; `xdone` halts a system with a live process.
2. `clkhandler.c:33` with `recvtime.c:17`: a zero delay at the head of the delta list
   absorbs the tick.
3. `meminit.c:27`: the length of the first block underflows with the linked image.
4. `resched.c:44`: one directory for all processes.
5. `rdscomm.c:96`: a reply with an older sequence number passes the test whose comment says
   "Verify that sequence in reply matches request" (`rdscomm.c:93`), and ends the exchange.

Others were met while modelling and have no run of their own; the models contain them
as the code has them. The exceptions in the table above are of this kind. Two of them
are at odds with what the remote disk's own notes and comments plan: a sync request is to
be placed in the queue (`device/rds/NOTES:70`), but `rdscontrol.c:64` does not make the old
tail point to it; and `rdsprocess.c:135` announces a search of the requests after a write,
but the walk below it stays where it is. A write is also to remove an earlier queued write
of its block (`NOTES:64`), which `rdswrite` does not do; both are carried out in order
then. For the others no comment or test says otherwise. What the notes promise of
concurrency and of the cache, functions that run with interrupts disabled (`NOTES:11`)
and a cached block that is the latest copy (`NOTES:24`), is what the model follows and
`RdReadsFresh` checks. Further ones:

* A page fault panics instead of ending its process (`evec.c:151`).
* `ip.c:163` returns without `restore(mask)`.
* `dhcp.c:272` parses the ack's options with the length of the message that was sent.
* `82545EMInit.c:94` tests the result of `getmem` for SYSERR after rounding it.
* A semaphore of a buffer pool that is never signalled for a killed process makes the
  pool one buffer smaller for good.
* The size function of the remote file system ignores the status of the reply.
* `naminit.c:89` mounts the empty prefix, which matches every name; what is mounted
  later is appended behind it and is never reached (`nammap.c:64` takes the first match).
  The proof of `NamesKeepTheirRest` rests on this.
* `naminit.c:86`, which was to refuse unknown names below `/dev/`, passes `SYSERR` as
  the device, and `mount` refuses that; such names reach the entry `/`.

## 4. Proofs

Each theorem is proved for every value of the constants that satisfies the named
assumptions of the module it is about, and the further hypotheses given here. The
proofs have one shape: an inductive invariant, a lemma for each action (or for each
kind of step, where several actions do the same to the state), a step in a lemma for
each part of the invariant that the action can disturb, and a theorem that combines
them. TLC evaluates the assumptions in every run.

### Kernel

For every `NPROC > 1`, `NSEM`, `QUANTUM > 0` and all arguments that satisfy the
assumptions of `Kernel` (priorities of `create` are positive, delays and counts not
negative, there is a stack for the startup process):

| Theorem | Property | Hypothesis |
|---|---|---|
| `TypeCorrect` | `TypeOK`, with `preempt` in `1..QUANTUM` | |
| `QueuesAreRight` | `QueuesMatchStates` | |
| `ProcessorAlwaysBusy` | `ProcessorBusy` | |
| `DeferralIsOwned` | `DeferralOwned` | |
| `CountIsQueueLength` | `CountsWaiters` | |
| `DeletedIsEmpty` | `DeletedHasNoWaiters` | |
| `ReceiverIsServed` | `ReceiverHasMessage` | |
| `MessagesAreKept` | `MessageKept`, of steps | |
| `SemaphoresImplemented` | `IsSemTable`, a refinement | |
| `HighestPriorityIsCurrent` | `HighestPriorityRuns` | no `chprio` |
| `ProctabAccounted` | `EntriesAccounted` | no `kill` of others |
| `DelaysAreKept` | `DelaysKept`, of steps | delays are positive |

The three hypotheses are those of the runs that check these properties, and all are
needed: `chprio` does not move a ready process, two kills of one process subtract
it twice (finding 1), and a delay of 0 absorbs a tick (finding 2). All of them rest on the invariant

    IInv == TypeOK /\ Sched /\ SleepMatches /\ Waits /\ Calling

where `Sched` is the ready list against the states and the processor, `Waits` the
semaphore queues, counts and deletion, and `Calling` what processes have left to do.
None of the parts is inductive alone. `resched` dequeues a nonempty list only because
the null process is on it; `signal` finds a process on the queue only because a
negative count means so; the count of a semaphore is restored by `semreset` and
`semdelete` only because no other process runs inside their deferral
(`DeferralOwned`); and `killRest`, which runs later than the checks of `kill`, needs
that whatever it was left with still names a process other than the null process
with a stack (`RestsValid`). The `FREE` case of `killRest` is real: the victim may
have been killed by somebody else meanwhile, and the invariant survives it.

`KernelOrderProofs` adds what the others need to it. `HighestPriorityRuns` is not
inductive: a deferred switch leaves a higher process waiting, and what is true then is
that `Defer.attempt` remembers it (`TopRuns`); and the ready list must be in the order
of keys that are the priorities of now (`Keys`), since `resched` looks at the first
process only. `EntriesAccounted` needs that a process counted as dying is in its own
`killRest` and in no other (`Accounts`). In the refinement every step of the kernel is
a wait, a signal, a departure or a new count of `SemSpec`, or leaves the table of
semaphores alone. The one that is not obvious is `semreset` between its signals: the
count is negative exactly as long as somebody waits (`WaitingNegative`).

What `DelaysKept` compares, the time a process has left, is the sum of the keys up to it
on the delta list. `Left` computes all these sums in one function along the list, and the
lemmas about it (`LeftDrops` when the list moves on, `InsertdDelays`, `GetitemDelays`,
`TickDelays`) are inductions on the place in the list: `Induction` in `ProcQueueProofs`
is the principle for a set of numbers instead of a predicate. Every step of the kernel is of
one of the kinds in `SleepStep`: a new sleeper, one taken out early, a tick, `wakeup`
taking the first, or none of these. What makes a tick right is `Deltas`: no key on the list is
negative, and the first is 0 only while `wakeup` is about to take it off. A zero delay
put in at the head breaks exactly this.

`ProcQueueProofs` has the facts about sequences (what `insert`, `insertd`, `getitem`,
`enqueue` and `Tail` do to membership, absence of duplicates, order, length and keys);
`KernelProofs` first shows what `resched`, `ready` and blocking do to the scheduler's
state (`ReschedNowOK`, `ReadyOK`, `BlockOK`), then one lemma per action.

### Paging

For every directory and table size and every page table area that satisfies
`AreaAssumption` (it begins at or above maxheap, has a frame for the directory and
each table, and lies below the end of the address space; 8, 1024 and 32 MB to 64 MB
in the code):

| Theorem | Property |
|---|---|
| `IdentityMap` | `IdentityMapped` |
| `TablesAreApart` | `TablesApart` |
| `FaultsAreOutside` | `FaultsOutside` |
| `TypeCorrect` | `TypeOK` |

The invariant is `PInv == TypeOK /\ Stages /\ FaultsOutside`: `Stages` says for each
step of `sysinit` which entries of the directory and which tables are built, with
which contents, and that the others are 0. The argument for stores is circular and
therefore needs the induction: a store goes to the frame that the tables give
(`Walk`), that frame is below maxheap because the tables are intact, and the tables
stay intact because the frame is below the area.

### Memory, buffer pools and ports

| Theorem | Property | Hypothesis |
|---|---|---|
| `FreeListIsSound` | `FreeListSound` | `HeapFits` |
| `HeapIsImplemented` | `IsHeap`, a refinement | `HeapFits` |
| `BuffersAreConserved` | `BuffersConserved` | |
| `NodesAreConserved` | `NodesConserved` | |
| `PermitsAreMessages` | `PermitsMatchMessages` | |

`HeapFits` is that a size that is asked for does not wrap around when it is rounded
up to units, that the hole has at least one unit, and that each of the first blocks of
`meminit` is not empty: the image ends below the hole at 640K if the heap reaches the
hole. The linked image does not satisfy it, which is finding 3. `MemInv` says that the
list is in order with a gap between any two blocks (`Tidy`), that the blocks handed
out and the free ones are a partition of the heap, and that `mlength` is what was taken
and given back modulo the word size. The gap is what makes `freemem` merge with at
most one block on each side, and the partition is what makes its refusals right.

`BufInv` gives for each pool that its list and what processes hold are all its buffers
(`Stocked`), and that its semaphore, those let through who have not yet taken their
buffer, and the permits lost in kills add up to the list (`Metered`). So the first
buffer is there whenever `getbuf` reads it. `PtInv` does the same for the two semaphores
of a port (`Port`), with sums that hold in each stage of `_ptclear` too, although a
port in `PT_LIMBO` has permits that no message stands for.

### Drivers

| Theorem | Property |
|---|---|
| `TtyBuffersAreIntact` | `TtyBuffersIntact` |
| `OutputKeepsFlowing` | `OutputFlows`, of steps |
| `EthRingsAreSound` | `EthRingsSound` |

They hold for any readers and writers, finitely many, and buffers, a UART queue and rings
of any size but 0 (`TtyAssumption`, `EthAssumption`); the receive ring is a multiple of
the batch, as 32 is of 16 in the code.

* **Tty.** `TyInv`: those who wait on a semaphore are in a call of its kind
  (`TyServed`); the interrupt is raised only while it is enabled (`TyEnabled`); the input
  buffer holds from head to tail what was stored and not taken, and its length is the
  characters of the line being edited, the permits of the semaphore and those of readers
  let through together (`TyInput`); the same for the output buffer with what is free
  (`TyOutput`). The last two hold until a fault of their own buffer is recorded, and a
  fault of the one buffer leaves the other as it is. For `OutputKeepsFlowing`, `TyEnabled`
  is what is needed of the states: a raised interrupt is one that will be taken.
* **Eth.** `EthInv`. Of the receive ring, from the reader's descriptor on: packets that
  the handler has counted, packets that it has not seen, and descriptors of the adapter
  (`RxHas`). How many the adapter has is a function of the reader's place alone, since they
  are given back in batches (`EthGiven`, `EthGap`); so the adapter does not overtake the
  reader, and the reader is ahead of its semaphore only between clearing a descriptor and
  advancing. Of the transmit ring, from the head on: packets sent, packets the adapter
  has, the one that is being filled in, and free descriptors, which the semaphore counts
  (`TxHas`). It holds of every reachable state: who fills in a descriptor is the process
  that runs in the driver (`ethcpu`), so there is one at a time, whichever writers were
  released before. Before the interface is up nothing has been counted yet, while the
  adapter may already have filled what it was given (`EthFresh`).

### Network, remote disk, remote files and names

| Theorem | Property | Assumptions on the constants |
|---|---|---|
| `MutexIsBalanced` | `RfMutexBalanced` | finitely many processes |
| `RepliesAnswer` | `RfAnswered` | the same |
| `ResolvedAddresses` | `ResolvedByOwner` | |
| `PendingEntriesOwned` | `PendingOwned` | |
| `BuffersAreKept` | `NetBuffersKept` | the output queue has a place |
| `QueuesAreSound` | `UdpQueuesSound` | a queue has a place |
| `PingQueuesSound` | `IcmpQueuesSound` | `ICMP_QSIZ <= ICMP_SLOTS` (8 and 10 in `icmp.h`) |
| `SettingsFromAcks` | `DhFromOneAck` | servers' offers and acks are well formed |
| `NamesKeepTheirRest` | `NamMapsRest` | what `naminit` mounts fits the table; a replacement fits a name; a char counts half a name |
| `SumsAreAccepted` | `ChecksumsAccepted` | a byte has at least 2 values; a packet has at least 2 words and at most as many as a word has values |
| `FilesAreIntact` | `TfIntact` | buffers are not empty; block numbers do not wrap (`TfNoWrap`) |
| `LookupsAreRight` | `DnsRightAnswer` | no address is 0; another name of a name is a name with its addresses; the types of the two records differ |
| `RequestsAreQueued` | `RdRequestsQueued` | there are at most as many processes as request nodes (both are `NPROC` in the code); bounds on reads and writes are numbers |
| `ReadsAreFresh` | `RdReadsFresh` | the same |

* **Remote files.** `RfInv`: the mutex's value and those inside a call whom it has let
  through, the killed ones included, add up to one (`RfMutexed`); every request and reply
  under way has a number below `rfseq`, and one that has the number of a call now talking
  belongs to that call (`RfNumbered`). The reply taken is then the answer, because a number
  is given out once; `RfPaid` adds that a reply of success comes from a request that was
  carried out.
* **ARP.** `ArpInv`: a caller that has had no message has its entry, pending, to itself
  (`ArpWaiting`); one that has been answered finds it resolved if nothing has happened to
  it since (`ArpFaultless`); each host has one entry (`ArpOnce`); what entries say was
  claimed (`ArpClaims`); and there are no more pending entries without a caller than kills
  and stray messages so far (`ArpCounted`).
* **IP.** `IpInv`: the circle from head to tail holds, once each, the buffers that are
  queued, and their number is that of the semaphore, with the one for which `ipout` has
  been woken but which it has not yet taken (`IpWaiting`).
* **UDP and ICMP.** A stray OK that ends a wait beside an empty queue is among the recorded
  faults. In ICMP the holders of a buffer outside the queues include `netin` with a request
  for whose reply it waits in `getbuf` (`icmpasks`), so that the buffers are a partition
  through that wait too. The invariants are of the form "as long as no fault is recorded, the
  slots are good", as the properties are. Good says that a slot's queue is its circle from
  head to tail, that a buffer is in one place, that a slot has one receiver at most, that
  a slot in state RECV is empty, and that a receiver that was told finds a packet that is
  still there. The head of an ICMP queue wraps later than its tail (`icmp.c:210`); it is
  counted modulo the size, and reading past the end is one of the recorded faults.
* **DHCP.** `DhInv`: the messages under way that carry this client's number are some
  server's, and each setting is 0 or as an ack gave it (`DhGiven`). The slot is registered
  while a call is inside, and afterwards only if it ended at one of the two returns that keep it.
  An offer is parsed into
  the same variables, and what is kept from it the ack overwrites.
* **Namespace.** `NamInv`: there is an entry with the empty prefix, so that every name
  matches, and before it the namespace's own entries only cut off (`NmLast`); mounts keep
  this because they append. By induction on the number of substitutions, the names on the
  way fit, and one whose length fits a char does not grow before it leaves the namespace
  (`NmWay`).
* **Checksums.** The sum of a packet so far is at most the number of its words times the
  largest word (`CkInv`), so that its carries fit one word. Folding is then arithmetic on quotient
  and remainder (`FoldedSum`), and the packet with its checksum adds up (`Accepted`)
  unless the first fold carries again.
* **TFTP.** `TfInv`: a data packet under way holds the block of its number
  (`TfDataSent`), and the client's buffers, joined, are the first octets of the file
  (`TfHeld`): those before the current one full, those behind it empty, and while the
  client waits for block n, n - 1 whole blocks altogether. A late or repeated packet
  changes nothing because its number is not n. Joining and summing up the buffers are
  recursive functions, which are first shown to exist and then treated by induction on
  the number of buffers.
* **DNS.** `DnsInv`: the packets under way are answers for names. What is proved of them
  is that `dns_geta` finds in the answer for any name only what is right
  (`DnsGetaRight`). The fields of such an answer are laid out as `DnsPacketIs` says, with
  or without the record of another name; every label and pointer in it leads to a name
  that ends (`DnsNamed`), so that the reading of names, a recursive function over the fields,
  exists and follows labels and pointers to the name placed there; and going through the records, the
  address kept is 0 or one of the name, local if one before was (`DnsGood`), by induction on
  the number of records. Nothing in the packet names the lookup it answers: the theorem
  needs only the comparison of names at `dns.c:290`.
* **Remote disk.** `RdInv` is `RdGood` as long as no walk is endless and no sync unlinked
  (`RdSound`). Its first half is about links: there are sequences S of requests and F of free
  nodes such that head, tail, `next` and `prev` are those of S, the free list is F, every
  node is in exactly one of them, and each process that is suspended has one request, which
  says what it asked for (`RdHolds`). Appending to S, taking its head and unlinking an
  inner node are lemmas about these sequences; so is the walk, which is a function of the number of
  links followed (`RdWalkIs`: it is S), and which by induction on that number serves the
  reads of a block up to the next write (`RdServedIs`). That a free node is there for a
  new request is the count of processes. The permits and the one that the communication
  process holds while it reads are at least the requests (`RdComHas`), so nobody is
  forgotten. The search of `rdsread` back from the tail is different: the head's `prev` still
  leads to the nodes that were heads before it, which are free. That it finds no write
  there is `RdSearchable`: a free node that it can come to and that held a write is of the block
  for which the head, too, is a write, and that one is found first. The second half is about
  values: a write being made has a value of its own (`RdNumbered`); a cached copy is current and
  of a block that nobody is writing (`RdCopies`); the server's block is current unless a write of
  it is being sent, or it is in doubt (`RdOnDisk`, `rddoubt`: an exchange that wrote it was
  ended by an older reply, or an older copy of a request arrived, and no write of it has got
  there since); and a message with the
  number of the exchange belongs to it (`RdCarried`). `RdCallers` then says of a caller who
  waits that everything its block may hold is a value that it may return. The theorem so
  covers every history, with late replies and late requests among them; what it leaves out
  is the single read served by the wrong reply or from a block in doubt, and finding 5 shows
  that such replies are taken.

### Model-checked only

* Liveness under fairness: `RoundRobin`, `SleepEnds`.
* `LfBlocksOwned`, `LfReadsBack`: nearly every step follows links that are data (the index
  blocks of a file and the free lists on the disk), truncation is a fold over all blocks of
  a file, and one sector holds several index blocks, of different files, some of them in
  memory as well. What `RdHolds` says of one list would have to be said of one for each
  file and of two free lists at once, and kept by every byte that is written.

## 5. Not modelled

* `mark.c` has no caller. The SD card driver is not in `config/Configuration`.
* The device switch has no state; the shell is a sequential command loop; the C library
  is formatting and copying; `config/` is a build tool with generated parsers; `pxe.c`
  calls the DHCP and TFTP clients in sequence, and `dot2ip.c` converts text.
* Inside modelled components: the seconds counter `clktime`, the values written to
  device registers, `ethcontrol`, the exchanges that open and delete a remote disk,
  making and removing remote directories (the same exchange as delete and truncate),
  the RAM disk's check of block numbers, the interrupt controller and segment
  descriptors.
* Restart after a crash: nothing in the code recovers, so there is no promise to
  state.

## 6. Plan

1. Done: the models and runs above; proofs of `Kernel` (states, queues, semaphores,
   messages, priorities, accounts, delays, the refinement of `SemSpec`), `Paging`, `Memory`
   (with the refinement of `Heap`), `BufPool`, `Ports`, `Tty`, `Eth`, `Rfs`, `Arp`, `Ip`,
   `Udp`, `Icmp`, `Dhcp`, `Cksum`, `Tftp`, `Dns`, `Rds` and `Nam`.
2. `LfBlocksOwned`, with one sequence of index blocks for each file and one for what is free,
   as `RdHolds` has for the request queue; then `LfReadsBack`.
