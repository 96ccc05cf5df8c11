------------------------------- MODULE Kernel --------------------------------
(***************************************************************************)
(* The process manager of Xinu: process table, ready list, rescheduling    *)
(* with deferral, semaphores, message passing, the sleep queue and the     *)
(* clock interrupt handler (system/create.c ... system/clkhandler.c).      *)
(*                                                                         *)
(* There is one processor.  Only the process currpid acts; system calls    *)
(* run with interrupts disabled, so a call is one step except where it     *)
(* calls resched and has something left to do when it is switched back in. *)
(* What it has left is cont[p]; while cont[currpid] is not User, currpid's *)
(* next step is that rest and no interrupt is taken.                       *)
(***************************************************************************)
EXTENDS ProcQueue, FiniteSets

CONSTANTS NPROC,      \* size of proctab
          NSEM,       \* size of semtab
          QUANTUM,    \* time slice in ticks
          INITPRIO,   \* priority of the startup process
          Prios,      \* priorities given to create
          NewPrios,   \* priorities given to chprio
          Msgs,       \* messages given to send
          Delays,     \* delays given to sleepms (> 0) and recvtime (>= 0)
          Counts,     \* counts given to semcreate, semreset and signaln
          MaxCount,   \* bound on semaphore counts (guards signal, signaln)
          Stacks,     \* stack blocks that getstk can hand out
          NoStack, NoMsg,
          Calls       \* the system calls the processes of an instance use

ASSUME SizesAssumption ==
    NPROC \in Nat /\ NPROC > 1 /\ NSEM \in Nat /\ QUANTUM \in Nat \ {0}
ASSUME ArgsAssumption ==
    /\ INITPRIO \in Nat \ {0} /\ Prios \subseteq Nat \ {0} /\ NewPrios \subseteq Int
    /\ Delays \subseteq Nat /\ Counts \subseteq Nat /\ MaxCount \in Int
ASSUME StacksAssumption == Stacks # {} /\ NoStack \notin Stacks

VARIABLES
    prstate, prprio, prsem, prparent, prmsg, prhasmsg, prstk,  \* proctab
    readylist, sleepq, squeue, qkey,                           \* queuetab
    sstate, scount,                                            \* semtab
    currpid, prcount, preempt, ndefers, attempt,               \* globals
    nextpid, nextsem,                                          \* statics
    freestks,    \* the stack blocks on the free list
    cont,        \* what is left of the call or interrupt p is in
    halted       \* xdone has halted the processor

sched  == <<prstate, readylist, qkey, currpid, preempt, attempt>>
msgs   == <<prmsg, prhasmsg>>
sems   == <<sstate, scount, squeue>>
alloc  == <<prprio, prsem, prparent, prstk, nextpid, freestks>>
vars   == <<sched, msgs, sems, alloc, nextsem, sleepq, prcount, ndefers,
            cont, halted>>

Pids == 0..(NPROC - 1)
Sems == 0..(NSEM - 1)
NULLPROC == 0
States == {"FREE", "CURR", "READY", "RECV", "SLEEP", "SUSP", "WAIT", "RECTIM"}

\* What a process may have left to do: nothing (User), or the rest of op.
DeferOps == {"wakeup", "semdelete", "semreset", "signaln"}
Ops == {"user", "receive", "recvtime", "kill", "clkhandler"} \cup DeferOps
Rest(op, a, n) == [op |-> op, arg |-> a, n |-> n]
User == Rest("user", 0, 0)
Then(k) == cont' = [cont EXCEPT ![currpid] = k]
In(op) == ~halted /\ cont[currpid].op = op

\* sysinit, and nulluser up to the switch to the startup process it resumes.
Init ==
    /\ prstate = [p \in Pids |-> IF p = 1 THEN "CURR"
                                 ELSE IF p = NULLPROC THEN "READY" ELSE "FREE"]
    /\ prprio = [p \in Pids |-> IF p = 1 THEN INITPRIO ELSE 0]
    /\ prsem = [p \in Pids |-> IF p = 1 THEN -1 ELSE 0]
    /\ prparent = [p \in Pids |-> 0]
    /\ prmsg = [p \in Pids |-> NoMsg]
    /\ prhasmsg = [p \in Pids |-> FALSE]
    /\ \E s \in Stacks : /\ prstk = [p \in Pids |-> IF p = 1 THEN s ELSE NoStack]
                         /\ freestks = Stacks \ {s}
    /\ readylist = <<NULLPROC>> /\ sleepq = << >>
    /\ squeue = [s \in Sems |-> << >>]
    /\ qkey = [p \in Pids |-> 0]
    /\ sstate = [s \in Sems |-> "S_FREE"] /\ scount = [s \in Sems |-> 0]
    /\ currpid = 1 /\ prcount = 2 /\ preempt = QUANTUM
    /\ ndefers = 0 /\ attempt = FALSE
    /\ nextpid = 2 % NPROC /\ nextsem = 0
    /\ cont = [p \in Pids |-> User]
    /\ halted = FALSE

-----------------------------------------------------------------------------
\* Rescheduling.  A caller hands over the process states ps, the ready list
\* rl, the keys qk and the preemption counter pre as it has left them.

\* The process that runs goes to the end of its priority class and the first
\* ready process gets the processor, with a full time slice.
switch(ps, rl) ==
    /\ currpid' = Head(rl)
    /\ readylist' = Tail(rl)
    /\ prstate' = [ps EXCEPT ![Head(rl)] = "CURR"]
    /\ preempt' = QUANTUM

stay(ps, rl, qk, pre) ==
    /\ prstate' = ps /\ readylist' = rl /\ qkey' = qk /\ preempt' = pre
    /\ UNCHANGED currpid

Remains(ps, rl, qk) ==
    ps[currpid] = "CURR" /\ (rl # << >> => prprio[currpid] > qk[Head(rl)])

reschedNow(ps, rl, qk, pre) ==
    \/ /\ Remains(ps, rl, qk)
       /\ stay(ps, rl, qk, pre)
    \/ /\ ps[currpid] = "CURR" /\ ~Remains(ps, rl, qk)
       /\ switch([ps EXCEPT ![currpid] = "READY"],
                 insert(currpid, rl, qk, prprio[currpid]))
       /\ qkey' = [qk EXCEPT ![currpid] = prprio[currpid]]
    \/ /\ ps[currpid] # "CURR" /\ rl # << >>
       /\ switch(ps, rl)
       /\ qkey' = qk

BugNoDefer(ps, rl, qk, pre) ==        \* the deferral is not looked at
    UNCHANGED attempt /\ reschedNow(ps, rl, qk, pre)
resched(ps, rl, qk, pre) ==
    \/ ndefers > 0 /\ attempt' = TRUE /\ stay(ps, rl, qk, pre)
    \/ ndefers = 0 /\ UNCHANGED attempt /\ reschedNow(ps, rl, qk, pre)

ready(p, ps, rl, qk) ==
    resched([ps EXCEPT ![p] = "READY"],
            insert(p, rl, qk, prprio[p]),
            [qk EXCEPT ![p] = prprio[p]], preempt)

\* resched_cntl.
DEFER_START == ndefers' = ndefers + 1 /\ attempt' = (attempt /\ ndefers > 0)
DEFER_STOP ==
    /\ ndefers > 0 /\ ndefers' = ndefers - 1
    /\ UNCHANGED attempt
    /\ \/ ndefers = 1 /\ attempt /\ reschedNow(prstate, readylist, qkey, preempt)
       \/ ~(ndefers = 1 /\ attempt) /\ stay(prstate, readylist, qkey, preempt)

\* The caller blocks: it leaves the processor in state st.
Block(st, qk) == resched([prstate EXCEPT ![currpid] = st], readylist, qk, preempt)

\* A system call c of process currpid; the null process makes none.
Call(c) == In("user") /\ c \in Calls /\ currpid # NULLPROC
\* Calls that the interrupt handlers of devices make too, on whichever
\* process is current when the interrupt comes.
CallOrIntr(c) == In("user") /\ c \in Calls
-----------------------------------------------------------------------------
\* Processes.

FreePids == {p \in Pids : prstate[p] = "FREE"}
\* newpid and newsem look at the table entries from the static index on.
NextFrom(start, N, Free) ==
    CHOOSE x \in Free : \A y \in Free : (x - start) % N <= (y - start) % N

create(prio) ==
    /\ Call("create") /\ FreePids # {}
    /\ LET pid == NextFrom(nextpid, NPROC, FreePids) IN
       /\ nextpid' = (pid + 1) % NPROC
       /\ \/ /\ freestks = {}                     \* getstk fails
             /\ UNCHANGED <<prstate, prprio, prstk, prsem, prparent, prhasmsg,
                            prcount, freestks>>
          \/ \E stk \in freestks :
             /\ prcount' = prcount + 1
             /\ prstate' = [prstate EXCEPT ![pid] = "SUSP"]
             /\ prprio' = [prprio EXCEPT ![pid] = prio]
             /\ prstk' = [prstk EXCEPT ![pid] = stk]
             /\ freestks' = freestks \ {stk}
             /\ prsem' = [prsem EXCEPT ![pid] = -1]
             /\ prparent' = [prparent EXCEPT ![pid] = currpid]
             /\ prhasmsg' = [prhasmsg EXCEPT ![pid] = FALSE]
    /\ UNCHANGED <<readylist, qkey, currpid, preempt, attempt, prmsg, sems,
                   nextsem, sleepq, ndefers, cont, halted>>

resume(p) ==
    /\ Call("resume") /\ prstate[p] = "SUSP"
    /\ ready(p, prstate, readylist, qkey)
    /\ UNCHANGED <<msgs, sems, alloc, nextsem, sleepq, prcount, ndefers, cont, halted>>

BugSuspendsNull(p) ==                  \* without the test for NULLPROC
    /\ Call("suspend") /\ prstate[p] = "READY"
    /\ readylist' = getitem(p, readylist)
    /\ prstate' = [prstate EXCEPT ![p] = "SUSP"]
    /\ UNCHANGED <<qkey, currpid, preempt, attempt, msgs, sems, alloc, nextsem,
                   sleepq, prcount, ndefers, cont, halted>>
suspend(p) ==
    /\ Call("suspend") /\ p # NULLPROC
    /\ \/ /\ prstate[p] = "READY"
          /\ readylist' = getitem(p, readylist)
          /\ prstate' = [prstate EXCEPT ![p] = "SUSP"]
          /\ UNCHANGED <<qkey, currpid, preempt, attempt>>
       \/ prstate[p] = "CURR" /\ Block("SUSP", qkey)
    /\ UNCHANGED <<msgs, sems, alloc, nextsem, sleepq, prcount, ndefers, cont, halted>>

yield ==
    /\ Call("yield")
    /\ resched(prstate, readylist, qkey, preempt)
    /\ UNCHANGED <<msgs, sems, alloc, nextsem, sleepq, prcount, ndefers, cont, halted>>

\* Neither the ready list nor the processor is looked at again.
chprio(p, newprio) ==
    /\ Call("chprio") /\ prstate[p] # "FREE"
    /\ prprio' = [prprio EXCEPT ![p] = newprio]
    /\ UNCHANGED <<sched, msgs, sems, prsem, prparent, prstk, nextpid, freestks,
                   nextsem, sleepq, prcount, ndefers, cont, halted>>
-----------------------------------------------------------------------------
\* Messages.

\* unsleep(p); ready(p)
ReadySleeper(p) ==
    /\ sleepq' = getitem(p, sleepq)
    /\ ready(p, prstate, readylist, unsleepKeys(p, sleepq, qkey))

\* send, for the system call and for kill.
BugOverwrites(p) == prstate[p] # "FREE" \* without the test for prhasmsg
Accepts(p) == prstate[p] # "FREE" /\ ~prhasmsg[p]
deliver(p, m) ==
    /\ prmsg' = [prmsg EXCEPT ![p] = m]
    /\ prhasmsg' = [prhasmsg EXCEPT ![p] = TRUE]
    /\ \/ prstate[p] = "RECV" /\ ready(p, prstate, readylist, qkey) /\ UNCHANGED sleepq
       \/ prstate[p] = "RECTIM" /\ ReadySleeper(p)
       \/ prstate[p] \notin {"RECV", "RECTIM"} /\ UNCHANGED <<sched, sleepq>>

send(p, m) ==
    /\ Call("send") /\ Accepts(p)
    /\ deliver(p, m)
    /\ UNCHANGED <<sems, alloc, nextsem, prcount, ndefers, cont, halted>>

\* Taking the message out of the process table entry.
TakeMsg == prhasmsg' = [prhasmsg EXCEPT ![currpid] = FALSE] /\ UNCHANGED prmsg

BugBlocksAlways ==                     \* without the test for prhasmsg
    /\ Call("receive")
    /\ Block("RECV", qkey) /\ Then(Rest("receive", 0, 0))
    /\ UNCHANGED <<msgs, sems, alloc, nextsem, sleepq, prcount, ndefers, halted>>
receive ==
    /\ Call("receive")
    /\ \/ prhasmsg[currpid] /\ TakeMsg /\ UNCHANGED <<sched, cont>>
       \/ /\ ~prhasmsg[currpid]
          /\ Block("RECV", qkey) /\ Then(Rest("receive", 0, 0)) /\ UNCHANGED msgs
    /\ UNCHANGED <<sems, alloc, nextsem, sleepq, prcount, ndefers, halted>>

\* receive and recvtime after resched: the first takes what is there, the
\* second only if there is something.
receiveRest ==
    /\ In("receive") /\ TakeMsg /\ Then(User)
    /\ UNCHANGED <<sched, sems, alloc, nextsem, sleepq, prcount, ndefers, halted>>
recvtimeRest ==
    /\ In("recvtime") /\ Then(User)
    /\ \/ prhasmsg[currpid] /\ TakeMsg
       \/ ~prhasmsg[currpid] /\ UNCHANGED msgs            \* TIMEOUT
    /\ UNCHANGED <<sched, sems, alloc, nextsem, sleepq, prcount, ndefers, halted>>

recvclr ==
    /\ Call("recvclr") /\ prhasmsg[currpid] /\ TakeMsg
    /\ UNCHANGED <<sched, sems, alloc, nextsem, sleepq, prcount, ndefers, cont, halted>>

\* insertd(currpid, sleepq, delay) and block in state st.
SleepFor(delay, st) ==
    /\ sleepq' = insertd(currpid, sleepq, qkey, delay)
    /\ Block(st, insertdKeys(currpid, sleepq, qkey, delay))

recvtime(maxwait) ==
    /\ Call("recvtime")
    /\ \/ prhasmsg[currpid] /\ TakeMsg /\ UNCHANGED <<sched, sleepq, cont>>
       \/ /\ ~prhasmsg[currpid]
          /\ SleepFor(maxwait, "RECTIM") /\ Then(Rest("recvtime", 0, 0)) /\ UNCHANGED msgs
    /\ UNCHANGED <<sems, alloc, nextsem, prcount, ndefers, halted>>

sleepms(delay) ==
    /\ Call("sleepms") /\ delay > 0
    /\ SleepFor(delay, "SLEEP")
    /\ UNCHANGED <<msgs, sems, alloc, nextsem, prcount, ndefers, cont, halted>>
-----------------------------------------------------------------------------
\* kill: the count, xdone, and the message to the parent; then (killRest) the
\* rest, which runs later if the message woke a parent of higher priority.

\* prcount as kill leaves it: the last user process has completed.
LastUserProcess(n) == n <= 1

kill(p) ==
    /\ \/ Call("kill")
       \/ Call("exit") /\ p = currpid             \* exit, userret
    /\ p # NULLPROC /\ prstate[p] # "FREE"
    /\ prcount' = prcount - 1
    /\ Then(Rest("kill", p, 0))
    /\ \/ /\ LastUserProcess(prcount - 1)
          /\ halted' = TRUE                      \* xdone
          /\ UNCHANGED <<sched, msgs, sleepq>>
       \/ /\ ~LastUserProcess(prcount - 1)
          /\ \/ Accepts(prparent[p]) /\ deliver(prparent[p], p)
             \/ ~Accepts(prparent[p]) /\ UNCHANGED <<sched, msgs, sleepq>>
          /\ UNCHANGED halted
    /\ UNCHANGED <<sems, alloc, nextsem, ndefers>>

BugNotFreed(p) == prstate                \* prstate is not reset
Gone(p) == [prstate EXCEPT ![p] = "FREE"]

\* The waiting process p leaves its semaphore.
BugCountStays(p) ==                      \* without scount++
    /\ squeue' = [squeue EXCEPT ![prsem[p]] = getitem(p, @)]
    /\ UNCHANGED scount
BugStaysLinked(p) ==                     \* without getitem
    /\ scount' = [scount EXCEPT ![prsem[p]] = @ + 1]
    /\ UNCHANGED squeue
LeaveSemaphore(p) ==
    /\ scount' = [scount EXCEPT ![prsem[p]] = @ + 1]
    /\ squeue' = [squeue EXCEPT ![prsem[p]] = getitem(p, @)]

killRest ==
    /\ In("kill")
    /\ LET p == cont[currpid].arg IN
       /\ freestks' = freestks \cup {prstk[p]}
       /\ cont' = [cont EXCEPT ![currpid] = User, ![p] = User]
       /\ \/ /\ prstate[p] = "CURR"
             /\ resched(Gone(p), readylist, qkey, preempt)
             /\ UNCHANGED <<sleepq, scount, squeue>>
          \/ /\ prstate[p] \in {"SLEEP", "RECTIM"}
             /\ sleepq' = getitem(p, sleepq)
             /\ qkey' = unsleepKeys(p, sleepq, qkey)
             /\ prstate' = Gone(p)
             /\ UNCHANGED <<readylist, currpid, preempt, attempt, scount, squeue>>
          \/ /\ prstate[p] = "WAIT"
             /\ LeaveSemaphore(p)
             /\ prstate' = Gone(p)
             /\ UNCHANGED <<readylist, qkey, currpid, preempt, attempt, sleepq>>
          \/ /\ prstate[p] = "READY"
             /\ readylist' = getitem(p, readylist)
             /\ prstate' = Gone(p)
             /\ UNCHANGED <<qkey, currpid, preempt, attempt, sleepq, scount, squeue>>
          \/ /\ prstate[p] \in {"FREE", "SUSP", "RECV"}
             /\ prstate' = Gone(p)
             /\ UNCHANGED <<readylist, qkey, currpid, preempt, attempt, sleepq,
                            scount, squeue>>
    /\ UNCHANGED <<msgs, sstate, prprio, prsem, prparent, prstk, nextpid,
                   nextsem, prcount, ndefers, halted>>
-----------------------------------------------------------------------------
\* Semaphores.

FreeSems == {s \in Sems : sstate[s] = "S_FREE"}

semcreate(count) ==
    /\ Call("semcreate") /\ FreeSems # {}
    /\ LET s == NextFrom(nextsem, NSEM, FreeSems) IN
       /\ nextsem' = (s + 1) % NSEM
       /\ sstate' = [sstate EXCEPT ![s] = "S_USED"]
       /\ scount' = [scount EXCEPT ![s] = count]
    /\ UNCHANGED <<sched, msgs, squeue, alloc, sleepq, prcount, ndefers, cont, halted>>

wait(s) ==
    /\ Call("wait") /\ sstate[s] = "S_USED"
    /\ scount' = [scount EXCEPT ![s] = @ - 1]
    /\ \/ /\ scount[s] - 1 < 0
          /\ prsem' = [prsem EXCEPT ![currpid] = s]
          /\ squeue' = [squeue EXCEPT ![s] = enqueue(currpid, @)]
          /\ Block("WAIT", qkey)
       \/ scount[s] - 1 >= 0 /\ UNCHANGED <<sched, prsem, squeue>>
    /\ UNCHANGED <<msgs, sstate, prprio, prparent, prstk, nextpid, freestks,
                   nextsem, sleepq, prcount, ndefers, cont, halted>>

\* One round of (scount++ < 0) with its ready: the first waiting process, if
\* the count says that there is one.
SignalOnce(s) ==
    /\ scount' = [scount EXCEPT ![s] = @ + 1]
    /\ \/ /\ scount[s] < 0
          /\ squeue' = [squeue EXCEPT ![s] = Tail(@)]
          /\ ready(Head(squeue[s]), prstate, readylist, qkey)
       \/ scount[s] >= 0 /\ UNCHANGED <<sched, squeue>>

signal(s) ==
    /\ CallOrIntr("signal") /\ sstate[s] = "S_USED" /\ scount[s] < MaxCount
    /\ SignalOnce(s)
    /\ UNCHANGED <<msgs, sstate, alloc, nextsem, sleepq, prcount, ndefers, cont, halted>>

\* The calls that release several processes start a deferral, release one
\* process a step and stop the deferral.
StartDefer(k) ==
    /\ DEFER_START /\ Then(k)
    /\ UNCHANGED <<prstate, readylist, qkey, currpid, preempt, msgs, scount,
                   squeue, alloc, nextsem, sleepq, prcount, halted>>
signaln(s, count) ==
    /\ CallOrIntr("signaln") /\ sstate[s] = "S_USED" /\ scount[s] + count <= MaxCount
    /\ StartDefer(Rest("signaln", s, count)) /\ UNCHANGED sstate
semdelete(s) ==
    /\ Call("semdelete") /\ sstate[s] = "S_USED"
    /\ sstate' = [sstate EXCEPT ![s] = "S_FREE"]
    /\ StartDefer(Rest("semdelete", s, 0))
semreset(s, count) ==
    /\ Call("semreset") /\ sstate[s] = "S_USED"
    /\ StartDefer(Rest("semreset", s, count)) /\ UNCHANGED sstate

signalnRest ==
    /\ In("signaln")
    /\ LET s == cont[currpid].arg
           n == cont[currpid].n IN
       \/ n > 0 /\ SignalOnce(s) /\ Then(Rest("signaln", s, n - 1)) /\ UNCHANGED ndefers
       \/ n <= 0 /\ DEFER_STOP /\ Then(User) /\ UNCHANGED <<scount, squeue>>
    /\ UNCHANGED <<msgs, sstate, alloc, nextsem, sleepq, prcount, halted>>
BugLeavesOne ==                          \* (scount++ < -1)
    /\ In("semdelete")
    /\ LET s == cont[currpid].arg IN
       \/ scount[s] < -1 /\ SignalOnce(s) /\ UNCHANGED <<ndefers, cont>>
       \/ /\ scount[s] >= -1
          /\ scount' = [scount EXCEPT ![s] = @ + 1]
          /\ DEFER_STOP /\ Then(User) /\ UNCHANGED squeue
    /\ UNCHANGED <<msgs, sstate, alloc, nextsem, sleepq, prcount, halted>>
semdeleteRest ==
    /\ In("semdelete")
    /\ LET s == cont[currpid].arg IN
       \/ scount[s] < 0 /\ SignalOnce(s) /\ UNCHANGED <<ndefers, cont>>
       \/ /\ scount[s] >= 0
          /\ scount' = [scount EXCEPT ![s] = @ + 1]       \* the last scount++
          /\ DEFER_STOP /\ Then(User) /\ UNCHANGED squeue
    /\ UNCHANGED <<msgs, sstate, alloc, nextsem, sleepq, prcount, halted>>
semresetRest ==
    /\ In("semreset")
    /\ LET s == cont[currpid].arg IN
       \/ /\ squeue[s] # << >>
          /\ squeue' = [squeue EXCEPT ![s] = Tail(@)]
          /\ ready(Head(squeue[s]), prstate, readylist, qkey)
          /\ UNCHANGED <<ndefers, cont, scount>>
       \/ /\ squeue[s] = << >>
          /\ scount' = [scount EXCEPT ![s] = cont[currpid].n]
          /\ DEFER_STOP /\ Then(User) /\ UNCHANGED squeue
    /\ UNCHANGED <<msgs, sstate, alloc, nextsem, sleepq, prcount, halted>>
-----------------------------------------------------------------------------
\* The clock interrupt.

\* The end of clkhandler, with the keys as its beginning has left them.
TimeSlice(qk) ==
    IF preempt - 1 <= 0 THEN resched(prstate, readylist, qk, QUANTUM)
    ELSE stay(prstate, readylist, qk, preempt - 1) /\ UNCHANGED attempt

BugNoTick == qkey                        \* the first key is not decremented
Ticked == IF sleepq = << >> THEN qkey ELSE [qkey EXCEPT ![Head(sleepq)] = @ - 1]
Expired(qk) == sleepq # << >> /\ qk[Head(sleepq)] <= 0

clkhandler ==
    /\ In("user")
    /\ \/ /\ ~Expired(Ticked)
          /\ TimeSlice(Ticked)
          /\ UNCHANGED <<ndefers, cont>>
       \/ /\ Expired(Ticked)
          /\ qkey' = Ticked
          /\ DEFER_START /\ Then(Rest("wakeup", 0, 0))
          /\ UNCHANGED <<prstate, readylist, currpid, preempt>>
    /\ UNCHANGED <<msgs, sems, alloc, nextsem, sleepq, prcount, halted>>

wakeup ==
    /\ In("wakeup")
    /\ \/ /\ Expired(qkey)
          /\ sleepq' = Tail(sleepq)
          /\ ready(Head(sleepq), prstate, readylist, qkey)
          /\ UNCHANGED <<ndefers, cont>>
       \/ /\ ~Expired(qkey)
          /\ DEFER_STOP /\ Then(Rest("clkhandler", 0, 0)) /\ UNCHANGED sleepq
    /\ UNCHANGED <<msgs, sems, alloc, nextsem, prcount, halted>>

\* The rest of clkhandler, once the process it interrupted is back in.
clkhandlerRest ==
    /\ In("clkhandler") /\ TimeSlice(qkey) /\ Then(User)
    /\ UNCHANGED <<msgs, sems, alloc, nextsem, sleepq, prcount, ndefers, halted>>
-----------------------------------------------------------------------------
\* What the kernel does on its own once a call or an interrupt has begun.
KernelStep ==
    \/ receiveRest \/ recvtimeRest \/ killRest
    \/ signalnRest \/ semdeleteRest \/ semresetRest
    \/ wakeup \/ clkhandlerRest

UserStep ==
    \/ \E prio \in Prios : create(prio)
    \/ \E p \in Pids : resume(p)
    \/ \E p \in Pids : suspend(p)
    \/ \E p \in Pids : kill(p)
    \/ \E p \in Pids, prio \in NewPrios : chprio(p, prio)
    \/ \E p \in Pids, m \in Msgs : send(p, m)
    \/ receive \/ recvclr \/ yield
    \/ \E d \in Delays : recvtime(d)
    \/ \E d \in Delays : sleepms(d)
    \/ \E n \in Counts : semcreate(n)
    \/ \E s \in Sems : wait(s)
    \/ \E s \in Sems : signal(s)
    \/ \E s \in Sems : semdelete(s)
    \/ \E s \in Sems, n \in Counts : semreset(s, n)
    \/ \E s \in Sems, n \in Counts : signaln(s, n)

Halted == halted /\ UNCHANGED vars         \* halt: jmp halt

Next == UserStep \/ KernelStep \/ clkhandler \/ Halted

Spec == Init /\ [][Next]_vars

\* What the code gives: interrupts are enabled again at the end of every call,
\* and a clock interrupt that comes meanwhile stays pending at the controller,
\* hence strong fairness for it; a call that has begun runs to its end.
FairSpec == Spec /\ WF_vars(KernelStep) /\ SF_vars(clkhandler)
-----------------------------------------------------------------------------
\* Type correctness of the process, semaphore and queue tables and of the
\* globals.  preempt is unsigned in the code (clkinit.c), so that it never
\* reaches 0 is what keeps (--preempt) <= 0 meaningful.
TypeSched ==
    /\ prstate \in [Pids -> States]
    /\ readylist \in Seq(Pids) /\ qkey \in [Pids -> Int]
    /\ currpid \in Pids /\ preempt \in 1..QUANTUM /\ attempt \in BOOLEAN
TypeProc ==
    /\ prprio \in [Pids -> Int] /\ prsem \in [Pids -> Sems \cup {-1, 0}]
    /\ prparent \in [Pids -> Pids] /\ nextpid \in Pids /\ prcount \in Int
    /\ prstk \in [Pids -> Stacks \cup {NoStack}] /\ freestks \subseteq Stacks
TypeMsgs ==
    /\ prmsg \in [Pids -> Msgs \cup Pids \cup {NoMsg}]
    /\ prhasmsg \in [Pids -> BOOLEAN]
TypeSems ==
    /\ sstate \in [Sems -> {"S_FREE", "S_USED"}] /\ scount \in [Sems -> Int]
    /\ squeue \in [Sems -> Seq(Pids)] /\ nextsem \in Nat
TypeRest ==
    /\ sleepq \in Seq(Pids) /\ ndefers \in 0..1 /\ halted \in BOOLEAN
    /\ cont \in [Pids -> [op : Ops, arg : Nat, n : Nat]]
TypeOK == TypeSched /\ TypeProc /\ TypeMsgs /\ TypeSems /\ TypeRest

\* A process is on exactly the queue its state names, once: the ready list in
\* READY, the sleep queue in SLEEP and RECTIM, the queue of prsem in WAIT, none
\* otherwise.  queuetab has one node per process (queue.h), so a process on
\* two lists, or freed by kill while still linked, corrupts both.
ReadyMatches ==
    NoDup(readylist) /\ \A p \in Pids : OnQueue(readylist, p) <=> prstate[p] = "READY"
SleepMatches ==
    /\ NoDup(sleepq)
    /\ \A p \in Pids : OnQueue(sleepq, p) <=> prstate[p] \in {"SLEEP", "RECTIM"}
WaitMatches ==
    /\ \A s \in Sems :
          /\ NoDup(squeue[s])
          /\ \A p \in Pids : OnQueue(squeue[s], p) <=> prstate[p] = "WAIT" /\ prsem[p] = s
    /\ \A p \in Pids : prstate[p] = "WAIT" => prsem[p] \in Sems
QueuesMatchStates == ReadyMatches /\ SleepMatches /\ WaitMatches

\* Exactly the process currpid is CURR, and the null process is never
\* anywhere but on the processor or the ready list: resched.c:40 dequeues the
\* ready list without a test for EMPTY.
ProcessorBusy ==
    /\ \A p \in Pids : prstate[p] = "CURR" <=> p = currpid
    /\ prstate[NULLPROC] \in {"CURR", "READY"}

\* Deferral ends with the call that began it: ndefers counts the deferring
\* call that currpid is in, and no process is ever switched out of one
\* (resched.c, wakeup.c, semdelete.c, semreset.c, signaln.c).
DeferralOwned ==
    /\ ndefers = IF cont[currpid].op \in DeferOps THEN 1 ELSE 0
    /\ \A p \in Pids \ {currpid} : cont[p].op \notin DeferOps

\* A negative count is the number of processes that wait, and no process
\* waits otherwise; semreset alone lets the queue run ahead of the count, while
\* it drains the queue (wait.c, signal.c, kill.c:46, semdelete.c, semreset.c).
Within(op, s) == cont[currpid].op = op /\ cont[currpid].arg = s
CountsWaiters ==
    \A s \in Sems : ~Within("semreset", s) =>
        Len(squeue[s]) = IF scount[s] < 0 THEN -scount[s] ELSE 0

\* Nobody waits on a semaphore that has been deleted, once semdelete has
\* released its queue (semdelete.c:27-32).
DeletedHasNoWaiters ==
    \A s \in Sems : sstate[s] = "S_FREE" /\ ~Within("semdelete", s) => squeue[s] = << >>

\* A process that blocks for a message has none, and one that is switched
\* back into receive has one: receive.c:21 takes prmsg without looking at
\* prhasmsg again.
ReceiverHasMessage ==
    \A p \in Pids :
        /\ prstate[p] = "RECV" => cont[p].op = "receive" /\ ~prhasmsg[p]
        /\ prstate[p] = "RECTIM" => cont[p].op = "recvtime" /\ ~prhasmsg[p]
        /\ cont[p].op = "receive" /\ prstate[p] # "RECV" => prhasmsg[p]

\* What is left to do names a process or a semaphore of the tables; a free
\* entry has nothing left to do; whatever kill frees is a stack block.
RestsValid ==
    \A p \in Pids :
        /\ cont[p].op = "kill" =>
             cont[p].arg \in Pids \ {NULLPROC} /\ prstk[cont[p].arg] \in Stacks
        /\ cont[p].op \in {"semdelete", "semreset", "signaln"} => cont[p].arg \in Sems
        /\ prstate[p] = "FREE" => cont[p].op = "user"
        /\ p # NULLPROC /\ prstate[p] # "FREE" => prstk[p] \in Stacks

\* The ready list is in descending order of key (insert.c), and outside a
\* deferral no ready process has a higher priority than the one that runs
\* (resched.c:8).  chprio.c breaks both for priorities, so this is stated for
\* instances without it.
ReadySorted ==
    \A i, j \in 1..Len(readylist) : i < j => qkey[readylist[i]] >= qkey[readylist[j]]
HighestPriorityRuns ==
    ndefers = 0 => \A p \in Pids : prstate[p] = "READY" => prprio[p] <= prprio[currpid]

\* p is in the middle of its own kill.
Dying(p) == cont[p].op = "kill" /\ cont[p].arg = p
Live == {p \in Pids : prstate[p] # "FREE"}

\* prcount is the number of live processes (initialize.c:26), not counting
\* the ones that are in kill; the processor halts only when the null process
\* is alone (kill.c:24).
CountIsLive == ~halted => prcount = Cardinality({p \in Live : ~Dying(p)})
HaltsOnlyWhenAlone == halted => \A p \in Live \ {NULLPROC} : Dying(p)

\* A live process has a stack of its own that is not on the free list
\* (create.c:33, kill.c:32).
StacksOwned ==
    \A p \in Live \ {NULLPROC} :
        /\ prstk[p] \in Stacks \ freestks
        /\ \A q \in Live \ {NULLPROC} : prstk[p] = prstk[q] => p = q

\* The three together: the count, the end and the stacks stay in step with the
\* entries of proctab (create.c:33, kill.c:24, xdone.c:9).
EntriesAccounted == CountIsLive /\ HaltsOnlyWhenAlone /\ StacksOwned
-----------------------------------------------------------------------------
\* A message that has not been taken is never overwritten: send.c:24.
MessageKept ==
    [][\A p \in Pids : prhasmsg[p] /\ prhasmsg'[p] => prmsg'[p] = prmsg[p]]_vars

\* The delay that p has left is the sum of the keys up to its node.  Whoever
\* enters or leaves the sleep queue, by sleep, timeout, message or kill, leaves
\* the delay of everybody else on it alone, and a clock tick takes one off
\* (insertd.c, unsleep.c, clkhandler.c).  For delays > 0: see SleepEnds.
DelayLeft(p) == -Left(sleepq, qkey, 0)[PosOf(p, sleepq) + 1]
DelayStep(p) ==
    \/ DelayLeft(p)' = DelayLeft(p)
    \/ DelayLeft(p)' = DelayLeft(p) - 1 /\ sleepq' = sleepq
DelaysKept ==
    [][\A p \in Pids : OnQueue(sleepq, p) /\ OnQueue(sleepq', p) => DelayStep(p)]_vars

\* A process that stays ready while nobody has a higher priority gets the
\* processor: round robin within a priority class (clkhandler.c:41, insert.c:23).
TopReady(p) ==
    ~halted /\ prstate[p] = "READY" /\ \A q \in Live : prprio[q] <= prprio[p]
RoundRobin == \A p \in Pids \ {NULLPROC} : ~<>[]TopReady(p)

\* Whoever sleeps or waits with a timeout is made ready again (sleep.c:23).
Timed(p) == prstate[p] \in {"SLEEP", "RECTIM"}
SleepEnds == \A p \in Pids : Timed(p) ~> (~Timed(p) \/ halted)
-----------------------------------------------------------------------------
\* semtab and queuetab as a table of the semaphores that the other modules
\* use: wait, signal, signaln, semreset, semdelete and kill, each of which may
\* take several steps and be interleaved with rescheduling, are waits, signals
\* and departures one at a time; service is first come, first served, and
\* nobody waits while a permit is left (wait.c, signal.c, kill.c:46).
SemOf(s) == [val |-> IF squeue[s] # << >> \/ scount[s] < 0 THEN 0 ELSE scount[s],
             queue |-> squeue[s]]
Table == INSTANCE SemSpec WITH Procs <- Pids, sem <- [s \in Sems |-> SemOf(s)]
IsSemTable == Table!SemTable
==============================================================================
