---------------------------- MODULE KernelProofs -----------------------------
(***************************************************************************)
(* The invariants of Kernel, for every size of the tables and every set of *)
(* arguments.                                                              *)
(***************************************************************************)
EXTENDS Kernel, ProcQueueProofs

Eligible == {"CURR", "READY"}

\* The inductive invariant.
Sched == ReadyMatches /\ ProcessorBusy
Waits == WaitMatches /\ CountsWaiters /\ DeletedHasNoWaiters
Calling == DeferralOwned /\ ReceiverHasMessage /\ RestsValid
IInv == TypeOK /\ Sched /\ SleepMatches /\ Waits /\ Calling

USE DEF NULLPROC
-----------------------------------------------------------------------------
\* The states, ready list and keys handed to resched: only the running
\* process c may be CURR, and the null process is eligible.
SchedPre(ps, rl, qk, c) ==
    /\ ps \in [Pids -> States] /\ rl \in Seq(Pids) /\ qk \in [Pids -> Int]
    /\ NoDup(rl) /\ \A p \in Pids : OnQueue(rl, p) <=> ps[p] = "READY"
    /\ \A p \in Pids : ps[p] = "CURR" => p = c
    /\ ps[NULLPROC] \in Eligible

\* What resched leaves, and that it moves only eligible processes.
SchedPost ==
    /\ prstate \in [Pids -> States] /\ readylist \in Seq(Pids) /\ qkey \in [Pids -> Int]
    /\ currpid \in Pids /\ preempt \in 1..QUANTUM
    /\ ReadyMatches /\ ProcessorBusy
Kept(ps, new) ==
    \A p \in Pids : new[p] = ps[p] \/ (ps[p] \in Eligible /\ new[p] \in Eligible)

LEMMA PidsFacts == NULLPROC \in Pids /\ 1 \in Pids /\ Pids \subseteq Nat
  BY SizesAssumption DEF Pids

LEMMA SwitchOK ==
    ASSUME NEW ps, NEW rl, NEW qk, rl # << >>,
           SchedPre(ps, rl, qk, currpid), \A p \in Pids : ps[p] # "CURR",
           switch(ps, rl), qkey' = qk
    PROVE  SchedPost' /\ Kept(ps, prstate')
<1>1. /\ Head(rl) \in Pids /\ Tail(rl) \in Seq(Pids)
      /\ OnQueue(rl, Head(rl)) /\ NoDup(Tail(rl))
      /\ \A x : OnQueue(Tail(rl), x) <=> OnQueue(rl, x) /\ x # Head(rl)
  <2>1. rl \in Seq(Pids) /\ NoDup(rl) BY DEF SchedPre
  <2>2. QED BY <2>1, DequeueQueue, Zenon
<1>2. ps[Head(rl)] = "READY"
  BY <1>1 DEF SchedPre
<1>3. prstate' \in [Pids -> States] /\ currpid' \in Pids /\ preempt' \in 1..QUANTUM
  BY <1>1, SizesAssumption DEF SchedPre, switch, States
<1>4. ReadyMatches'
  BY <1>1, <1>2 DEF SchedPre, switch, ReadyMatches
<1>5. ProcessorBusy'
  BY <1>1, <1>2, PidsFacts DEF SchedPre, switch, ProcessorBusy, Eligible
<1>6. Kept(ps, prstate')
  BY <1>1, <1>2 DEF SchedPre, switch, Kept, Eligible
<1>7. QED BY <1>1, <1>3, <1>4, <1>5, <1>6 DEF SchedPost, SchedPre, switch

LEMMA ReschedNowOK ==
    ASSUME NEW ps, NEW rl, NEW qk, NEW pre \in 1..QUANTUM,
           prprio \in [Pids -> Int], currpid \in Pids,
           SchedPre(ps, rl, qk, currpid), reschedNow(ps, rl, qk, pre)
    PROVE  SchedPost' /\ Kept(ps, prstate')
<1>1. CASE Remains(ps, rl, qk) /\ stay(ps, rl, qk, pre)
  BY <1>1 DEF Remains, stay, SchedPre, SchedPost, Kept, ReadyMatches, ProcessorBusy, Eligible
<1>2. CASE /\ ps[currpid] = "CURR"
           /\ switch([ps EXCEPT ![currpid] = "READY"], insert(currpid, rl, qk, prprio[currpid]))
           /\ qkey' = [qk EXCEPT ![currpid] = prprio[currpid]]
  <2> DEFINE ps2 == [ps EXCEPT ![currpid] = "READY"]
             rl2 == insert(currpid, rl, qk, prprio[currpid])
             qk2 == [qk EXCEPT ![currpid] = prprio[currpid]]
  <2>1. rl \in Seq(Pids) /\ Keyed(rl, qk) /\ prprio[currpid] \in Int /\ NoDup(rl)
        /\ ~OnQueue(rl, currpid)
    <3>1. rl \in Seq(Pids) /\ prprio[currpid] \in Int /\ NoDup(rl) /\ qk \in [Pids -> Int]
      BY DEF SchedPre
    <3>2. Keyed(rl, qk) BY <3>1 DEF Keyed
    <3>3. ~OnQueue(rl, currpid) BY <1>2 DEF SchedPre
    <3>4. QED BY <3>1, <3>2, <3>3
  <2>2. /\ rl2 \in Seq(Pids) /\ rl2 # << >> /\ NoDup(rl2)
        /\ \A x : OnQueue(rl2, x) <=> OnQueue(rl, x) \/ x = currpid
    <3>1. /\ rl2 \in Seq(Pids) /\ NoDup(rl2)
          /\ \A x : OnQueue(rl2, x) <=> OnQueue(rl, x) \/ x = currpid
      BY <2>1, InsertQueue, Zenon
    <3> HIDE DEF rl2
    <3>2. rl2 # << >> BY <3>1 DEF OnQueue
    <3>3. QED BY <3>1, <3>2
  <2> HIDE DEF rl2
  <2>3. SchedPre(ps2, rl2, qk2, currpid) /\ \A p \in Pids : ps2[p] # "CURR"
    BY <1>2, <2>1, <2>2 DEF SchedPre, States, Eligible
  <2> HIDE DEF ps2, qk2
  <2>4. switch(ps2, rl2) /\ qkey' = qk2
    BY <1>2 DEF ps2, rl2, qk2
  <2>5. SchedPost' /\ Kept(ps2, prstate')
    BY <2>2, <2>3, <2>4, SwitchOK, Zenon
  <2>6. Kept(ps, prstate')
    BY <1>2, <2>5 DEF Kept, ps2, Eligible, SchedPre
  <2>7. QED BY <2>5, <2>6
<1>3. CASE ps[currpid] # "CURR" /\ rl # << >> /\ switch(ps, rl) /\ qkey' = qk
  <2>1. \A p \in Pids : ps[p] # "CURR" BY <1>3 DEF SchedPre
  <2>2. QED BY <1>3, <2>1, SwitchOK, Zenon
<1>4. QED BY <1>1, <1>2, <1>3 DEF reschedNow

LEMMA ReschedOK ==
    ASSUME NEW ps, NEW rl, NEW qk, NEW pre \in 1..QUANTUM,
           prprio \in [Pids -> Int], currpid \in Pids, attempt \in BOOLEAN,
           SchedPre(ps, rl, qk, currpid), ndefers > 0 => ps[currpid] = "CURR",
           resched(ps, rl, qk, pre)
    PROVE  /\ SchedPost' /\ Kept(ps, prstate') /\ attempt' \in BOOLEAN
           /\ ndefers > 0 => currpid' = currpid
<1>1. CASE ndefers > 0 /\ attempt' = TRUE /\ stay(ps, rl, qk, pre)
  BY <1>1 DEF stay, SchedPre, SchedPost, Kept, ReadyMatches, ProcessorBusy, Eligible
<1>2. CASE ndefers = 0 /\ UNCHANGED attempt /\ reschedNow(ps, rl, qk, pre)
  <2>1. SchedPost' /\ Kept(ps, prstate') BY <1>2, ReschedNowOK, Zenon
  <2>2. QED BY <1>2, <2>1
<1>3. QED BY <1>1, <1>2 DEF resched

\* Before a system call the states, the ready list and the keys are as resched
\* wants them.
LEMMA SchedPreHolds ==
    ASSUME TypeOK, Sched
    PROVE  /\ SchedPre(prstate, readylist, qkey, currpid)
           /\ prstate[currpid] = "CURR" /\ currpid \in Pids /\ prprio \in [Pids -> Int]
           /\ preempt \in 1..QUANTUM /\ attempt \in BOOLEAN
  BY DEF TypeOK, TypeSched, TypeProc, TypeMsgs, TypeSems, TypeRest, Sched, SchedPre, ReadyMatches, ProcessorBusy, Eligible

\* ready(p) of a process that is not eligible.
LEMMA ReadyOK ==
    ASSUME TypeOK, Sched, NEW p \in Pids, prstate[p] \notin Eligible,
           NEW qk \in [Pids -> Int], ready(p, prstate, readylist, qk)
    PROVE  /\ SchedPost' /\ Kept([prstate EXCEPT ![p] = "READY"], prstate')
           /\ attempt' \in BOOLEAN
           /\ ndefers > 0 => currpid' = currpid
<1> DEFINE ps == [prstate EXCEPT ![p] = "READY"]
           rl == insert(p, readylist, qk, prprio[p])
           k == [qk EXCEPT ![p] = prprio[p]]
<1>1. /\ SchedPre(prstate, readylist, qkey, currpid)
      /\ prstate[currpid] = "CURR" /\ currpid \in Pids /\ prprio \in [Pids -> Int]
      /\ preempt \in 1..QUANTUM /\ attempt \in BOOLEAN
  BY SchedPreHolds
<1>2. readylist \in Seq(Pids) /\ NoDup(readylist) BY <1>1 DEF SchedPre
<1>3. Keyed(readylist, qk) /\ prprio[p] \in Int BY <1>1, <1>2 DEF Keyed
<1>4. ~OnQueue(readylist, p) BY <1>1 DEF SchedPre, Eligible
<1>5. /\ rl \in Seq(Pids) /\ NoDup(rl)
      /\ \A x : OnQueue(rl, x) <=> OnQueue(readylist, x) \/ x = p
  BY <1>2, <1>3, <1>4, InsertQueue, Zenon
<1> HIDE DEF rl
<1>6. SchedPre(ps, rl, k, currpid)
  BY <1>1, <1>3, <1>5, PidsFacts DEF SchedPre, States, Eligible
<1>7. ps[currpid] = "CURR" BY <1>1 DEF SchedPre, Eligible
<1> HIDE DEF ps, k
<1>8. resched(ps, rl, k, preempt) BY DEF ready, ps, rl, k
<1>9. QED BY <1>1, <1>6, <1>7, <1>8, ReschedOK, Zenon DEF ps

\* The running process blocks, outside a deferral.
LEMMA BlockOK ==
    ASSUME TypeOK, Sched, currpid # NULLPROC, ndefers = 0,
           NEW st \in States \ Eligible,
           NEW qk \in [Pids -> Int], Block(st, qk)
    PROVE  /\ SchedPost' /\ Kept([prstate EXCEPT ![currpid] = st], prstate')
           /\ attempt' \in BOOLEAN
<1> DEFINE ps == [prstate EXCEPT ![currpid] = st]
<1>1. /\ SchedPre(prstate, readylist, qkey, currpid)
      /\ prstate[currpid] = "CURR" /\ currpid \in Pids /\ prprio \in [Pids -> Int]
      /\ preempt \in 1..QUANTUM /\ attempt \in BOOLEAN
  BY SchedPreHolds
<1>2. SchedPre(ps, readylist, qk, currpid)
  BY <1>1, PidsFacts DEF SchedPre, Eligible
<1> HIDE DEF ps
<1>3. resched(ps, readylist, qk, preempt) BY DEF Block, ps
<1>4. ndefers > 0 => ps[currpid] = "CURR" OBVIOUS
<1>5. QED BY <1>1, <1>2, <1>3, <1>4, ReschedOK, Zenon DEF ps
-----------------------------------------------------------------------------
\* Steps that only move processes between the processor, the ready list and
\* suspension leave the rest of the invariant alone.
Runnable == {"CURR", "READY", "SUSP"}
Moves(new) == \A p \in Pids : \/ new[p] = prstate[p]
                              \/ prstate[p] \in Runnable /\ new[p] \in Runnable
\* The processor changes hands only outside deferrals.
HandsOver == ndefers > 0 => currpid' = currpid

LEMMA SleepMoves ==
    ASSUME TypeOK, SleepMatches, Moves(prstate'), UNCHANGED sleepq
    PROVE  SleepMatches'
  BY DEF SleepMatches, Moves, Runnable

LEMMA WaitMoves ==
    ASSUME TypeOK, WaitMatches, Moves(prstate'), UNCHANGED <<squeue, prsem>>
    PROVE  WaitMatches'
  BY DEF WaitMatches, Moves, Runnable

LEMMA SemMoves ==
    ASSUME TypeOK, Calling, CountsWaiters, DeletedHasNoWaiters, HandsOver,
           UNCHANGED <<squeue, scount, sstate, cont, ndefers>>, currpid' \in Pids
    PROVE  CountsWaiters' /\ DeletedHasNoWaiters'
<1>1. ASSUME NEW s \in Sems, NEW op \in DeferOps
      PROVE  Within(op, s)' <=> Within(op, s)
  BY <1>1 DEF Within, Calling, DeferralOwned, HandsOver, DeferOps
<1>2. "semreset" \in DeferOps /\ "semdelete" \in DeferOps BY DEF DeferOps
<1>3. QED BY <1>1, <1>2 DEF CountsWaiters, DeletedHasNoWaiters

LEMMA CallingMoves ==
    ASSUME TypeOK, Calling, Moves(prstate'), HandsOver, currpid' \in Pids,
           UNCHANGED <<cont, ndefers, prhasmsg, prstk>>
    PROVE  Calling'
<1>1. DeferralOwned'
  BY DEF Calling, DeferralOwned, HandsOver, TypeOK, TypeSched, TypeProc, TypeMsgs, TypeSems, TypeRest, DeferOps
<1>2. ReceiverHasMessage'
  BY DEF Calling, ReceiverHasMessage, Moves, Runnable
<1>3. RestsValid'
  BY DEF Calling, RestsValid, Moves, Runnable
<1>4. QED BY <1>1, <1>2, <1>3 DEF Calling

LEMMA MovesOK ==
    ASSUME IInv, SchedPost', Moves(prstate'), HandsOver, attempt' \in BOOLEAN,
           UNCHANGED <<msgs, sems, alloc, nextsem, sleepq, prcount, ndefers, cont, halted>>
    PROVE  IInv'
<1>1. TypeOK'
  BY DEF IInv, TypeOK, TypeSched, TypeProc, TypeMsgs, TypeSems, TypeRest, SchedPost, msgs, sems, alloc
<1>2. Sched' BY DEF SchedPost, Sched
<1>3. SleepMatches' BY SleepMoves DEF IInv
<1>4. WaitMatches' BY WaitMoves DEF IInv, Waits, sems, alloc
<1>5. currpid' \in Pids BY DEF SchedPost
<1>6. CountsWaiters' /\ DeletedHasNoWaiters' BY <1>5, SemMoves DEF IInv, Waits, sems
<1>7. Calling' BY <1>5, CallingMoves DEF IInv, msgs, alloc
<1>8. QED BY <1>1, <1>2, <1>3, <1>4, <1>6, <1>7 DEF IInv, Waits

\* In a system call of a process there is no deferral.
LEMMA CallOK ==
    ASSUME IInv, NEW c, Call(c)
    PROVE  ndefers = 0 /\ currpid # NULLPROC /\ cont[currpid].op = "user"
           /\ currpid \in Pids /\ prstate[currpid] = "CURR"
  BY DEF Call, In, IInv, Calling, DeferralOwned, DeferOps, TypeOK, TypeSched, TypeProc, TypeMsgs, TypeSems, TypeRest, Sched, ProcessorBusy

LEMMA ResumeOK == ASSUME IInv, NEW p \in Pids, resume(p) PROVE IInv'
<1>1. ready(p, prstate, readylist, qkey) /\ prstate[p] = "SUSP" BY DEF resume
<1>2. TypeOK /\ Sched /\ qkey \in [Pids -> Int] /\ prstate[p] \notin Eligible
  BY <1>1 DEF IInv, TypeOK, TypeSched, TypeProc, TypeMsgs, TypeSems, TypeRest, Eligible
<1>3. /\ SchedPost' /\ Kept([prstate EXCEPT ![p] = "READY"], prstate')
      /\ attempt' \in BOOLEAN /\ HandsOver
  BY <1>1, <1>2, ReadyOK DEF HandsOver
<1>4. Moves(prstate')
  BY <1>1, <1>2, <1>3, SMTT(30) DEF Moves, Kept, Runnable, Eligible, TypeOK, TypeSched, TypeProc, TypeMsgs, TypeSems, TypeRest
<1>5. QED BY <1>3, <1>4, MovesOK DEF resume

LEMMA SuspendOK == ASSUME IInv, NEW p \in Pids, suspend(p) PROVE IInv'
<1>1. ndefers = 0 /\ currpid # NULLPROC BY CallOK DEF suspend
<1>2. TypeOK /\ Sched /\ qkey \in [Pids -> Int] BY DEF IInv, TypeOK, TypeSched, TypeProc, TypeMsgs, TypeSems, TypeRest
<1>3. CASE prstate[p] = "CURR" /\ Block("SUSP", qkey)
  <2>1. /\ SchedPost' /\ Kept([prstate EXCEPT ![currpid] = "SUSP"], prstate')
        /\ attempt' \in BOOLEAN
    <3>1. "SUSP" \in States \ Eligible BY DEF States, Eligible
    <3>2. QED BY <1>1, <1>2, <1>3, <3>1, BlockOK
  <2>2. Moves(prstate')
    BY <1>2, <1>3, <2>1 DEF Moves, Kept, Runnable, Eligible, TypeOK, TypeSched, TypeProc, TypeMsgs, TypeSems, TypeRest, Sched, ProcessorBusy
  <2>3. QED BY <1>1, <2>1, <2>2, MovesOK DEF suspend, HandsOver
<1>4. CASE /\ prstate[p] = "READY" /\ readylist' = getitem(p, readylist)
           /\ prstate' = [prstate EXCEPT ![p] = "SUSP"]
           /\ UNCHANGED <<qkey, currpid, preempt, attempt>>
  <2>1. readylist \in Seq(Pids) /\ NoDup(readylist) /\ OnQueue(readylist, p)
    BY <1>2, <1>4 DEF TypeOK, TypeSched, TypeProc, TypeMsgs, TypeSems, TypeRest, Sched, ReadyMatches
  <2>2. /\ readylist' \in Seq(Pids) /\ NoDup(readylist')
        /\ \A x : OnQueue(readylist', x) <=> OnQueue(readylist, x) /\ x # p
    <3>1. QED BY <2>1, <1>4, GetitemQueue
  <2>3. SchedPost' /\ attempt' \in BOOLEAN /\ HandsOver
    BY <1>2, <1>4, <2>2, PidsFacts
    DEF TypeOK, TypeSched, TypeProc, TypeMsgs, TypeSems, TypeRest, Sched, SchedPost, ReadyMatches, ProcessorBusy, States, HandsOver, suspend
  <2>4. Moves(prstate') BY <1>2, <1>4 DEF Moves, Runnable, TypeOK, TypeSched, TypeProc, TypeMsgs, TypeSems, TypeRest
  <2>5. QED BY <2>3, <2>4, MovesOK DEF suspend
<1>5. QED BY <1>3, <1>4 DEF suspend

LEMMA YieldOK == ASSUME IInv, yield PROVE IInv'
<1>1. ndefers = 0 BY CallOK DEF yield
<1>2. resched(prstate, readylist, qkey, preempt) BY DEF yield
<1>3. TypeOK /\ Sched BY DEF IInv
<1>4. SchedPost' /\ Kept(prstate, prstate') /\ attempt' \in BOOLEAN
  BY <1>1, <1>2, <1>3, SchedPreHolds, ReschedOK
<1>5. Moves(prstate') BY <1>4 DEF Moves, Kept, Runnable, Eligible
<1>6. QED BY <1>1, <1>4, <1>5, MovesOK DEF yield, HandsOver
-----------------------------------------------------------------------------
\* Steps outside deferrals that leave the semaphores alone.
Conts == [Pids -> [op : Ops, arg : Nat, n : Nat]]
LEMMA OutsideOK ==
    ASSUME IInv, ndefers = 0, ndefers' = 0, currpid' \in Pids, cont' \in Conts,
           \A p \in Pids : cont[p].op \notin DeferOps => cont'[p].op \notin DeferOps,
           UNCHANGED <<squeue, scount, sstate>>,
           \A p \in Pids : prstate'[p] = "WAIT" <=> prstate[p] = "WAIT",
           \A p \in Pids : prstate[p] = "WAIT" => prsem'[p] = prsem[p]
    PROVE  DeferralOwned' /\ Waits'
<1>1. \A p \in Pids : cont[p].op \notin DeferOps
  BY DEF IInv, Calling, DeferralOwned
<1>2. DeferralOwned' BY <1>1 DEF DeferralOwned
<1>3. WaitMatches' BY DEF IInv, Waits, WaitMatches
<1>4. currpid \in Pids BY DEF IInv, TypeOK, TypeSched, TypeProc, TypeMsgs, TypeSems, TypeRest
<1>5. ASSUME NEW s \in Sems
      PROVE  /\ ~Within("semreset", s) /\ ~Within("semdelete", s)
             /\ ~Within("semreset", s)' /\ ~Within("semdelete", s)'
  BY <1>1, <1>4 DEF Within, DeferOps
<1>6. CountsWaiters' /\ DeletedHasNoWaiters'
  BY <1>5 DEF IInv, Waits, CountsWaiters, DeletedHasNoWaiters
<1>7. QED BY <1>2, <1>3, <1>6 DEF Waits

\* newpid and newsem find a free entry when there is one.
LEMMA NextFromFree ==
    ASSUME NEW N \in Nat \ {0}, NEW start \in Nat, NEW Free, Free \subseteq Nat, Free # {}
    PROVE  NextFrom(start, N, Free) \in Free
<1> DEFINE d(x) == (x - start) % N
           T == {d(x) : x \in Free}
           First(x) == \A y \in Free : d(x) <= d(y)
<1>1. \A x \in Free : d(x) \in Nat OBVIOUS
<1>2. T \subseteq Nat /\ T # {} BY <1>1
<1>3. PICK m \in T : \A y \in T : m <= y
  <2> HIDE DEF T
  <2>1. QED BY <1>2, LeastNat, Zenon
<1>4. \E x \in Free : First(x)
  <2>1. PICK x \in Free : m = d(x) OBVIOUS
  <2>2. \A y \in Free : d(x) <= d(y) BY <1>3, <2>1
  <2>3. QED BY <2>2
<1>5. NextFrom(start, N, Free) = CHOOSE x \in Free : First(x)
  BY DEF NextFrom
<1>6. QED
  <2> HIDE DEF First
  <2>1. QED BY <1>4, <1>5, Zenon

LEMMA CreateOK == ASSUME IInv, NEW prio \in Prios, create(prio) PROVE IInv'
<1> DEFINE pid == NextFrom(nextpid, NPROC, FreePids)
           Made(stk) == /\ prcount' = prcount + 1
                        /\ prstate' = [prstate EXCEPT ![pid] = "SUSP"]
                        /\ prprio' = [prprio EXCEPT ![pid] = prio]
                        /\ prstk' = [prstk EXCEPT ![pid] = stk]
                        /\ freestks' = freestks \ {stk}
                        /\ prsem' = [prsem EXCEPT ![pid] = -1]
                        /\ prparent' = [prparent EXCEPT ![pid] = currpid]
                        /\ prhasmsg' = [prhasmsg EXCEPT ![pid] = FALSE]
           NotMade == UNCHANGED <<prstate, prprio, prstk, prsem, prparent, prhasmsg,
                                  prcount, freestks>>
<1>1. /\ FreePids # {} /\ nextpid' = (pid + 1) % NPROC
      /\ NotMade \/ \E stk \in freestks : Made(stk)
      /\ UNCHANGED <<readylist, qkey, currpid, preempt, attempt, prmsg, sstate, scount,
                     squeue, nextsem, sleepq, ndefers, cont, halted>>
  BY DEF create, sems
<1>2. ndefers = 0 /\ ndefers' = 0 BY <1>1, CallOK DEF create
<1>3. pid \in Pids /\ prstate[pid] = "FREE"
  <2>1. FreePids \subseteq Nat /\ NPROC \in Nat \ {0} /\ nextpid \in Nat
    <3>1. nextpid \in Pids BY DEF IInv, TypeOK, TypeProc
    <3>2. FreePids \subseteq Pids BY DEF FreePids
    <3>3. QED BY <3>1, <3>2, PidsFacts, SizesAssumption
  <2>2. pid \in FreePids BY <1>1, <2>1, NextFromFree, Zenon
  <2>3. QED BY <2>2 DEF FreePids
<1> HIDE DEF pid
<1>4. nextpid' \in Pids
  <2>1. pid \in Nat BY <1>3, PidsFacts
  <2>2. QED BY <1>1, <2>1, SizesAssumption DEF Pids
<1>5. currpid' \in Pids /\ cont' \in Conts
  BY <1>1 DEF IInv, TypeOK, TypeSched, TypeRest, Conts
<1>6. CASE NotMade
  <2>1. TypeOK'
    BY <1>1, <1>4, <1>6 DEF IInv, TypeOK, TypeSched, TypeProc, TypeMsgs, TypeSems, TypeRest
  <2>2. DeferralOwned' /\ Waits' BY <1>1, <1>2, <1>5, <1>6, OutsideOK
  <2>3. Sched' /\ SleepMatches' /\ ReceiverHasMessage' /\ RestsValid'
    BY <1>1, <1>6 DEF IInv, Sched, ReadyMatches, ProcessorBusy, SleepMatches,
                      Calling, ReceiverHasMessage, RestsValid
  <2>4. QED BY <2>1, <2>2, <2>3 DEF IInv, Calling
<1>7. ASSUME NEW stk \in freestks, Made(stk) PROVE IInv'
  <2>1. stk \in Stacks /\ prio \in Int /\ "SUSP" \in States
    BY ArgsAssumption DEF IInv, TypeOK, TypeProc, States
  <2>2. TypeOK'
    <3>1. TypeSched' BY <1>1, <1>3, <1>7, <2>1 DEF IInv, TypeOK, TypeSched
    <3>2. TypeProc'
      <4>1. /\ prprio \in [Pids -> Int] /\ prsem \in [Pids -> Sems \cup {-1, 0}]
            /\ prparent \in [Pids -> Pids] /\ prcount \in Int
            /\ prstk \in [Pids -> Stacks \cup {NoStack}] /\ freestks \subseteq Stacks
        BY DEF IInv, TypeOK, TypeProc
      <4>2. currpid \in Pids BY DEF IInv, TypeOK, TypeSched
      <4>3. QED BY <1>3, <1>4, <1>7, <2>1, <4>1, <4>2 DEF TypeProc
    <3>3. TypeMsgs' /\ TypeSems' /\ TypeRest'
      BY <1>1, <1>3, <1>7 DEF IInv, TypeOK, TypeMsgs, TypeSems, TypeRest
    <3>4. QED BY <3>1, <3>2, <3>3 DEF TypeOK
  <2>3. Sched'
    BY <1>1, <1>3, <1>7
    DEF IInv, TypeOK, TypeSched, Sched, ReadyMatches, ProcessorBusy
  <2>4. SleepMatches'
    BY <1>1, <1>3, <1>7 DEF IInv, TypeOK, TypeSched, SleepMatches
  <2>5. DeferralOwned' /\ Waits'
    <3>1. /\ \A p \in Pids : prstate'[p] = "WAIT" <=> prstate[p] = "WAIT"
          /\ \A p \in Pids : prstate[p] = "WAIT" => prsem'[p] = prsem[p]
      BY <1>3, <1>7 DEF IInv, TypeOK, TypeSched, TypeProc
    <3>2. QED BY <1>1, <1>2, <1>5, <3>1, OutsideOK
  <2>6. ReceiverHasMessage' /\ RestsValid'
    BY <1>1, <1>3, <1>7, <2>1
    DEF IInv, TypeOK, TypeSched, TypeProc, TypeMsgs, Calling, ReceiverHasMessage, RestsValid
  <2>7. QED BY <2>2, <2>3, <2>4, <2>5, <2>6 DEF IInv, Calling
<1>8. QED BY <1>1, <1>6, <1>7

LEMMA ChprioOK ==
    ASSUME IInv, NEW p \in Pids, NEW prio \in NewPrios, chprio(p, prio) PROVE IInv'
<1>1. prprio' \in [Pids -> Int] BY ArgsAssumption DEF chprio, IInv, TypeOK, TypeProc
<1>2. UNCHANGED <<prstate, readylist, qkey, currpid, preempt, attempt, prmsg, prhasmsg,
                  sstate, scount, squeue, prsem, prparent, prstk, nextpid, freestks,
                  nextsem, sleepq, prcount, ndefers, cont, halted>>
  BY DEF chprio, sched, msgs, sems
<1>3. TypeOK'
  BY <1>1, <1>2 DEF IInv, TypeOK, TypeSched, TypeProc, TypeMsgs, TypeSems, TypeRest
<1>4. Sched' /\ SleepMatches' /\ Waits' /\ Calling'
  BY <1>2 DEF IInv, Sched, ReadyMatches, ProcessorBusy, SleepMatches, Waits,
         WaitMatches, CountsWaiters, DeletedHasNoWaiters, Within, Calling,
         DeferralOwned, ReceiverHasMessage, RestsValid
<1>5. QED BY <1>3, <1>4 DEF IInv

LEMMA SemcreateOK == ASSUME IInv, NEW n \in Counts, semcreate(n) PROVE IInv'
<1> DEFINE s == NextFrom(nextsem, NSEM, FreeSems)
<1>1. /\ nextsem' = (s + 1) % NSEM
      /\ sstate' = [sstate EXCEPT ![s] = "S_USED"]
      /\ scount' = [scount EXCEPT ![s] = n]
      /\ FreeSems # {}
      /\ UNCHANGED <<prstate, readylist, qkey, currpid, preempt, attempt, prmsg, prhasmsg,
                     squeue, prprio, prsem, prparent, prstk, nextpid, freestks,
                     sleepq, prcount, ndefers, cont, halted>>
  BY DEF semcreate, sched, msgs, alloc
<1>2. s \in Sems /\ sstate[s] = "S_FREE" /\ NSEM \in Nat \ {0}
  <2>1. FreeSems \subseteq Nat /\ NSEM \in Nat \ {0} /\ nextsem \in Nat
    <3>1. NSEM \in Nat /\ nextsem \in Nat BY SizesAssumption DEF IInv, TypeOK, TypeSems
    <3>2. FreeSems \subseteq Nat BY DEF FreeSems, Sems
    <3>3. NSEM # 0 BY <1>1 DEF FreeSems, Sems
    <3>4. QED BY <3>1, <3>2, <3>3
  <2>2. s \in FreeSems BY <1>1, <2>1, NextFromFree, Zenon
  <2>3. QED BY <2>1, <2>2 DEF FreeSems
<1> HIDE DEF s
<1>3. nextsem' \in Nat
  <2>1. s \in Nat BY <1>2 DEF Sems
  <2>2. QED BY <1>1, <1>2, <2>1
<1>4. n \in Nat BY ArgsAssumption
<1>5. TypeOK'
  <2>1. TypeSched' /\ TypeProc' /\ TypeMsgs' /\ TypeRest'
    BY <1>1 DEF IInv, TypeOK, TypeSched, TypeProc, TypeMsgs, TypeRest
  <2>2. TypeSems' BY <1>1, <1>2, <1>3, <1>4 DEF IInv, TypeOK, TypeSems
  <2>3. QED BY <2>1, <2>2 DEF TypeOK
<1>6. Sched' /\ SleepMatches' /\ WaitMatches' /\ Calling'
  BY <1>1 DEF IInv, Sched, ReadyMatches, ProcessorBusy, SleepMatches, Waits,
         WaitMatches, Calling, DeferralOwned, ReceiverHasMessage, RestsValid
<1>7. squeue[s] = << >>
  <2>1. cont[currpid].op = "user" BY CallOK DEF semcreate
  <2>2. ~Within("semdelete", s) BY <2>1 DEF Within
  <2>3. QED BY <1>2, <2>2 DEF IInv, Waits, DeletedHasNoWaiters
<1>8. CountsWaiters'
  BY <1>1, <1>2, <1>4, <1>7
  DEF IInv, TypeOK, TypeSems, Waits, CountsWaiters, Within
<1>9. DeletedHasNoWaiters'
  BY <1>1, <1>2 DEF IInv, TypeOK, TypeSems, Waits, DeletedHasNoWaiters, Within
<1>10. QED BY <1>5, <1>6, <1>8, <1>9 DEF IInv, Waits
-----------------------------------------------------------------------------
\* Messages.

\* At most p is woken, out of a receive.
Woken(p, new) ==
    \A q \in Pids : \/ new[q] = prstate[q]
                    \/ /\ new[q] \in Eligible
                       /\ prstate[q] \in Eligible \/ (q = p /\ prstate[q] \in {"RECV", "RECTIM"})

\* The sleep queue without a process that becomes ready.
LEMMA SleeperLeaves ==
    ASSUME TypeOK, SleepMatches, NEW p \in Pids, prstate[p] \in {"SLEEP", "RECTIM"}
    PROVE  /\ OnQueue(sleepq, p)
           /\ getitem(p, sleepq) \in Seq(Pids) /\ NoDup(getitem(p, sleepq))
           /\ \A x : OnQueue(getitem(p, sleepq), x) <=> OnQueue(sleepq, x) /\ x # p
           /\ unsleepKeys(p, sleepq, qkey) \in [Pids -> Int]
<1>1. OnQueue(sleepq, p) /\ NoDup(sleepq) BY DEF SleepMatches
<1>2. sleepq \in Seq(Pids) /\ qkey \in [Pids -> Int] BY DEF TypeOK, TypeRest, TypeSched
<1>3. unsleepKeys(p, sleepq, qkey) \in [Pids -> Int] BY <1>1, <1>2, UnsleepKeys
<1>4. QED BY <1>1, <1>2, <1>3, GetitemQueue

LEMMA DeliverOK ==
    ASSUME IInv, NEW p \in Pids, NEW m \in Msgs \cup Pids, Accepts(p), deliver(p, m)
    PROVE  /\ SchedPost' /\ attempt' \in BOOLEAN /\ HandsOver
           /\ Woken(p, prstate') /\ prstate'[p] \notin {"RECV", "RECTIM"}
           /\ sleepq' \in Seq(Pids) /\ SleepMatches'
           /\ prhasmsg' = [prhasmsg EXCEPT ![p] = TRUE] /\ TypeMsgs'
<1>1. TypeOK /\ Sched /\ SleepMatches /\ qkey \in [Pids -> Int] /\ sleepq \in Seq(Pids)
  BY DEF IInv, TypeOK, TypeSched, TypeRest
<1>2. prhasmsg' = [prhasmsg EXCEPT ![p] = TRUE] /\ TypeMsgs'
  BY <1>1 DEF deliver, TypeOK, TypeMsgs
<1>3. prstate \in [Pids -> States] BY <1>1 DEF TypeOK, TypeSched
<1>4. CASE /\ prstate[p] = "RECV" /\ ready(p, prstate, readylist, qkey)
           /\ UNCHANGED sleepq
  <2>1. prstate[p] \notin Eligible BY <1>4 DEF Eligible
  <2>2. /\ SchedPost' /\ Kept([prstate EXCEPT ![p] = "READY"], prstate')
        /\ attempt' \in BOOLEAN /\ HandsOver
    BY <1>1, <1>4, <2>1, ReadyOK DEF HandsOver
  <2>3. Woken(p, prstate') BY <1>3, <1>4, <2>2 DEF Kept, Woken, Eligible
  <2>4. SleepMatches' BY <1>1, <1>4, <2>3 DEF SleepMatches, Woken, Eligible
  <2>5. prstate'[p] \in Eligible BY <1>3, <2>2 DEF Kept, Eligible
  <2>6. QED BY <1>1, <1>2, <1>4, <2>2, <2>3, <2>4, <2>5 DEF Eligible
<1>5. CASE prstate[p] = "RECTIM" /\ ReadySleeper(p)
  <2> DEFINE ks == unsleepKeys(p, sleepq, qkey)
  <2>1. /\ OnQueue(sleepq, p)
        /\ sleepq' \in Seq(Pids) /\ NoDup(sleepq')
        /\ \A x : OnQueue(sleepq', x) <=> OnQueue(sleepq, x) /\ x # p
        /\ ks \in [Pids -> Int]
    BY <1>1, <1>5, SleeperLeaves DEF ReadySleeper
  <2>2. prstate[p] \notin Eligible /\ ready(p, prstate, readylist, ks)
    BY <1>5 DEF Eligible, ReadySleeper
  <2> HIDE DEF ks
  <2>3. /\ SchedPost' /\ Kept([prstate EXCEPT ![p] = "READY"], prstate')
        /\ attempt' \in BOOLEAN /\ HandsOver
    BY <1>1, <2>1, <2>2, ReadyOK DEF HandsOver
  <2>4. Woken(p, prstate') BY <1>3, <1>5, <2>3 DEF Kept, Woken, Eligible
  <2>5. prstate'[p] \in Eligible BY <1>3, <2>3 DEF Kept, Eligible
  <2>6. SleepMatches'
    BY <1>1, <1>5, <2>1, <2>4, <2>5 DEF SleepMatches, Woken, Eligible
  <2>7. QED BY <1>2, <2>1, <2>3, <2>4, <2>5, <2>6 DEF Eligible
<1>6. CASE prstate[p] \notin {"RECV", "RECTIM"} /\ UNCHANGED <<sched, sleepq>>
  <2>1. UNCHANGED <<prstate, readylist, qkey, currpid, preempt, attempt, sleepq>>
    BY <1>6 DEF sched
  <2>2. SchedPost'
    BY <1>1, <2>1 DEF TypeOK, TypeSched, Sched, SchedPost, ReadyMatches, ProcessorBusy
  <2>3. SleepMatches' BY <1>1, <2>1 DEF SleepMatches
  <2>4. QED BY <1>1, <1>2, <1>6, <2>1, <2>2, <2>3 DEF Woken, HandsOver, TypeOK, TypeSched
<1>7. QED BY <1>4, <1>5, <1>6 DEF deliver

\* What kill leaves its caller to do.
KillLeft(k) == k.op = "kill" /\ k.arg \in Pids \ {NULLPROC} /\ prstk[k.arg] \in Stacks

\* A call that delivers a message to p, or none, and leaves the rest of kill
\* or nothing to do.
LEMMA SentOK ==
    ASSUME IInv, ndefers = 0, cont[currpid].op = "user",
           NEW p \in Pids, NEW m \in Msgs \cup Pids,
           \/ Accepts(p) /\ deliver(p, m)
           \/ UNCHANGED <<sched, msgs, sleepq>>,
           cont' \in Conts, \A q \in Pids \ {currpid} : cont'[q] = cont[q],
           cont'[currpid].op = "user" \/ KillLeft(cont'[currpid]),
           prcount' \in Int, halted' \in BOOLEAN,
           UNCHANGED <<sems, alloc, nextsem, ndefers>>
    PROVE  IInv'
<1>1. UNCHANGED <<sstate, scount, squeue, prprio, prsem, prparent, prstk, nextpid,
                  freestks, nextsem, ndefers>>
  BY DEF sems, alloc
<1>2. /\ prhasmsg \in [Pids -> BOOLEAN] /\ ReceiverHasMessage /\ currpid \in Pids
      /\ prstate[currpid] = "CURR" /\ SleepMatches
  BY DEF IInv, TypeOK, TypeSched, TypeMsgs, Calling, Sched, ProcessorBusy
<1>3. /\ SchedPost' /\ attempt' \in BOOLEAN /\ Woken(p, prstate')
      /\ sleepq' \in Seq(Pids) /\ SleepMatches' /\ TypeMsgs'
      /\ \/ /\ prhasmsg'[p] /\ ~prhasmsg[p] /\ prstate'[p] \notin {"RECV", "RECTIM"}
            /\ \A q \in Pids \ {p} : prhasmsg'[q] = prhasmsg[q]
         \/ UNCHANGED <<prstate, prhasmsg>>
  <2>1. CASE Accepts(p) /\ deliver(p, m)
    <3>1. /\ SchedPost' /\ attempt' \in BOOLEAN
          /\ Woken(p, prstate') /\ prstate'[p] \notin {"RECV", "RECTIM"}
          /\ sleepq' \in Seq(Pids) /\ SleepMatches'
          /\ prhasmsg' = [prhasmsg EXCEPT ![p] = TRUE] /\ TypeMsgs'
      BY <2>1, DeliverOK
    <3>2. /\ prhasmsg'[p] /\ ~prhasmsg[p]
          /\ \A q \in Pids \ {p} : prhasmsg'[q] = prhasmsg[q]
      BY <1>2, <2>1, <3>1 DEF Accepts
    <3>3. QED BY <3>1, <3>2
  <2>2. CASE UNCHANGED <<sched, msgs, sleepq>>
    <3>1. UNCHANGED <<prstate, readylist, qkey, currpid, preempt, attempt, prmsg,
                      prhasmsg, sleepq>>
      BY <2>2 DEF sched, msgs
    <3>2. SchedPost' /\ attempt' \in BOOLEAN
      BY <3>1 DEF IInv, TypeOK, TypeSched, Sched, SchedPost, ReadyMatches, ProcessorBusy
    <3>3. TypeMsgs' /\ sleepq' \in Seq(Pids) BY <3>1 DEF IInv, TypeOK, TypeMsgs, TypeRest
    <3>4. SleepMatches' BY <1>2, <3>1 DEF SleepMatches
    <3>5. QED BY <3>1, <3>2, <3>3, <3>4 DEF Woken
  <2>3. QED BY <2>1, <2>2
<1>4. TypeOK'
  <2>1. TypeSched' BY <1>3 DEF SchedPost, TypeSched
  <2>2. TypeProc' /\ TypeSems' BY <1>1 DEF IInv, TypeOK, TypeProc, TypeSems
  <2>3. TypeRest' BY <1>1, <1>3 DEF IInv, TypeOK, TypeRest, Conts
  <2>4. QED BY <1>3, <2>1, <2>2, <2>3 DEF TypeOK
<1>5. DeferralOwned' /\ Waits'
  <2>1. \A q \in Pids : prstate'[q] = "WAIT" <=> prstate[q] = "WAIT"
    BY <1>3 DEF Woken, Eligible
  <2>2. \A q \in Pids : cont[q].op \notin DeferOps => cont'[q].op \notin DeferOps
    <3>1. cont'[currpid].op \notin DeferOps BY DEF DeferOps, KillLeft
    <3>2. QED BY <3>1
  <2>3. currpid' \in Pids BY <1>3 DEF SchedPost
  <2>4. QED BY <1>1, <2>1, <2>2, <2>3, OutsideOK
<1>6. ReceiverHasMessage'
  <2>1. ASSUME NEW q \in Pids, prhasmsg'[q] = prhasmsg[q],
               prstate'[q] = prstate[q] \/ q # p
        PROVE  /\ prstate'[q] = "RECV" => cont'[q].op = "receive" /\ ~prhasmsg'[q]
               /\ prstate'[q] = "RECTIM" => cont'[q].op = "recvtime" /\ ~prhasmsg'[q]
               /\ cont'[q].op = "receive" /\ prstate'[q] # "RECV" => prhasmsg'[q]
    <3>1. CASE q = currpid
      BY <1>2, <1>3, <2>1, <3>1 DEF Woken, Eligible, KillLeft, ReceiverHasMessage
    <3>2. CASE q # currpid
      BY <1>2, <1>3, <2>1, <3>2 DEF Woken, Eligible, ReceiverHasMessage
    <3>3. QED BY <3>1, <3>2
  <2>2. CASE UNCHANGED <<prstate, prhasmsg>> BY <2>1, <2>2 DEF ReceiverHasMessage
  <2>3. CASE /\ prhasmsg'[p] /\ ~prhasmsg[p] /\ prstate'[p] \notin {"RECV", "RECTIM"}
             /\ \A q \in Pids \ {p} : prhasmsg'[q] = prhasmsg[q]
    BY <2>1, <2>3 DEF ReceiverHasMessage
  <2>4. QED BY <1>3, <2>2, <2>3
<1>7. RestsValid'
  <2>1. \A q \in Pids : prstate'[q] = "FREE" <=> prstate[q] = "FREE"
    BY <1>3 DEF Woken, Eligible
  <2>2. ASSUME NEW q \in Pids
        PROVE  /\ cont'[q].op = "kill" =>
                    cont'[q].arg \in Pids \ {NULLPROC} /\ prstk[cont'[q].arg] \in Stacks
               /\ cont'[q].op \in {"semdelete", "semreset", "signaln"} => cont'[q].arg \in Sems
               /\ prstate[q] = "FREE" => cont'[q].op = "user"
    BY <1>2 DEF IInv, Calling, RestsValid, KillLeft
  <2>3. QED BY <1>1, <2>1, <2>2 DEF IInv, Calling, RestsValid
<1>8. QED BY <1>3, <1>4, <1>5, <1>6, <1>7 DEF IInv, Calling, Sched, SchedPost

LEMMA SendOK == ASSUME IInv, NEW p \in Pids, NEW m \in Msgs, send(p, m) PROVE IInv'
<1>1. /\ Call("send") /\ Accepts(p) /\ deliver(p, m)
      /\ UNCHANGED <<sems, alloc, nextsem, ndefers>> /\ UNCHANGED <<prcount, cont, halted>>
  BY DEF send
<1>2. ndefers = 0 /\ cont[currpid].op = "user" BY <1>1, CallOK
<1>3. cont' \in Conts /\ prcount' \in Int /\ halted' \in BOOLEAN
  BY <1>1 DEF IInv, TypeOK, TypeRest, TypeProc, Conts
<1>4. QED BY <1>1, <1>2, <1>3, SentOK

\* The running process takes its message, or nothing, and is done.
LEMMA TakeOK ==
    ASSUME IInv, ndefers = 0, cont' \in Conts, cont'[currpid].op = "user",
           \A q \in Pids \ {currpid} : cont'[q] = cont[q],
           prhasmsg' = [prhasmsg EXCEPT ![currpid] = FALSE] \/ UNCHANGED prhasmsg,
           UNCHANGED <<sched, prmsg, sems, alloc, nextsem, sleepq, prcount, ndefers, halted>>
    PROVE  IInv'
<1>1. UNCHANGED <<prstate, readylist, qkey, currpid, preempt, attempt, prmsg, sstate,
                  scount, squeue, prprio, prsem, prparent, prstk, nextpid, freestks,
                  nextsem, sleepq, prcount, ndefers, halted>>
  BY DEF sched, sems, alloc
<1>2. currpid \in Pids /\ prstate[currpid] = "CURR" /\ prhasmsg \in [Pids -> BOOLEAN]
  BY DEF IInv, TypeOK, TypeSched, TypeMsgs, Sched, ProcessorBusy
<1>3. TypeOK'
  <2>1. TypeSched' /\ TypeProc' /\ TypeSems' /\ TypeRest'
    BY <1>1 DEF IInv, TypeOK, TypeSched, TypeProc, TypeSems, TypeRest, Conts
  <2>2. TypeMsgs' BY <1>1, <1>2 DEF IInv, TypeOK, TypeMsgs
  <2>3. QED BY <2>1, <2>2 DEF TypeOK
<1>4. Sched' /\ SleepMatches'
  BY <1>1 DEF IInv, Sched, ReadyMatches, ProcessorBusy, SleepMatches
<1>5. DeferralOwned' /\ Waits'
  <2>1. \A p \in Pids : cont[p].op \notin DeferOps => cont'[p].op \notin DeferOps
    BY DEF DeferOps
  <2>2. QED BY <1>1, <1>2, <2>1, OutsideOK
<1>6. ReceiverHasMessage'
  <2>1. \A q \in Pids \ {currpid} : prhasmsg'[q] = prhasmsg[q] BY <1>2
  <2>2. QED BY <1>1, <1>2, <2>1 DEF IInv, Calling, ReceiverHasMessage
<1>7. RestsValid' BY <1>1, <1>2 DEF IInv, Calling, RestsValid
<1>8. QED BY <1>3, <1>4, <1>5, <1>6, <1>7 DEF IInv, Calling

\* User and the rests of receive and recvtime are things to have left.
LEMMA ThenOK ==
    ASSUME IInv, NEW op \in Ops, NEW a \in Nat, NEW n \in Nat, Then(Rest(op, a, n))
    PROVE  /\ cont' \in Conts /\ cont'[currpid].op = op /\ cont'[currpid].arg = a
           /\ cont'[currpid].n = n
           /\ \A q \in Pids \ {currpid} : cont'[q] = cont[q]
<1>1. currpid \in Pids /\ cont \in Conts BY DEF IInv, TypeOK, TypeSched, TypeRest, Conts
<1>2. Rest(op, a, n) \in [op : Ops, arg : Nat, n : Nat] BY DEF Rest
<1>3. cont' = [cont EXCEPT ![currpid] = Rest(op, a, n)] BY DEF Then
<1>4. cont' \in Conts /\ cont'[currpid] = Rest(op, a, n) BY <1>1, <1>2, <1>3 DEF Conts
<1>5. QED BY <1>1, <1>3, <1>4 DEF Rest, Conts

\* Rests that begin outside deferrals.
LEMMA NoDeferral ==
    ASSUME IInv, NEW op \in {"user", "receive", "recvtime", "kill", "clkhandler"}, In(op)
    PROVE  ndefers = 0 /\ currpid \in Pids /\ prstate[currpid] = "CURR"
  BY DEF IInv, In, Calling, DeferralOwned, DeferOps, TypeOK, TypeSched, Sched, ProcessorBusy

LEMMA ReceiveRestOK == ASSUME IInv, receiveRest \/ recvtimeRest PROVE IInv'
<1>1. ndefers = 0 BY NoDeferral DEF receiveRest, recvtimeRest
<1>2. /\ prhasmsg' = [prhasmsg EXCEPT ![currpid] = FALSE] \/ UNCHANGED prhasmsg
      /\ UNCHANGED <<sched, prmsg, sems, alloc, nextsem, sleepq, prcount, ndefers, halted>>
  BY DEF receiveRest, recvtimeRest, TakeMsg, msgs
<1>3. Then(User) BY DEF receiveRest, recvtimeRest
<1>4. /\ cont' \in Conts /\ cont'[currpid].op = "user"
      /\ \A q \in Pids \ {currpid} : cont'[q] = cont[q]
  BY <1>3, ThenOK DEF User, Ops
<1>5. QED BY <1>1, <1>2, <1>4, TakeOK

\* The running process blocks in state st with op left to do, on the sleep
\* queue if st is a timed state.
LEMMA BlockedOK ==
    ASSUME IInv, ndefers = 0, cont[currpid].op = "user",
           NEW st \in {"RECV", "RECTIM", "SLEEP"}, ~prhasmsg[currpid] \/ st = "SLEEP",
           SchedPost', attempt' \in BOOLEAN,
           Kept([prstate EXCEPT ![currpid] = st], prstate'),
           sleepq' \in Seq(Pids), NoDup(sleepq'),
           \A x \in Pids : OnQueue(sleepq', x) <=>
                OnQueue(sleepq, x) \/ (x = currpid /\ st # "RECV"),
           cont' \in Conts,
           cont'[currpid].op = IF st = "RECV" THEN "receive"
                               ELSE IF st = "RECTIM" THEN "recvtime" ELSE "user",
           \A q \in Pids \ {currpid} : cont'[q] = cont[q],
           UNCHANGED <<msgs, sems, alloc, nextsem, prcount, ndefers, halted>>
    PROVE  IInv'
<1>1. UNCHANGED <<prmsg, prhasmsg, sstate, scount, squeue, prprio, prsem, prparent, prstk,
                  nextpid, freestks, nextsem, prcount, ndefers, halted>>
  BY DEF msgs, sems, alloc
<1>2. currpid \in Pids /\ prstate[currpid] = "CURR" /\ prstate \in [Pids -> States]
  BY DEF IInv, TypeOK, TypeSched, Sched, ProcessorBusy
<1>3. /\ prstate'[currpid] = st
      /\ \A q \in Pids \ {currpid} : \/ prstate'[q] = prstate[q]
                                     \/ prstate[q] \in Eligible /\ prstate'[q] \in Eligible
  <2> DEFINE ps == [prstate EXCEPT ![currpid] = st]
  <2>1. ps[currpid] = st /\ \A q \in Pids \ {currpid} : ps[q] = prstate[q] BY <1>2
  <2>2. Kept(ps, prstate') OBVIOUS
  <2> HIDE DEF ps
  <2>3. QED BY <1>2, <2>1, <2>2 DEF Kept, Eligible
<1>4. TypeOK'
  <2>1. TypeSched' BY DEF SchedPost, TypeSched
  <2>2. TypeProc' /\ TypeMsgs' /\ TypeSems' /\ TypeRest'
    BY <1>1 DEF IInv, TypeOK, TypeProc, TypeMsgs, TypeSems, TypeRest, Conts
  <2>3. QED BY <2>1, <2>2 DEF TypeOK
<1>5. Sched' BY DEF SchedPost, Sched
<1>6. SleepMatches'
  BY <1>2, <1>3 DEF IInv, SleepMatches, Eligible
<1>7. DeferralOwned' /\ Waits'
  <2>1. \A p \in Pids : cont[p].op \notin DeferOps => cont'[p].op \notin DeferOps
    <3>1. cont'[currpid].op \notin DeferOps BY DEF DeferOps
    <3>2. QED BY <3>1
  <2>2. \A q \in Pids : prstate'[q] = "WAIT" <=> prstate[q] = "WAIT"
    BY <1>2, <1>3 DEF Eligible
  <2>3. currpid' \in Pids BY DEF SchedPost
  <2>4. QED BY <1>1, <2>1, <2>2, <2>3, OutsideOK
<1>8. ReceiverHasMessage'
  BY <1>1, <1>2, <1>3 DEF IInv, Calling, ReceiverHasMessage, Eligible
<1>9. RestsValid'
  BY <1>1, <1>2, <1>3 DEF IInv, Calling, RestsValid, Eligible
<1>10. QED BY <1>4, <1>5, <1>6, <1>7, <1>8, <1>9 DEF IInv, Calling

\* A call that takes the message that is there.
LEMMA TakenOK ==
    ASSUME IInv, NEW c, Call(c), TakeMsg,
           UNCHANGED <<sched, cont, sems, alloc, nextsem, sleepq, prcount, ndefers, halted>>
    PROVE  IInv'
<1>1. ndefers = 0 /\ cont[currpid].op = "user" BY CallOK
<1>2. /\ prhasmsg' = [prhasmsg EXCEPT ![currpid] = FALSE]
      /\ UNCHANGED <<sched, prmsg, sems, alloc, nextsem, sleepq, prcount, ndefers, halted>>
      /\ UNCHANGED cont
  BY DEF TakeMsg
<1>3. cont \in Conts BY DEF IInv, TypeOK, TypeRest, Conts
<1>4. QED BY <1>1, <1>2, <1>3, TakeOK

LEMMA RecvclrOK == ASSUME IInv, recvclr PROVE IInv'
<1>1. /\ Call("recvclr") /\ TakeMsg
      /\ UNCHANGED <<sched, cont, sems, alloc, nextsem, sleepq, prcount, ndefers, halted>>
  BY DEF recvclr
<1>2. QED BY <1>1, TakenOK

LEMMA ReceiveOK == ASSUME IInv, receive PROVE IInv'
<1>1. CASE prhasmsg[currpid] /\ TakeMsg /\ UNCHANGED <<sched, cont>>
  <2>1. UNCHANGED <<sched, cont, sems, alloc, nextsem, sleepq, prcount, ndefers, halted>>
    BY <1>1 DEF receive
  <2>2. Call("receive") BY DEF receive
  <2>3. QED BY <1>1, <2>1, <2>2, TakenOK
<1>2. CASE /\ ~prhasmsg[currpid]
           /\ Block("RECV", qkey) /\ Then(Rest("receive", 0, 0)) /\ UNCHANGED msgs
  <2>1. Call("receive") BY DEF receive
  <2>2. ndefers = 0 /\ currpid # NULLPROC /\ cont[currpid].op = "user" BY <2>1, CallOK
  <2>3. TypeOK /\ Sched /\ SleepMatches /\ qkey \in [Pids -> Int] /\ sleepq \in Seq(Pids)
    BY DEF IInv, TypeOK, TypeSched, TypeRest
  <2>4. "RECV" \in States \ Eligible BY DEF States, Eligible
  <2>5. /\ SchedPost' /\ Kept([prstate EXCEPT ![currpid] = "RECV"], prstate')
        /\ attempt' \in BOOLEAN
    BY <1>2, <2>2, <2>3, <2>4, BlockOK
  <2>6. /\ cont' \in Conts /\ cont'[currpid].op = "receive"
        /\ \A q \in Pids \ {currpid} : cont'[q] = cont[q]
    <3>1. "receive" \in Ops /\ 0 \in Nat BY DEF Ops
    <3>2. QED BY <1>2, <3>1, ThenOK
  <2>7. UNCHANGED <<msgs, sems, alloc, nextsem, prcount, ndefers, halted>> /\ UNCHANGED sleepq
    BY <1>2 DEF receive
  <2>8. /\ sleepq' \in Seq(Pids) /\ NoDup(sleepq')
        /\ \A x \in Pids : OnQueue(sleepq', x) <=>
                OnQueue(sleepq, x) \/ (x = currpid /\ "RECV" # "RECV")
    BY <2>3, <2>7 DEF SleepMatches
  <2>9. QED BY <1>2, <2>2, <2>5, <2>6, <2>7, <2>8, BlockedOK
<1>3. QED BY <1>1, <1>2 DEF receive

LEMMA SleepForOK ==
    ASSUME IInv, ndefers = 0, currpid # NULLPROC, NEW delay \in Delays,
           NEW st \in {"RECTIM", "SLEEP"}, SleepFor(delay, st)
    PROVE  /\ SchedPost' /\ attempt' \in BOOLEAN
           /\ Kept([prstate EXCEPT ![currpid] = st], prstate')
           /\ sleepq' \in Seq(Pids) /\ NoDup(sleepq')
           /\ \A x \in Pids : OnQueue(sleepq', x) <=>
                OnQueue(sleepq, x) \/ (x = currpid /\ st # "RECV")
<1> DEFINE ks == insertdKeys(currpid, sleepq, qkey, delay)
<1>1. /\ TypeOK /\ Sched /\ qkey \in [Pids -> Int] /\ sleepq \in Seq(Pids)
      /\ currpid \in Pids /\ prstate[currpid] = "CURR"
  BY DEF IInv, TypeOK, TypeSched, TypeRest, Sched, ProcessorBusy
<1>2. NoDup(sleepq) /\ ~OnQueue(sleepq, currpid) BY <1>1 DEF IInv, SleepMatches
<1>3. delay \in Int BY ArgsAssumption
<1>4. /\ insertd(currpid, sleepq, qkey, delay) \in Seq(Pids)
      /\ NoDup(insertd(currpid, sleepq, qkey, delay))
      /\ \A x : OnQueue(insertd(currpid, sleepq, qkey, delay), x) <=>
                  OnQueue(sleepq, x) \/ x = currpid
      /\ ks \in [Pids -> Int]
  <2>1. Keyed(sleepq, qkey) BY <1>1 DEF Keyed
  <2>2. ks \in [Pids -> Int] BY <1>1, <1>3, InsertdKeys
  <2>3. QED BY <1>1, <1>2, <1>3, <2>1, <2>2, InsertdQueue, Zenon
<1>5. sleepq' = insertd(currpid, sleepq, qkey, delay) /\ Block(st, ks)
  BY DEF SleepFor
<1> HIDE DEF ks
<1>6. st \in States \ Eligible BY DEF States, Eligible
<1>7. /\ SchedPost' /\ attempt' \in BOOLEAN
      /\ Kept([prstate EXCEPT ![currpid] = st], prstate')
  BY <1>1, <1>4, <1>5, <1>6, BlockOK
<1>8. QED BY <1>4, <1>5, <1>7

LEMMA RecvtimeOK == ASSUME IInv, NEW d \in Delays, recvtime(d) PROVE IInv'
<1>1. Call("recvtime") /\ UNCHANGED <<sems, alloc, nextsem, prcount, ndefers, halted>>
  BY DEF recvtime
<1>2. CASE prhasmsg[currpid] /\ TakeMsg /\ UNCHANGED <<sched, sleepq, cont>>
  BY <1>1, <1>2, TakenOK
<1>3. CASE /\ ~prhasmsg[currpid] /\ SleepFor(d, "RECTIM")
           /\ Then(Rest("recvtime", 0, 0)) /\ UNCHANGED msgs
  <2>1. ndefers = 0 /\ currpid # NULLPROC /\ cont[currpid].op = "user" BY <1>1, CallOK
  <2>2. /\ SchedPost' /\ attempt' \in BOOLEAN
        /\ Kept([prstate EXCEPT ![currpid] = "RECTIM"], prstate')
        /\ sleepq' \in Seq(Pids) /\ NoDup(sleepq')
        /\ \A x \in Pids : OnQueue(sleepq', x) <=>
                OnQueue(sleepq, x) \/ (x = currpid /\ "RECTIM" # "RECV")
    BY <1>3, <2>1, SleepForOK
  <2>3. /\ cont' \in Conts /\ cont'[currpid].op = "recvtime"
        /\ \A q \in Pids \ {currpid} : cont'[q] = cont[q]
    <3>1. "recvtime" \in Ops /\ 0 \in Nat BY DEF Ops
    <3>2. QED BY <1>3, <3>1, ThenOK
  <2>4. UNCHANGED <<msgs, sems, alloc, nextsem, prcount, ndefers, halted>> BY <1>1, <1>3
  <2>5. QED BY <1>3, <2>1, <2>2, <2>3, <2>4, BlockedOK
<1>4. QED BY <1>2, <1>3 DEF recvtime

LEMMA SleepmsOK == ASSUME IInv, NEW d \in Delays, sleepms(d) PROVE IInv'
<1>1. /\ Call("sleepms") /\ SleepFor(d, "SLEEP") /\ UNCHANGED cont
      /\ UNCHANGED <<msgs, sems, alloc, nextsem, prcount, ndefers, halted>>
  BY DEF sleepms
<1>2. ndefers = 0 /\ currpid # NULLPROC /\ cont[currpid].op = "user" BY <1>1, CallOK
<1>3. /\ SchedPost' /\ attempt' \in BOOLEAN
      /\ Kept([prstate EXCEPT ![currpid] = "SLEEP"], prstate')
      /\ sleepq' \in Seq(Pids) /\ NoDup(sleepq')
      /\ \A x \in Pids : OnQueue(sleepq', x) <=>
              OnQueue(sleepq, x) \/ (x = currpid /\ "SLEEP" # "RECV")
  BY <1>1, <1>2, SleepForOK
<1>4. /\ cont' \in Conts /\ cont'[currpid].op = "user"
      /\ \A q \in Pids \ {currpid} : cont'[q] = cont[q]
  BY <1>1, <1>2 DEF IInv, TypeOK, TypeRest, Conts
<1>5. QED BY <1>1, <1>2, <1>3, <1>4, BlockedOK

-----------------------------------------------------------------------------
\* kill.
LEMMA KillOK == ASSUME IInv, NEW p \in Pids, kill(p) PROVE IInv'
<1>1. /\ \E c : Call(c)
      /\ p # NULLPROC /\ prstate[p] # "FREE" /\ prcount' = prcount - 1
      /\ Then(Rest("kill", p, 0)) /\ UNCHANGED <<sems, alloc, nextsem, ndefers>>
  BY DEF kill
<1>2. ndefers = 0 /\ cont[currpid].op = "user" BY <1>1, CallOK
<1>3. prcount \in Int /\ prparent[p] \in Pids /\ halted \in BOOLEAN /\ p \in Nat
  BY PidsFacts DEF IInv, TypeOK, TypeProc, TypeRest
<1>4. /\ cont' \in Conts /\ cont'[currpid].op = "kill" /\ cont'[currpid].arg = p
      /\ \A q \in Pids \ {currpid} : cont'[q] = cont[q]
  <2>1. "kill" \in Ops /\ 0 \in Nat BY DEF Ops
  <2>2. QED BY <1>1, <1>3, <2>1, ThenOK
<1>5. KillLeft(cont'[currpid]) BY <1>1, <1>4 DEF KillLeft, IInv, Calling, RestsValid
<1>6. /\ halted' \in BOOLEAN
      /\ \/ Accepts(prparent[p]) /\ deliver(prparent[p], p)
         \/ UNCHANGED <<sched, msgs, sleepq>>
  BY <1>3 DEF kill
<1>7. prcount' \in Int /\ p \in Msgs \cup Pids BY <1>1, <1>3
<1>8. QED BY <1>1, <1>2, <1>3, <1>4, <1>5, <1>6, <1>7, SentOK, Zenon

\* The killed process p is gone, and so is what it had left to do.
LEMMA FreedOK ==
    ASSUME IInv, In("kill"), NEW p \in Pids \ {NULLPROC}, prstk[p] \in Stacks,
           SchedPost', attempt' \in BOOLEAN,
           Kept([prstate EXCEPT ![p] = "FREE"], prstate'),
           sleepq' \in Seq(Pids), SleepMatches', Waits',
           scount' \in [Sems -> Int], squeue' \in [Sems -> Seq(Pids)],
           freestks' = freestks \cup {prstk[p]},
           cont' = [cont EXCEPT ![currpid] = User, ![p] = User],
           UNCHANGED <<msgs, sstate, prprio, prsem, prparent, prstk, nextpid,
                       nextsem, prcount, ndefers, halted>>
    PROVE  IInv'
<1>1. UNCHANGED <<prmsg, prhasmsg, sstate, prprio, prsem, prparent, prstk, nextpid,
                  nextsem, prcount, ndefers, halted>>
  BY DEF msgs
<1>2. ndefers = 0 /\ currpid \in Pids /\ prstate[currpid] = "CURR"
  BY NoDeferral
<1>3. prstate \in [Pids -> States] /\ cont \in Conts
  BY DEF IInv, TypeOK, TypeSched, TypeRest, Conts
<1>4. /\ prstate'[p] = "FREE"
      /\ \A q \in Pids \ {p} : \/ prstate'[q] = prstate[q]
                               \/ prstate[q] \in Eligible /\ prstate'[q] \in Eligible
  <2> DEFINE ps == [prstate EXCEPT ![p] = "FREE"]
  <2>1. ps[p] = "FREE" /\ \A q \in Pids \ {p} : ps[q] = prstate[q] BY <1>3
  <2>2. Kept(ps, prstate') OBVIOUS
  <2> HIDE DEF ps
  <2>3. QED BY <2>1, <2>2 DEF Kept, Eligible
<1>5. /\ cont' \in Conts /\ cont'[currpid].op = "user" /\ cont'[p].op = "user"
      /\ \A q \in Pids \ {currpid, p} : cont'[q] = cont[q]
  BY <1>2, <1>3 DEF Conts, User, Rest, Ops
<1>6. TypeOK'
  <2>1. TypeSched' BY DEF SchedPost, TypeSched
  <2>2. TypeProc' BY <1>1 DEF IInv, TypeOK, TypeProc
  <2>3. TypeMsgs' /\ TypeSems' BY <1>1 DEF IInv, TypeOK, TypeMsgs, TypeSems
  <2>4. TypeRest' BY <1>1, <1>5 DEF IInv, TypeOK, TypeRest, Conts
  <2>5. QED BY <2>1, <2>2, <2>3, <2>4 DEF TypeOK
<1>7. DeferralOwned'
  <2>1. \A q \in Pids : cont[q].op \notin DeferOps
    BY <1>2 DEF IInv, Calling, DeferralOwned
  <2>2. \A q \in Pids : cont'[q].op \notin DeferOps BY <1>5, <2>1 DEF DeferOps
  <2>3. currpid' \in Pids BY DEF SchedPost
  <2>4. QED BY <1>1, <1>2, <2>2, <2>3 DEF DeferralOwned
<1>8. ReceiverHasMessage'
  <2>1. ASSUME NEW q \in Pids
        PROVE  /\ prstate'[q] = "RECV" => cont'[q].op = "receive" /\ ~prhasmsg'[q]
               /\ prstate'[q] = "RECTIM" => cont'[q].op = "recvtime" /\ ~prhasmsg'[q]
               /\ cont'[q].op = "receive" /\ prstate'[q] # "RECV" => prhasmsg'[q]
    <3>1. CASE q \in {currpid, p} BY <1>2, <1>4, <1>5, <3>1 DEF Eligible
    <3>2. CASE q \notin {currpid, p}
      BY <1>1, <1>4, <1>5, <3>2, ZenonT(30) DEF IInv, Calling, ReceiverHasMessage, Eligible
    <3>3. QED BY <3>1, <3>2
  <2>2. QED BY <2>1 DEF ReceiverHasMessage
<1>9. RestsValid'
  <2>1. ASSUME NEW q \in Pids
        PROVE  /\ cont'[q].op = "kill" =>
                    cont'[q].arg \in Pids \ {NULLPROC} /\ prstk[cont'[q].arg] \in Stacks
               /\ cont'[q].op \in {"semdelete", "semreset", "signaln"} => cont'[q].arg \in Sems
               /\ prstate'[q] = "FREE" => cont'[q].op = "user"
               /\ q # NULLPROC /\ prstate'[q] # "FREE" => prstk[q] \in Stacks
    <3>1. CASE q \in {currpid, p}
      BY <1>2, <1>4, <1>5, <3>1 DEF IInv, Calling, RestsValid, Eligible
    <3>2. CASE q \notin {currpid, p}
      BY <1>4, <1>5, <3>2 DEF IInv, Calling, RestsValid, Eligible
    <3>3. QED BY <3>1, <3>2
  <2>2. QED BY <1>1, <2>1 DEF RestsValid
<1>10. QED BY <1>6, <1>7, <1>8, <1>9 DEF IInv, Calling, Sched, SchedPost

LEMMA KillRestOK == ASSUME IInv, killRest PROVE IInv'
<1> DEFINE p == cont[currpid].arg
           gone == [prstate EXCEPT ![p] = "FREE"]
<1>1. /\ In("kill") /\ freestks' = freestks \cup {prstk[p]}
      /\ cont' = [cont EXCEPT ![currpid] = User, ![p] = User]
      /\ UNCHANGED <<msgs, sstate, prprio, prsem, prparent, prstk, nextpid,
                     nextsem, prcount, ndefers, halted>>
  BY DEF killRest
<1>2. ndefers = 0 /\ ndefers' = 0 /\ currpid \in Pids /\ prstate[currpid] = "CURR"
  BY <1>1, NoDeferral
<1>3. p \in Pids \ {NULLPROC} /\ prstk[p] \in Stacks
  BY <1>1, <1>2 DEF In, IInv, Calling, RestsValid
<1>4. /\ TypeOK /\ Sched /\ SleepMatches /\ prstate \in [Pids -> States] /\ cont \in Conts
      /\ sleepq \in Seq(Pids) /\ readylist \in Seq(Pids) /\ qkey \in [Pids -> Int]
      /\ scount \in [Sems -> Int] /\ squeue \in [Sems -> Seq(Pids)]
      /\ prsem' = prsem /\ sstate' = sstate
  BY <1>1 DEF IInv, TypeOK, TypeSched, TypeRest, TypeSems, Conts
<1>5. /\ prstate'= gone => Kept(gone, prstate')
      /\ gone \in [Pids -> States] /\ gone[p] = "FREE"
      /\ \A q \in Pids \ {p} : gone[q] = prstate[q]
  BY <1>3, <1>4 DEF Kept, States
<1>6. cont' \in Conts
      /\ \A q \in Pids : cont[q].op \notin DeferOps => cont'[q].op \notin DeferOps
  BY <1>1, <1>2, <1>3, <1>4 DEF Conts, User, Rest, Ops, DeferOps
<1> HIDE DEF p, gone
\* The ready list and the processor, when p was not eligible.
<1>7. ASSUME prstate[p] \notin Eligible, prstate' = gone, qkey' \in [Pids -> Int],
             UNCHANGED <<readylist, currpid, preempt, attempt>>
      PROVE  SchedPost' /\ attempt' \in BOOLEAN
  BY <1>3, <1>4, <1>5, <1>7, PidsFacts
  DEF TypeOK, TypeSched, Sched, SchedPost, ReadyMatches, ProcessorBusy, Eligible
\* The semaphores, when p did not wait.
<1>8. ASSUME prstate[p] # "WAIT", Kept(gone, prstate'), SchedPost',
             UNCHANGED <<scount, squeue>>
      PROVE  Waits'
  <2>1. \A q \in Pids : prstate'[q] = "WAIT" <=> prstate[q] = "WAIT"
    BY <1>3, <1>5, <1>8 DEF Kept, Eligible
  <2>2. currpid' \in Pids BY <1>8 DEF SchedPost
  <2>3. QED BY <1>2, <1>4, <1>6, <1>8, <2>1, <2>2, OutsideOK
\* The sleep queue, when p was not on it.
<1>9. ASSUME ~(prstate[p] \in {"SLEEP", "RECTIM"}), Kept(gone, prstate'), UNCHANGED sleepq
      PROVE  SleepMatches' /\ sleepq' \in Seq(Pids)
  BY <1>3, <1>4, <1>5, <1>9 DEF SleepMatches, Kept, Eligible
<1>10. CASE /\ prstate[p] = "CURR" /\ resched(gone, readylist, qkey, preempt)
            /\ UNCHANGED <<sleepq, scount, squeue>>
  <2>1. p = currpid BY <1>3, <1>4, <1>10 DEF Sched, ProcessorBusy
  <2>2. SchedPost' /\ Kept(gone, prstate') /\ attempt' \in BOOLEAN
    <3>1. Block("FREE", qkey) BY <1>10, <2>1 DEF Block, gone
    <3>2. "FREE" \in States \ Eligible BY DEF States, Eligible
    <3>3. QED BY <1>2, <1>3, <1>4, <2>1, <3>1, <3>2, BlockOK DEF gone
  <2>3. Waits' BY <1>8, <1>10, <2>2
  <2>4. SleepMatches' /\ sleepq' \in Seq(Pids) BY <1>9, <1>10, <2>2
  <2>5. QED BY <1>1, <1>3, <1>4, <1>10, <2>2, <2>3, <2>4, FreedOK DEF gone
<1>11. CASE /\ prstate[p] \in {"SLEEP", "RECTIM"}
            /\ sleepq' = getitem(p, sleepq) /\ qkey' = unsleepKeys(p, sleepq, qkey)
            /\ prstate' = gone
            /\ UNCHANGED <<readylist, currpid, preempt, attempt, scount, squeue>>
  <2>1. /\ sleepq' \in Seq(Pids) /\ NoDup(sleepq') /\ qkey' \in [Pids -> Int]
        /\ \A x : OnQueue(sleepq', x) <=> OnQueue(sleepq, x) /\ x # p
    BY <1>3, <1>4, <1>11, SleeperLeaves
  <2>2. SleepMatches' BY <1>3, <1>4, <1>5, <1>11, <2>1 DEF SleepMatches
  <2>3. SchedPost' /\ attempt' \in BOOLEAN BY <1>7, <1>11, <2>1 DEF Eligible
  <2>4. Waits' BY <1>5, <1>8, <1>11, <2>3
  <2>5. QED BY <1>1, <1>3, <1>4, <1>5, <1>11, <2>1, <2>2, <2>3, <2>4, FreedOK DEF gone
<1>12. CASE /\ prstate[p] = "WAIT" /\ prstate' = gone
            /\ scount' = [scount EXCEPT ![prsem[p]] = @ + 1]
            /\ squeue' = [squeue EXCEPT ![prsem[p]] = getitem(p, @)]
            /\ UNCHANGED <<readylist, qkey, currpid, preempt, attempt, sleepq>>
  <2> DEFINE s == prsem[p]
             q1 == getitem(p, squeue[s])
  <2>1. /\ s \in Sems /\ OnQueue(squeue[s], p) /\ NoDup(squeue[s])
        /\ squeue[s] \in Seq(Pids)
    BY <1>3, <1>4, <1>12 DEF IInv, Waits, WaitMatches
  <2>2. /\ q1 \in Seq(Pids) /\ Len(q1) = Len(squeue[s]) - 1 /\ NoDup(q1)
        /\ \A x : OnQueue(q1, x) <=> OnQueue(squeue[s], x) /\ x # p
    BY <2>1, GetitemQueue
  <2>3. /\ scount' \in [Sems -> Int] /\ squeue' \in [Sems -> Seq(Pids)]
        /\ squeue'[s] = q1 /\ scount'[s] = scount[s] + 1
        /\ \A t \in Sems \ {s} : squeue'[t] = squeue[t] /\ scount'[t] = scount[t]
    BY <1>4, <1>12, <2>1, <2>2
  <2> HIDE DEF s, q1
  <2>4. SchedPost' /\ attempt' \in BOOLEAN BY <1>4, <1>7, <1>12 DEF Eligible
  <2>5. SleepMatches' /\ sleepq' \in Seq(Pids) BY <1>5, <1>9, <1>12
  <2>6. WaitMatches'
    <3>1. ASSUME NEW t \in Sems, NEW x \in Pids
          PROVE  OnQueue(squeue'[t], x) <=> prstate'[x] = "WAIT" /\ prsem[x] = t
      <4>1. OnQueue(squeue[t], x) <=> prstate[x] = "WAIT" /\ prsem[x] = t
        BY DEF IInv, Waits, WaitMatches
      <4>2. x # p => prstate'[x] = prstate[x] BY <1>5, <1>12
      <4>3. prstate'[p] # "WAIT" BY <1>5, <1>12
      <4>4. t # s => (x = p => prsem[x] # t) BY DEF s
      <4>5. QED BY <2>2, <2>3, <4>1, <4>2, <4>3, <4>4
    <3>2. \A t \in Sems : NoDup(squeue'[t])
      BY <2>2, <2>3 DEF IInv, Waits, WaitMatches
    <3>3. \A x \in Pids : prstate'[x] = "WAIT" => prsem[x] \in Sems
      BY <1>5, <1>12 DEF IInv, Waits, WaitMatches
    <3>4. QED BY <1>4, <3>1, <3>2, <3>3 DEF WaitMatches
  <2>7. \A t \in Sems : /\ ~Within("semreset", t) /\ ~Within("semdelete", t)
                        /\ ~Within("semreset", t)' /\ ~Within("semdelete", t)'
    <3>1. cont[currpid].op = "kill" BY <1>1 DEF In
    <3>2. cont'[currpid'].op = "user" BY <1>1, <1>2, <1>3, <1>4, <1>12 DEF Conts, User, Rest
    <3>3. QED BY <3>1, <3>2 DEF Within
  <2>8. CountsWaiters'
    <3>1. \A t \in Sems : Len(squeue[t]) = IF scount[t] < 0 THEN -scount[t] ELSE 0
      BY <2>7 DEF IInv, Waits, CountsWaiters
    <3>2. Len(squeue[s]) \in Nat \ {0} BY <2>1 DEF OnQueue
    <3>3. Len(squeue'[s]) = IF scount'[s] < 0 THEN -scount'[s] ELSE 0
      <4>1. scount[s] \in Int BY <1>4, <2>1
      <4>2. QED BY <2>1, <2>2, <2>3, <3>1, <3>2, <4>1
    <3>4. QED BY <2>1, <2>3, <3>1, <3>3 DEF CountsWaiters
  <2>9. DeletedHasNoWaiters'
    <3>1. squeue[s] # << >> BY <2>1 DEF OnQueue
    <3>2. QED BY <1>4, <2>1, <2>3, <2>7, <3>1 DEF IInv, Waits, DeletedHasNoWaiters
  <2>10. QED BY <1>1, <1>3, <1>5, <1>12, <2>3, <2>4, <2>5, <2>6, <2>8, <2>9, FreedOK
         DEF Waits, gone
<1>13. CASE /\ prstate[p] = "READY" /\ readylist' = getitem(p, readylist) /\ prstate' = gone
            /\ UNCHANGED <<qkey, currpid, preempt, attempt, sleepq, scount, squeue>>
  <2>1. NoDup(readylist) /\ OnQueue(readylist, p)
    BY <1>3, <1>4, <1>13 DEF Sched, ReadyMatches
  <2>2. /\ readylist' \in Seq(Pids) /\ NoDup(readylist')
        /\ \A x : OnQueue(readylist', x) <=> OnQueue(readylist, x) /\ x # p
    BY <1>4, <1>13, <2>1, GetitemQueue
  <2>3. SchedPost' /\ attempt' \in BOOLEAN
    BY <1>3, <1>4, <1>5, <1>13, <2>2, PidsFacts
    DEF TypeOK, TypeSched, Sched, SchedPost, ReadyMatches, ProcessorBusy
  <2>4. Waits' BY <1>5, <1>8, <1>13, <2>3
  <2>5. SleepMatches' /\ sleepq' \in Seq(Pids) BY <1>5, <1>9, <1>13
  <2>6. QED BY <1>1, <1>3, <1>4, <1>5, <1>13, <2>3, <2>4, <2>5, FreedOK DEF gone
<1>14. CASE /\ prstate[p] \in {"FREE", "SUSP", "RECV"} /\ prstate' = gone
            /\ UNCHANGED <<readylist, qkey, currpid, preempt, attempt, sleepq, scount, squeue>>
  <2>1. SchedPost' /\ attempt' \in BOOLEAN BY <1>4, <1>7, <1>14 DEF Eligible
  <2>2. Waits' BY <1>5, <1>8, <1>14, <2>1
  <2>3. SleepMatches' /\ sleepq' \in Seq(Pids) BY <1>5, <1>9, <1>14
  <2>4. QED BY <1>1, <1>3, <1>4, <1>5, <1>14, <2>1, <2>2, <2>3, FreedOK DEF gone
<1>15. QED BY <1>10, <1>11, <1>12, <1>13, <1>14 DEF killRest, Gone, LeaveSemaphore, p, gone

-----------------------------------------------------------------------------
\* Semaphores.

\* Outside semreset and semdelete of s the length of its queue is its count.
LEMMA QueueLength ==
    ASSUME IInv, NEW s \in Sems, ~Within("semreset", s)
    PROVE  /\ squeue[s] \in Seq(Pids) /\ NoDup(squeue[s]) /\ scount[s] \in Int
           /\ Len(squeue[s]) = IF scount[s] < 0 THEN -scount[s] ELSE 0
  BY DEF IInv, TypeOK, TypeSems, Waits, CountsWaiters, WaitMatches

LEMMA WaitOK == ASSUME IInv, NEW s \in Sems, wait(s) PROVE IInv'
<1>1. /\ Call("wait") /\ sstate[s] = "S_USED" /\ scount' = [scount EXCEPT ![s] = @ - 1]
      /\ UNCHANGED <<prmsg, prhasmsg, sstate, prprio, prparent, prstk, nextpid, freestks,
                     nextsem, sleepq, prcount, ndefers, cont, halted>>
  BY DEF wait, msgs
<1>2. /\ ndefers = 0 /\ currpid # NULLPROC /\ cont[currpid].op = "user"
      /\ currpid \in Pids /\ prstate[currpid] = "CURR"
  BY <1>1, CallOK
<1>3. /\ TypeOK /\ Sched /\ SleepMatches /\ prstate \in [Pids -> States] /\ cont \in Conts
      /\ qkey \in [Pids -> Int] /\ prsem \in [Pids -> Sems \cup {-1, 0}]
      /\ scount \in [Sems -> Int] /\ squeue \in [Sems -> Seq(Pids)]
  BY DEF IInv, TypeOK, TypeSched, TypeProc, TypeRest, TypeSems, Conts
<1>4. /\ scount' \in [Sems -> Int] /\ scount'[s] = scount[s] - 1
      /\ \A t \in Sems \ {s} : scount'[t] = scount[t]
  BY <1>1, <1>3
<1>5. \A t \in Sems : ~Within("semreset", t) /\ ~Within("semdelete", t)
  BY <1>2 DEF Within
<1>6. /\ squeue[s] \in Seq(Pids) /\ NoDup(squeue[s]) /\ scount[s] \in Int
      /\ Len(squeue[s]) = IF scount[s] < 0 THEN -scount[s] ELSE 0
  BY <1>5, QueueLength
<1>7. \A p \in Pids : cont[p].op \notin DeferOps
  BY <1>2 DEF IInv, Calling, DeferralOwned
<1>8. CASE scount[s] - 1 >= 0 /\ UNCHANGED <<sched, prsem, squeue>>
  <2>1. UNCHANGED <<prstate, readylist, qkey, currpid, preempt, attempt, prsem, squeue>>
    BY <1>8 DEF sched
  <2>2. TypeOK'
    BY <1>1, <1>4, <2>1 DEF IInv, TypeOK, TypeSched, TypeProc, TypeMsgs, TypeSems, TypeRest
  <2>3. Sched' /\ SleepMatches' /\ WaitMatches' /\ DeletedHasNoWaiters' /\ Calling'
    BY <1>1, <2>1 DEF IInv, Sched, ReadyMatches, ProcessorBusy, SleepMatches, Waits,
       WaitMatches, DeletedHasNoWaiters, Within, Calling, DeferralOwned,
       ReceiverHasMessage, RestsValid
  <2>4. CountsWaiters'
    BY <1>4, <1>5, <1>6, <1>8, <2>1 DEF IInv, Waits, CountsWaiters
  <2>5. QED BY <2>2, <2>3, <2>4 DEF IInv, Waits
<1>9. CASE /\ scount[s] - 1 < 0 /\ prsem' = [prsem EXCEPT ![currpid] = s]
           /\ squeue' = [squeue EXCEPT ![s] = enqueue(currpid, @)]
           /\ Block("WAIT", qkey)
  <2> DEFINE q1 == enqueue(currpid, squeue[s])
  <2>1. "WAIT" \in States \ Eligible BY DEF States, Eligible
  <2>2. /\ SchedPost' /\ Kept([prstate EXCEPT ![currpid] = "WAIT"], prstate')
        /\ attempt' \in BOOLEAN
    BY <1>2, <1>3, <1>9, <2>1, BlockOK
  <2>3. /\ prstate'[currpid] = "WAIT"
        /\ \A q \in Pids \ {currpid} : \/ prstate'[q] = prstate[q]
                                       \/ prstate[q] \in Eligible /\ prstate'[q] \in Eligible
    <3> DEFINE ps == [prstate EXCEPT ![currpid] = "WAIT"]
    <3>1. ps[currpid] = "WAIT" /\ \A q \in Pids \ {currpid} : ps[q] = prstate[q]
      BY <1>2, <1>3
    <3>2. Kept(ps, prstate') BY <2>2
    <3> HIDE DEF ps
    <3>3. QED BY <1>2, <3>1, <3>2 DEF Kept, Eligible
  <2>4. ~OnQueue(squeue[s], currpid) BY <1>2 DEF IInv, Waits, WaitMatches
  <2>5. /\ q1 \in Seq(Pids) /\ Len(q1) = Len(squeue[s]) + 1 /\ NoDup(q1)
        /\ \A x : OnQueue(q1, x) <=> OnQueue(squeue[s], x) \/ x = currpid
    BY <1>2, <1>6, <2>4, EnqueueQueue
  <2>6. /\ squeue' \in [Sems -> Seq(Pids)] /\ squeue'[s] = q1
        /\ \A t \in Sems \ {s} : squeue'[t] = squeue[t]
    BY <1>3, <1>9, <2>5
  <2>7. /\ prsem' \in [Pids -> Sems \cup {-1, 0}] /\ prsem'[currpid] = s
        /\ \A q \in Pids \ {currpid} : prsem'[q] = prsem[q]
    BY <1>2, <1>3, <1>9
  <2> HIDE DEF q1
  <2>8. TypeOK'
    <3>1. TypeSched' BY <2>2 DEF SchedPost, TypeSched
    <3>2. TypeProc' BY <1>1, <2>7 DEF IInv, TypeOK, TypeProc
    <3>3. TypeMsgs' /\ TypeRest' BY <1>1 DEF IInv, TypeOK, TypeMsgs, TypeRest
    <3>4. TypeSems' BY <1>1, <1>4, <2>6 DEF IInv, TypeOK, TypeSems
    <3>5. QED BY <3>1, <3>2, <3>3, <3>4 DEF TypeOK
  <2>9. SleepMatches' BY <1>1, <1>2, <1>3, <2>3 DEF SleepMatches, Eligible
  <2>10. WaitMatches'
    <3>1. ASSUME NEW t \in Sems, NEW x \in Pids
          PROVE  OnQueue(squeue'[t], x) <=> prstate'[x] = "WAIT" /\ prsem'[x] = t
      <4>1. OnQueue(squeue[t], x) <=> prstate[x] = "WAIT" /\ prsem[x] = t
        BY DEF IInv, Waits, WaitMatches
      <4>2. CASE x = currpid BY <1>2, <2>3, <2>4, <2>5, <2>6, <2>7, <4>1, <4>2
      <4>3. CASE x # currpid
        <5>1. prstate'[x] = "WAIT" <=> prstate[x] = "WAIT" BY <2>3, <4>3 DEF Eligible
        <5>2. QED BY <2>5, <2>6, <2>7, <4>1, <4>3, <5>1
      <4>4. QED BY <4>2, <4>3
    <3>2. \A t \in Sems : NoDup(squeue'[t])
      BY <2>5, <2>6 DEF IInv, Waits, WaitMatches
    <3>3. \A x \in Pids : prstate'[x] = "WAIT" => prsem'[x] \in Sems
      BY <2>3, <2>7 DEF IInv, Waits, WaitMatches, Eligible
    <3>4. QED BY <3>1, <3>2, <3>3 DEF WaitMatches
  <2>11. CountsWaiters'
    <3>1. Len(squeue'[s]) = IF scount'[s] < 0 THEN -scount'[s] ELSE 0
      <4>1. Len(squeue'[s]) = Len(squeue[s]) + 1 BY <2>5, <2>6
      <4>2. scount[s] - 1 < 0 BY <1>9
      <4>3. QED BY <1>4, <1>6, <4>1, <4>2
    <3>2. \A t \in Sems : Len(squeue[t]) = IF scount[t] < 0 THEN -scount[t] ELSE 0
      BY <1>5 DEF IInv, Waits, CountsWaiters
    <3>3. \A t \in Sems : Len(squeue'[t]) = IF scount'[t] < 0 THEN -scount'[t] ELSE 0
      BY <1>4, <2>6, <3>1, <3>2
    <3>4. QED BY <3>3 DEF CountsWaiters
  <2>12. DeletedHasNoWaiters'
    BY <1>1, <1>5, <2>6 DEF IInv, Waits, DeletedHasNoWaiters
  <2>13. DeferralOwned'
    <3>1. currpid' \in Pids BY <2>2 DEF SchedPost
    <3>2. QED BY <1>1, <1>2, <1>7, <3>1 DEF DeferralOwned
  <2>14. ReceiverHasMessage' /\ RestsValid'
    BY <1>1, <1>2, <2>3 DEF IInv, Calling, ReceiverHasMessage, RestsValid, Eligible
  <2>15. QED BY <2>2, <2>8, <2>9, <2>10, <2>11, <2>12, <2>13, <2>14
         DEF IInv, Sched, SchedPost, Waits, Calling
<1>10. QED BY <1>8, <1>9 DEF wait

\* A step that wakes waiting or sleeping processes.
Freed(new) ==
    \A q \in Pids : \/ new[q] = prstate[q]
                    \/ /\ new[q] \in Eligible
                       /\ prstate[q] \in Eligible \cup {"WAIT", "SLEEP", "RECTIM"}

\* Only what currpid has left to do changes, to k.
Leaves(k) ==
    /\ cont' \in Conts /\ cont'[currpid] = k
    /\ \A q \in Pids \ {currpid} : cont'[q] = cont[q]

LEMMA CallingOK ==
    ASSUME IInv, DeferralOwned', Freed(prstate'), NEW k, Leaves(k),
           k.op \notin {"receive", "kill"},
           k.op \in {"semdelete", "semreset", "signaln"} => k.arg \in Sems,
           UNCHANGED <<prhasmsg, prstk>>
    PROVE  Calling'
<1>1. currpid \in Pids /\ prstate[currpid] = "CURR"
  BY DEF IInv, TypeOK, TypeSched, Sched, ProcessorBusy
<1>2. ReceiverHasMessage'
  BY <1>1 DEF IInv, Calling, ReceiverHasMessage, Freed, Eligible, Leaves
<1>3. RestsValid'
  BY <1>1 DEF IInv, Calling, RestsValid, Freed, Eligible, Leaves
<1>4. QED BY <1>2, <1>3 DEF Calling

\* A step of the call that currpid is in.
LEMMA SameCall ==
    ASSUME IInv, HandsOver, currpid' \in Pids, UNCHANGED ndefers, NEW k, Leaves(k),
           k.op = cont[currpid].op, k.arg = cont[currpid].arg
    PROVE  /\ DeferralOwned'
           /\ \A s \in Sems, op \in DeferOps : Within(op, s)' <=> Within(op, s)
<1>1. currpid \in Pids /\ ndefers \in 0..1 BY DEF IInv, TypeOK, TypeSched, TypeRest
<1>2. DeferralOwned BY DEF IInv, Calling
<1>3. CASE ndefers = 0
  <2>1. \A p \in Pids : cont'[p].op \notin DeferOps BY <1>1, <1>2, <1>3 DEF DeferralOwned, Leaves
  <2>2. QED BY <1>1, <1>2, <1>3, <2>1 DEF DeferralOwned, Within
<1>4. CASE ndefers = 1
  <2>1. currpid' = currpid BY <1>4 DEF HandsOver
  <2>2. QED BY <1>1, <1>2, <1>4, <2>1 DEF DeferralOwned, Within, Leaves
<1>5. QED BY <1>1, <1>3, <1>4

\* The first process on the queue of s becomes ready.
LEMMA ReleaseOK ==
    ASSUME IInv, NEW s \in Sems, squeue[s] # << >>,
           squeue' = [squeue EXCEPT ![s] = Tail(@)],
           ready(Head(squeue[s]), prstate, readylist, qkey),
           UNCHANGED <<prsem, sleepq>>
    PROVE  /\ SchedPost' /\ attempt' \in BOOLEAN /\ HandsOver /\ Freed(prstate')
           /\ SleepMatches' /\ WaitMatches' /\ squeue' \in [Sems -> Seq(Pids)]
           /\ Len(squeue'[s]) = Len(squeue[s]) - 1
           /\ \A t \in Sems \ {s} : squeue'[t] = squeue[t]
<1> DEFINE p == Head(squeue[s])
<1>1. /\ TypeOK /\ Sched /\ SleepMatches /\ WaitMatches /\ prstate \in [Pids -> States]
      /\ qkey \in [Pids -> Int] /\ squeue \in [Sems -> Seq(Pids)]
      /\ squeue[s] \in Seq(Pids) /\ NoDup(squeue[s])
  BY DEF IInv, TypeOK, TypeSched, TypeSems, Waits, WaitMatches
<1>2. /\ p \in Pids /\ Tail(squeue[s]) \in Seq(Pids) /\ OnQueue(squeue[s], p)
      /\ Len(Tail(squeue[s])) = Len(squeue[s]) - 1 /\ NoDup(Tail(squeue[s]))
      /\ \A x : OnQueue(Tail(squeue[s]), x) <=> OnQueue(squeue[s], x) /\ x # p
  BY <1>1, DequeueQueue, Zenon
<1>3. /\ squeue' \in [Sems -> Seq(Pids)] /\ squeue'[s] = Tail(squeue[s])
      /\ \A t \in Sems \ {s} : squeue'[t] = squeue[t]
  BY <1>1, <1>2
<1> HIDE DEF p
<1>4. prstate[p] = "WAIT" /\ prsem[p] = s BY <1>1, <1>2 DEF WaitMatches
<1>5. /\ SchedPost' /\ Kept([prstate EXCEPT ![p] = "READY"], prstate')
      /\ attempt' \in BOOLEAN /\ HandsOver
  <2>1. prstate[p] \notin Eligible BY <1>4 DEF Eligible
  <2>2. ready(p, prstate, readylist, qkey) BY DEF p
  <2>3. QED BY <1>1, <1>2, <2>1, <2>2, ReadyOK DEF HandsOver
<1>6. /\ prstate'[p] \in Eligible
      /\ \A q \in Pids \ {p} : \/ prstate'[q] = prstate[q]
                               \/ prstate[q] \in Eligible /\ prstate'[q] \in Eligible
  BY <1>1, <1>2, <1>5 DEF Kept, Eligible
<1>7. Freed(prstate') BY <1>4, <1>6 DEF Freed
<1>8. SleepMatches' BY <1>1, <1>2, <1>4, <1>6 DEF SleepMatches, Eligible
<1>9. WaitMatches'
  <2>1. ASSUME NEW t \in Sems, NEW x \in Pids
        PROVE  OnQueue(squeue'[t], x) <=> prstate'[x] = "WAIT" /\ prsem[x] = t
    <3>1. OnQueue(squeue[t], x) <=> prstate[x] = "WAIT" /\ prsem[x] = t
      BY <1>1 DEF WaitMatches
    <3>2. CASE x = p BY <1>2, <1>3, <1>4, <1>6, <3>1, <3>2 DEF Eligible
    <3>3. CASE x # p
      <4>1. prstate'[x] = "WAIT" <=> prstate[x] = "WAIT" BY <1>6, <3>3 DEF Eligible
      <4>2. QED BY <1>2, <1>3, <3>1, <3>3, <4>1
    <3>4. QED BY <3>2, <3>3
  <2>2. \A t \in Sems : NoDup(squeue'[t]) BY <1>1, <1>2, <1>3 DEF WaitMatches
  <2>3. \A x \in Pids : prstate'[x] = "WAIT" => prsem[x] \in Sems
    BY <1>1, <1>4, <1>6 DEF WaitMatches, Eligible
  <2>4. QED BY <2>1, <2>2, <2>3 DEF WaitMatches
<1>10. QED BY <1>2, <1>3, <1>5, <1>7, <1>8, <1>9

\* One round of signal, within whatever call currpid is in.
LEMMA SignalOnceOK ==
    ASSUME IInv, NEW s \in Sems, ~Within("semreset", s), SignalOnce(s),
           NEW k, Leaves(k), k.op = cont[currpid].op, k.arg = cont[currpid].arg,
           cont[currpid].op \notin {"receive", "kill"},
           UNCHANGED <<msgs, sstate, alloc, nextsem, sleepq, prcount, ndefers, halted>>
    PROVE  IInv'
<1>1. UNCHANGED <<prmsg, prhasmsg, sstate, prprio, prsem, prparent, prstk, nextpid,
                  freestks, nextsem, sleepq, prcount, ndefers, halted>>
  BY DEF msgs, alloc
<1>2. /\ squeue[s] \in Seq(Pids) /\ NoDup(squeue[s]) /\ scount[s] \in Int
      /\ Len(squeue[s]) = IF scount[s] < 0 THEN -scount[s] ELSE 0
  BY QueueLength
<1>3. /\ scount' \in [Sems -> Int] /\ scount'[s] = scount[s] + 1
      /\ \A t \in Sems \ {s} : scount'[t] = scount[t]
  BY DEF SignalOnce, IInv, TypeOK, TypeSems
<1>4. /\ SchedPost' /\ attempt' \in BOOLEAN /\ HandsOver /\ Freed(prstate')
      /\ SleepMatches' /\ WaitMatches' /\ squeue' \in [Sems -> Seq(Pids)]
      /\ Len(squeue'[s]) = IF scount'[s] < 0 THEN -scount'[s] ELSE 0
      /\ \A t \in Sems \ {s} : squeue'[t] = squeue[t]
      /\ squeue[s] = << >> => squeue'[s] = << >>
  <2>1. CASE /\ scount[s] < 0 /\ squeue' = [squeue EXCEPT ![s] = Tail(@)]
             /\ ready(Head(squeue[s]), prstate, readylist, qkey)
    <3>1. squeue[s] # << >> BY <1>2, <2>1
    <3>2. /\ SchedPost' /\ attempt' \in BOOLEAN /\ HandsOver /\ Freed(prstate')
          /\ SleepMatches' /\ WaitMatches' /\ squeue' \in [Sems -> Seq(Pids)]
          /\ Len(squeue'[s]) = Len(squeue[s]) - 1
          /\ \A t \in Sems \ {s} : squeue'[t] = squeue[t]
      BY <1>1, <2>1, <3>1, ReleaseOK
    <3>3. Len(squeue'[s]) = IF scount'[s] < 0 THEN -scount'[s] ELSE 0
      <4>1. scount[s] < 0 /\ Len(squeue'[s]) = Len(squeue[s]) - 1 BY <2>1, <3>2
      <4>2. QED BY <1>2, <1>3, <4>1
    <3>4. QED BY <3>1, <3>2, <3>3
  <2>2. CASE scount[s] >= 0 /\ UNCHANGED <<sched, squeue>>
    <3>1. UNCHANGED <<prstate, readylist, qkey, currpid, preempt, attempt, squeue>>
      BY <2>2 DEF sched
    <3>2. SchedPost' /\ attempt' \in BOOLEAN /\ HandsOver /\ Freed(prstate')
      BY <3>1 DEF IInv, TypeOK, TypeSched, Sched, SchedPost, ReadyMatches,
                  ProcessorBusy, HandsOver, Freed
    <3>3. SleepMatches' /\ WaitMatches' /\ squeue' \in [Sems -> Seq(Pids)]
      BY <1>1, <3>1 DEF IInv, SleepMatches, Waits, WaitMatches, TypeOK, TypeSems
    <3>4. Len(squeue'[s]) = IF scount'[s] < 0 THEN -scount'[s] ELSE 0
      BY <1>2, <1>3, <2>2, <3>1
    <3>5. QED BY <3>1, <3>2, <3>3, <3>4
  <2>3. QED BY <2>1, <2>2 DEF SignalOnce
<1>5. /\ DeferralOwned'
      /\ \A t \in Sems, op \in DeferOps : Within(op, t)' <=> Within(op, t)
  <2>1. currpid' \in Pids BY <1>4 DEF SchedPost
  <2>2. QED BY <1>1, <1>4, <2>1, SameCall
<1>6. "semreset" \in DeferOps /\ "semdelete" \in DeferOps BY DEF DeferOps
<1>7. CountsWaiters' BY <1>3, <1>4, <1>5, <1>6 DEF IInv, Waits, CountsWaiters
<1>8. DeletedHasNoWaiters'
  BY <1>1, <1>4, <1>5, <1>6 DEF IInv, Waits, DeletedHasNoWaiters
<1>9. Calling'
  <2>1. currpid \in Pids BY DEF IInv, TypeOK, TypeSched
  <2>2. k.op \in {"semdelete", "semreset", "signaln"} => k.arg \in Sems
    BY <2>1 DEF IInv, Calling, RestsValid
  <2>3. QED BY <1>1, <1>4, <1>5, <2>2, CallingOK
<1>10. TypeOK'
  <2>1. TypeSched' BY <1>4 DEF SchedPost, TypeSched
  <2>2. TypeProc' /\ TypeMsgs' BY <1>1 DEF IInv, TypeOK, TypeProc, TypeMsgs
  <2>3. TypeSems' BY <1>1, <1>3, <1>4 DEF IInv, TypeOK, TypeSems
  <2>4. TypeRest' BY <1>1 DEF IInv, TypeOK, TypeRest, Leaves, Conts
  <2>5. QED BY <2>1, <2>2, <2>3, <2>4 DEF TypeOK
<1>11. QED BY <1>4, <1>7, <1>8, <1>9, <1>10 DEF IInv, Sched, SchedPost, Waits

LEMMA SignalOK == ASSUME IInv, NEW s \in Sems, signal(s) PROVE IInv'
<1>1. /\ In("user") /\ SignalOnce(s) /\ UNCHANGED cont
      /\ UNCHANGED <<msgs, sstate, alloc, nextsem, sleepq, prcount, ndefers, halted>>
  BY DEF signal, CallOrIntr
<1>2. cont[currpid].op = "user" /\ ~Within("semreset", s) BY <1>1 DEF In, Within
<1>3. Leaves(cont[currpid]) BY <1>1 DEF Leaves, IInv, TypeOK, TypeRest, Conts
<1>4. QED BY <1>1, <1>2, <1>3, SignalOnceOK

\* A deferral begins.
LEMMA DeferStartOK ==
    ASSUME IInv, In("user"), NEW op \in DeferOps, NEW a \in Nat, NEW n \in Nat,
           op # "wakeup" => a \in Sems,
           DEFER_START, Then(Rest(op, a, n)), qkey' \in [Pids -> Int],
           \/ UNCHANGED sstate
           \/ op = "semdelete" /\ sstate' = [sstate EXCEPT ![a] = "S_FREE"],
           UNCHANGED <<prstate, readylist, currpid, preempt, msgs, scount,
                       squeue, alloc, nextsem, sleepq, prcount, halted>>
    PROVE  IInv'
<1>1. UNCHANGED <<prstate, readylist, currpid, preempt, prmsg, prhasmsg, scount, squeue,
                  prprio, prsem, prparent, prstk, nextpid, freestks, nextsem, sleepq,
                  prcount, halted>>
  BY DEF msgs, alloc
<1>2. ndefers = 0 /\ currpid \in Pids /\ prstate[currpid] = "CURR" BY NoDeferral
<1>3. ndefers' = 1 /\ attempt' = FALSE
  <2>1. ndefers' = 1 BY <1>2 DEF DEFER_START
  <2>2. ~(ndefers > 0) BY <1>2
  <2>3. attempt' = (attempt /\ ndefers > 0) BY DEF DEFER_START
  <2>4. attempt' = FALSE BY <2>2, <2>3, Zenon
  <2>5. QED BY <2>1, <2>4
<1>4. op \in Ops BY DEF Ops
<1>5. /\ cont' \in Conts /\ cont'[currpid].op = op /\ cont'[currpid].arg = a
      /\ \A q \in Pids \ {currpid} : cont'[q] = cont[q]
  BY <1>4, ThenOK
<1>6. sstate' \in [Sems -> {"S_FREE", "S_USED"}]
      /\ \A t \in Sems : sstate'[t] = sstate[t] \/ (op = "semdelete" /\ t = a)
  BY DEF IInv, TypeOK, TypeSems
<1>7. TypeOK'
  <2>1. TypeSched' BY <1>1, <1>3 DEF IInv, TypeOK, TypeSched
  <2>2. TypeProc' /\ TypeMsgs' BY <1>1 DEF IInv, TypeOK, TypeProc, TypeMsgs
  <2>3. TypeSems' BY <1>1, <1>6 DEF IInv, TypeOK, TypeSems
  <2>4. TypeRest' BY <1>1, <1>3, <1>5 DEF IInv, TypeOK, TypeRest, Conts
  <2>5. QED BY <2>1, <2>2, <2>3, <2>4 DEF TypeOK
<1>8. Sched' /\ SleepMatches' /\ WaitMatches'
  BY <1>1 DEF IInv, Sched, ReadyMatches, ProcessorBusy, SleepMatches, Waits, WaitMatches
<1>9. \A t \in Sems : ~Within("semreset", t) /\ ~Within("semdelete", t)
  BY DEF In, Within
<1>10. CountsWaiters' BY <1>1, <1>9 DEF IInv, Waits, CountsWaiters
<1>11. DeletedHasNoWaiters'
  <2>1. \A t \in Sems : sstate[t] = "S_FREE" => squeue[t] = << >>
    BY <1>9 DEF IInv, Waits, DeletedHasNoWaiters
  <2>2. op = "semdelete" => Within("semdelete", a)' BY <1>1, <1>5 DEF Within
  <2>3. QED BY <1>1, <1>6, <2>1, <2>2 DEF DeletedHasNoWaiters
<1>12. DeferralOwned'
  <2>1. \A q \in Pids : cont[q].op \notin DeferOps
    BY <1>2 DEF IInv, Calling, DeferralOwned
  <2>2. QED BY <1>1, <1>3, <1>5, <2>1 DEF DeferralOwned
<1>13. Calling'
  <2>1. Freed(prstate') /\ Leaves(cont'[currpid]) BY <1>1, <1>5 DEF Freed, Leaves
  <2>2. op \notin {"receive", "kill"} BY DEF DeferOps
  <2>3. QED BY <1>1, <1>5, <1>12, <2>1, <2>2, CallingOK
<1>14. QED BY <1>7, <1>8, <1>10, <1>11, <1>13 DEF IInv, Waits

\* A deferral ends, with the semaphores in order.
LEMMA DeferStopOK ==
    ASSUME IInv, cont[currpid].op \in DeferOps, DEFER_STOP,
           NEW op \in {"user", "clkhandler"}, Then(Rest(op, 0, 0)),
           scount' \in [Sems -> Int],
           \A t \in Sems : Len(squeue[t]) = IF scount'[t] < 0 THEN -scount'[t] ELSE 0,
           \A t \in Sems : sstate[t] = "S_FREE" => squeue[t] = << >>,
           UNCHANGED <<msgs, sstate, squeue, alloc, nextsem, sleepq, prcount, halted>>
    PROVE  IInv'
<1>1. UNCHANGED <<prmsg, prhasmsg, sstate, squeue, prprio, prsem, prparent, prstk,
                  nextpid, freestks, nextsem, sleepq, prcount, halted>>
  BY DEF msgs, alloc
<1>2. TypeOK /\ Sched /\ DeferralOwned /\ currpid \in Pids
  BY DEF IInv, TypeOK, TypeSched, Calling
<1>3. ndefers' = 0 BY <1>2 DEF DEFER_STOP, DeferralOwned
<1>4. SchedPost' /\ Kept(prstate, prstate') /\ attempt' \in BOOLEAN
  <2>1. /\ SchedPre(prstate, readylist, qkey, currpid) /\ currpid \in Pids
        /\ prprio \in [Pids -> Int] /\ preempt \in 1..QUANTUM /\ attempt \in BOOLEAN
    BY <1>2, SchedPreHolds
  <2>2. attempt' \in BOOLEAN BY <2>1 DEF DEFER_STOP
  <2>3. CASE attempt /\ reschedNow(prstate, readylist, qkey, preempt)
    <3>1. SchedPost' /\ Kept(prstate, prstate') BY <2>1, <2>3, ReschedNowOK, Zenon
    <3>2. QED BY <2>2, <3>1
  <2>4. CASE stay(prstate, readylist, qkey, preempt)
    <3>1. UNCHANGED <<prstate, readylist, qkey, currpid, preempt>> BY <2>4 DEF stay
    <3>2. QED BY <1>2, <2>2, <3>1 DEF TypeOK, TypeSched, Sched, SchedPost, ReadyMatches,
                                  ProcessorBusy, Kept
  <2>5. QED BY <2>3, <2>4 DEF DEFER_STOP
<1>5. Freed(prstate') BY <1>4 DEF Kept, Freed
<1>6. /\ cont' \in Conts /\ cont'[currpid].op = op
      /\ \A q \in Pids \ {currpid} : cont'[q] = cont[q]
  <2>1. op \in Ops /\ 0 \in Nat BY DEF Ops
  <2>2. QED BY <2>1, ThenOK
<1>7. \A q \in Pids : cont'[q].op \notin DeferOps
  BY <1>2, <1>6 DEF DeferralOwned, DeferOps
<1>8. currpid' \in Pids BY <1>4 DEF SchedPost
<1>9. DeferralOwned' BY <1>3, <1>7, <1>8 DEF DeferralOwned
<1>10. Calling'
  <2>1. Leaves(cont'[currpid]) BY <1>6 DEF Leaves
  <2>2. QED BY <1>1, <1>5, <1>6, <1>9, <2>1, CallingOK
<1>11. SleepMatches' /\ WaitMatches'
  BY <1>1, <1>4 DEF IInv, SleepMatches, Waits, WaitMatches, Kept, Eligible
<1>12. CountsWaiters' /\ DeletedHasNoWaiters'
  BY <1>1 DEF CountsWaiters, DeletedHasNoWaiters
<1>13. TypeOK'
  <2>1. TypeSched' BY <1>4 DEF SchedPost, TypeSched
  <2>2. TypeProc' /\ TypeMsgs' BY <1>1 DEF IInv, TypeOK, TypeProc, TypeMsgs
  <2>3. TypeSems' BY <1>1 DEF IInv, TypeOK, TypeSems
  <2>4. TypeRest' BY <1>1, <1>3, <1>6 DEF IInv, TypeOK, TypeRest, Conts
  <2>5. QED BY <2>1, <2>2, <2>3, <2>4 DEF TypeOK
<1>14. QED BY <1>4, <1>10, <1>11, <1>12, <1>13 DEF IInv, Sched, SchedPost, Waits

LEMMA SemsStartOK ==
    ASSUME IInv, NEW s \in Sems, NEW n \in Nat,
           signaln(s, n) \/ semdelete(s) \/ semreset(s, n)
    PROVE  IInv'
<1>1. In("user") BY DEF signaln, semdelete, semreset, Call, CallOrIntr
<1>2. s \in Nat /\ 0 \in Nat BY DEF Sems
<1>3. {"signaln", "semdelete", "semreset"} \subseteq DeferOps BY DEF DeferOps
<1>4. qkey \in [Pids -> Int] BY DEF IInv, TypeOK, TypeSched
<1>5. ASSUME NEW op \in {"signaln", "semdelete", "semreset"}, NEW k \in Nat,
             StartDefer(Rest(op, s, k)),
             \/ UNCHANGED sstate
             \/ op = "semdelete" /\ sstate' = [sstate EXCEPT ![s] = "S_FREE"]
      PROVE  IInv'
  <2>1. /\ DEFER_START /\ Then(Rest(op, s, k)) /\ qkey' \in [Pids -> Int]
        /\ UNCHANGED <<prstate, readylist, currpid, preempt, msgs, scount,
                       squeue, alloc, nextsem, sleepq, prcount, halted>>
    BY <1>4, <1>5 DEF StartDefer
  <2>2. op \in DeferOps BY <1>3
  <2>3. QED BY <1>1, <1>2, <1>5, <2>1, <2>2, DeferStartOK
<1>6. CASE signaln(s, n) BY <1>2, <1>5, <1>6 DEF signaln
<1>7. CASE semdelete(s) BY <1>2, <1>5, <1>7 DEF semdelete
<1>8. CASE semreset(s, n) BY <1>2, <1>5, <1>8 DEF semreset
<1>9. QED BY <1>6, <1>7, <1>8

\* The argument of a call on a semaphore, and its count.
LEMMA SemArg ==
    ASSUME IInv, NEW op \in {"semdelete", "semreset", "signaln"}, In(op)
    PROVE  /\ cont[currpid].op = op /\ op \in DeferOps /\ cont[currpid].arg \in Sems
           /\ currpid \in Pids /\ cont \in Conts
           /\ cont[currpid].arg \in Nat /\ cont[currpid].n \in Nat
<1>1. currpid \in Pids /\ cont \in Conts BY DEF IInv, TypeOK, TypeSched, TypeRest, Conts
<1>2. cont[currpid].arg \in Nat /\ cont[currpid].n \in Nat BY <1>1 DEF Conts
<1>3. QED BY <1>1, <1>2 DEF In, IInv, Calling, RestsValid, DeferOps

LEMMA SignalnRestOK == ASSUME IInv, signalnRest PROVE IInv'
<1> DEFINE s == cont[currpid].arg
           n == cont[currpid].n
<1>1. In("signaln") /\ UNCHANGED <<msgs, sstate, alloc, nextsem, sleepq, prcount, halted>>
  BY DEF signalnRest
<1>2. /\ cont[currpid].op = "signaln" /\ "signaln" \in DeferOps /\ s \in Sems
      /\ currpid \in Pids /\ cont \in Conts /\ s \in Nat /\ n \in Nat
  BY <1>1, SemArg
<1>3. \A t \in Sems : ~Within("semreset", t) /\ ~Within("semdelete", t)
  BY <1>2 DEF Within
<1>4. CASE n > 0 /\ SignalOnce(s) /\ Then(Rest("signaln", s, n - 1)) /\ UNCHANGED ndefers
  <2>1. "signaln" \in Ops /\ n - 1 \in Nat BY <1>2, <1>4 DEF Ops
  <2>2. /\ cont' \in Conts /\ cont'[currpid].op = "signaln" /\ cont'[currpid].arg = s
        /\ \A q \in Pids \ {currpid} : cont'[q] = cont[q]
    BY <1>2, <1>4, <2>1, ThenOK
  <2>3. Leaves(cont'[currpid]) BY <2>2 DEF Leaves
  <2>4. QED BY <1>1, <1>2, <1>3, <1>4, <2>2, <2>3, SignalOnceOK
<1>5. CASE n <= 0 /\ DEFER_STOP /\ Then(User) /\ UNCHANGED <<scount, squeue>>
  <2>1. /\ scount' \in [Sems -> Int]
        /\ \A t \in Sems : Len(squeue[t]) = IF scount'[t] < 0 THEN -scount'[t] ELSE 0
        /\ \A t \in Sems : sstate[t] = "S_FREE" => squeue[t] = << >>
    BY <1>3, <1>5 DEF IInv, TypeOK, TypeSems, Waits, CountsWaiters, DeletedHasNoWaiters
  <2>2. QED BY <1>1, <1>2, <1>5, <2>1, DeferStopOK DEF User
<1>6. QED BY <1>4, <1>5 DEF signalnRest

LEMMA SemdeleteRestOK == ASSUME IInv, semdeleteRest PROVE IInv'
<1> DEFINE s == cont[currpid].arg
<1>1. In("semdelete") /\ UNCHANGED <<msgs, sstate, alloc, nextsem, sleepq, prcount, halted>>
  BY DEF semdeleteRest
<1>2. /\ cont[currpid].op = "semdelete" /\ "semdelete" \in DeferOps /\ s \in Sems
      /\ currpid \in Pids /\ cont \in Conts
  BY <1>1, SemArg
<1>3. \A t \in Sems : ~Within("semreset", t) /\ (t # s => ~Within("semdelete", t))
  BY <1>2 DEF Within
<1>4. CASE scount[s] < 0 /\ SignalOnce(s) /\ UNCHANGED <<ndefers, cont>>
  <2>1. Leaves(cont[currpid]) BY <1>2, <1>4 DEF Leaves
  <2>2. QED BY <1>1, <1>2, <1>3, <1>4, <2>1, SignalOnceOK
<1>5. CASE /\ scount[s] >= 0 /\ scount' = [scount EXCEPT ![s] = @ + 1]
           /\ DEFER_STOP /\ Then(User) /\ UNCHANGED squeue
  <2>1. /\ squeue[s] \in Seq(Pids) /\ scount[s] \in Int
        /\ Len(squeue[s]) = IF scount[s] < 0 THEN -scount[s] ELSE 0
    BY <1>2, <1>3, QueueLength
  <2>2. /\ scount' \in [Sems -> Int] /\ scount'[s] = scount[s] + 1
        /\ \A t \in Sems \ {s} : scount'[t] = scount[t]
    BY <1>2, <1>5, <2>1 DEF IInv, TypeOK, TypeSems
  <2>3. Len(squeue[s]) = 0 /\ squeue[s] = << >> BY <1>5, <2>1
  <2>4. \A t \in Sems : Len(squeue[t]) = IF scount'[t] < 0 THEN -scount'[t] ELSE 0
    <3>1. Len(squeue[s]) = IF scount'[s] < 0 THEN -scount'[s] ELSE 0
      BY <1>5, <2>1, <2>2, <2>3
    <3>2. QED BY <1>3, <2>2, <3>1 DEF IInv, Waits, CountsWaiters
  <2>5. \A t \in Sems : sstate[t] = "S_FREE" => squeue[t] = << >>
    BY <1>3, <2>3 DEF IInv, Waits, DeletedHasNoWaiters
  <2>6. QED BY <1>1, <1>2, <1>5, <2>2, <2>4, <2>5, DeferStopOK DEF User
<1>6. QED BY <1>4, <1>5 DEF semdeleteRest

LEMMA SemresetRestOK == ASSUME IInv, semresetRest PROVE IInv'
<1> DEFINE s == cont[currpid].arg
<1>1. In("semreset") /\ UNCHANGED <<msgs, sstate, alloc, nextsem, sleepq, prcount, halted>>
  BY DEF semresetRest
<1>2. /\ cont[currpid].op = "semreset" /\ "semreset" \in DeferOps /\ s \in Sems
      /\ currpid \in Pids /\ cont \in Conts /\ cont[currpid].n \in Nat
  BY <1>1, SemArg
<1>3. \A t \in Sems : ~Within("semdelete", t) /\ (t # s => ~Within("semreset", t))
                      /\ Within("semreset", s)
  BY <1>2 DEF Within
<1>4. CASE /\ squeue[s] # << >> /\ squeue' = [squeue EXCEPT ![s] = Tail(@)]
           /\ ready(Head(squeue[s]), prstate, readylist, qkey)
           /\ UNCHANGED <<ndefers, cont, scount>>
  <2>1. UNCHANGED <<prmsg, prhasmsg, sstate, prprio, prsem, prparent, prstk, nextpid,
                    freestks, nextsem, sleepq, prcount, halted>>
    BY <1>1 DEF msgs, alloc
  <2>2. /\ SchedPost' /\ attempt' \in BOOLEAN /\ HandsOver /\ Freed(prstate')
        /\ SleepMatches' /\ WaitMatches' /\ squeue' \in [Sems -> Seq(Pids)]
        /\ \A t \in Sems \ {s} : squeue'[t] = squeue[t]
    BY <1>2, <1>4, <2>1, ReleaseOK
  <2>3. Leaves(cont[currpid]) BY <1>2, <1>4 DEF Leaves
  <2>4. /\ DeferralOwned'
        /\ \A t \in Sems, op \in DeferOps : Within(op, t)' <=> Within(op, t)
    <3>1. currpid' \in Pids BY <2>2 DEF SchedPost
    <3>2. QED BY <1>4, <2>2, <2>3, <3>1, SameCall
  <2>5. "semreset" \in DeferOps /\ "semdelete" \in DeferOps BY DEF DeferOps
  <2>6. CountsWaiters'
    BY <1>3, <1>4, <2>2, <2>4, <2>5 DEF IInv, Waits, CountsWaiters
  <2>7. DeletedHasNoWaiters'
    BY <1>2, <1>3, <1>4, <2>1, <2>2, <2>4, <2>5 DEF IInv, Waits, DeletedHasNoWaiters
  <2>8. Calling' BY <1>2, <2>1, <2>2, <2>3, <2>4, CallingOK
  <2>9. TypeOK'
    <3>1. TypeSched' BY <2>2 DEF SchedPost, TypeSched
    <3>2. TypeProc' /\ TypeMsgs' BY <2>1 DEF IInv, TypeOK, TypeProc, TypeMsgs
    <3>3. TypeSems' BY <1>4, <2>1, <2>2 DEF IInv, TypeOK, TypeSems
    <3>4. TypeRest' BY <1>4, <2>1 DEF IInv, TypeOK, TypeRest
    <3>5. QED BY <3>1, <3>2, <3>3, <3>4 DEF TypeOK
  <2>10. QED BY <2>2, <2>6, <2>7, <2>8, <2>9 DEF IInv, Sched, SchedPost, Waits
<1>5. CASE /\ squeue[s] = << >> /\ scount' = [scount EXCEPT ![s] = cont[currpid].n]
           /\ DEFER_STOP /\ Then(User) /\ UNCHANGED squeue
  <2>1. /\ scount' \in [Sems -> Int] /\ scount'[s] = cont[currpid].n
        /\ \A t \in Sems \ {s} : scount'[t] = scount[t]
    BY <1>2, <1>5 DEF IInv, TypeOK, TypeSems
  <2>2. \A t \in Sems : Len(squeue[t]) = IF scount'[t] < 0 THEN -scount'[t] ELSE 0
    <3>1. Len(squeue[s]) = IF scount'[s] < 0 THEN -scount'[s] ELSE 0
      BY <1>2, <1>5, <2>1
    <3>2. QED BY <1>3, <2>1, <3>1 DEF IInv, Waits, CountsWaiters
  <2>3. \A t \in Sems : sstate[t] = "S_FREE" => squeue[t] = << >>
    BY <1>3 DEF IInv, Waits, DeletedHasNoWaiters
  <2>4. QED BY <1>1, <1>2, <1>5, <2>1, <2>2, <2>3, DeferStopOK DEF User
<1>6. QED BY <1>4, <1>5 DEF semresetRest

-----------------------------------------------------------------------------
\* The clock.

\* The end of clkhandler, outside deferrals.
LEMMA TimeSliceOK ==
    ASSUME IInv, ndefers = 0, cont[currpid].op \notin DeferOps,
           NEW qk \in [Pids -> Int], TimeSlice(qk),
           NEW k, Leaves(k), k.op = "user",
           UNCHANGED <<msgs, sems, alloc, nextsem, sleepq, prcount, ndefers, halted>>
    PROVE  IInv'
<1>1. UNCHANGED <<prmsg, prhasmsg, sstate, scount, squeue, prprio, prsem, prparent, prstk,
                  nextpid, freestks, nextsem, sleepq, prcount, ndefers, halted>>
  BY DEF msgs, sems, alloc
<1>2. /\ SchedPre(prstate, readylist, qkey, currpid) /\ currpid \in Pids
      /\ prprio \in [Pids -> Int] /\ preempt \in 1..QUANTUM /\ attempt \in BOOLEAN
  BY SchedPreHolds DEF IInv
<1>3. SchedPre(prstate, readylist, qk, currpid) BY <1>2 DEF SchedPre
<1>4. SchedPost' /\ Kept(prstate, prstate') /\ attempt' \in BOOLEAN
  <2>1. CASE preempt - 1 <= 0
    <3>1. resched(prstate, readylist, qk, QUANTUM) BY <2>1 DEF TimeSlice
    <3>2. QUANTUM \in 1..QUANTUM BY SizesAssumption
    <3>3. ndefers > 0 => prstate[currpid] = "CURR" OBVIOUS
    <3>4. QED BY <1>2, <1>3, <3>1, <3>2, <3>3, ReschedOK, Zenon
  <2>2. CASE ~(preempt - 1 <= 0)
    <3>1. /\ UNCHANGED <<prstate, readylist, currpid, attempt>> /\ qkey' = qk
          /\ preempt' = preempt - 1
      BY <2>2 DEF TimeSlice, stay
    <3>2. preempt' \in 1..QUANTUM BY <1>2, <2>2, <3>1, SizesAssumption
    <3>3. QED BY <1>2, <3>1, <3>2
              DEF IInv, TypeOK, TypeSched, Sched, SchedPost, ReadyMatches, ProcessorBusy, Kept
  <2>3. QED BY <2>1, <2>2
<1>5. Freed(prstate') BY <1>4 DEF Kept, Freed
<1>6. currpid' \in Pids BY <1>4 DEF SchedPost
<1>7. DeferralOwned' /\ Waits'
  <2>1. \A p \in Pids : cont[p].op \notin DeferOps => cont'[p].op \notin DeferOps
    BY DEF Leaves, DeferOps
  <2>2. \A q \in Pids : prstate'[q] = "WAIT" <=> prstate[q] = "WAIT"
    BY <1>4 DEF Kept, Eligible
  <2>3. cont' \in Conts BY DEF Leaves
  <2>4. QED BY <1>1, <1>6, <2>1, <2>2, <2>3, OutsideOK
<1>8. Calling' BY <1>1, <1>5, <1>7, CallingOK
<1>9. SleepMatches' BY <1>1, <1>4 DEF IInv, SleepMatches, Kept, Eligible
<1>10. TypeOK'
  <2>1. TypeSched' BY <1>4 DEF SchedPost, TypeSched
  <2>2. TypeProc' /\ TypeMsgs' /\ TypeSems'
    BY <1>1 DEF IInv, TypeOK, TypeProc, TypeMsgs, TypeSems
  <2>3. TypeRest' BY <1>1 DEF IInv, TypeOK, TypeRest, Leaves, Conts
  <2>4. QED BY <2>1, <2>2, <2>3 DEF TypeOK
<1>11. QED BY <1>4, <1>7, <1>8, <1>9, <1>10 DEF IInv, Sched, SchedPost

LEMMA TickedOK == ASSUME IInv PROVE Ticked \in [Pids -> Int]
<1>1. qkey \in [Pids -> Int] /\ sleepq \in Seq(Pids) BY DEF IInv, TypeOK, TypeSched, TypeRest
<1>2. QED BY <1>1 DEF Ticked

LEMMA ClkhandlerOK == ASSUME IInv, clkhandler PROVE IInv'
<1>1. In("user") /\ UNCHANGED <<msgs, sems, alloc, nextsem, sleepq, prcount, halted>>
  BY DEF clkhandler
<1>2. ndefers = 0 /\ cont[currpid].op = "user" BY <1>1, NoDeferral DEF In
<1>3. Ticked \in [Pids -> Int] BY TickedOK
<1>4. CASE TimeSlice(Ticked) /\ UNCHANGED <<ndefers, cont>>
  <2>1. Leaves(cont[currpid]) BY <1>4 DEF Leaves, IInv, TypeOK, TypeRest, Conts
  <2>2. cont[currpid].op \notin DeferOps BY <1>2 DEF DeferOps
  <2>3. QED BY <1>1, <1>2, <1>3, <1>4, <2>1, <2>2, TimeSliceOK
<1>5. CASE /\ qkey' = Ticked /\ DEFER_START /\ Then(Rest("wakeup", 0, 0))
           /\ UNCHANGED <<prstate, readylist, currpid, preempt>>
  <2>1. "wakeup" \in DeferOps /\ 0 \in Nat BY DEF DeferOps
  <2>2. /\ qkey' \in [Pids -> Int] /\ UNCHANGED sstate
        /\ UNCHANGED <<prstate, readylist, currpid, preempt, msgs, scount, squeue,
                       alloc, nextsem, sleepq, prcount, halted>>
    BY <1>1, <1>3, <1>5 DEF sems
  <2>3. QED BY <1>1, <1>5, <2>1, <2>2, DeferStartOK
<1>6. QED BY <1>4, <1>5 DEF clkhandler

LEMMA ClkhandlerRestOK == ASSUME IInv, clkhandlerRest PROVE IInv'
<1>1. /\ In("clkhandler") /\ TimeSlice(qkey) /\ Then(User)
      /\ UNCHANGED <<msgs, sems, alloc, nextsem, sleepq, prcount, ndefers, halted>>
  BY DEF clkhandlerRest
<1>2. ndefers = 0 /\ cont[currpid].op = "clkhandler" BY <1>1, NoDeferral DEF In
<1>3. cont[currpid].op \notin DeferOps BY <1>2 DEF DeferOps
<1>4. qkey \in [Pids -> Int] BY DEF IInv, TypeOK, TypeSched
<1>5. /\ cont' \in Conts /\ cont'[currpid].op = "user"
      /\ \A q \in Pids \ {currpid} : cont'[q] = cont[q]
  <2>1. "user" \in Ops /\ 0 \in Nat BY DEF Ops
  <2>2. QED BY <1>1, <2>1, ThenOK DEF User
<1>6. Leaves(cont'[currpid]) BY <1>5 DEF Leaves
<1>7. QED BY <1>1, <1>2, <1>3, <1>4, <1>5, <1>6, TimeSliceOK

LEMMA WakeupOK == ASSUME IInv, wakeup PROVE IInv'
<1>1. In("wakeup") /\ UNCHANGED <<msgs, sems, alloc, nextsem, prcount, halted>>
  BY DEF wakeup
<1>2. cont[currpid].op = "wakeup" /\ "wakeup" \in DeferOps BY <1>1 DEF In, DeferOps
<1>3. UNCHANGED <<prmsg, prhasmsg, sstate, scount, squeue, prprio, prsem, prparent, prstk,
                  nextpid, freestks, nextsem, prcount, halted>>
  BY <1>1 DEF msgs, sems, alloc
<1>4. \A t \in Sems : ~Within("semreset", t) /\ ~Within("semdelete", t)
  BY <1>2 DEF Within
<1>5. CASE /\ Expired(qkey) /\ sleepq' = Tail(sleepq)
           /\ ready(Head(sleepq), prstate, readylist, qkey)
           /\ UNCHANGED <<ndefers, cont>>
  <2> DEFINE p == Head(sleepq)
  <2>1. /\ TypeOK /\ Sched /\ SleepMatches /\ prstate \in [Pids -> States]
        /\ qkey \in [Pids -> Int] /\ sleepq \in Seq(Pids) /\ NoDup(sleepq)
        /\ sleepq # << >>
    BY <1>5 DEF IInv, TypeOK, TypeSched, TypeRest, SleepMatches, Expired
  <2>2. /\ p \in Pids /\ Tail(sleepq) \in Seq(Pids) /\ OnQueue(sleepq, p)
        /\ NoDup(Tail(sleepq))
        /\ \A x : OnQueue(Tail(sleepq), x) <=> OnQueue(sleepq, x) /\ x # p
    BY <2>1, DequeueQueue, Zenon
  <2> HIDE DEF p
  <2>3. prstate[p] \in {"SLEEP", "RECTIM"} BY <2>1, <2>2 DEF SleepMatches
  <2>4. /\ SchedPost' /\ Kept([prstate EXCEPT ![p] = "READY"], prstate')
        /\ attempt' \in BOOLEAN /\ HandsOver
    <3>1. prstate[p] \notin Eligible BY <2>3 DEF Eligible
    <3>2. ready(p, prstate, readylist, qkey) BY <1>5 DEF p
    <3>3. QED BY <2>1, <2>2, <3>1, <3>2, ReadyOK DEF HandsOver
  <2>5. /\ prstate'[p] \in Eligible
        /\ \A q \in Pids \ {p} : \/ prstate'[q] = prstate[q]
                                 \/ prstate[q] \in Eligible /\ prstate'[q] \in Eligible
    BY <2>1, <2>2, <2>4 DEF Kept, Eligible
  <2>6. Freed(prstate') BY <2>3, <2>5 DEF Freed
  <2>7. SleepMatches' /\ sleepq' \in Seq(Pids)
    BY <1>5, <2>1, <2>2, <2>5 DEF SleepMatches, Eligible
  <2>8. WaitMatches'
    BY <1>3, <2>3, <2>5 DEF IInv, Waits, WaitMatches, Eligible
  <2>9. Leaves(cont[currpid]) BY <1>5 DEF Leaves, IInv, TypeOK, TypeRest, Conts
  <2>10. /\ DeferralOwned'
         /\ \A t \in Sems, op \in DeferOps : Within(op, t)' <=> Within(op, t)
    <3>1. currpid' \in Pids BY <2>4 DEF SchedPost
    <3>2. QED BY <1>5, <2>4, <2>9, <3>1, SameCall
  <2>11. CountsWaiters' /\ DeletedHasNoWaiters'
    BY <1>3, <1>4 DEF IInv, Waits, CountsWaiters, DeletedHasNoWaiters
  <2>12. Calling' BY <1>2, <1>3, <2>6, <2>9, <2>10, CallingOK
  <2>13. TypeOK'
    <3>1. TypeSched' BY <2>4 DEF SchedPost, TypeSched
    <3>2. TypeProc' /\ TypeMsgs' /\ TypeSems'
      BY <1>3 DEF IInv, TypeOK, TypeProc, TypeMsgs, TypeSems
    <3>3. TypeRest' BY <1>3, <1>5, <2>7 DEF IInv, TypeOK, TypeRest
    <3>4. QED BY <3>1, <3>2, <3>3 DEF TypeOK
  <2>14. QED BY <2>4, <2>7, <2>8, <2>11, <2>12, <2>13 DEF IInv, Sched, SchedPost, Waits
<1>6. CASE DEFER_STOP /\ Then(Rest("clkhandler", 0, 0)) /\ UNCHANGED sleepq
  <2>1. /\ scount' \in [Sems -> Int]
        /\ \A t \in Sems : Len(squeue[t]) = IF scount'[t] < 0 THEN -scount'[t] ELSE 0
        /\ \A t \in Sems : sstate[t] = "S_FREE" => squeue[t] = << >>
    BY <1>3, <1>4 DEF IInv, TypeOK, TypeSems, Waits, CountsWaiters, DeletedHasNoWaiters
  <2>2. UNCHANGED <<msgs, sstate, squeue, alloc, nextsem, sleepq, prcount, halted>>
    BY <1>1, <1>3, <1>6
  <2>3. QED BY <1>2, <1>6, <2>1, <2>2, DeferStopOK
<1>7. QED BY <1>5, <1>6 DEF wakeup

-----------------------------------------------------------------------------
LEMMA InitOK == Init => IInv
<1> SUFFICES ASSUME Init PROVE IInv
  OBVIOUS
<1>1. NULLPROC \in Pids /\ 1 \in Pids /\ 2 % NPROC \in Pids /\ NULLPROC # 1
  BY SizesAssumption DEF Pids
<1>2. PICK s \in Stacks : /\ prstk = [p \in Pids |-> IF p = 1 THEN s ELSE NoStack]
                          /\ freestks = Stacks \ {s}
  BY DEF Init
<1>3. TypeOK
  <2>1. TypeSched
    <3>1. readylist \in Seq(Pids) /\ qkey \in [Pids -> Int] BY <1>1 DEF Init
    <3>2. preempt \in 1..QUANTUM BY SizesAssumption DEF Init
    <3>3. prstate \in [Pids -> States] BY DEF Init, States
    <3>4. QED BY <1>1, <3>1, <3>2, <3>3 DEF Init, TypeSched
  <2>2. TypeProc BY <1>1, <1>2, ArgsAssumption DEF Init, TypeProc
  <2>3. TypeMsgs /\ TypeSems BY DEF Init, TypeMsgs, TypeSems
  <2>4. TypeRest
    <3>1. User \in [op : Ops, arg : Nat, n : Nat] BY DEF User, Rest, Ops
    <3>2. cont = [p \in Pids |-> User] BY DEF Init
    <3>3. sleepq = << >> /\ ndefers = 0 /\ halted = FALSE BY DEF Init
    <3>4. << >> \in Seq(Pids) /\ 0 \in 0..1 OBVIOUS
    <3>5. cont \in [Pids -> [op : Ops, arg : Nat, n : Nat]] BY <3>1, <3>2
    <3>6. sleepq \in Seq(Pids) /\ ndefers \in 0..1 /\ halted \in BOOLEAN
      BY <3>3, <3>4, Zenon
    <3>7. QED BY <3>5, <3>6 DEF TypeRest
  <2>5. QED BY <2>1, <2>2, <2>3, <2>4 DEF TypeOK
<1>4. Sched
  <2>1. NoDup(readylist) /\ \A p \in Pids : OnQueue(readylist, p) <=> p = NULLPROC
    BY <1>1 DEF Init, NoDup, OnQueue
  <2>2. QED BY <1>1, <2>1 DEF Init, Sched, ReadyMatches, ProcessorBusy
<1>5. NoDup(<< >>) /\ \A x : ~OnQueue(<< >>, x)
  BY DEF NoDup, OnQueue
<1>6. SleepMatches BY <1>1, <1>5 DEF Init, SleepMatches
<1>7. Waits
  <2>1. \A t \in Sems : squeue[t] = << >> /\ scount[t] = 0 BY DEF Init
  <2>2. \A p \in Pids : prstate[p] # "WAIT" BY DEF Init
  <2>3. WaitMatches BY <1>5, <2>1, <2>2 DEF WaitMatches
  <2>4. CountsWaiters /\ DeletedHasNoWaiters BY <2>1 DEF CountsWaiters, DeletedHasNoWaiters
  <2>5. QED BY <2>3, <2>4 DEF Waits
<1>8. \A p \in Pids : cont[p].op = "user" BY DEF Init, User, Rest
<1>9. Calling
  <2>1. DeferralOwned
    <3>1. ndefers = 0 /\ currpid \in Pids BY <1>1 DEF Init
    <3>2. \A p \in Pids : cont[p].op \notin DeferOps BY <1>8 DEF DeferOps
    <3>3. QED BY <3>1, <3>2 DEF DeferralOwned
  <2>2. ReceiverHasMessage BY <1>1, <1>8 DEF Init, ReceiverHasMessage
  <2>3. RestsValid BY <1>1, <1>2, <1>8 DEF Init, RestsValid
  <2>4. QED BY <2>1, <2>2, <2>3 DEF Calling
<1>10. QED BY <1>3, <1>4, <1>6, <1>7, <1>9 DEF IInv

LEMMA StutterOK == ASSUME IInv, UNCHANGED vars PROVE IInv'
<1>1. UNCHANGED <<prstate, readylist, qkey, currpid, preempt, attempt, prmsg, prhasmsg,
                  sstate, scount, squeue, prprio, prsem, prparent, prstk, nextpid,
                  freestks, nextsem, sleepq, prcount, ndefers, cont, halted>>
  BY DEF vars, sched, msgs, sems, alloc
<1>2. TypeOK'
  BY <1>1 DEF IInv, TypeOK, TypeSched, TypeProc, TypeMsgs, TypeSems, TypeRest
<1>3. Sched' /\ SleepMatches' /\ Waits' /\ Calling'
  BY <1>1 DEF IInv, Sched, ReadyMatches, ProcessorBusy, SleepMatches, Waits,
     WaitMatches, CountsWaiters, DeletedHasNoWaiters, Within, Calling,
     DeferralOwned, ReceiverHasMessage, RestsValid
<1>4. QED BY <1>2, <1>3 DEF IInv

LEMMA NextOK == ASSUME IInv, [Next]_vars PROVE IInv'
<1>1. CASE UserStep
  <2>1. ASSUME NEW prio \in Prios, create(prio) PROVE IInv' BY <2>1, CreateOK
  <2>2. ASSUME NEW p \in Pids, resume(p) PROVE IInv' BY <2>2, ResumeOK
  <2>3. ASSUME NEW p \in Pids, suspend(p) PROVE IInv' BY <2>3, SuspendOK
  <2>4. ASSUME NEW p \in Pids, kill(p) PROVE IInv' BY <2>4, KillOK
  <2>5. ASSUME NEW p \in Pids, NEW prio \in NewPrios, chprio(p, prio) PROVE IInv'
    BY <2>5, ChprioOK
  <2>6. ASSUME NEW p \in Pids, NEW m \in Msgs, send(p, m) PROVE IInv' BY <2>6, SendOK
  <2>7. CASE receive \/ recvclr \/ yield BY <2>7, ReceiveOK, RecvclrOK, YieldOK
  <2>8. ASSUME NEW d \in Delays, recvtime(d) PROVE IInv' BY <2>8, RecvtimeOK
  <2>9. ASSUME NEW d \in Delays, sleepms(d) PROVE IInv' BY <2>9, SleepmsOK
  <2>10. ASSUME NEW n \in Counts, semcreate(n) PROVE IInv' BY <2>10, SemcreateOK
  <2>11. ASSUME NEW s \in Sems, wait(s) PROVE IInv' BY <2>11, WaitOK
  <2>12. ASSUME NEW s \in Sems, signal(s) PROVE IInv' BY <2>12, SignalOK
  <2>13. ASSUME NEW s \in Sems, semdelete(s) PROVE IInv'
    <3>1. 0 \in Nat OBVIOUS
    <3>2. QED BY <2>13, <3>1, SemsStartOK
  <2>14. ASSUME NEW s \in Sems, NEW n \in Counts, semreset(s, n) \/ signaln(s, n)
         PROVE  IInv'
    <3>1. n \in Nat BY ArgsAssumption
    <3>2. QED BY <2>14, <3>1, SemsStartOK
  <2>15. QED BY <1>1, <2>1, <2>2, <2>3, <2>4, <2>5, <2>6, <2>7, <2>8, <2>9, <2>10,
                <2>11, <2>12, <2>13, <2>14 DEF UserStep
<1>2. CASE KernelStep
  BY <1>2, ReceiveRestOK, KillRestOK, SignalnRestOK, SemdeleteRestOK, SemresetRestOK,
     WakeupOK, ClkhandlerRestOK DEF KernelStep
<1>3. CASE clkhandler BY <1>3, ClkhandlerOK
<1>4. CASE UNCHANGED vars BY <1>4, StutterOK
<1>5. QED BY <1>1, <1>2, <1>3, <1>4 DEF Next, Halted

\* IInv holds in every reachable state of the process manager.
THEOREM Invariance == Spec => []IInv
<1>1. QED BY InitOK, NextOK, PTL DEF Spec

\* The tables and globals keep their types for every size of the tables; in
\* particular preempt, which the code declares unsigned, never reaches 0.
THEOREM TypeCorrect == Spec => []TypeOK
<1>1. IInv => TypeOK BY DEF IInv
<1>2. QED BY <1>1, Invariance, PTL

\* Every process is on exactly the queue that its state names, whatever the
\* interleaving of calls, kills and clock interrupts.
THEOREM QueuesAreRight == Spec => []QueuesMatchStates
<1>1. IInv => QueuesMatchStates BY DEF IInv, Sched, Waits, QueuesMatchStates
<1>2. QED BY <1>1, Invariance, PTL

\* The processor has exactly one CURR process and the null process is always
\* eligible, so resched never dequeues from an empty ready list.
THEOREM ProcessorAlwaysBusy == Spec => []ProcessorBusy
<1>1. IInv => ProcessorBusy BY DEF IInv, Sched
<1>2. QED BY <1>1, Invariance, PTL

\* ndefers is 1 exactly within a call that defers, and no process leaves the
\* processor within one.
THEOREM DeferralIsOwned == Spec => []DeferralOwned
<1>1. IInv => DeferralOwned BY DEF IInv, Calling
<1>2. QED BY <1>1, Invariance, PTL

\* A negative semaphore count is the length of the semaphore's queue.
THEOREM CountIsQueueLength == Spec => []CountsWaiters
<1>1. IInv => CountsWaiters BY DEF IInv, Waits
<1>2. QED BY <1>1, Invariance, PTL

\* A deleted semaphore has nobody on its queue.
THEOREM DeletedIsEmpty == Spec => []DeletedHasNoWaiters
<1>1. IInv => DeletedHasNoWaiters BY DEF IInv, Waits
<1>2. QED BY <1>1, Invariance, PTL

\* A process that comes back from a blocking receive has a message to take.
THEOREM ReceiverIsServed == Spec => []ReceiverHasMessage
<1>1. IInv => ReceiverHasMessage BY DEF IInv, Calling
<1>2. QED BY <1>1, Invariance, PTL
==============================================================================
