-------------------------- MODULE KernelOrderProofs ---------------------------
(***************************************************************************)
(* What Kernel promises about order and accounts: the process of the       *)
(* highest priority runs, messages are kept, the semaphores are those of   *)
(* SemSpec, the accounts of proctab (live processes, stacks) balance, and  *)
(* delays are kept.                                                        *)
(***************************************************************************)
EXTENDS KernelProofs

-----------------------------------------------------------------------------
\* Priorities.  The ready list is in descending order of key and the keys of
\* ready processes are their priorities; nobody ready outranks currpid unless
\* a deferral has put off a reschedule, which attempt remembers.
Keys(ps, rl, qk) ==
    Descending(rl, qk) /\ \A p \in Pids : ps[p] = "READY" => qk[p] = prprio[p]
TopRuns == \A p \in Pids : prstate[p] = "READY" => prprio[p] <= prprio[currpid]
Ordered == Keys(prstate, readylist, qkey) /\ TopRuns
Ranked == /\ Keys(prstate, readylist, qkey)
          /\ ndefers = 0 \/ ~attempt => TopRuns

LEMMA SwitchRanked ==
    ASSUME NEW ps, NEW rl, NEW qk, rl # << >>, prprio \in [Pids -> Int],
           SchedPre(ps, rl, qk, currpid), Keys(ps, rl, qk),
           switch(ps, rl), qkey' = qk, UNCHANGED prprio
    PROVE  Ordered'
<1>1. /\ rl \in Seq(Pids) /\ NoDup(rl) /\ qk \in [Pids -> Int] /\ Descending(rl, qk)
      /\ ps \in [Pids -> States]
  BY DEF SchedPre, Keys
<1>2. /\ Head(rl) \in Pids /\ OnQueue(rl, Head(rl))
      /\ \A x : OnQueue(Tail(rl), x) <=> OnQueue(rl, x) /\ x # Head(rl)
  BY <1>1, DequeueQueue, Zenon
<1>3. /\ Descending(Tail(rl), qk)
      /\ \A x : OnQueue(Tail(rl), x) => qk[Head(rl)] >= qk[x]
  BY <1>1, TailDescending, Zenon
<1>4. /\ ps[Head(rl)] = "READY"
      /\ \A p \in Pids : prstate'[p] = "READY" <=> ps[p] = "READY" /\ p # Head(rl)
  BY <1>1, <1>2 DEF SchedPre, switch
<1>5. ASSUME NEW p \in Pids, prstate'[p] = "READY"
      PROVE  qk[p] = prprio[p] /\ prprio[p] <= prprio[Head(rl)]
  <2>1. ps[p] = "READY" /\ OnQueue(Tail(rl), p) BY <1>2, <1>4, <1>5 DEF SchedPre
  <2>2. qk[Head(rl)] >= qk[p] /\ qk[p] = prprio[p] /\ qk[Head(rl)] = prprio[Head(rl)]
    BY <1>2, <1>3, <1>4, <2>1 DEF Keys
  <2>3. QED BY <1>2, <2>2
<1>6. QED BY <1>3, <1>5 DEF Ordered, Keys, TopRuns, switch

LEMMA ReschedNowRanked ==
    ASSUME NEW ps, NEW rl, NEW qk, NEW pre,
           prprio \in [Pids -> Int], currpid \in Pids,
           SchedPre(ps, rl, qk, currpid), Keys(ps, rl, qk),
           reschedNow(ps, rl, qk, pre), UNCHANGED prprio
    PROVE  Ordered'
<1>1. rl \in Seq(Pids) /\ NoDup(rl) /\ qk \in [Pids -> Int] /\ ps \in [Pids -> States]
  BY DEF SchedPre
<1>2. CASE Remains(ps, rl, qk) /\ stay(ps, rl, qk, pre)
  <2>1. ASSUME NEW p \in Pids, ps[p] = "READY" PROVE prprio[p] <= prprio[currpid]
    <3>1. OnQueue(rl, p) /\ rl # << >> BY <1>1, <2>1 DEF SchedPre, OnQueue
    <3>2. /\ \A x : OnQueue(Tail(rl), x) <=> OnQueue(rl, x) /\ x # Head(rl)
          /\ Head(rl) \in Pids
      BY <1>1, <3>1, DequeueQueue, Zenon
    <3>3. \A x : OnQueue(Tail(rl), x) => qk[Head(rl)] >= qk[x]
      BY <1>1, <3>1, TailDescending, Zenon DEF Keys
    <3>4. prprio[currpid] > qk[Head(rl)] BY <1>2, <3>1 DEF Remains
    <3>5. qk[Head(rl)] >= qk[p] BY <1>1, <3>1, <3>2, <3>3, SMTT(30)
    <3>6. qk[p] = prprio[p] BY <2>1 DEF Keys
    <3>7. QED BY <1>1, <3>2, <3>4, <3>5, <3>6
  <2>2. QED BY <1>2, <2>1 DEF stay, Ordered, Keys, TopRuns
<1>3. CASE /\ ps[currpid] = "CURR"
           /\ switch([ps EXCEPT ![currpid] = "READY"], insert(currpid, rl, qk, prprio[currpid]))
           /\ qkey' = [qk EXCEPT ![currpid] = prprio[currpid]]
  <2> DEFINE ps2 == [ps EXCEPT ![currpid] = "READY"]
             rl2 == insert(currpid, rl, qk, prprio[currpid])
             qk2 == [qk EXCEPT ![currpid] = prprio[currpid]]
  <2>1. Keyed(rl, qk) /\ prprio[currpid] \in Int /\ ~OnQueue(rl, currpid)
    BY <1>1, <1>3 DEF Keyed, SchedPre
  <2>2. /\ rl2 \in Seq(Pids) /\ NoDup(rl2)
        /\ \A x : OnQueue(rl2, x) <=> OnQueue(rl, x) \/ x = currpid
    BY <1>1, <2>1, InsertQueue, ZenonT(60)
  <2>3. Descending(rl2, qk2)
    BY <1>1, <2>1, InsertDescending, Zenon DEF Keys
  <2> HIDE DEF rl2
  <2>4. rl2 # << >> BY <2>2 DEF OnQueue
  <2>5. SchedPre(ps2, rl2, qk2, currpid)
    BY <1>1, <1>3, <2>1, <2>2 DEF SchedPre, States, Eligible
  <2>6. Keys(ps2, rl2, qk2) BY <1>1, <2>3 DEF Keys
  <2> HIDE DEF ps2, qk2
  <2>7. switch(ps2, rl2) /\ qkey' = qk2 BY <1>3 DEF ps2, rl2, qk2
  <2>8. QED BY <2>4, <2>5, <2>6, <2>7, SwitchRanked, Zenon
<1>4. CASE ps[currpid] # "CURR" /\ rl # << >> /\ switch(ps, rl) /\ qkey' = qk
  BY <1>4, SwitchRanked, Zenon
<1>5. QED BY <1>2, <1>3, <1>4 DEF reschedNow

LEMMA ReschedRanked ==
    ASSUME NEW ps, NEW rl, NEW qk, NEW pre,
           prprio \in [Pids -> Int], currpid \in Pids, ndefers \in 0..1,
           SchedPre(ps, rl, qk, currpid), Keys(ps, rl, qk),
           resched(ps, rl, qk, pre), UNCHANGED <<prprio, ndefers>>
    PROVE  Ranked'
<1>1. CASE ndefers > 0 /\ attempt' = TRUE /\ stay(ps, rl, qk, pre)
  BY <1>1 DEF Ranked, Keys, stay
<1>2. CASE ndefers = 0 /\ reschedNow(ps, rl, qk, pre)
  <2>1. Ordered' BY <1>2, ReschedNowRanked, Zenon
  <2>2. QED BY <2>1 DEF Ordered, Ranked
<1>3. QED BY <1>1, <1>2 DEF resched
-----------------------------------------------------------------------------
\* The ways in which the actions change what Ranked speaks of.  SameKeys: the
\* keys of the processes on the ready list are not touched.
SameKeys(qk) == \A x : OnQueue(readylist, x) => qk[x] = qkey[x]

LEMMA KeysKept ==
    ASSUME IInv, Ranked, NEW qk, SameKeys(qk)
    PROVE  Keys(prstate, readylist, qk)
<1>1. Descending(readylist, qk) BY SameDescending DEF SameKeys, Ranked, Keys
<1>2. QED BY <1>1 DEF Ranked, Keys, SameKeys, IInv, Sched, ReadyMatches

LEMMA TypesOf ==
    ASSUME IInv
    PROVE  /\ SchedPre(prstate, readylist, qkey, currpid)
           /\ prstate \in [Pids -> States] /\ readylist \in Seq(Pids) /\ NoDup(readylist)
           /\ qkey \in [Pids -> Int] /\ prprio \in [Pids -> Int] /\ currpid \in Pids
           /\ ndefers \in 0..1 /\ sleepq \in Seq(Pids) /\ attempt \in BOOLEAN
           /\ preempt \in 1..QUANTUM
<1>1. TypeOK /\ Sched BY DEF IInv
<1>2. SchedPre(prstate, readylist, qkey, currpid) BY <1>1, SchedPreHolds
<1>3. QED
  BY <1>1, <1>2 DEF TypeOK, TypeSched, TypeProc, TypeMsgs, TypeSems, TypeRest, Sched,
     ReadyMatches

LEMMA ReadyRanked ==
    ASSUME IInv, Ranked, NEW p \in Pids, prstate[p] \notin Eligible,
           NEW qk \in [Pids -> Int], SameKeys(qk),
           ready(p, prstate, readylist, qk), UNCHANGED <<prprio, ndefers>>
    PROVE  Ranked'
<1> DEFINE ps == [prstate EXCEPT ![p] = "READY"]
           rl == insert(p, readylist, qk, prprio[p])
           k == [qk EXCEPT ![p] = prprio[p]]
<1>1. /\ SchedPre(prstate, readylist, qkey, currpid) /\ prstate \in [Pids -> States]
      /\ readylist \in Seq(Pids) /\ NoDup(readylist)
      /\ prprio \in [Pids -> Int] /\ currpid \in Pids /\ ndefers \in 0..1
  BY TypesOf
<1>2. Keys(prstate, readylist, qk) BY KeysKept
<1>3. readylist \in Seq(Pids) /\ NoDup(readylist) /\ prprio[p] \in Int
  BY <1>1
<1>4. Keyed(readylist, qk) BY <1>3 DEF Keyed
<1>5. ~OnQueue(readylist, p) BY <1>1 DEF SchedPre, Eligible
<1>6. /\ rl \in Seq(Pids) /\ NoDup(rl)
      /\ \A x : OnQueue(rl, x) <=> OnQueue(readylist, x) \/ x = p
  BY <1>3, <1>4, <1>5, InsertQueue, Zenon
<1>7. Descending(rl, k)
  BY <1>2, <1>3, <1>5, InsertDescending, Zenon DEF Keys
<1> HIDE DEF rl
<1>8. SchedPre(ps, rl, k, currpid)
  BY <1>1, <1>6, PidsFacts DEF SchedPre, States, Eligible
<1>9. Keys(ps, rl, k) BY <1>1, <1>2, <1>7 DEF Keys
<1> HIDE DEF ps, k
<1>10. resched(ps, rl, k, preempt) BY DEF ready, ps, rl, k
<1>11. QED BY <1>1, <1>8, <1>9, <1>10, ReschedRanked, Zenon

LEMMA BlockRanked ==
    ASSUME IInv, Ranked, currpid # NULLPROC, NEW st \in States \ Eligible,
           NEW qk \in [Pids -> Int], SameKeys(qk),
           Block(st, qk), UNCHANGED <<prprio, ndefers>>
    PROVE  Ranked'
<1> DEFINE ps == [prstate EXCEPT ![currpid] = st]
<1>1. /\ SchedPre(prstate, readylist, qkey, currpid) /\ prstate \in [Pids -> States]
      /\ prprio \in [Pids -> Int] /\ currpid \in Pids /\ ndefers \in 0..1
      /\ prstate[currpid] = "CURR"
  BY TypesOf DEF IInv, Sched, ProcessorBusy
<1>2. SchedPre(ps, readylist, qk, currpid)
  BY <1>1, PidsFacts DEF SchedPre, Eligible
<1>3. Keys(ps, readylist, qk)
  <2>1. Keys(prstate, readylist, qk) BY KeysKept
  <2>2. QED BY <1>1, <2>1 DEF Keys, Eligible
<1> HIDE DEF ps
<1>4. resched(ps, readylist, qk, preempt) BY DEF Block, ps
<1>5. QED BY <1>1, <1>2, <1>3, <1>4, ReschedRanked, Zenon

\* Nobody becomes ready and nobody leaves the processor.
LEMMA QuietRanked ==
    ASSUME IInv, Ranked, UNCHANGED <<readylist, currpid, prprio, attempt, ndefers>>,
           SameKeys(qkey'), \A p \in Pids : prstate'[p] = "READY" => prstate[p] = "READY"
    PROVE  Ranked'
<1>1. Keys(prstate, readylist, qkey') BY KeysKept
<1>2. QED BY <1>1 DEF Ranked, Keys, TopRuns

LEMMA LeavesRanked ==
    ASSUME IInv, Ranked, UNCHANGED <<qkey, currpid, prprio, attempt, ndefers>>,
           NEW p \in Pids, prstate[p] = "READY", readylist' = getitem(p, readylist),
           \A x \in Pids : prstate'[x] = "READY" => prstate[x] = "READY"
    PROVE  Ranked'
<1>1. readylist \in Seq(Pids) /\ OnQueue(readylist, p) /\ qkey \in [Pids -> Int]
  BY TypesOf DEF SchedPre
<1>2. Descending(readylist', qkey)
  BY <1>1, GetitemDescending, Zenon DEF Ranked, Keys
<1>3. QED BY <1>2 DEF Ranked, Keys, TopRuns
-----------------------------------------------------------------------------
\* A sleeper or a receiver is woken (deliver, wakeup), for send and kill.
LEMMA DeliverRanked ==
    ASSUME IInv, Ranked, NEW p \in Pids, NEW m, deliver(p, m), UNCHANGED <<prprio, ndefers>>
    PROVE  Ranked'
<1>1. /\ prstate \in [Pids -> States] /\ qkey \in [Pids -> Int]
      /\ SchedPre(prstate, readylist, qkey, currpid)
  BY TypesOf
<1>2. CASE prstate[p] = "RECV" /\ ready(p, prstate, readylist, qkey)
  <2>1. prstate[p] \notin Eligible /\ SameKeys(qkey) BY <1>2 DEF Eligible, SameKeys
  <2>2. QED BY <1>1, <1>2, <2>1, ReadyRanked
<1>3. CASE prstate[p] = "RECTIM" /\ ReadySleeper(p)
  <2> DEFINE k == unsleepKeys(p, sleepq, qkey)
  <2>1. prstate[p] \notin Eligible /\ OnQueue(sleepq, p)
    BY <1>3 DEF Eligible, IInv, SleepMatches
  <2>2. k \in [Pids -> Int] /\ \A x \in Pids : ~OnQueue(sleepq, x) => k[x] = qkey[x]
    <3>1. sleepq \in Seq(Pids) BY TypesOf
    <3>2. qkey \in [Pids -> Int] /\ OnQueue(sleepq, p) BY <1>1, <2>1
    <3>3. QED BY <3>1, <3>2, UnsleepKeys
  <2> HIDE DEF k
  <2>3. SameKeys(k)
    <3>1. ASSUME NEW x, OnQueue(readylist, x) PROVE x \in Pids /\ ~OnQueue(sleepq, x)
      <4>1. x \in Pids BY <3>1, TypesOf DEF OnQueue
      <4>2. prstate[x] = "READY" BY <4>1, <3>1, <1>1 DEF SchedPre
      <4>3. QED BY <4>1, <4>2 DEF IInv, SleepMatches
    <3>2. QED BY <2>2, <3>1 DEF SameKeys
  <2>4. ready(p, prstate, readylist, k) BY <1>3 DEF ReadySleeper, k
  <2>5. QED BY <2>1, <2>2, <2>3, <2>4, ReadyRanked
<1>4. CASE UNCHANGED <<sched, sleepq>>
  BY <1>4, QuietRanked DEF sched, SameKeys
<1>5. QED BY <1>2, <1>3, <1>4 DEF deliver

\* Nothing of the scheduler is touched.
LEMMA SchedSame ==
    ASSUME IInv, Ranked, UNCHANGED <<sched, prprio, ndefers>>
    PROVE  Ranked'
  BY QuietRanked DEF sched, SameKeys

LEMMA CreateRanked == ASSUME IInv, Ranked, NEW prio \in Prios, create(prio) PROVE Ranked'
<1> DEFINE pid == NextFrom(nextpid, NPROC, FreePids)
<1>1. CASE UNCHANGED <<prstate, prprio>>
  BY <1>1, SchedSame DEF create, sched
<1>2. CASE /\ prstate' = [prstate EXCEPT ![pid] = "SUSP"]
           /\ prprio' = [prprio EXCEPT ![pid] = prio]
  <2>1. /\ prstate \in [Pids -> States] /\ prprio \in [Pids -> Int]
        /\ currpid \in Pids /\ prstate[currpid] = "CURR"
    BY TypesOf DEF IInv, Sched, ProcessorBusy
  <2>2. prstate[pid] = "FREE" /\ pid \in Pids
    <3>1. NPROC \in Nat \ {0} BY SizesAssumption
    <3>2. nextpid \in Nat BY PidsFacts DEF IInv, TypeOK, TypeProc
    <3>3. FreePids \subseteq Nat BY PidsFacts DEF FreePids
    <3>4. FreePids # {} BY DEF create
    <3>5. pid \in FreePids BY <3>1, <3>2, <3>3, <3>4, NextFromFree, Zenon
    <3>6. QED BY <3>5 DEF FreePids
  <2>3. \A p \in Pids : prstate'[p] = "READY" =>
            prstate[p] = "READY" /\ p # pid /\ prprio'[p] = prprio[p]
    BY <1>2, <2>1, <2>2
  <2>4. prprio'[currpid] = prprio[currpid] BY <1>2, <2>1, <2>2
  <2>5. UNCHANGED <<readylist, qkey, currpid, attempt, ndefers>> BY DEF create
  <2>6. QED BY <2>3, <2>4, <2>5 DEF Ranked, Keys, TopRuns
<1>3. QED BY <1>1, <1>2 DEF create

LEMMA ResumeRanked == ASSUME IInv, Ranked, NEW p \in Pids, resume(p) PROVE Ranked'
<1>1. prstate[p] \notin Eligible /\ SameKeys(qkey) BY DEF resume, Eligible, SameKeys
<1>2. QED BY <1>1, TypesOf, ReadyRanked DEF resume, alloc

LEMMA SuspendRanked == ASSUME IInv, Ranked, NEW p \in Pids, suspend(p) PROVE Ranked'
<1>1. UNCHANGED <<prprio, ndefers>> BY DEF suspend, alloc
<1>2. CASE /\ prstate[p] = "READY" /\ readylist' = getitem(p, readylist)
           /\ prstate' = [prstate EXCEPT ![p] = "SUSP"]
           /\ UNCHANGED <<qkey, currpid, preempt, attempt>>
  <2>1. \A x \in Pids : prstate'[x] = "READY" => prstate[x] = "READY" BY <1>2, TypesOf
  <2>2. QED BY <1>1, <1>2, <2>1, LeavesRanked
<1>3. CASE prstate[p] = "CURR" /\ Block("SUSP", qkey)
  <2>1. "SUSP" \in States \ Eligible /\ SameKeys(qkey) /\ currpid # NULLPROC
    BY CallOK DEF States, Eligible, SameKeys, suspend
  <2>2. QED BY <1>1, <1>3, <2>1, TypesOf, BlockRanked
<1>4. QED BY <1>2, <1>3 DEF suspend

LEMMA YieldRanked == ASSUME IInv, Ranked, yield PROVE Ranked'
<1>1. Keys(prstate, readylist, qkey) BY DEF Ranked
<1>2. QED BY <1>1, TypesOf, ReschedRanked DEF yield, alloc

LEMMA KillRanked == ASSUME IInv, Ranked, NEW p \in Pids, kill(p) PROVE Ranked'
<1>1. UNCHANGED <<prprio, ndefers>> BY DEF kill, alloc
<1>2. prparent[p] \in Pids BY DEF IInv, TypeOK, TypeProc
<1>3. CASE UNCHANGED <<sched, msgs, sleepq>> BY <1>1, <1>3, SchedSame
<1>4. CASE deliver(prparent[p], p) BY <1>1, <1>2, <1>4, DeliverRanked
<1>5. QED BY <1>3, <1>4 DEF kill

\* A process that is blocked leaves the sleep queue by kill or is freed.
LEMMA KillRestRanked == ASSUME IInv, Ranked, killRest PROVE Ranked'
<1> DEFINE p == cont[currpid].arg
<1>1. /\ UNCHANGED <<prprio, ndefers>> /\ p \in Pids \ {NULLPROC}
      /\ prstate \in [Pids -> States] /\ qkey \in [Pids -> Int]
  BY TypesOf DEF killRest, In, IInv, Calling, RestsValid
<1>2. CASE prstate[p] = "CURR" /\ resched(Gone(p), readylist, qkey, preempt)
  <2>1. p = currpid BY <1>1, <1>2 DEF IInv, Sched, ProcessorBusy
  <2>2. Block("FREE", qkey) BY <1>2, <2>1 DEF Block, Gone
  <2>3. "FREE" \in States \ Eligible /\ SameKeys(qkey) BY DEF States, Eligible, SameKeys
  <2>4. QED BY <1>1, <2>1, <2>2, <2>3, BlockRanked
<1>3. CASE /\ prstate[p] \in {"SLEEP", "RECTIM"}
           /\ qkey' = unsleepKeys(p, sleepq, qkey) /\ prstate' = Gone(p)
           /\ UNCHANGED <<readylist, currpid, preempt, attempt, scount, squeue>>
  <2>1. OnQueue(sleepq, p) /\ sleepq \in Seq(Pids)
    BY <1>1, <1>3, TypesOf DEF IInv, SleepMatches
  <2>2. \A x \in Pids : ~OnQueue(sleepq, x) => unsleepKeys(p, sleepq, qkey)[x] = qkey[x]
    BY <1>1, <2>1, UnsleepKeys
  <2>3. ASSUME NEW x, OnQueue(readylist, x) PROVE x \in Pids /\ ~OnQueue(sleepq, x)
    <3>1. x \in Pids BY <2>3, TypesOf DEF OnQueue
    <3>2. prstate[x] = "READY" BY <2>3, <3>1, TypesOf DEF SchedPre
    <3>3. QED BY <3>1, <3>2 DEF IInv, SleepMatches
  <2>4. SameKeys(qkey') BY <1>3, <2>2, <2>3 DEF SameKeys
  <2>5. \A x \in Pids : prstate'[x] = "READY" => prstate[x] = "READY"
    BY <1>1, <1>3 DEF Gone
  <2>6. QED BY <1>1, <1>3, <2>4, <2>5, QuietRanked
<1>4. CASE /\ prstate[p] = "READY" /\ readylist' = getitem(p, readylist) /\ prstate' = Gone(p)
           /\ UNCHANGED <<qkey, currpid, preempt, attempt, sleepq, scount, squeue>>
  <2>1. \A x \in Pids : prstate'[x] = "READY" => prstate[x] = "READY"
    BY <1>1, <1>4 DEF Gone
  <2>2. QED BY <1>1, <1>4, <2>1, LeavesRanked
<1>5. CASE prstate' = Gone(p) /\ UNCHANGED <<readylist, qkey, currpid, preempt, attempt, sleepq>>
  <2>1. \A x \in Pids : prstate'[x] = "READY" => prstate[x] = "READY"
    BY <1>1, <1>5 DEF Gone
  <2>2. SameKeys(qkey') BY <1>5 DEF SameKeys
  <2>3. QED BY <1>1, <1>5, <2>1, <2>2, QuietRanked
<1>6. QED BY <1>2, <1>3, <1>4, <1>5 DEF killRest
-----------------------------------------------------------------------------
\* Blocking for a message or for time: insertd changes the keys of sleepers.
LEMMA SleepForRanked ==
    ASSUME IInv, Ranked, currpid # NULLPROC, NEW d \in Delays, NEW st \in {"SLEEP", "RECTIM"},
           SleepFor(d, st), UNCHANGED <<prprio, ndefers>>
    PROVE  Ranked'
<1> DEFINE k == insertdKeys(currpid, sleepq, qkey, d)
<1>1. /\ sleepq \in Seq(Pids) /\ qkey \in [Pids -> Int] /\ currpid \in Pids
      /\ prstate \in [Pids -> States] /\ prstate[currpid] = "CURR"
  BY TypesOf DEF IInv, Sched, ProcessorBusy
<1>2. /\ k \in [Pids -> Int]
      /\ \A x \in Pids : x # currpid /\ ~OnQueue(sleepq, x) => k[x] = qkey[x]
  <2>1. sleepq \in Seq(Pids) /\ qkey \in [Pids -> Int] /\ d \in Int BY <1>1, ArgsAssumption
  <2>2. k \in [Pids -> Int] BY <2>1, InsertdKeys
  <2>3. \A x \in Pids : x # currpid /\ ~OnQueue(sleepq, x) => k[x] = qkey[x]
    BY <2>1, InsertdKeys
  <2>4. QED BY <2>2, <2>3
<1> HIDE DEF k
<1>3. SameKeys(k)
  <2>1. ASSUME NEW x, OnQueue(readylist, x)
        PROVE  x \in Pids /\ x # currpid /\ ~OnQueue(sleepq, x)
    <3>1. x \in Pids BY <2>1, TypesOf DEF OnQueue
    <3>2. prstate[x] = "READY" BY <2>1, <3>1, TypesOf DEF SchedPre
    <3>3. QED BY <1>1, <3>1, <3>2 DEF IInv, SleepMatches
  <2>2. QED BY <1>2, <2>1 DEF SameKeys
<1>4. st \in States \ Eligible BY DEF States, Eligible
<1>5. Block(st, k) BY DEF SleepFor, k
<1>6. QED BY <1>2, <1>3, <1>4, <1>5, BlockRanked

LEMMA ReceiveRanked == ASSUME IInv, Ranked, receive PROVE Ranked'
<1>1. UNCHANGED <<prprio, ndefers>> /\ currpid # NULLPROC BY CallOK DEF receive, alloc
<1>2. CASE UNCHANGED sched BY <1>1, <1>2, SchedSame
<1>3. CASE Block("RECV", qkey)
  <2>1. "RECV" \in States \ Eligible /\ SameKeys(qkey) BY DEF States, Eligible, SameKeys
  <2>2. QED BY <1>1, <1>3, <2>1, TypesOf, BlockRanked
<1>4. QED BY <1>2, <1>3 DEF receive

LEMMA RecvtimeRanked == ASSUME IInv, Ranked, NEW d \in Delays, recvtime(d) PROVE Ranked'
<1>1. UNCHANGED <<prprio, ndefers>> /\ currpid # NULLPROC BY CallOK DEF recvtime, alloc
<1>2. CASE UNCHANGED sched BY <1>1, <1>2, SchedSame
<1>3. CASE SleepFor(d, "RECTIM")
  <2>1. "RECTIM" \in {"SLEEP", "RECTIM"} OBVIOUS
  <2>2. QED BY <1>1, <1>3, <2>1, SleepForRanked
<1>4. QED BY <1>2, <1>3 DEF recvtime

LEMMA SleepmsRanked == ASSUME IInv, Ranked, NEW d \in Delays, sleepms(d) PROVE Ranked'
<1>1. UNCHANGED <<prprio, ndefers>> /\ currpid # NULLPROC BY CallOK DEF sleepms, alloc
<1>2. "SLEEP" \in {"SLEEP", "RECTIM"} OBVIOUS
<1>3. QED BY <1>1, <1>2, SleepForRanked DEF sleepms
-----------------------------------------------------------------------------
LEMMA WaitRanked == ASSUME IInv, Ranked, NEW s \in Sems, wait(s) PROVE Ranked'
<1>1. UNCHANGED <<prprio, ndefers>> /\ currpid # NULLPROC BY CallOK DEF wait
<1>2. CASE UNCHANGED sched BY <1>1, <1>2, SchedSame
<1>3. CASE Block("WAIT", qkey)
  <2>1. "WAIT" \in States \ Eligible /\ SameKeys(qkey) BY DEF States, Eligible, SameKeys
  <2>2. QED BY <1>1, <1>3, <2>1, TypesOf, BlockRanked
<1>4. QED BY <1>2, <1>3 DEF wait

\* Whoever a semaphore releases was waiting.
LEMMA ReleaseRanked ==
    ASSUME IInv, Ranked, NEW s \in Sems, squeue[s] # << >>,
           ready(Head(squeue[s]), prstate, readylist, qkey), UNCHANGED <<prprio, ndefers>>
    PROVE  Ranked'
<1>1. squeue[s] \in Seq(Pids) /\ NoDup(squeue[s])
  BY DEF IInv, TypeOK, TypeSems, Waits, WaitMatches
<1>2. Head(squeue[s]) \in Pids /\ OnQueue(squeue[s], Head(squeue[s]))
  BY <1>1, DequeueQueue, Zenon
<1>3. prstate[Head(squeue[s])] \notin Eligible
  BY <1>2 DEF IInv, Waits, WaitMatches, Eligible
<1>4. SameKeys(qkey) BY DEF SameKeys
<1>5. QED BY <1>2, <1>3, <1>4, TypesOf, ReadyRanked

LEMMA SignalOnceRanked ==
    ASSUME IInv, Ranked, NEW s \in Sems, ~Within("semreset", s), SignalOnce(s),
           UNCHANGED <<prprio, ndefers>>
    PROVE  Ranked'
<1>1. CASE UNCHANGED <<sched, squeue>> BY <1>1, SchedSame
<1>2. CASE scount[s] < 0 /\ ready(Head(squeue[s]), prstate, readylist, qkey)
  <2>1. Len(squeue[s]) = -scount[s] /\ scount[s] \in Int
    BY <1>2 DEF IInv, Waits, CountsWaiters, TypeOK, TypeSems
  <2>2. squeue[s] # << >> BY <1>2, <2>1
  <2>3. QED BY <1>2, <2>2, ReleaseRanked
<1>3. QED BY <1>1, <1>2 DEF SignalOnce

LEMMA SignalRanked == ASSUME IInv, Ranked, NEW s \in Sems, signal(s) PROVE Ranked'
<1>1. ~Within("semreset", s) BY DEF signal, CallOrIntr, In, Within
<1>2. QED BY <1>1, SignalOnceRanked DEF signal, alloc

\* A deferral begins with nothing put off, and its end looks at what was.
LEMMA DeferStartRanked ==
    ASSUME IInv, Ranked, ndefers = 0, DEFER_START, SameKeys(qkey'),
           UNCHANGED <<prstate, readylist, currpid, prprio>>
    PROVE  Ranked'
<1>1. Keys(prstate, readylist, qkey') BY KeysKept
<1>2. QED BY <1>1 DEF Ranked, Keys, TopRuns, DEFER_START

LEMMA DeferStopRanked ==
    ASSUME IInv, Ranked, DEFER_STOP, UNCHANGED prprio
    PROVE  Ranked'
<1>1. CASE attempt /\ reschedNow(prstate, readylist, qkey, preempt)
  <2>1. Keys(prstate, readylist, qkey) BY DEF Ranked
  <2>2. Ordered' BY <1>1, <2>1, TypesOf, ReschedNowRanked
  <2>3. QED BY <2>2 DEF Ordered, Ranked
<1>2. CASE ~(ndefers = 1 /\ attempt) /\ stay(prstate, readylist, qkey, preempt)
  <2>1. ~attempt BY <1>2, TypesOf DEF DEFER_STOP
  <2>2. QED BY <1>2, <2>1 DEF Ranked, Keys, TopRuns, stay
<1>3. QED BY <1>1, <1>2 DEF DEFER_STOP

LEMMA SemsStartRanked ==
    ASSUME IInv, Ranked, In("user"), NEW k, StartDefer(k)
    PROVE  Ranked'
<1>1. ndefers = 0 BY DEF In, IInv, Calling, DeferralOwned, DeferOps
<1>2. SameKeys(qkey') BY DEF StartDefer, SameKeys
<1>3. QED BY <1>1, <1>2, DeferStartRanked DEF StartDefer, alloc

LEMMA SignalnRestRanked == ASSUME IInv, Ranked, signalnRest PROVE Ranked'
<1> DEFINE s == cont[currpid].arg
<1>1. s \in Sems /\ ~Within("semreset", s) /\ UNCHANGED prprio
  BY TypesOf DEF signalnRest, In, Within, IInv, Calling, RestsValid, alloc
<1>2. CASE SignalOnce(s) /\ UNCHANGED ndefers BY <1>1, <1>2, SignalOnceRanked
<1>3. CASE DEFER_STOP BY <1>1, <1>3, DeferStopRanked
<1>4. QED BY <1>2, <1>3 DEF signalnRest

LEMMA SemdeleteRestRanked == ASSUME IInv, Ranked, semdeleteRest PROVE Ranked'
<1> DEFINE s == cont[currpid].arg
<1>1. s \in Sems /\ ~Within("semreset", s) /\ UNCHANGED prprio
  BY TypesOf DEF semdeleteRest, In, Within, IInv, Calling, RestsValid, alloc
<1>2. CASE SignalOnce(s) /\ UNCHANGED ndefers BY <1>1, <1>2, SignalOnceRanked
<1>3. CASE DEFER_STOP BY <1>1, <1>3, DeferStopRanked
<1>4. QED BY <1>2, <1>3 DEF semdeleteRest

LEMMA SemresetRestRanked == ASSUME IInv, Ranked, semresetRest PROVE Ranked'
<1> DEFINE s == cont[currpid].arg
<1>1. s \in Sems /\ UNCHANGED prprio
  BY TypesOf DEF semresetRest, In, IInv, Calling, RestsValid, alloc
<1>2. CASE squeue[s] # << >> /\ ready(Head(squeue[s]), prstate, readylist, qkey)
           /\ UNCHANGED ndefers
  BY <1>1, <1>2, ReleaseRanked
<1>3. CASE DEFER_STOP BY <1>1, <1>3, DeferStopRanked
<1>4. QED BY <1>2, <1>3 DEF semresetRest
-----------------------------------------------------------------------------
\* The clock handler changes the key of a sleeper only.
LEMMA TickKeys == ASSUME IInv PROVE SameKeys(Ticked) /\ Ticked \in [Pids -> Int]
<1>1. CASE sleepq = << >> BY <1>1, TypesOf DEF Ticked, SameKeys
<1>2. CASE sleepq # << >>
  <2>1. sleepq \in Seq(Pids) /\ NoDup(sleepq) BY TypesOf DEF IInv, SleepMatches
  <2>2. Head(sleepq) \in Pids /\ OnQueue(sleepq, Head(sleepq))
    BY <1>2, <2>1, DequeueQueue, Zenon
  <2>3. prstate[Head(sleepq)] # "READY" BY <2>2 DEF IInv, SleepMatches
  <2>4. ~OnQueue(readylist, Head(sleepq)) BY <2>2, <2>3, TypesOf DEF SchedPre
  <2>5. QED BY <1>2, <2>2, <2>4, TypesOf, TickedOK DEF Ticked, SameKeys
<1>3. QED BY <1>1, <1>2

LEMMA TimeSliceRanked ==
    ASSUME IInv, Ranked, NEW qk \in [Pids -> Int], SameKeys(qk), TimeSlice(qk),
           UNCHANGED <<prprio, ndefers>>
    PROVE  Ranked'
<1>1. Keys(prstate, readylist, qk) BY KeysKept
<1>2. SchedPre(prstate, readylist, qk, currpid) BY TypesOf DEF SchedPre
<1>3. CASE resched(prstate, readylist, qk, QUANTUM)
  BY <1>1, <1>2, <1>3, TypesOf, ReschedRanked
<1>4. CASE stay(prstate, readylist, qk, preempt - 1) /\ UNCHANGED attempt
  BY <1>4, QuietRanked DEF stay
<1>5. QED BY <1>3, <1>4 DEF TimeSlice

LEMMA ClkhandlerRanked == ASSUME IInv, Ranked, clkhandler PROVE Ranked'
<1>1. SameKeys(Ticked) /\ Ticked \in [Pids -> Int] /\ UNCHANGED prprio
  BY TickKeys DEF clkhandler, alloc
<1>2. CASE TimeSlice(Ticked) /\ UNCHANGED ndefers BY <1>1, <1>2, TimeSliceRanked
<1>3. CASE qkey' = Ticked /\ DEFER_START /\ UNCHANGED <<prstate, readylist, currpid, preempt>>
  <2>1. ndefers = 0 BY DEF clkhandler, In, IInv, Calling, DeferralOwned, DeferOps
  <2>2. QED BY <1>1, <1>3, <2>1, DeferStartRanked
<1>4. QED BY <1>2, <1>3 DEF clkhandler

LEMMA WakeupRanked == ASSUME IInv, Ranked, wakeup PROVE Ranked'
<1>1. UNCHANGED prprio /\ sleepq \in Seq(Pids) /\ NoDup(sleepq)
  BY TypesOf DEF wakeup, alloc, IInv, SleepMatches
<1>2. CASE sleepq # << >> /\ ready(Head(sleepq), prstate, readylist, qkey) /\ UNCHANGED ndefers
  <2>1. Head(sleepq) \in Pids /\ OnQueue(sleepq, Head(sleepq))
    BY <1>1, <1>2, DequeueQueue, Zenon
  <2>2. prstate[Head(sleepq)] \notin Eligible BY <2>1 DEF IInv, SleepMatches, Eligible
  <2>3. SameKeys(qkey) BY DEF SameKeys
  <2>4. QED BY <1>1, <1>2, <2>1, <2>2, <2>3, TypesOf, ReadyRanked
<1>3. CASE DEFER_STOP BY <1>1, <1>3, DeferStopRanked
<1>4. QED BY <1>2, <1>3 DEF wakeup, Expired

LEMMA ClkhandlerRestRanked == ASSUME IInv, Ranked, clkhandlerRest PROVE Ranked'
<1>1. SameKeys(qkey) /\ qkey \in [Pids -> Int] BY TypesOf DEF SameKeys
<1>2. QED BY <1>1, TimeSliceRanked DEF clkhandlerRest, alloc
-----------------------------------------------------------------------------
LEMMA InitRanked == Init => Ranked
<1> SUFFICES ASSUME Init PROVE Ranked OBVIOUS
<1>1. Len(readylist) = 1 /\ readylist[1] = NULLPROC BY DEF Init
<1>2. Descending(readylist, qkey) BY <1>1 DEF Descending
<1>3. \A p \in Pids : prstate[p] = "READY" => p = NULLPROC BY DEF Init
<1>4. NULLPROC # 1 /\ 1 \in Pids /\ NULLPROC \in Pids BY PidsFacts DEF NULLPROC
<1>5. \A p \in Pids : prstate[p] = "READY" => qkey[p] = prprio[p]
  BY <1>3, <1>4 DEF Init
<1>6. TopRuns
  <2>1. currpid = 1 /\ prprio[1] = INITPRIO /\ prprio[NULLPROC] = 0 BY <1>4 DEF Init
  <2>2. INITPRIO >= 0 BY ArgsAssumption
  <2>3. QED BY <1>3, <2>1, <2>2 DEF TopRuns
<1>7. QED BY <1>2, <1>5, <1>6 DEF Ranked, Keys

LEMMA NextRanked ==
    ASSUME "chprio" \notin Calls, IInv, Ranked, [Next]_vars PROVE Ranked'
<1>1. CASE UserStep
  <2>1. ASSUME NEW prio \in Prios, create(prio) PROVE Ranked' BY <2>1, CreateRanked
  <2>2. ASSUME NEW p \in Pids, resume(p) \/ suspend(p) \/ kill(p) PROVE Ranked'
    BY <2>2, ResumeRanked, SuspendRanked, KillRanked
  <2>3. ASSUME NEW p \in Pids, NEW prio \in NewPrios, chprio(p, prio) PROVE Ranked'
    BY <2>3 DEF chprio, Call
  <2>4. ASSUME NEW p \in Pids, NEW m \in Msgs, send(p, m) PROVE Ranked'
    BY <2>4, DeliverRanked DEF send, alloc
  <2>5. CASE recvclr BY <2>5, SchedSame DEF recvclr, alloc
  <2>6. CASE receive \/ yield BY <2>6, ReceiveRanked, YieldRanked
  <2>7. ASSUME NEW d \in Delays, recvtime(d) \/ sleepms(d) PROVE Ranked'
    BY <2>7, RecvtimeRanked, SleepmsRanked
  <2>8. ASSUME NEW n \in Counts, semcreate(n) PROVE Ranked'
    BY <2>8, SchedSame DEF semcreate, alloc
  <2>9. ASSUME NEW s \in Sems, wait(s) \/ signal(s) PROVE Ranked'
    BY <2>9, WaitRanked, SignalRanked
  <2>10. ASSUME NEW s \in Sems, semdelete(s) PROVE Ranked'
    BY <2>10, SemsStartRanked DEF semdelete, Call
  <2>11. ASSUME NEW s \in Sems, NEW n \in Counts, semreset(s, n) \/ signaln(s, n)
         PROVE  Ranked'
    BY <2>11, SemsStartRanked DEF semreset, signaln, Call, CallOrIntr
  <2>12. QED BY <1>1, <2>1, <2>2, <2>3, <2>4, <2>5, <2>6, <2>7, <2>8, <2>9, <2>10, <2>11
           DEF UserStep
<1>2. CASE KernelStep
  <2>1. CASE receiveRest \/ recvtimeRest
    BY <2>1, SchedSame DEF receiveRest, recvtimeRest, alloc
  <2>2. QED BY <1>2, <2>1, KillRestRanked, SignalnRestRanked, SemdeleteRestRanked,
            SemresetRestRanked, WakeupRanked, ClkhandlerRestRanked DEF KernelStep
<1>3. CASE clkhandler BY <1>3, ClkhandlerRanked
<1>4. CASE UNCHANGED vars BY <1>4, SchedSame DEF vars, alloc
<1>5. QED BY <1>1, <1>2, <1>3, <1>4 DEF Next, Halted

\* Outside a deferral no ready process has a higher priority than the one that
\* runs, on every system whose processes never change a priority (resched.c:27,
\* insert.c:22): chprio.c moves no process on the ready list.
THEOREM HighestPriorityIsCurrent ==
    ASSUME "chprio" \notin Calls PROVE Spec => []HighestPriorityRuns
<1>1. IInv /\ Ranked /\ [Next]_vars => Ranked' BY NextRanked
<1>2. Ranked => HighestPriorityRuns BY DEF Ranked, TopRuns, HighestPriorityRuns
<1>3. QED BY InitRanked, Invariance, <1>1, <1>2, PTL DEF Spec
-----------------------------------------------------------------------------
\* The step in which a message may enter a full slot, or a process is made
\* anew, is no step that leaves the slot full.
LEMMA KeepsMessages ==
    ASSUME IInv, [Next]_vars, NEW p \in Pids, prhasmsg[p], prhasmsg'[p]
    PROVE  prmsg'[p] = prmsg[p]
<1>1. CASE UNCHANGED prmsg BY <1>1
<1>2. ASSUME NEW q \in Pids, NEW m, Accepts(q), deliver(q, m) PROVE prmsg'[p] = prmsg[p]
  <2>1. prmsg' = [prmsg EXCEPT ![q] = m] /\ ~prhasmsg[q] BY <1>2 DEF deliver, Accepts
  <2>2. p # q BY <2>1
  <2>3. QED BY <2>1, <2>2 DEF IInv, TypeOK, TypeMsgs
<1>3. ASSUME NEW q \in Pids, kill(q) PROVE prmsg'[p] = prmsg[p]
  <2>1. prparent[q] \in Pids BY DEF IInv, TypeOK, TypeProc
  <2>2. QED BY <1>1, <1>2, <1>3, <2>1 DEF kill, msgs
<1>4. CASE UserStep
  BY <1>1, <1>2, <1>3, <1>4
  DEF UserStep, create, resume, suspend, chprio, send, receive, recvclr, yield, recvtime,
      sleepms, semcreate, wait, signal, semdelete, semreset, signaln, StartDefer, TakeMsg, msgs
<1>5. CASE KernelStep
  BY <1>1, <1>5
  DEF KernelStep, receiveRest, recvtimeRest, killRest, signalnRest, semdeleteRest,
      semresetRest, wakeup, clkhandlerRest, TakeMsg, msgs
<1>6. CASE clkhandler BY <1>1, <1>6 DEF clkhandler, msgs
<1>7. CASE UNCHANGED vars BY <1>1, <1>7 DEF vars, msgs
<1>8. QED BY <1>4, <1>5, <1>6, <1>7 DEF Next, Halted

\* A message that nobody has taken is not overwritten by a later one, a death
\* or a timeout (send.c:24).
THEOREM MessagesAreKept == Spec => MessageKept
<1>1. IInv /\ [Next]_vars
        => [\A p \in Pids : prhasmsg[p] /\ prhasmsg'[p] => prmsg'[p] = prmsg[p]]_vars
  BY KeepsMessages
<1>2. QED BY <1>1, Invariance, PTL DEF Spec, MessageKept
-----------------------------------------------------------------------------
\* The table of semaphores.  While semreset drains a queue the count does not
\* say how long it is any more, but it stays negative until the queue is empty.
WaitingNegative == \A s \in Sems : squeue[s] # << >> => scount[s] < 0
Tab == [s \in Sems |-> SemOf(s)]

\* The actions that touch the table.
LEMMA TouchesSems ==
    ASSUME [Next]_vars
    PROVE  \/ UNCHANGED <<squeue, scount>>
           \/ \E n \in Counts : semcreate(n)
           \/ \E s \in Sems : wait(s) \/ signal(s)
           \/ killRest \/ signalnRest \/ semdeleteRest \/ semresetRest
<1>1. CASE UserStep
  BY <1>1
  DEF UserStep, create, resume, suspend, kill, chprio, send, receive, recvclr, yield, recvtime,
      sleepms, semdelete, semreset, signaln, StartDefer, sems
<1>2. CASE KernelStep
  BY <1>2 DEF KernelStep, receiveRest, recvtimeRest, wakeup, clkhandlerRest, sems
<1>3. CASE clkhandler BY <1>3 DEF clkhandler, sems
<1>4. CASE UNCHANGED vars BY <1>4 DEF vars, sems
<1>5. QED BY <1>1, <1>2, <1>3, <1>4 DEF Next, Halted

LEMMA NextNegative == ASSUME IInv, WaitingNegative, [Next]_vars PROVE WaitingNegative'
<1>1. IInv' BY NextOK
<1> SUFFICES ASSUME NEW s \in Sems, squeue'[s] # << >> PROVE scount'[s] < 0
  BY DEF WaitingNegative
<1>2. CASE ~Within("semreset", s)'
  <2>1. /\ Len(squeue'[s]) = IF scount'[s] < 0 THEN -scount'[s] ELSE 0
        /\ squeue'[s] \in Seq(Pids) /\ scount'[s] \in Int
    BY <1>1, <1>2 DEF IInv, Waits, CountsWaiters, TypeOK, TypeSems
  <2>2. Len(squeue'[s]) # 0 BY <2>1
  <2>3. QED BY <2>1, <2>2
<1>3. CASE Within("semreset", s)'
  <2>1. /\ cont'[currpid'].op = "semreset" /\ cont'[currpid'].arg = s /\ ndefers' = 1
        /\ \A p \in Pids : cont'[p].op \in DeferOps => p = currpid'
    BY <1>1, <1>3 DEF Within, IInv, Calling, DeferralOwned, DeferOps
  <2>2. cont[currpid].op \notin DeferOps => ndefers = 0
    BY DEF IInv, Calling, DeferralOwned
  <2>3. currpid \in Pids /\ cont \in Conts BY TypesOf DEF IInv, TypeOK, TypeRest, Conts
  <2>4. CASE UNCHANGED <<squeue, scount>> BY <2>4 DEF WaitingNegative
  <2>5. CASE \/ \E n \in Counts : semcreate(n)
             \/ \E t \in Sems : wait(t) \/ signal(t)
             \/ killRest
    <3>1. ndefers = 0 /\ ndefers' = ndefers
      BY <2>2, <2>5 DEF semcreate, wait, signal, killRest, Call, CallOrIntr, In, DeferOps
    <3>2. QED BY <2>1, <3>1
  <2>6. CASE signalnRest
    <3>1. cont'[currpid].op = "signaln" \/ ndefers' = 0
      BY <2>3, <2>6, TypesOf DEF signalnRest, Then, DEFER_STOP, Rest, Conts
    <3>2. QED BY <2>1, <2>3, <3>1 DEF DeferOps
  <2>7. CASE semdeleteRest
    <3>1. cont'[currpid].op = "semdelete" \/ ndefers' = 0
      BY <2>3, <2>7, TypesOf DEF semdeleteRest, In, Then, DEFER_STOP
    <3>2. QED BY <2>1, <2>3, <3>1 DEF DeferOps
  <2>8. CASE semresetRest
    <3>1. \/ /\ squeue[cont[currpid].arg] # << >>
             /\ squeue' = [squeue EXCEPT ![cont[currpid].arg] = Tail(@)] /\ UNCHANGED scount
          \/ ndefers' = 0
      BY <2>8, TypesOf DEF semresetRest, DEFER_STOP
    <3>2. squeue \in [Sems -> Seq(Pids)] BY DEF IInv, TypeOK, TypeSems
    <3>3. QED BY <2>1, <3>1, <3>2 DEF WaitingNegative
  <2>9. QED BY <2>4, <2>5, <2>6, <2>7, <2>8, TouchesSems
<1>4. QED BY <1>2, <1>3

\* A step that changes the semaphore s only.
LEMMA OneSemaphore ==
    ASSUME NEW s \in Sems, NEW v, SemOf(s)' = v,
           \A t \in Sems : t # s => squeue'[t] = squeue[t] /\ scount'[t] = scount[t]
    PROVE  Tab' = [Tab EXCEPT ![s] = v]
<1>1. \A t \in Sems : t # s => SemOf(t)' = SemOf(t) BY DEF SemOf
<1>2. Tab' = [t \in Sems |-> SemOf(t)'] BY DEF Tab
<1>3. Tab = [t \in Sems |-> SemOf(t)] BY DEF Tab
<1> HIDE DEF Tab
<1>4. QED BY <1>1, <1>2, <1>3
\* What a wait, a signal, a departure and a new count are for the table.
TabStep == Table!SemNext \/ UNCHANGED Tab

LEMMA TabWait ==
    ASSUME NEW s \in Sems, NEW p \in Pids, Tab' = [Tab EXCEPT ![s] = Table!P(Tab[s], p)]
    PROVE  TabStep
  BY DEF TabStep, Table!SemNext, Table!Become, Tab
LEMMA TabSignal ==
    ASSUME NEW s \in Sems, Tab' = [Tab EXCEPT ![s] = Table!V(Tab[s])]
    PROVE  TabStep
  BY DEF TabStep, Table!SemNext, Table!Become, Tab
LEMMA TabLeave ==
    ASSUME NEW s \in Sems, NEW p \in Pids, Table!Waits(Tab[s], p),
           Tab' = [Tab EXCEPT ![s] = Table!Leave(Tab[s], p)]
    PROVE  TabStep
  BY DEF TabStep, Table!SemNext, Table!Become, Tab
LEMMA TabNew ==
    ASSUME NEW s \in Sems, NEW n \in Nat, squeue[s] = << >>,
           Tab' = [Tab EXCEPT ![s] = Table!SemNew(n)]
    PROVE  TabStep
<1>1. ~Table!Waiting(s) BY DEF Table!Waiting, SemOf
<1>2. Tab'[s].val = n BY DEF Tab, Table!SemNew
<1>3. n \in {Tab'[s].val} \cap Nat BY <1>2
<1>4. QED BY <1>1, <1>3 DEF TabStep, Table!SemNext, Table!Become, Tab

LEMMA SemTypes ==
    ASSUME IInv, NEW s \in Sems
    PROVE  /\ squeue \in [Sems -> Seq(Pids)] /\ scount \in [Sems -> Int]
           /\ squeue[s] \in Seq(Pids) /\ NoDup(squeue[s]) /\ scount[s] \in Int
           /\ Tab[s] = SemOf(s) /\ Len(squeue[s]) \in Nat
           /\ Len(squeue[s]) = 0 <=> squeue[s] = << >>
           /\ ~Within("semreset", s) =>
                Len(squeue[s]) = IF scount[s] < 0 THEN -scount[s] ELSE 0
  BY DEF IInv, TypeOK, TypeSems, Waits, WaitMatches, CountsWaiters, Tab

\* The operations of SemSpec on a semaphore whose fields are known.
LEMMA TableOps ==
    ASSUME NEW v, NEW q, NEW p, NEW s, s = [val |-> v, queue |-> q]
    PROVE  /\ v > 0 => Table!P(s, p) = [val |-> v - 1, queue |-> q]
           /\ ~(v > 0) => Table!P(s, p) = [val |-> v, queue |-> Append(q, p)]
           /\ q # << >> => Table!V(s) = [val |-> v, queue |-> Tail(q)]
           /\ q = << >> => Table!V(s) = [val |-> v + 1, queue |-> q]
           /\ OnQueue(q, p) =>
                Table!Waits(s, p) /\ Table!Leave(s, p) = [val |-> v, queue |-> getitem(p, q)]
<1>1. s.val = v /\ s.queue = q OBVIOUS
<1>2. \A x : [s EXCEPT !.val = x] = [val |-> x, queue |-> q] OBVIOUS
<1>3. \A x : [s EXCEPT !.queue = x] = [val |-> v, queue |-> x] OBVIOUS
<1>4. Table!getitem(p, q) = getitem(p, q)
  BY DEF Table!getitem, Table!PosOf, Table!RemoveAt, getitem, PosOf, RemoveAt
<1>5. Table!Waits(s, p) <=> OnQueue(q, p)
  BY <1>1 DEF Table!Waits, Table!OnQueue, OnQueue
<1>6. Table!P(s, p) = IF v > 0 THEN [val |-> v - 1, queue |-> q]
                      ELSE [val |-> v, queue |-> Append(q, p)]
  BY <1>1, <1>2, <1>3, Zenon DEF Table!P
<1>7. Table!V(s) = IF q # << >> THEN [val |-> v, queue |-> Tail(q)]
                   ELSE [val |-> v + 1, queue |-> q]
  BY <1>1, <1>2, <1>3, Zenon DEF Table!V
<1>8. OnQueue(q, p) => Table!Leave(s, p) = [val |-> v, queue |-> getitem(p, q)]
  BY <1>1, <1>3, <1>4, <1>5, Zenon DEF Table!Leave
<1>9. QED BY <1>5, <1>6, <1>7, <1>8

\* A semaphore with processes that wait, and one without.
LEMMA SemOfIs ==
    ASSUME NEW s \in Sems, scount[s] \in Int
    PROVE  /\ squeue[s] # << >> \/ scount[s] <= 0 => SemOf(s) = [val |-> 0, queue |-> squeue[s]]
           /\ squeue[s] = << >> /\ scount[s] >= 0 =>
                SemOf(s) = [val |-> scount[s], queue |-> squeue[s]]
  BY DEF SemOf

LEMMA SignalOnceTab ==
    ASSUME IInv, NEW s \in Sems, ~Within("semreset", s), SignalOnce(s)
    PROVE  TabStep
<1>1. /\ squeue \in [Sems -> Seq(Pids)] /\ scount \in [Sems -> Int]
      /\ squeue[s] \in Seq(Pids) /\ scount[s] \in Int /\ Tab[s] = SemOf(s)
      /\ Len(squeue[s]) = IF scount[s] < 0 THEN -scount[s] ELSE 0
  BY SemTypes
<1>2. scount' = [scount EXCEPT ![s] = @ + 1] BY DEF SignalOnce
<1>3. CASE scount[s] < 0 /\ squeue' = [squeue EXCEPT ![s] = Tail(@)]
  <2>1. squeue[s] # << >> /\ Len(Tail(squeue[s])) = Len(squeue[s]) - 1
        /\ Tail(squeue[s]) \in Seq(Pids)
    BY <1>1, <1>3
  <2>2. SemOf(s)' = [val |-> 0, queue |-> Tail(squeue[s])]
    <3>1. squeue'[s] = Tail(squeue[s]) /\ scount'[s] = scount[s] + 1 BY <1>1, <1>2, <1>3
    <3>2. scount'[s] >= 0 => scount'[s] = 0 BY <1>1, <1>3, <3>1
    <3>3. SemOf(s)' = [val |-> IF squeue'[s] # << >> \/ scount'[s] < 0 THEN 0 ELSE scount'[s],
                       queue |-> squeue'[s]] BY DEF SemOf
    <3>4. (IF squeue'[s] # << >> \/ scount'[s] < 0 THEN 0 ELSE scount'[s]) = 0
      BY <1>1, <1>3, <3>1
    <3>5. QED BY <3>1, <3>3, <3>4, Zenon
  <2>3. Table!V(Tab[s]) = [val |-> 0, queue |-> Tail(squeue[s])]
    <3>1. Tab[s] = [val |-> 0, queue |-> squeue[s]] BY <1>1, <2>1, SemOfIs
    <3>2. QED BY <2>1, <3>1, TableOps
  <2>4. Tab' = [Tab EXCEPT ![s] = Table!V(Tab[s])]
    BY <1>1, <1>2, <1>3, <2>2, <2>3, OneSemaphore
  <2>5. QED BY <2>4, TabSignal
<1>4. CASE scount[s] >= 0 /\ UNCHANGED squeue
  <2>1. squeue[s] = << >> BY <1>1, <1>4
  <2>2. SemOf(s)' = [val |-> scount[s] + 1, queue |-> squeue[s]]
    BY <1>1, <1>2, <1>4, <2>1 DEF SemOf
  <2>3. Table!V(Tab[s]) = [val |-> scount[s] + 1, queue |-> squeue[s]]
    <3>1. Tab[s] = [val |-> scount[s], queue |-> squeue[s]] BY <1>1, <1>4, <2>1, SemOfIs
    <3>2. QED BY <2>1, <3>1, TableOps
  <2>4. Tab' = [Tab EXCEPT ![s] = Table!V(Tab[s])]
    BY <1>1, <1>2, <1>4, <2>2, <2>3, OneSemaphore
  <2>5. QED BY <2>4, TabSignal
<1>5. QED BY <1>3, <1>4 DEF SignalOnce

LEMMA WaitTab == ASSUME IInv, NEW s \in Sems, wait(s) PROVE TabStep
<1>1. currpid \in Pids /\ ~Within("semreset", s)
  BY CallOK DEF wait, Within
<1>2. /\ squeue \in [Sems -> Seq(Pids)] /\ scount \in [Sems -> Int]
      /\ squeue[s] \in Seq(Pids) /\ scount[s] \in Int /\ Tab[s] = SemOf(s)
      /\ Len(squeue[s]) = IF scount[s] < 0 THEN -scount[s] ELSE 0
  BY <1>1, SemTypes
<1>3. scount' = [scount EXCEPT ![s] = @ - 1] BY DEF wait
<1>4. CASE scount[s] - 1 < 0 /\ squeue' = [squeue EXCEPT ![s] = enqueue(currpid, @)]
  <2>1. SemOf(s)' = [val |-> 0, queue |-> Append(squeue[s], currpid)]
    BY <1>2, <1>3, <1>4 DEF SemOf, enqueue
  <2>2. Table!P(Tab[s], currpid) = [val |-> 0, queue |-> Append(squeue[s], currpid)]
    <3>1. Tab[s] = [val |-> 0, queue |-> squeue[s]] BY <1>2, <1>4, SemOfIs
    <3>2. ~(0 > 0) OBVIOUS
    <3>3. QED BY <3>1, <3>2, TableOps
  <2>3. Tab' = [Tab EXCEPT ![s] = Table!P(Tab[s], currpid)]
    BY <1>2, <1>3, <1>4, <2>1, <2>2, OneSemaphore
  <2>4. QED BY <1>1, <2>3, TabWait
<1>5. CASE scount[s] - 1 >= 0 /\ UNCHANGED squeue
  <2>1. squeue[s] = << >> BY <1>2, <1>5
  <2>2. SemOf(s)' = [val |-> scount[s] - 1, queue |-> squeue[s]]
    BY <1>2, <1>3, <1>5, <2>1 DEF SemOf
  <2>3. Table!P(Tab[s], currpid) = [val |-> scount[s] - 1, queue |-> squeue[s]]
    <3>1. Tab[s] = [val |-> scount[s], queue |-> squeue[s]] BY <1>2, <1>5, <2>1, SemOfIs
    <3>2. scount[s] > 0 BY <1>2, <1>5
    <3>3. QED BY <3>1, <3>2, TableOps
  <2>4. Tab' = [Tab EXCEPT ![s] = Table!P(Tab[s], currpid)]
    BY <1>2, <1>3, <1>5, <2>2, <2>3, OneSemaphore
  <2>5. QED BY <1>1, <2>4, TabWait
<1>6. QED BY <1>4, <1>5 DEF wait

\* A new count for a semaphore that nobody waits on.
LEMMA NewCountTab ==
    ASSUME IInv, NEW s \in Sems, squeue[s] = << >>, NEW n \in Nat,
           scount' = [scount EXCEPT ![s] = n], UNCHANGED squeue
    PROVE  TabStep
<1>1. scount \in [Sems -> Int] BY SemTypes
<1>2. SemOf(s)' = Table!SemNew(n)
  <2>1. squeue'[s] = << >> /\ scount'[s] = n BY <1>1
  <2>2. ~(n < 0) OBVIOUS
  <2>3. QED BY <2>1, <2>2 DEF SemOf, Table!SemNew
<1>3. Tab' = [Tab EXCEPT ![s] = Table!SemNew(n)] BY <1>1, <1>2, OneSemaphore
<1>4. QED BY <1>3, TabNew

LEMMA SemcreateTab == ASSUME IInv, NEW n \in Counts, semcreate(n) PROVE TabStep
<1> DEFINE t == NextFrom(nextsem, NSEM, FreeSems)
<1>1. t \in Sems /\ sstate[t] = "S_FREE"
  <2>1. NSEM \in Nat \ {0} BY SizesAssumption DEF semcreate, FreeSems, Sems
  <2>2. nextsem \in Nat BY DEF IInv, TypeOK, TypeSems
  <2>3. FreeSems \subseteq Nat /\ FreeSems # {}
    BY SizesAssumption DEF semcreate, FreeSems, Sems
  <2>4. t \in FreeSems BY <2>1, <2>2, <2>3, NextFromFree, Zenon
  <2>5. QED BY <2>4 DEF FreeSems
<1>2. scount' = [scount EXCEPT ![t] = n] /\ UNCHANGED squeue BY DEF semcreate
<1>3. squeue[t] = << >>
  BY <1>1 DEF IInv, Waits, DeletedHasNoWaiters, semcreate, Call, In, Within
<1>4. PICK s \in Sems : s = t BY <1>1
<1>5. n \in Nat BY ArgsAssumption
<1>6. scount' = [scount EXCEPT ![s] = n] /\ squeue[s] = << >> BY <1>2, <1>3, <1>4
<1>7. QED BY <1>2, <1>5, <1>6, NewCountTab

LEMMA KillRestTab == ASSUME IInv, killRest PROVE TabStep
<1> DEFINE p == cont[currpid].arg
<1>1. CASE UNCHANGED <<scount, squeue>> BY <1>1 DEF TabStep, Tab, SemOf
<1>2. CASE prstate[p] = "WAIT" /\ LeaveSemaphore(p)
  <2>1. p \in Pids BY TypesOf DEF killRest, In, IInv, Calling, RestsValid
  <2>2. PICK r \in Pids : r = p BY <2>1
  <2>3. PICK s \in Sems : s = prsem[r] /\ OnQueue(squeue[s], r)
    BY <1>2, <2>2 DEF IInv, Waits, WaitMatches
  <2>4. ~Within("semreset", s) BY DEF killRest, In, Within
  <2>5. /\ scount' = [scount EXCEPT ![s] = @ + 1]
        /\ squeue' = [squeue EXCEPT ![s] = getitem(r, @)]
    BY <1>2, <2>2, <2>3 DEF LeaveSemaphore
  <2>6. /\ squeue \in [Sems -> Seq(Pids)] /\ scount \in [Sems -> Int]
        /\ squeue[s] \in Seq(Pids) /\ NoDup(squeue[s]) /\ scount[s] \in Int /\ Tab[s] = SemOf(s)
        /\ Len(squeue[s]) = IF scount[s] < 0 THEN -scount[s] ELSE 0
    BY <2>3, <2>4, SemTypes
  <2>7. getitem(r, squeue[s]) \in Seq(Pids) /\ Len(getitem(r, squeue[s])) = Len(squeue[s]) - 1
    BY <2>3, <2>6, GetitemQueue, Zenon
  <2>8. squeue[s] # << >> /\ scount[s] < 0
    <3>1. Len(squeue[s]) # 0 BY <2>3, <2>6 DEF OnQueue
    <3>2. QED BY <3>1, <2>6
  <2>9. SemOf(s)' = [val |-> 0, queue |-> getitem(r, squeue[s])]
    <3>1. squeue'[s] = getitem(r, squeue[s]) /\ scount'[s] = scount[s] + 1
      BY <2>3, <2>5, <2>6
    <3>2. SemOf(s)' = [val |-> IF squeue'[s] # << >> \/ scount'[s] < 0 THEN 0 ELSE scount'[s],
                       queue |-> squeue'[s]] BY DEF SemOf
    <3>3. scount'[s] >= 0 => scount'[s] = 0 BY <2>6, <2>8, <3>1
    <3>4. scount'[s] \in Int BY <2>6, <3>1
    <3>5. (IF squeue'[s] # << >> \/ scount'[s] < 0 THEN 0 ELSE scount'[s]) = 0 BY <3>3, <3>4
    <3>6. QED BY <3>1, <3>2, <3>5, Zenon
  <2>10. /\ Table!Waits(Tab[s], r)
         /\ Table!Leave(Tab[s], r) = [val |-> 0, queue |-> getitem(r, squeue[s])]
    <3>1. Tab[s] = [val |-> 0, queue |-> squeue[s]] BY <2>3, <2>6, <2>8, SemOfIs
    <3>2. QED BY <2>3, <3>1, TableOps
  <2>11. Tab' = [Tab EXCEPT ![s] = Table!Leave(Tab[s], r)]
    BY <2>3, <2>5, <2>6, <2>9, <2>10, OneSemaphore
  <2>12. QED BY <2>10, <2>11, TabLeave
<1>3. QED BY <1>1, <1>2 DEF killRest

LEMMA SignalTab == ASSUME IInv, NEW s \in Sems, signal(s) PROVE TabStep
<1>1. ~Within("semreset", s) BY DEF signal, CallOrIntr, In, Within
<1>2. QED BY <1>1, SignalOnceTab DEF signal

LEMMA SignalnRestTab == ASSUME IInv, signalnRest PROVE TabStep
<1>1. PICK s \in Sems : s = cont[currpid].arg /\ ~Within("semreset", s)
  BY TypesOf DEF signalnRest, In, Within, IInv, Calling, RestsValid
<1>2. CASE SignalOnce(s) BY <1>1, <1>2, SignalOnceTab
<1>3. CASE UNCHANGED <<scount, squeue>> BY <1>3 DEF TabStep, Tab, SemOf
<1>4. QED BY <1>1, <1>2, <1>3 DEF signalnRest

LEMMA SemdeleteRestTab == ASSUME IInv, semdeleteRest PROVE TabStep
<1>1. PICK s \in Sems : s = cont[currpid].arg /\ ~Within("semreset", s)
  BY TypesOf DEF semdeleteRest, In, Within, IInv, Calling, RestsValid
<1>2. CASE SignalOnce(s) BY <1>1, <1>2, SignalOnceTab
<1>3. CASE scount[s] >= 0 /\ scount' = [scount EXCEPT ![s] = @ + 1] /\ UNCHANGED squeue
  <2>1. squeue[s] = << >> /\ scount[s] + 1 \in Nat BY <1>1, <1>3, SemTypes
  <2>2. QED BY <1>1, <1>3, <2>1, NewCountTab
<1>4. QED BY <1>1, <1>2, <1>3 DEF semdeleteRest

LEMMA SemresetRestTab == ASSUME IInv, WaitingNegative, semresetRest PROVE TabStep
<1>1. cont[currpid].arg \in Sems /\ cont[currpid].n \in Nat
  BY TypesOf DEF semresetRest, In, IInv, Calling, RestsValid, TypeOK, TypeRest
<1>2. PICK s \in Sems, n \in Nat : s = cont[currpid].arg /\ n = cont[currpid].n BY <1>1
<1>3. CASE squeue[s] # << >> /\ squeue' = [squeue EXCEPT ![s] = Tail(@)] /\ UNCHANGED scount
  <2>1. /\ squeue \in [Sems -> Seq(Pids)] /\ squeue[s] \in Seq(Pids) /\ scount[s] \in Int
        /\ Tab[s] = SemOf(s)
    BY <1>2, SemTypes
  <2>2. scount[s] < 0 /\ scount'[s] = scount[s] BY <1>2, <1>3 DEF WaitingNegative
  <2>3. SemOf(s)' = [val |-> 0, queue |-> Tail(squeue[s])]
    <3>1. squeue'[s] = Tail(squeue[s]) BY <1>2, <1>3, <2>1
    <3>2. QED BY <2>2, <3>1 DEF SemOf
  <2>4. Table!V(Tab[s]) = [val |-> 0, queue |-> Tail(squeue[s])]
    <3>1. Tab[s] = [val |-> 0, queue |-> squeue[s]] BY <1>2, <1>3, <2>1, SemOfIs
    <3>2. QED BY <1>3, <3>1, TableOps
  <2>5. Tab' = [Tab EXCEPT ![s] = Table!V(Tab[s])]
    BY <1>2, <1>3, <2>1, <2>3, <2>4, OneSemaphore
  <2>6. QED BY <1>2, <2>5, TabSignal
<1>4. CASE squeue[s] = << >> /\ scount' = [scount EXCEPT ![s] = n] /\ UNCHANGED squeue
  BY <1>2, <1>4, NewCountTab
<1>5. QED BY <1>2, <1>3, <1>4 DEF semresetRest

LEMMA TabNext == ASSUME IInv, WaitingNegative, [Next]_vars PROVE [Table!SemNext]_Tab
<1>1. CASE UNCHANGED <<squeue, scount>> BY <1>1 DEF Tab, SemOf
<1>2. ASSUME TabStep PROVE [Table!SemNext]_Tab BY <1>2 DEF TabStep
<1>3. QED
  BY <1>1, <1>2, TouchesSems, SemcreateTab, WaitTab, SignalTab, KillRestTab, SignalnRestTab,
     SemdeleteRestTab, SemresetRestTab

\* The process manager's semaphores, with rescheduling deferred and processes
\* killed between the steps of a call, do what a table of counting semaphores
\* with first come, first served queues does: every step is one wait, signal
\* or departure, one new count for a semaphore nobody waits on, or nothing.
THEOREM SemaphoresImplemented == Spec => IsSemTable
<1>1. Init => Table!SemInit
  <2>1. ASSUME Init, NEW s \in Sems PROVE SemOf(s) = Table!SemNew(0)
    BY <2>1 DEF Init, SemOf, Table!SemNew
  <2>2. QED BY <2>1 DEF Table!SemInit
<1>2. Init => WaitingNegative BY DEF Init, WaitingNegative
<1>3. IInv /\ WaitingNegative /\ [Next]_vars => WaitingNegative' BY NextNegative
<1>4. IInv /\ WaitingNegative /\ [Next]_vars => [Table!SemNext]_Tab BY TabNext
<1>5. QED BY <1>1, <1>2, <1>3, <1>4, Invariance, PTL DEF Spec, IsSemTable, Table!SemTable, Tab
-----------------------------------------------------------------------------
\* The accounts of proctab.  Without kill of another process, the process that
\* dies is the one that runs, so that no entry is freed twice.
KillSelf == \A p \in Pids : cont[p].op = "kill" => cont[p].arg = p
Accounts == KillSelf /\ CountIsLive /\ HaltsOnlyWhenAlone /\ StacksOwned

\* Nobody comes or goes, and nobody begins or ends a kill.
SameLives == \A p \in Pids : prstate'[p] = "FREE" <=> prstate[p] = "FREE"
SameKills == \A p \in Pids : /\ cont'[p].op = "kill" <=> cont[p].op = "kill"
                             /\ cont'[p].op = "kill" => cont'[p].arg = cont[p].arg

LEMMA AccountsSame ==
    ASSUME Accounts, SameLives, SameKills, UNCHANGED <<prcount, halted, prstk, freestks>>
    PROVE  Accounts'
<1>1. Live' = Live BY DEF Live, SameLives
<1>2. \A p \in Pids : Dying(p)' <=> Dying(p) BY DEF Dying, SameKills
<1>3. {p \in Live : ~Dying(p)}' = {p \in Live : ~Dying(p)} BY <1>1, <1>2 DEF Live
<1>4. KillSelf' BY DEF Accounts, KillSelf, SameKills
<1>5. CountIsLive' BY <1>3 DEF Accounts, CountIsLive
<1>6. HaltsOnlyWhenAlone' BY <1>1, <1>2 DEF Accounts, HaltsOnlyWhenAlone, Live
<1>7. StacksOwned' BY <1>1 DEF Accounts, StacksOwned
<1>8. QED BY <1>4, <1>5, <1>6, <1>7 DEF Accounts

\* A reschedule moves processes of the ready list and the processor only.
LEMMA ReadyLives ==
    ASSUME IInv, NEW p \in Pids, prstate[p] \notin Eligible, prstate[p] # "FREE",
           NEW qk \in [Pids -> Int], ready(p, prstate, readylist, qk)
    PROVE  SameLives
<1>1. Kept([prstate EXCEPT ![p] = "READY"], prstate') BY ReadyOK DEF IInv
<1>2. QED BY <1>1, TypesOf DEF Kept, Eligible, SameLives

LEMMA BlockLives ==
    ASSUME IInv, currpid # NULLPROC, ndefers = 0, NEW st \in States \ Eligible,
           NEW qk \in [Pids -> Int], Block(st, qk)
    PROVE  \A p \in Pids : prstate'[p] = "FREE" <=>
               IF p = currpid THEN st = "FREE" ELSE prstate[p] = "FREE"
<1>1. Kept([prstate EXCEPT ![currpid] = st], prstate') BY BlockOK DEF IInv
<1>2. QED BY <1>1, TypesOf DEF Kept, Eligible

LEMMA ReschedLives ==
    ASSUME IInv, NEW qk \in [Pids -> Int], NEW pre \in 1..QUANTUM,
           resched(prstate, readylist, qk, pre)
    PROVE  SameLives
<1>1. SchedPre(prstate, readylist, qk, currpid) BY TypesOf DEF SchedPre
<1>2. ndefers > 0 => prstate[currpid] = "CURR" BY TypesOf DEF IInv, Sched, ProcessorBusy
<1>3. Kept(prstate, prstate') BY <1>1, <1>2, TypesOf, ReschedOK
<1>4. QED BY <1>3 DEF Kept, Eligible, SameLives

LEMMA DeferStopLives == ASSUME IInv, DEFER_STOP PROVE SameLives
<1>1. CASE stay(prstate, readylist, qkey, preempt) BY <1>1 DEF stay, SameLives
<1>2. CASE reschedNow(prstate, readylist, qkey, preempt)
  <2>1. Kept(prstate, prstate') BY <1>2, TypesOf, ReschedNowOK
  <2>2. QED BY <2>1 DEF Kept, Eligible, SameLives
<1>3. QED BY <1>1, <1>2 DEF DEFER_STOP

LEMMA DeliverLives == ASSUME IInv, NEW p \in Pids, NEW m, deliver(p, m) PROVE SameLives
<1>1. CASE prstate[p] = "RECV" /\ ready(p, prstate, readylist, qkey)
  BY <1>1, TypesOf, ReadyLives DEF Eligible
<1>2. CASE prstate[p] = "RECTIM" /\ ReadySleeper(p)
  <2>1. unsleepKeys(p, sleepq, qkey) \in [Pids -> Int]
    BY <1>2, SleeperLeaves DEF IInv
  <2>2. QED BY <1>2, <2>1, ReadyLives DEF ReadySleeper, Eligible
<1>3. CASE UNCHANGED <<sched, sleepq>> BY <1>3 DEF sched, SameLives
<1>4. QED BY <1>1, <1>2, <1>3 DEF deliver

LEMMA ReleaseLives ==
    ASSUME IInv, NEW s \in Sems, squeue[s] # << >>,
           ready(Head(squeue[s]), prstate, readylist, qkey)
    PROVE  SameLives
<1>1. squeue[s] \in Seq(Pids) /\ NoDup(squeue[s])
  BY DEF IInv, TypeOK, TypeSems, Waits, WaitMatches
<1>2. Head(squeue[s]) \in Pids /\ OnQueue(squeue[s], Head(squeue[s]))
  BY <1>1, DequeueQueue, Zenon
<1>3. prstate[Head(squeue[s])] = "WAIT" BY <1>2 DEF IInv, Waits, WaitMatches
<1>4. QED BY <1>2, <1>3, TypesOf, ReadyLives DEF Eligible

LEMMA SignalOnceLives ==
    ASSUME IInv, NEW s \in Sems, ~Within("semreset", s), SignalOnce(s)
    PROVE  SameLives
<1>1. CASE UNCHANGED <<sched, squeue>> BY <1>1 DEF sched, SameLives
<1>2. CASE scount[s] < 0 /\ ready(Head(squeue[s]), prstate, readylist, qkey)
  <2>1. Len(squeue[s]) = -scount[s] /\ scount[s] \in Int
    BY <1>2 DEF IInv, Waits, CountsWaiters, TypeOK, TypeSems
  <2>2. squeue[s] # << >> BY <1>2, <2>1
  <2>3. QED BY <1>2, <2>2, ReleaseLives
<1>3. QED BY <1>1, <1>2 DEF SignalOnce
-----------------------------------------------------------------------------
\* What the calls and the rests of calls leave as it is.  The process that acts
\* is not in a kill and does not begin one.
Elsewhere == prcount' = prcount /\ halted' = halted /\ prstk' = prstk /\ freestks' = freestks

LEMMA ThenKills ==
    ASSUME IInv, cont[currpid].op # "kill", NEW k, k.op # "kill", Then(k)
    PROVE  SameKills
  BY TypesOf DEF Then, SameKills, IInv, TypeOK, TypeRest

LEMMA CallsSame ==
    ASSUME IInv, UserStep, \A prio \in Prios : ~create(prio), \A p \in Pids : ~kill(p)
    PROVE  SameLives /\ SameKills /\ Elsewhere
<1>1. ASSUME In("user"), NEW k, k.op # "kill", Then(k) PROVE SameKills
  BY <1>1, ThenKills DEF In
<1>2. ASSUME UNCHANGED cont PROVE SameKills BY <1>2 DEF SameKills
<1>3. ASSUME UNCHANGED sched PROVE SameLives BY <1>3 DEF sched, SameLives
<1>4. qkey \in [Pids -> Int] /\ preempt \in 1..QUANTUM /\ currpid \in Pids
      /\ prstate[currpid] = "CURR"
  BY TypesOf DEF IInv, Sched, ProcessorBusy
<1>5. ASSUME NEW c, Call(c), NEW st \in States \ Eligible, st # "FREE",
             NEW qk \in [Pids -> Int], Block(st, qk)
      PROVE  SameLives
  <2>1. currpid # NULLPROC /\ ndefers = 0 BY <1>5, CallOK
  <2>2. QED BY <1>4, <1>5, <2>1, BlockLives DEF SameLives
<1>6. {"SUSP", "RECV", "RECTIM", "SLEEP", "WAIT"} \subseteq States \ Eligible
  BY DEF States, Eligible
<1>7. ASSUME NEW c, Call(c), NEW d \in Delays, NEW st \in {"RECTIM", "SLEEP"}, SleepFor(d, st)
      PROVE  SameLives
  <2>1. sleepq \in Seq(Pids) /\ d \in Int BY TypesOf, ArgsAssumption
  <2>2. insertdKeys(currpid, sleepq, qkey, d) \in [Pids -> Int] BY <1>4, <2>1, InsertdKeys
  <2>3. QED BY <1>5, <1>6, <1>7, <2>2 DEF SleepFor
<1>8. ASSUME NEW p \in Pids, resume(p) \/ suspend(p) PROVE SameLives /\ SameKills /\ Elsewhere
  <2>1. CASE resume(p) BY <1>2, <1>4, <2>1, ReadyLives DEF resume, alloc, Elsewhere, Eligible
  <2>2. CASE suspend(p)
    <3>1. SameKills /\ Elsewhere BY <1>2, <2>2 DEF suspend, alloc, Elsewhere
    <3>2. CASE prstate[p] = "READY" /\ prstate' = [prstate EXCEPT ![p] = "SUSP"]
      BY <3>1, <3>2, TypesOf DEF SameLives
    <3>3. CASE Block("SUSP", qkey) BY <1>4, <1>5, <1>6, <2>2, <3>1, <3>3 DEF suspend
    <3>4. QED BY <2>2, <3>2, <3>3 DEF suspend
  <2>3. QED BY <1>8, <2>1, <2>2
<1>9. ASSUME NEW p \in Pids, \/ \E prio \in NewPrios : chprio(p, prio)
                             \/ \E m \in Msgs : send(p, m)
      PROVE  SameLives /\ SameKills /\ Elsewhere
  BY <1>2, <1>3, <1>9, DeliverLives DEF chprio, send, alloc, Elsewhere
<1>10. CASE receive
  <2>1. Elsewhere BY <1>10 DEF receive, alloc, Elsewhere
  <2>2. SameKills BY <1>1, <1>2, <1>10 DEF receive, Call, Rest
  <2>3. SameLives BY <1>3, <1>4, <1>5, <1>6, <1>10 DEF receive
  <2>4. QED BY <2>1, <2>2, <2>3
<1>11. CASE recvclr BY <1>2, <1>3, <1>11 DEF recvclr, alloc, Elsewhere
<1>12. CASE yield BY <1>2, <1>4, <1>12, ReschedLives DEF yield, alloc, Elsewhere
<1>13. ASSUME NEW d \in Delays, recvtime(d) PROVE SameLives /\ SameKills /\ Elsewhere
  <2>1. Elsewhere BY <1>13 DEF recvtime, alloc, Elsewhere
  <2>2. SameKills BY <1>1, <1>2, <1>13 DEF recvtime, Call, Rest
  <2>3. SameLives BY <1>3, <1>7, <1>13 DEF recvtime
  <2>4. QED BY <2>1, <2>2, <2>3
<1>14. ASSUME NEW d \in Delays, sleepms(d) PROVE SameLives /\ SameKills /\ Elsewhere
  BY <1>2, <1>7, <1>14 DEF sleepms, alloc, Elsewhere
<1>15. ASSUME NEW n \in Counts, semcreate(n) PROVE SameLives /\ SameKills /\ Elsewhere
  BY <1>2, <1>3, <1>15 DEF semcreate, alloc, Elsewhere
<1>16. ASSUME NEW s \in Sems, wait(s) PROVE SameLives /\ SameKills /\ Elsewhere
  BY <1>2, <1>3, <1>4, <1>5, <1>6, <1>16 DEF wait, Elsewhere
<1>17. ASSUME NEW s \in Sems, signal(s) PROVE SameLives /\ SameKills /\ Elsewhere
  <2>1. ~Within("semreset", s) BY <1>17 DEF signal, CallOrIntr, In, Within
  <2>2. QED BY <1>2, <1>17, <2>1, SignalOnceLives DEF signal, alloc, Elsewhere
<1>18. ASSUME NEW k, k.op # "kill", In("user"), StartDefer(k)
       PROVE  SameLives /\ SameKills /\ Elsewhere
  BY <1>1, <1>18 DEF StartDefer, SameLives, alloc, Elsewhere
<1>19. ASSUME NEW s \in Sems, \/ semdelete(s)
                              \/ \E n \in Counts : semreset(s, n) \/ signaln(s, n)
       PROVE  SameLives /\ SameKills /\ Elsewhere
  BY <1>18, <1>19 DEF semdelete, semreset, signaln, Call, CallOrIntr, Rest
<1>20. QED BY <1>8, <1>9, <1>10, <1>11, <1>12, <1>13, <1>14, <1>15, <1>16, <1>17, <1>19
         DEF UserStep

LEMMA RestsSame ==
    ASSUME IInv, KernelStep \/ clkhandler, ~killRest
    PROVE  SameLives /\ SameKills /\ Elsewhere
<1> DEFINE s == cont[currpid].arg
           c == cont[currpid]
<1>1. ASSUME c.op # "kill", NEW k, k.op # "kill", Then(k) PROVE SameKills
  BY <1>1, ThenKills
<1>2. ASSUME UNCHANGED cont PROVE SameKills BY <1>2 DEF SameKills
<1>3. qkey \in [Pids -> Int] /\ preempt \in 1..QUANTUM /\ currpid \in Pids
  BY TypesOf
<1>4. User.op # "kill" BY DEF User, Rest
<1>5. CASE receiveRest \/ recvtimeRest
  BY <1>1, <1>4, <1>5 DEF receiveRest, recvtimeRest, In, sched, SameLives, alloc, Elsewhere
<1>6. ASSUME c.op \in {"semdelete", "semreset", "signaln"} PROVE s \in Sems
  BY <1>3, <1>6 DEF IInv, Calling, RestsValid
<1>7. CASE signalnRest
  <2>1. c.op = "signaln" /\ s \in Sems /\ ~Within("semreset", s) /\ Elsewhere
    BY <1>6, <1>7 DEF signalnRest, In, Within, alloc, Elsewhere
  <2>2. SameLives
    BY <1>7, <2>1, SignalOnceLives, DeferStopLives DEF signalnRest
  <2>3. SameKills BY <1>1, <1>4, <1>7, <2>1 DEF signalnRest, Rest
  <2>4. QED BY <2>1, <2>2, <2>3
<1>8. CASE semdeleteRest
  <2>1. c.op = "semdelete" /\ s \in Sems /\ ~Within("semreset", s) /\ Elsewhere
    BY <1>6, <1>8 DEF semdeleteRest, In, Within, alloc, Elsewhere
  <2>2. SameLives
    BY <1>8, <2>1, SignalOnceLives, DeferStopLives DEF semdeleteRest
  <2>3. SameKills BY <1>1, <1>2, <1>4, <1>8, <2>1 DEF semdeleteRest
  <2>4. QED BY <2>1, <2>2, <2>3
<1>9. CASE semresetRest
  <2>1. c.op = "semreset" /\ s \in Sems /\ Elsewhere
    BY <1>6, <1>9 DEF semresetRest, In, alloc, Elsewhere
  <2>2. SameLives
    BY <1>9, <2>1, ReleaseLives, DeferStopLives DEF semresetRest
  <2>3. SameKills BY <1>1, <1>2, <1>4, <1>9, <2>1 DEF semresetRest
  <2>4. QED BY <2>1, <2>2, <2>3
<1>10. ASSUME NEW qk \in [Pids -> Int], TimeSlice(qk) PROVE SameLives
  <2>1. QUANTUM \in 1..QUANTUM BY SizesAssumption
  <2>2. QED BY <1>10, <2>1, ReschedLives DEF TimeSlice, stay, SameLives
<1>11. CASE wakeup
  <2>1. c.op = "wakeup" /\ Elsewhere BY <1>11 DEF wakeup, In, alloc, Elsewhere
  <2>2. SameKills BY <1>1, <1>2, <1>11, <2>1 DEF wakeup, Rest
  <2>3. CASE sleepq # << >> /\ ready(Head(sleepq), prstate, readylist, qkey)
    <3>1. sleepq \in Seq(Pids) /\ NoDup(sleepq) BY TypesOf DEF IInv, SleepMatches
    <3>2. Head(sleepq) \in Pids /\ OnQueue(sleepq, Head(sleepq))
      BY <2>3, <3>1, DequeueQueue, Zenon
    <3>3. prstate[Head(sleepq)] \in {"SLEEP", "RECTIM"} BY <3>2 DEF IInv, SleepMatches
    <3>4. SameLives BY <1>3, <2>3, <3>2, <3>3, ReadyLives DEF Eligible
    <3>5. QED BY <2>1, <2>2, <3>4
  <2>4. CASE DEFER_STOP BY <2>1, <2>2, <2>4, DeferStopLives
  <2>5. QED BY <1>11, <2>3, <2>4 DEF wakeup, Expired
<1>12. CASE clkhandler
  <2>1. c.op = "user" /\ Elsewhere BY <1>12 DEF clkhandler, In, alloc, Elsewhere
  <2>2. SameKills BY <1>1, <1>2, <1>12, <2>1 DEF clkhandler, Rest
  <2>3. SameLives BY <1>10, <1>12, TickedOK DEF clkhandler, SameLives
  <2>4. QED BY <2>1, <2>2, <2>3
<1>13. CASE clkhandlerRest
  <2>1. c.op = "clkhandler" /\ Elsewhere BY <1>13 DEF clkhandlerRest, In, alloc, Elsewhere
  <2>2. SameKills BY <1>1, <1>4, <1>13, <2>1 DEF clkhandlerRest
  <2>3. SameLives BY <1>3, <1>10, <1>13 DEF clkhandlerRest
  <2>4. QED BY <2>1, <2>2, <2>3
<1>14. QED BY <1>5, <1>7, <1>8, <1>9, <1>11, <1>12, <1>13 DEF KernelStep
-----------------------------------------------------------------------------
\* The three steps that change the accounts.
LEMMA PidsFinite == IsFiniteSet(Pids)
  BY SizesAssumption, FS_Interval DEF Pids

LEMMA CreateAccounts ==
    ASSUME IInv, Accounts, NEW prio \in Prios, create(prio) PROVE Accounts'
<1> DEFINE pid == NextFrom(nextpid, NPROC, FreePids)
           N == {p \in Live : ~Dying(p)}
<1>1. UNCHANGED <<cont, halted>> /\ ~halted BY DEF create, Call, In
<1>2. CASE UNCHANGED <<prstate, prstk, prcount, freestks>>
  BY <1>1, <1>2, AccountsSame DEF SameLives, SameKills
<1>3. ASSUME NEW stk \in freestks,
             prcount' = prcount + 1, prstate' = [prstate EXCEPT ![pid] = "SUSP"],
             prstk' = [prstk EXCEPT ![pid] = stk], freestks' = freestks \ {stk}
      PROVE  Accounts'
  <2>1. prstate[pid] = "FREE" /\ pid \in Pids
    <3>1. NPROC \in Nat \ {0} BY SizesAssumption
    <3>2. nextpid \in Nat BY PidsFacts DEF IInv, TypeOK, TypeProc
    <3>3. FreePids \subseteq Nat BY PidsFacts DEF FreePids
    <3>4. FreePids # {} BY DEF create
    <3>5. pid \in FreePids BY <3>1, <3>2, <3>3, <3>4, NextFromFree, Zenon
    <3>6. QED BY <3>5 DEF FreePids
  <2> HIDE DEF pid
  <2>2. /\ prstate \in [Pids -> States] /\ prstk \in [Pids -> Stacks \cup {NoStack}]
        /\ freestks \subseteq Stacks
    BY DEF IInv, TypeOK, TypeSched, TypeProc
  <2>3. Live' = Live \cup {pid} /\ pid \notin Live /\ Live \subseteq Pids
    BY <1>3, <2>1, <2>2 DEF Live
  <2>4. \A p \in Pids : Dying(p)' <=> Dying(p) BY <1>1 DEF Dying
  <2>5. ~Dying(pid) BY <2>1 DEF Dying, IInv, Calling, RestsValid
  <2>6. N' = N \cup {pid} /\ pid \notin N
    <3>1. N' = {p \in Live' : ~Dying(p)'} OBVIOUS
    <3>2. QED BY <2>1, <2>3, <2>4, <2>5, <3>1
  <2>7. IsFiniteSet(N)
    <3>1. N \subseteq Pids BY DEF Live
    <3>2. QED BY <3>1, PidsFinite, FS_Subset
  <2> HIDE DEF N
  <2>8. Cardinality(N') = Cardinality(N) + 1 BY <2>6, <2>7, FS_AddElement
  <2>9. CountIsLive'
    <3>1. prcount = Cardinality(N) BY <1>1 DEF Accounts, CountIsLive, N
    <3>2. prcount' = Cardinality(N') BY <1>3, <2>8, <3>1
    <3>3. QED BY <3>2 DEF CountIsLive, N
  <2>10. HaltsOnlyWhenAlone' BY <1>1 DEF HaltsOnlyWhenAlone
  <2>11. StacksOwned' BY <1>3, <2>1, <2>2, <2>3 DEF Accounts, StacksOwned
  <2>12. KillSelf' BY <1>1 DEF Accounts, KillSelf
  <2>13. QED BY <2>9, <2>10, <2>11, <2>12 DEF Accounts
<1>4. QED BY <1>2, <1>3 DEF create

LEMMA KillAccounts ==
    ASSUME "kill" \notin Calls, IInv, Accounts, NEW p \in Pids, kill(p) PROVE Accounts'
<1> DEFINE N == {q \in Live : ~Dying(q)}
<1>1. /\ p = currpid /\ p # NULLPROC /\ prstate[p] # "FREE" /\ ~halted
      /\ cont[p].op = "user" /\ prcount' = prcount - 1 /\ UNCHANGED <<prstk, freestks>>
      /\ Then(Rest("kill", p, 0))
  BY DEF kill, Call, In, alloc
<1>2. SameLives
  <2>1. prparent[p] \in Pids BY DEF IInv, TypeOK, TypeProc
  <2>2. QED BY <2>1, DeliverLives DEF kill, sched, SameLives
<1>3. Live' = Live BY <1>2 DEF Live, SameLives
<1>4. cont \in Conts BY DEF IInv, TypeOK, TypeRest, Conts
<1>5. \A q \in Pids : Dying(q)' <=> Dying(q) \/ q = p
  BY <1>1, <1>4 DEF Dying, Then, Rest, Conts
<1>6. N' = N \ {p} /\ p \in N
  <2>1. N' = {q \in Live' : ~Dying(q)'} OBVIOUS
  <2>2. ~Dying(p) /\ p \in Live BY <1>1 DEF Dying, Live
  <2>3. QED BY <1>3, <1>5, <2>1, <2>2 DEF Live
<1>7. IsFiniteSet(N) /\ NULLPROC \in N
  <2>1. N \subseteq Pids BY DEF Live
  <2>2. IsFiniteSet(N) BY <2>1, PidsFinite, FS_Subset
  <2>3. NULLPROC \in Live BY PidsFacts DEF IInv, Sched, ProcessorBusy, Live
  <2>4. ~Dying(NULLPROC) BY PidsFacts DEF Dying, IInv, Calling, RestsValid
  <2>5. QED BY <2>2, <2>3, <2>4
<1> HIDE DEF N
<1>8. Cardinality(N') = Cardinality(N) - 1 /\ IsFiniteSet(N') BY <1>6, <1>7, FS_RemoveElement
<1>9. prcount' = Cardinality(N')
  <2>1. prcount = Cardinality(N) BY <1>1 DEF Accounts, CountIsLive, N
  <2>2. QED BY <1>1, <1>8, <2>1
<1>10. CountIsLive' BY <1>9 DEF CountIsLive, N
<1>11. HaltsOnlyWhenAlone'
  <2> SUFFICES ASSUME halted', NEW q \in Live' \ {NULLPROC} PROVE Dying(q)'
    BY DEF HaltsOnlyWhenAlone
  <2>1. prcount' <= 1 BY <1>1 DEF kill, LastUserProcess
  <2>2. NULLPROC \in N' BY <1>1, <1>6, <1>7
  <2>3. Cardinality(N' \ {NULLPROC}) = Cardinality(N') - 1 /\ IsFiniteSet(N' \ {NULLPROC})
    BY <1>8, <2>2, FS_RemoveElement
  <2>4. Cardinality(N' \ {NULLPROC}) = 0
    <3>1. Cardinality(N' \ {NULLPROC}) \in Nat /\ Cardinality(N') \in Nat
      BY <1>8, <2>3, FS_CardinalityType
    <3>2. QED BY <1>9, <2>1, <2>3, <3>1
  <2>5. N' \ {NULLPROC} = {} BY <2>3, <2>4, FS_EmptySet
  <2>6. q \notin N' BY <2>5
  <2>7. QED BY <2>6 DEF N
<1>12. StacksOwned' BY <1>1, <1>3 DEF Accounts, StacksOwned
<1>13. KillSelf' BY <1>1, <1>4 DEF Accounts, KillSelf, Then, Rest, Conts
<1>14. QED BY <1>10, <1>11, <1>12, <1>13 DEF Accounts

LEMMA KillRestAccounts == ASSUME IInv, Accounts, killRest PROVE Accounts'
<1> DEFINE p == cont[currpid].arg
           N == {q \in Live : ~Dying(q)}
<1>1. /\ In("kill") /\ currpid \in Pids /\ prstate[currpid] = "CURR" /\ cont \in Conts
      /\ UNCHANGED <<prcount, halted, prstk>>
      /\ freestks' = freestks \cup {prstk[p]}
      /\ cont' = [cont EXCEPT ![currpid] = User, ![p] = User]
  BY TypesOf DEF killRest, IInv, Sched, ProcessorBusy, TypeOK, TypeRest, Conts
<1>2. p = currpid /\ p # NULLPROC /\ prstk[p] \in Stacks
  BY <1>1 DEF In, Accounts, KillSelf, IInv, Calling, RestsValid
<1> HIDE DEF p
<1>3. Block("FREE", qkey)
  BY <1>1, <1>2 DEF killRest, Block, Gone, p
<1>4. \A q \in Pids : prstate'[q] = "FREE" <=> q = p \/ prstate[q] = "FREE"
  <2>1. "FREE" \in States \ Eligible BY DEF States, Eligible
  <2>2. ndefers = 0 BY <1>1, NoDeferral DEF In, IInv, Calling, DeferralOwned, DeferOps
  <2>3. QED BY <1>2, <1>3, <2>1, <2>2, TypesOf, BlockLives
<1>5. Live' = Live \ {p} /\ Live \subseteq Pids BY <1>4 DEF Live
<1>6. cont' = [cont EXCEPT ![p] = User] BY <1>1, <1>2
<1>7. \A q \in Pids : q # p => (Dying(q)' <=> Dying(q)) BY <1>6 DEF Dying
<1>8. Dying(p) BY <1>1, <1>2 DEF Dying, In, p
<1>9. N' = N
  <2>1. N' = {q \in Live' : ~Dying(q)'} OBVIOUS
  <2>2. QED BY <1>5, <1>7, <1>8, <2>1
<1>10. CountIsLive' BY <1>1, <1>9 DEF Accounts, CountIsLive
<1>11. HaltsOnlyWhenAlone' BY <1>1 DEF In, HaltsOnlyWhenAlone
<1>12. StacksOwned'
  <2>1. p \in Live \ {NULLPROC} BY <1>1, <1>2 DEF Live
  <2>2. \A q \in Live' \ {NULLPROC} : q \in Live \ {NULLPROC} /\ q # p BY <1>5
  <2>3. freestks' = freestks \cup {prstk[p]} /\ prstk' = prstk BY <1>1 DEF p
  <2>4. QED BY <2>1, <2>2, <2>3 DEF Accounts, StacksOwned
<1>13. KillSelf' BY <1>1, <1>2, <1>6 DEF Accounts, KillSelf, User, Rest, Conts
<1>14. QED BY <1>10, <1>11, <1>12, <1>13 DEF Accounts

LEMMA InitAccounts == Init => Accounts
<1> SUFFICES ASSUME Init PROVE Accounts OBVIOUS
<1>1. \A q \in Pids : cont[q].op = "user" BY DEF Init, User, Rest
<1>2. NULLPROC # 1 /\ NULLPROC \in Pids /\ 1 \in Pids BY PidsFacts DEF NULLPROC
<1>3. Live = {NULLPROC, 1} BY <1>2 DEF Init, Live
<1>4. {q \in Live : ~Dying(q)} = {NULLPROC, 1} BY <1>1, <1>2, <1>3 DEF Dying
<1>5. Cardinality({NULLPROC, 1}) = 2
  <2>1. Cardinality({1}) = 1 /\ IsFiniteSet({1}) BY FS_Singleton
  <2>2. {NULLPROC, 1} = {1} \cup {NULLPROC} /\ NULLPROC \notin {1} BY <1>2
  <2>3. QED BY <2>1, <2>2, FS_AddElement
<1>6. CountIsLive BY <1>4, <1>5 DEF Init, CountIsLive
<1>7. StacksOwned BY <1>2, <1>3 DEF Init, StacksOwned
<1>8. QED BY <1>1, <1>6, <1>7 DEF Init, Accounts, KillSelf, HaltsOnlyWhenAlone

LEMMA NextAccounts ==
    ASSUME "kill" \notin Calls, IInv, Accounts, [Next]_vars PROVE Accounts'
<1>1. CASE UserStep
  BY <1>1, CreateAccounts, KillAccounts, CallsSame, AccountsSame DEF Elsewhere
<1>2. CASE KernelStep \/ clkhandler
  BY <1>2, KillRestAccounts, RestsSame, AccountsSame DEF Elsewhere
<1>3. CASE UNCHANGED vars
  BY <1>3, AccountsSame DEF vars, sched, alloc, SameLives, SameKills
<1>4. QED BY <1>1, <1>2, <1>3 DEF Next, Halted

\* As long as processes only end themselves, by exit or by returning from their
\* main function, prcount is the number of live processes, the processor halts
\* when the null process is alone, and no stack is freed twice or shared
\* (create.c:33, kill.c:24-32).  kill of a process that is already in kill
\* breaks this.
THEOREM ProctabAccounted ==
    ASSUME "kill" \notin Calls PROVE Spec => []EntriesAccounted
<1>1. IInv /\ Accounts /\ [Next]_vars => Accounts' BY NextAccounts
<1>2. Accounts => EntriesAccounted BY DEF Accounts, EntriesAccounted
<1>3. QED BY InitAccounts, Invariance, <1>1, <1>2, PTL DEF Spec
-----------------------------------------------------------------------------
\* Delays.  What is left of a delay along the list, node by node.
Drops(r, q, qk, key) ==
    /\ r[1] = key
    /\ \A j \in 1..Len(q) : r[j + 1] = r[j] - qk[q[j]]
    /\ \A j \in 1..(Len(q) + 1) : r[j] \in Int
LEMMA LeftDrops ==
    ASSUME NEW S, NEW q \in Seq(S), NEW qk \in [S -> Int], NEW key \in Int
    PROVE  Drops(Left(q, qk, key), q, qk, key)
<1>1. Keyed(q, qk) BY DEF Keyed
<1>2. /\ Left(q, qk, key) \in [1..(Len(q) + 1) -> Int]
      /\ \A i \in 1..(Len(q) + 1) :
            Left(q, qk, key)[i] = IF i = 1 THEN key ELSE Left(q, qk, key)[i - 1] - qk[q[i - 1]]
  <2>1. PICK r : r = Left(q, qk, key) OBVIOUS
  <2>2. /\ r \in [1..(Len(q) + 1) -> Int]
        /\ \A i \in 1..(Len(q) + 1) :
              r[i] = IF i = 1 THEN key ELSE r[i - 1] - qk[q[i - 1]]
    BY <1>1, <2>1, LeftDefined
  <2>3. QED BY <2>1, <2>2
<1>3. PICK r : r = Left(q, qk, key) OBVIOUS
<1>4. PICK n \in Nat : n = Len(q) OBVIOUS
<1>5. r[1] = key BY <1>2, <1>3, <1>4
<1>6. ASSUME NEW j \in 1..n PROVE r[j + 1] = r[j] - qk[q[j]]
  <2>1. j + 1 \in 1..(n + 1) /\ j + 1 # 1 /\ (j + 1) - 1 = j OBVIOUS
  <2>2. QED BY <1>2, <1>3, <1>4, <2>1
<1>7. \A j \in 1..(n + 1) : r[j] \in Int BY <1>2, <1>3, <1>4
<1>8. QED BY <1>3, <1>4, <1>5, <1>6, <1>7 DEF Drops

LEMMA PosIs ==
    ASSUME NEW q, NoDup(q), NEW i \in 1..Len(q) PROVE PosOf(q[i], q) = i
<1>1. PosOf(q[i], q) \in 1..Len(q) /\ q[PosOf(q[i], q)] = q[i] BY DEF PosOf
<1>2. QED BY <1>1 DEF NoDup

\* insertd leaves the delays of those on the list alone.
LEMMA InsertdDelays ==
    ASSUME NEW S, NEW q \in Seq(S), NEW p \in S, NoDup(q), ~OnQueue(q, p),
           NEW qk \in [S -> Int], \A i \in 1..Len(q) : qk[q[i]] >= 0,
           NEW d \in Int, d > 0
    PROVE  LET t == insertd(p, q, qk, d)
               ks == insertdKeys(p, q, qk, d)
           IN  /\ \A i \in 1..Len(t) : ks[t[i]] >= 0
               /\ (q # << >> => qk[q[1]] > 0) => ks[t[1]] > 0
               /\ \A x : OnQueue(q, x) =>
                     Left(t, ks, 0)[PosOf(x, t) + 1] = Left(q, qk, 0)[PosOf(x, q) + 1]
<1>1. PICK t : t = insertd(p, q, qk, d) OBVIOUS
<1>2. PICK ks : ks = insertdKeys(p, q, qk, d) OBVIOUS
<1>3. PICK i : i = InsertdPos(q, qk, d) OBVIOUS
<1>4. PICK l : l = Left(q, qk, d) OBVIOUS
<1>5. PICK n \in Nat : n = Len(q) OBVIOUS
<1>6. Keyed(q, qk) BY DEF Keyed
<1>7. /\ i \in 1..(n + 1) /\ \A j \in 1..(i - 1) : qk[q[j]] <= l[j]
      /\ i <= n => qk[q[i]] > l[i]
  BY <1>3, <1>4, <1>5, <1>6, InsertdPosFound, Zenon
<1>8. /\ l[1] = d /\ \A j \in 1..n : l[j + 1] = l[j] - qk[q[j]]
      /\ \A j \in 1..(n + 1) : l[j] \in Int
  <2>1. Drops(l, q, qk, d) BY <1>4, LeftDrops
  <2>2. QED BY <1>5, <2>1 DEF Drops
<1>9. \A j \in 1..n : q[j] \in S /\ q[j] # p /\ qk[q[j]] \in Int /\ qk[q[j]] >= 0
  BY <1>5 DEF OnQueue
<1>10. /\ t \in Seq(S) /\ Len(t) = n + 1
       /\ \A j \in 1..(n + 1) : t[j] = IF j < i THEN q[j] ELSE IF j = i THEN p ELSE q[j - 1]
       /\ NoDup(t)
  <2>1. i \in 1..(Len(q) + 1) BY <1>5, <1>7
  <2>2. Inserted(InsertAt(q, i, p), q, i, p, S) BY <2>1, InsertAtElements, Zenon
  <2>3. NoDup(InsertAt(q, i, p)) BY <2>1, InsertAtQueue, Zenon
  <2>4. t = InsertAt(q, i, p) BY <1>1, <1>3 DEF insertd
  <2>5. QED BY <1>5, <2>2, <2>3, <2>4 DEF Inserted
<1>11. PICK k \in Int : k = l[i] BY <1>7, <1>8
<1>12. k >= 0 /\ (i = 1 => k > 0)
  <2>1. CASE i = 1 BY <1>8, <1>11, <2>1
  <2>2. CASE i # 1
    <3>1. PICK j \in 1..n : i = j + 1 /\ j = i - 1
      <4>1. i - 1 \in 1..n /\ i = (i - 1) + 1 BY <1>7, <2>2
      <4>2. QED BY <4>1
    <3>2. qk[q[j]] <= l[j]
      <4>1. j \in 1..(i - 1) BY <3>1
      <4>2. QED BY <1>7, <4>1
    <3>3. l[j + 1] = l[j] - qk[q[j]] /\ l[j] \in Int /\ qk[q[j]] \in Int BY <1>8, <1>9
    <3>4. QED BY <1>11, <2>2, <3>1, <3>2, <3>3
  <2>3. QED BY <2>1, <2>2
<1>13. ks = [x \in S |-> IF x = p THEN k
                         ELSE IF i <= n /\ x = q[i] THEN qk[x] - k ELSE qk[x]]
  BY <1>2, <1>3, <1>4, <1>5, <1>11 DEF insertdKeys
<1>14. ks[p] = k BY <1>13
<1>15. i <= n => ks[q[i]] = qk[q[i]] - k /\ qk[q[i]] > k
  <2>1. SUFFICES ASSUME i <= n PROVE ks[q[i]] = qk[q[i]] - k /\ qk[q[i]] > k OBVIOUS
  <2>2. i \in 1..n BY <1>7, <2>1
  <2>3. QED BY <1>7, <1>9, <1>11, <1>13, <2>1, <2>2
<1>16. \A j \in 1..n : j # i => ks[q[j]] = qk[q[j]]
  <2>1. SUFFICES ASSUME NEW j \in 1..n, j # i PROVE ks[q[j]] = qk[q[j]] OBVIOUS
  <2>2. ~(i <= n /\ q[j] = q[i]) BY <1>5, <1>7, <2>1 DEF NoDup
  <2>3. QED BY <1>9, <1>13, <2>2
<1>17. ks \in [S -> Int]
  <2>1. \A x \in S : qk[x] \in Int /\ qk[x] - k \in Int OBVIOUS
  <2>2. QED BY <1>13, <2>1
<1>18. \A j \in 1..(n + 1) : ks[t[j]] >= 0
  <2> TAKE j \in 1..(n + 1)
  <2>1. CASE j < i
    <3>1. j \in 1..n /\ j # i BY <1>7, <2>1
    <3>2. QED BY <1>9, <1>10, <1>16, <2>1, <3>1
  <2>2. CASE j = i BY <1>10, <1>12, <1>14, <2>2
  <2>3. CASE j > i
    <3>1. PICK m \in 1..n : m = j - 1 BY <1>7, <2>3
    <3>2. t[j] = q[m]
      <4>1. ~(j < i) /\ j # i BY <1>7, <2>3
      <4>2. t[j] = IF j < i THEN q[j] ELSE IF j = i THEN p ELSE q[j - 1] BY <1>10
      <4>3. QED BY <3>1, <4>1, <4>2
    <3>3. m = i => qk[q[m]] > k /\ ks[q[m]] = qk[q[m]] - k BY <1>15
    <3>4. m # i => ks[q[m]] = qk[q[m]] BY <1>16
    <3>5. qk[q[m]] \in Int /\ qk[q[m]] >= 0 BY <1>9
    <3>6. QED BY <3>2, <3>3, <3>4, <3>5
  <2>4. QED BY <1>7, <2>1, <2>2, <2>3
<1>19. (q # << >> => qk[q[1]] > 0) => ks[t[1]] > 0
  <2>1. CASE i = 1
    <3>1. t[1] = p BY <1>10, <2>1
    <3>2. QED BY <1>12, <1>14, <2>1, <3>1
  <2>2. CASE i # 1
    <3>1. 1 \in 1..n /\ 1 \in 1..(n + 1) /\ 1 < i BY <1>7, <2>2
    <3>2. t[1] = q[1] /\ ks[q[1]] = qk[q[1]] BY <1>10, <1>16, <2>2, <3>1
    <3>3. q # << >> BY <1>5, <3>1
    <3>4. QED BY <3>2, <3>3
  <2>3. QED BY <2>1, <2>2
<1>20. PICK r : r = Left(q, qk, 0) OBVIOUS
<1>21. PICK s : s = Left(t, ks, 0) OBVIOUS
<1>22. /\ r[1] = 0 /\ \A j \in 1..n : r[j + 1] = r[j] - qk[q[j]]
       /\ \A j \in 1..(n + 1) : r[j] \in Int
  <2>1. 0 \in Int OBVIOUS
  <2>2. Drops(r, q, qk, 0) BY <1>20, <2>1, LeftDrops
  <2>3. QED BY <1>5, <2>2 DEF Drops
<1>23. s[1] = 0 /\ \A j \in 1..(n + 1) : s[j + 1] = s[j] - ks[t[j]]
  <2>1. t \in Seq(S) /\ Len(t) = n + 1 BY <1>10
  <2>2. 0 \in Int OBVIOUS
  <2>3. Drops(s, t, ks, 0) BY <1>17, <1>21, <2>1, <2>2, LeftDrops
  <2>4. QED BY <2>1, <2>3 DEF Drops
<1> DEFINE T == {j \in Nat : j \in 1..(n + 1) => /\ j <= i => s[j] = r[j]
                                                 /\ j > i => s[j + 1] = r[j]}
<1>24. 0 \in T OBVIOUS
<1>25. ASSUME NEW j \in Nat, j \in T PROVE j + 1 \in T
  <2>1. SUFFICES ASSUME j + 1 \in 1..(n + 1)
                 PROVE  /\ j + 1 <= i => s[j + 1] = r[j + 1]
                        /\ j + 1 > i => s[(j + 1) + 1] = r[j + 1]
    OBVIOUS
  <2>2. CASE j = 0
    <3>1. j + 1 = 1 /\ 1 <= i BY <1>7, <2>2
    <3>2. s[j + 1] = r[j + 1] BY <1>22, <1>23, <3>1
    <3>3. ~(j + 1 > i) BY <1>7, <3>1
    <3>4. QED BY <3>2, <3>3
  <2>3. CASE j # 0
    <3>1. j \in 1..n /\ j \in 1..(n + 1) /\ j + 1 \in 1..(n + 1) BY <2>1, <2>3
    <3>2. r[j + 1] = r[j] - qk[q[j]] /\ r[j] \in Int /\ qk[q[j]] \in Int BY <1>9, <1>22, <3>1
    <3>3. s[j + 1] = s[j] - ks[t[j]] /\ s[(j + 1) + 1] = s[j + 1] - ks[t[j + 1]] BY <1>23, <3>1
    <3>4. (j <= i => s[j] = r[j]) /\ (j > i => s[j + 1] = r[j]) BY <1>25, <3>1
    <3>5. CASE j < i
      <4>1. t[j] = q[j] /\ ks[q[j]] = qk[q[j]]
        <5>1. j # i BY <1>7, <3>5
        <5>2. t[j] = q[j] BY <1>10, <3>1, <3>5
        <5>3. QED BY <1>16, <3>1, <5>1, <5>2
      <4>2. s[j] = r[j] /\ j + 1 <= i /\ ~(j + 1 > i) BY <1>7, <3>4, <3>5
      <4>3. QED BY <3>2, <3>3, <4>1, <4>2
    <3>6. CASE j = i
      <4>1. t[j] = p /\ t[j + 1] = q[j] BY <1>10, <3>1, <3>6
      <4>2. ks[q[j]] = qk[q[j]] - k BY <1>15, <3>1, <3>6
      <4>3. s[j + 1] = r[j] - k BY <1>14, <3>3, <3>4, <3>6, <4>1
      <4>4. s[(j + 1) + 1] = r[j + 1] BY <3>2, <3>3, <4>1, <4>2, <4>3
      <4>5. ~(j + 1 <= i) BY <3>6
      <4>6. QED BY <4>4, <4>5
    <3>7. CASE j > i
      <4>1. t[j + 1] = q[j] /\ ks[q[j]] = qk[q[j]]
        <5>1. ~(j + 1 < i) /\ j + 1 # i /\ (j + 1) - 1 = j /\ j # i BY <1>7, <3>7
        <5>2. QED BY <1>10, <1>16, <3>1, <5>1
      <4>2. s[j + 1] = r[j] BY <3>4, <3>7
      <4>3. ~(j + 1 <= i) BY <1>7, <3>7
      <4>4. QED BY <3>2, <3>3, <4>1, <4>2, <4>3
    <3>8. QED BY <1>7, <3>5, <3>6, <3>7
  <2>4. QED BY <2>2, <2>3
<1>26. \A j \in Nat : j \in T
  <2> HIDE DEF T
  <2>1. QED BY <1>24, <1>25, Induction, Zenon
<1>27. ASSUME NEW x, OnQueue(q, x) PROVE s[PosOf(x, t) + 1] = r[PosOf(x, q) + 1]
  <2>1. PICK j \in 1..n : q[j] = x BY <1>5, <1>27 DEF OnQueue
  <2>2. PosOf(x, q) = j BY <1>5, <2>1, PosIs
  <2>3. j + 1 \in T /\ j + 1 \in 1..(n + 1) BY <1>26
  <2>4. CASE j < i
    <3>1. t[j] = x /\ j \in 1..Len(t) BY <1>10, <2>1, <2>4
    <3>2. PosOf(x, t) = j BY <1>10, <3>1, PosIs
    <3>3. j + 1 <= i BY <1>7, <2>4
    <3>4. QED BY <2>2, <2>3, <3>2, <3>3
  <2>5. CASE j >= i
    <3>1. ~(j + 1 < i) /\ j + 1 # i /\ (j + 1) - 1 = j BY <1>7, <2>5
    <3>2. t[j + 1] = x /\ j + 1 \in 1..Len(t) BY <1>10, <2>1, <3>1
    <3>3. PosOf(x, t) = j + 1 BY <1>10, <3>2, PosIs
    <3>4. j + 1 > i BY <1>7, <2>5
    <3>5. s[(j + 1) + 1] = r[j + 1] BY <2>3, <3>4
    <3>6. QED BY <2>2, <3>3, <3>5
  <2>6. QED BY <1>7, <2>4, <2>5
<1>28. QED BY <1>1, <1>2, <1>10, <1>18, <1>19, <1>20, <1>21, <1>27

\* The delays depend on the keys of those on the list only.
LEMMA LeftAgrees ==
    ASSUME NEW S, NEW q \in Seq(S), NEW qk \in [S -> Int], NEW ks \in [S -> Int],
           \A j \in 1..Len(q) : ks[q[j]] = qk[q[j]]
    PROVE  Left(q, ks, 0) = Left(q, qk, 0)
<1>1. PICK r : r = Left(q, qk, 0) OBVIOUS
<1>2. PICK s : s = Left(q, ks, 0) OBVIOUS
<1>3. PICK n \in Nat : n = Len(q) OBVIOUS
<1>4. 0 \in Int OBVIOUS
<1>5. Drops(r, q, qk, 0) /\ Drops(s, q, ks, 0) BY <1>1, <1>2, <1>4, LeftDrops
<1>6. \A j \in 1..n : ks[q[j]] = qk[q[j]] BY <1>3
<1> DEFINE T == {j \in Nat : j \in 1..(n + 1) => s[j] = r[j]}
<1>7. 0 \in T OBVIOUS
<1>8. ASSUME NEW j \in Nat, j \in T PROVE j + 1 \in T
  <2>1. SUFFICES ASSUME j + 1 \in 1..(n + 1) PROVE s[j + 1] = r[j + 1] OBVIOUS
  <2>2. CASE j = 0 BY <1>5, <2>2 DEF Drops
  <2>3. CASE j # 0
    <3>1. j \in 1..n /\ s[j] = r[j] BY <1>8, <2>1, <2>3
    <3>2. s[j + 1] = s[j] - ks[q[j]] /\ r[j + 1] = r[j] - qk[q[j]]
      BY <1>3, <1>5, <3>1 DEF Drops
    <3>3. QED BY <1>6, <3>1, <3>2
  <2>4. QED BY <2>2, <2>3
<1>9. \A j \in Nat : j \in T
  <2> HIDE DEF T
  <2>1. QED BY <1>7, <1>8, Induction, Zenon
<1>10. \A i \in 1..(n + 1) : s[i] = r[i] BY <1>9
<1>11. r \in [1..(n + 1) -> Int] /\ s \in [1..(n + 1) -> Int]
  <2>1. Keyed(q, qk) /\ Keyed(q, ks) BY DEF Keyed
  <2>2. Left(q, qk, 0) \in [1..(Len(q) + 1) -> Int] BY <1>4, <2>1, LeftDefined
  <2>3. Left(q, ks, 0) \in [1..(Len(q) + 1) -> Int] BY <1>4, <2>1, LeftDefined
  <2>4. QED BY <1>1, <1>2, <1>3, <2>2, <2>3
<1>12. r = s BY <1>10, <1>11
<1>13. QED BY <1>1, <1>2, <1>12

\* unsleep leaves the delays of the others on the list alone.
LEMMA GetitemDelays ==
    ASSUME NEW S, NEW q \in Seq(S), NEW p \in S, NoDup(q), OnQueue(q, p),
           NEW qk \in [S -> Int], \A i \in 1..Len(q) : qk[q[i]] >= 0
    PROVE  LET t == getitem(p, q)
               ks == unsleepKeys(p, q, qk)
           IN  /\ \A i \in 1..Len(t) : ks[t[i]] >= 0
               /\ qk[q[1]] > 0 /\ t # << >> => ks[t[1]] > 0
               /\ \A x : OnQueue(t, x) =>
                     Left(t, ks, 0)[PosOf(x, t) + 1] = Left(q, qk, 0)[PosOf(x, q) + 1]
<1>1. PICK t : t = getitem(p, q) OBVIOUS
<1>2. PICK ks : ks = unsleepKeys(p, q, qk) OBVIOUS
<1>3. PICK i : i = PosOf(p, q) OBVIOUS
<1>4. PICK n \in Nat : n = Len(q) OBVIOUS
<1>5. i \in 1..n /\ q[i] = p BY <1>3, <1>4 DEF OnQueue, PosOf
<1>6. \A j \in 1..n : q[j] \in S /\ qk[q[j]] \in Int /\ qk[q[j]] >= 0 BY <1>4
<1>7. /\ t \in Seq(S) /\ Len(t) = n - 1
      /\ \A j \in 1..(n - 1) : t[j] = IF j < i THEN q[j] ELSE q[j + 1]
      /\ NoDup(t)
  <2>1. i \in 1..Len(q) BY <1>4, <1>5
  <2>2. t = RemoveAt(q, i) BY <1>1, <1>3 DEF getitem
  <2>3. /\ t \in Seq(S) /\ Len(t) = Len(q) - 1
        /\ \A j \in 1..(Len(q) - 1) : t[j] = IF j < i THEN q[j] ELSE q[j + 1]
    BY <2>1, <2>2, RemoveAtElements
  <2>4. NoDup(t) BY <1>1, GetitemQueue
  <2>5. QED BY <1>4, <2>3, <2>4
<1>8. ks = [x \in S |-> IF i < n /\ x = q[i + 1] THEN qk[x] + qk[p] ELSE qk[x]]
  BY <1>2, <1>3, <1>4 DEF unsleepKeys
<1>9. ks \in [S -> Int]
  <2>1. \A x \in S : qk[x] \in Int /\ qk[x] + qk[p] \in Int OBVIOUS
  <2>2. QED BY <1>8, <2>1
<1>10. \A j \in 1..n : j # i + 1 => ks[q[j]] = qk[q[j]]
  <2>1. SUFFICES ASSUME NEW j \in 1..n, j # i + 1 PROVE ks[q[j]] = qk[q[j]] OBVIOUS
  <2>2. ~(i < n /\ q[j] = q[i + 1])
    <3>1. i < n => i + 1 \in 1..n BY <1>5
    <3>2. QED BY <1>4, <2>1, <3>1 DEF NoDup
  <2>3. QED BY <1>6, <1>8, <2>2
<1>11. i < n => ks[q[i + 1]] = qk[q[i + 1]] + qk[q[i]]
  <2>1. SUFFICES ASSUME i < n PROVE ks[q[i + 1]] = qk[q[i + 1]] + qk[q[i]] OBVIOUS
  <2>2. i + 1 \in 1..n BY <1>5, <2>1
  <2>3. q[i + 1] \in S BY <1>6, <2>2
  <2>4. QED BY <1>5, <1>8, <2>1, <2>3
<1>12. \A j \in 1..(n - 1) : ks[t[j]] >= 0
  <2> TAKE j \in 1..(n - 1)
  <2>1. j \in 1..n /\ j + 1 \in 1..n OBVIOUS
  <2>2. CASE j < i
    <3>1. t[j] = q[j] /\ j # i + 1 BY <1>5, <1>7, <2>2
    <3>2. QED BY <1>6, <1>10, <2>1, <3>1
  <2>3. CASE j = i
    <3>1. t[j] = q[i + 1] /\ i < n BY <1>5, <1>7, <2>3
    <3>2. QED BY <1>5, <1>6, <1>11, <2>1, <2>3, <3>1
  <2>4. CASE j > i
    <3>1. ~(j < i) /\ j + 1 # i + 1 BY <1>5, <2>4
    <3>2. t[j] = q[j + 1] BY <1>7, <3>1
    <3>3. QED BY <1>6, <1>10, <2>1, <3>1, <3>2
  <2>5. QED BY <1>5, <2>2, <2>3, <2>4
<1>13. qk[q[1]] > 0 /\ t # << >> => ks[t[1]] > 0
  <2>1. SUFFICES ASSUME qk[q[1]] > 0, t # << >> PROVE ks[t[1]] > 0 OBVIOUS
  <2>2. n >= 2 BY <1>4, <1>5, <1>7, <2>1
  <2>3. 1 \in 1..(n - 1) /\ 1 \in 1..n /\ 2 \in 1..n BY <2>2
  <2>4. CASE i = 1
    <3>1. t[1] = q[2]
      <4>1. ~(1 < i) BY <2>4
      <4>2. QED BY <1>7, <2>3, <4>1
    <3>2. ks[q[2]] = qk[q[2]] + qk[q[1]] BY <1>11, <2>2, <2>4
    <3>3. QED BY <1>6, <2>1, <2>3, <3>1, <3>2
  <2>5. CASE i # 1
    <3>1. 1 < i /\ 1 # i + 1 BY <1>5, <2>5
    <3>2. t[1] = q[1] BY <1>7, <2>3, <3>1
    <3>3. QED BY <1>10, <2>1, <2>3, <3>1, <3>2
  <2>6. QED BY <2>4, <2>5
<1>14. PICK r : r = Left(q, qk, 0) OBVIOUS
<1>15. PICK s : s = Left(t, ks, 0) OBVIOUS
<1>16. 0 \in Int OBVIOUS
<1>17. /\ r[1] = 0 /\ \A j \in 1..n : r[j + 1] = r[j] - qk[q[j]]
       /\ \A j \in 1..(n + 1) : r[j] \in Int
  <2>1. Drops(r, q, qk, 0) BY <1>14, <1>16, LeftDrops
  <2>2. QED BY <1>4, <2>1 DEF Drops
<1>18. s[1] = 0 /\ \A j \in 1..(n - 1) : s[j + 1] = s[j] - ks[t[j]]
  <2>1. t \in Seq(S) /\ Len(t) = n - 1 BY <1>7
  <2>2. Drops(s, t, ks, 0) BY <1>9, <1>15, <1>16, <2>1, LeftDrops
  <2>3. QED BY <2>1, <2>2 DEF Drops
<1> DEFINE T == {j \in Nat : j \in 1..n => /\ j <= i => s[j] = r[j]
                                           /\ j > i => s[j] = r[j + 1]}
<1>19. 0 \in T OBVIOUS
<1>20. ASSUME NEW j \in Nat, j \in T PROVE j + 1 \in T
  <2>1. SUFFICES ASSUME j + 1 \in 1..n
                 PROVE  /\ j + 1 <= i => s[j + 1] = r[j + 1]
                        /\ j + 1 > i => s[j + 1] = r[(j + 1) + 1]
    OBVIOUS
  <2>2. CASE j = 0
    <3>1. j + 1 = 1 /\ 1 <= i /\ ~(j + 1 > i) BY <1>5, <2>2
    <3>2. QED BY <1>17, <1>18, <3>1
  <2>3. CASE j # 0
    <3>1. j \in 1..(n - 1) /\ j \in 1..n /\ j + 1 \in 1..n /\ j \in 1..(n + 1) BY <2>1, <2>3
    <3>2. /\ r[j + 1] = r[j] - qk[q[j]] /\ r[(j + 1) + 1] = r[j + 1] - qk[q[j + 1]]
          /\ r[j] \in Int /\ qk[q[j]] \in Int /\ qk[q[j + 1]] \in Int
      BY <1>6, <1>17, <3>1
    <3>3. s[j + 1] = s[j] - ks[t[j]] BY <1>18, <3>1
    <3>4. (j <= i => s[j] = r[j]) /\ (j > i => s[j] = r[j + 1]) BY <1>20, <3>1
    <3>5. CASE j < i
      <4>1. t[j] = q[j] /\ j # i + 1 BY <1>5, <1>7, <3>1, <3>5
      <4>2. ks[q[j]] = qk[q[j]] BY <1>10, <3>1, <4>1
      <4>3. s[j] = r[j] /\ ~(j + 1 > i) BY <1>5, <3>4, <3>5
      <4>4. QED BY <3>2, <3>3, <4>1, <4>2, <4>3
    <3>6. CASE j = i
      <4>1. t[j] = q[j + 1] /\ i < n BY <1>5, <1>7, <3>1, <3>6
      <4>2. ks[q[j + 1]] = qk[q[j + 1]] + qk[q[j]] BY <1>11, <3>6, <4>1
      <4>3. s[j] = r[j] /\ ~(j + 1 <= i) BY <1>5, <3>4, <3>6
      <4>4. QED BY <3>2, <3>3, <4>1, <4>2, <4>3
    <3>7. CASE j > i
      <4>1. ~(j < i) /\ j + 1 # i + 1 BY <1>5, <3>7
      <4>2. t[j] = q[j + 1] BY <1>7, <3>1, <4>1
      <4>3. ks[q[j + 1]] = qk[q[j + 1]] BY <1>10, <3>1, <4>1
      <4>4. s[j] = r[j + 1] /\ ~(j + 1 <= i) BY <1>5, <3>4, <3>7
      <4>5. QED BY <3>2, <3>3, <4>2, <4>3, <4>4
    <3>8. QED BY <1>5, <3>5, <3>6, <3>7
  <2>4. QED BY <2>2, <2>3
<1>21. \A j \in Nat : j \in T
  <2> HIDE DEF T
  <2>1. QED BY <1>19, <1>20, Induction, Zenon
<1>22. ASSUME NEW x, OnQueue(t, x) PROVE s[PosOf(x, t) + 1] = r[PosOf(x, q) + 1]
  <2>1. PICK j \in 1..(n - 1) : t[j] = x BY <1>7, <1>22 DEF OnQueue
  <2>2. j \in 1..Len(t) BY <1>7, <2>1
  <2>3. PosOf(x, t) = j BY <1>7, <2>1, <2>2, PosIs
  <2>4. j + 1 \in T /\ j + 1 \in 1..n BY <1>21
  <2>5. CASE j < i
    <3>1. q[j] = x /\ j \in 1..Len(q) BY <1>4, <1>7, <2>1, <2>5
    <3>2. PosOf(x, q) = j BY <3>1, PosIs
    <3>3. j + 1 <= i BY <1>5, <2>5
    <3>4. QED BY <2>3, <2>4, <3>2, <3>3
  <2>6. CASE j >= i
    <3>1. ~(j < i) /\ j + 1 > i BY <1>5, <2>6
    <3>2. q[j + 1] = x /\ j + 1 \in 1..Len(q) BY <1>4, <1>7, <2>1, <3>1
    <3>3. PosOf(x, q) = j + 1 BY <3>2, PosIs
    <3>4. s[j + 1] = r[(j + 1) + 1] BY <2>4, <3>1
    <3>5. QED BY <2>3, <3>3, <3>4
  <2>7. QED BY <1>5, <2>5, <2>6
<1>23. QED BY <1>1, <1>2, <1>7, <1>12, <1>13, <1>14, <1>15, <1>22

\* Dequeueing the first on the list, of whose delay nothing is left, leaves
\* the delays of the others alone.
LEMMA TailDelays ==
    ASSUME NEW S, NEW q \in Seq(S), q # << >>, NoDup(q),
           NEW qk \in [S -> Int], \A i \in 1..Len(q) : qk[q[i]] >= 0, qk[Head(q)] = 0
    PROVE  LET t == Tail(q)
           IN  /\ \A i \in 1..Len(t) : qk[t[i]] >= 0
               /\ \A x : OnQueue(t, x) =>
                     Left(t, qk, 0)[PosOf(x, t) + 1] = Left(q, qk, 0)[PosOf(x, q) + 1]
<1>1. PICK t : t = Tail(q) OBVIOUS
<1>2. PICK n \in Nat : n = Len(q) OBVIOUS
<1>3. n >= 1 /\ q[1] = Head(q) /\ q[1] \in S /\ 1 \in 1..n /\ 1 \in 1..Len(q) BY <1>2
<1>4. t \in Seq(S) /\ Len(t) = n - 1 /\ \A j \in 1..(n - 1) : t[j] = q[j + 1]
  BY <1>1, <1>2, <1>3
<1>5. PosOf(q[1], q) = 1 BY <1>3, PosIs
<1>6. t = getitem(q[1], q)
  <2>1. PICK k \in 1..Len(q) : k = 1 BY <1>3
  <2>2. PICK u : u = RemoveAt(q, k) OBVIOUS
  <2>3. /\ u \in Seq(S) /\ Len(u) = Len(q) - 1
        /\ \A j \in 1..(Len(q) - 1) : u[j] = IF j < k THEN q[j] ELSE q[j + 1]
    BY <2>2, RemoveAtElements
  <2>4. \A j \in 1..(n - 1) : u[j] = q[j + 1] BY <1>2, <2>1, <2>3
  <2>5. u = t
    <3>1. Len(u) = n - 1 /\ u \in Seq(S) BY <1>2, <2>3
    <3>2. \A j \in 1..(n - 1) : u[j] = t[j] BY <1>4, <2>4
    <3>3. QED BY <1>4, <3>1, <3>2
  <2>6. QED BY <1>5, <2>1, <2>2, <2>5 DEF getitem
<1>7. PICK ks : ks = unsleepKeys(q[1], q, qk) OBVIOUS
<1>8. ks = qk
  <2>1. ks = [x \in S |-> IF 1 < n /\ x = q[2] THEN qk[x] + qk[q[1]] ELSE qk[x]]
    BY <1>2, <1>5, <1>7 DEF unsleepKeys
  <2>2. \A x \in S : qk[x] + qk[q[1]] = qk[x] BY <1>3
  <2>3. QED BY <2>1, <2>2
<1>9. OnQueue(q, q[1]) BY <1>3 DEF OnQueue
<1>10. /\ \A i \in 1..Len(t) : ks[t[i]] >= 0
       /\ \A x : OnQueue(t, x) =>
             Left(t, ks, 0)[PosOf(x, t) + 1] = Left(q, qk, 0)[PosOf(x, q) + 1]
  BY <1>3, <1>6, <1>7, <1>9, GetitemDelays
<1>11. QED BY <1>1, <1>8, <1>10

\* A tick takes one off the first key, and so off everybody's delay.
LEMMA TickDelays ==
    ASSUME NEW S, NEW q \in Seq(S), q # << >>, NoDup(q),
           NEW qk \in [S -> Int], NEW ks, ks = [qk EXCEPT ![Head(q)] = @ - 1]
    PROVE  \A x : OnQueue(q, x) =>
              Left(q, ks, 0)[PosOf(x, q) + 1] = Left(q, qk, 0)[PosOf(x, q) + 1] + 1
<1>1. PICK r : r = Left(q, qk, 0) OBVIOUS
<1>2. PICK s : s = Left(q, ks, 0) OBVIOUS
<1>3. PICK n \in Nat : n = Len(q) OBVIOUS
<1>4. n >= 1 /\ q[1] = Head(q) /\ q[1] \in S BY <1>3
<1>5. ks \in [S -> Int] /\ ks[q[1]] = qk[q[1]] - 1 BY <1>4
<1>6. \A j \in 1..n : q[j] \in S /\ qk[q[j]] \in Int /\ (j # 1 => ks[q[j]] = qk[q[j]])
  <2> TAKE j \in 1..n
  <2>1. q[j] \in S BY <1>3
  <2>2. j # 1 => q[j] # q[1] BY <1>3, <1>4 DEF NoDup
  <2>3. QED BY <1>4, <2>1, <2>2
<1>7. 0 \in Int OBVIOUS
<1>8. Drops(r, q, qk, 0) /\ Drops(s, q, ks, 0) BY <1>1, <1>2, <1>5, <1>7, LeftDrops
<1>9. /\ r[1] = 0 /\ \A j \in 1..n : r[j + 1] = r[j] - qk[q[j]]
      /\ \A j \in 1..(n + 1) : r[j] \in Int
      /\ s[1] = 0 /\ \A j \in 1..n : s[j + 1] = s[j] - ks[q[j]]
  BY <1>3, <1>8 DEF Drops
<1> DEFINE T == {j \in Nat : j \in 1..n => s[j + 1] = r[j + 1] + 1}
<1>10. 0 \in T OBVIOUS
<1>11. ASSUME NEW j \in Nat, j \in T PROVE j + 1 \in T
  <2>1. SUFFICES ASSUME j + 1 \in 1..n PROVE s[(j + 1) + 1] = r[(j + 1) + 1] + 1 OBVIOUS
  <2>2. /\ s[(j + 1) + 1] = s[j + 1] - ks[q[j + 1]] /\ r[(j + 1) + 1] = r[j + 1] - qk[q[j + 1]]
        /\ r[j + 1] \in Int /\ qk[q[j + 1]] \in Int
    <3>1. j + 1 \in 1..(n + 1) BY <2>1
    <3>2. QED BY <1>6, <1>9, <2>1, <3>1
  <2>3. CASE j = 0
    <3>1. j + 1 = 1 BY <2>3
    <3>2. QED BY <1>5, <1>9, <2>2, <3>1
  <2>4. CASE j # 0
    <3>1. j \in 1..n /\ j + 1 # 1 BY <2>1, <2>4
    <3>2. s[j + 1] = r[j + 1] + 1 BY <1>11, <3>1
    <3>3. ks[q[j + 1]] = qk[q[j + 1]] BY <1>6, <2>1, <3>1
    <3>4. QED BY <2>2, <3>2, <3>3
  <2>5. QED BY <2>3, <2>4
<1>12. \A j \in Nat : j \in T
  <2> HIDE DEF T
  <2>1. QED BY <1>10, <1>11, Induction, Zenon
<1>13. ASSUME NEW x, OnQueue(q, x) PROVE s[PosOf(x, q) + 1] = r[PosOf(x, q) + 1] + 1
  <2>1. PICK j \in 1..n : q[j] = x BY <1>3, <1>13 DEF OnQueue
  <2>2. PosOf(x, q) = j BY <1>3, <2>1, PosIs
  <2>3. j \in T BY <1>12
  <2>4. QED BY <2>1, <2>2, <2>3
<1>14. QED BY <1>1, <1>2, <1>13

\* What a step does to the sleep queue: nothing; a tick; waking the first on
\* it; taking a sleeper off it; putting the current process on it.  The keys
\* are those given, whatever becomes of the processes that are not on it.
NoWakeup == cont[currpid].op # "wakeup"
Sleepers(q, qk) == sleepq' = q /\ \A x \in Pids : OnQueue(q, x) => qkey'[x] = qk[x]
SleepStep ==
    \/ Sleepers(sleepq, qkey) /\ (NoWakeup' => NoWakeup \/ ~Expired(qkey))
    \/ Sleepers(sleepq, Ticked) /\ NoWakeup /\ (NoWakeup' => ~Expired(Ticked))
    \/ Sleepers(Tail(sleepq), qkey) /\ Expired(qkey) /\ ~NoWakeup'
    \/ \E p \in Pids : /\ NoWakeup /\ OnQueue(sleepq, p)
                       /\ Sleepers(getitem(p, sleepq), unsleepKeys(p, sleepq, qkey))
    \/ \E d \in Delays : /\ NoWakeup
                         /\ Sleepers(insertd(currpid, sleepq, qkey, d),
                                     insertdKeys(currpid, sleepq, qkey, d))

LEMMA ReschedNowKeys ==
    ASSUME NEW ps, NEW rl, NEW qk \in [Pids -> Int], NEW pre,
           reschedNow(ps, rl, qk, pre) \/ stay(ps, rl, qk, pre)
    PROVE  /\ \A x \in Pids : x # currpid => qkey'[x] = qk[x]
           /\ ps[currpid] # "CURR" => qkey' = qk
  BY DEF reschedNow, stay

LEMMA ReschedKeys ==
    ASSUME NEW ps, NEW rl, NEW qk \in [Pids -> Int], NEW pre, resched(ps, rl, qk, pre)
    PROVE  /\ \A x \in Pids : x # currpid => qkey'[x] = qk[x]
           /\ ps[currpid] # "CURR" => qkey' = qk
  BY ReschedNowKeys DEF resched

LEMMA ReadyKeys ==
    ASSUME NEW p \in Pids, NEW qk \in [Pids -> Int], prprio \in [Pids -> Int],
           ready(p, prstate, readylist, qk)
    PROVE  \A x \in Pids : x # p /\ x # currpid => qkey'[x] = qk[x]
<1>1. PICK k : k = [qk EXCEPT ![p] = prprio[p]] OBVIOUS
<1>2. k \in [Pids -> Int] /\ \A x \in Pids : x # p => k[x] = qk[x] BY <1>1
<1>3. PICK ps, rl : resched(ps, rl, k, preempt) BY <1>1 DEF ready
<1>4. \A x \in Pids : x # currpid => qkey'[x] = k[x] BY <1>2, <1>3, ReschedKeys
<1>5. QED BY <1>2, <1>4

\* Whoever sleeps neither runs nor is ready.
LEMMA SleepersAre ==
    ASSUME IInv
    PROVE  /\ sleepq \in Seq(Pids) /\ NoDup(sleepq)
           /\ qkey \in [Pids -> Int] /\ prprio \in [Pids -> Int] /\ currpid \in Pids
           /\ \A x : OnQueue(sleepq, x) =>
                        x \in Pids /\ x # currpid /\ prstate[x] \in {"SLEEP", "RECTIM"}
           /\ prstate \in [Pids -> States] /\ prstate[currpid] = "CURR" /\ ~OnQueue(sleepq, currpid)
<1>1. /\ sleepq \in Seq(Pids) /\ qkey \in [Pids -> Int] /\ prprio \in [Pids -> Int]
      /\ currpid \in Pids /\ prstate \in [Pids -> States]
  BY TypesOf
<1>2. prstate[currpid] = "CURR" /\ NoDup(sleepq)
  BY <1>1 DEF IInv, Sched, ProcessorBusy, SleepMatches
<1>3. ASSUME NEW x, OnQueue(sleepq, x) PROVE x \in Pids /\ prstate[x] \in {"SLEEP", "RECTIM"}
  <2>1. x \in Pids BY <1>1, <1>3 DEF OnQueue
  <2>2. QED BY <1>3, <2>1 DEF IInv, SleepMatches
<1>4. QED BY <1>1, <1>2, <1>3

\* Steps that leave the sleep queue alone.
LEMMA QuietSleep ==
    ASSUME IInv, sleepq' = sleepq, NoWakeup \/ ~Expired(qkey),
           \A x \in Pids :
              x # currpid /\ prstate[x] \in {"SLEEP", "RECTIM"} => qkey'[x] = qkey[x]
    PROVE  SleepStep
<1>1. Sleepers(sleepq, qkey) BY SleepersAre DEF Sleepers
<1>2. QED BY <1>1 DEF SleepStep

LEMMA ReadySleep ==
    ASSUME IInv, sleepq' = sleepq, NoWakeup, NEW p \in Pids,
           prstate[p] \notin {"SLEEP", "RECTIM"}, ready(p, prstate, readylist, qkey)
    PROVE  SleepStep
<1>1. \A x \in Pids : x # p /\ x # currpid => qkey'[x] = qkey[x] BY SleepersAre, ReadyKeys
<1>2. QED BY <1>1, QuietSleep

LEMMA ReschedSleep ==
    ASSUME IInv, sleepq' = sleepq, NoWakeup, NEW ps, NEW rl, NEW pre,
           resched(ps, rl, qkey, pre)
    PROVE  SleepStep
<1>1. \A x \in Pids : x # currpid => qkey'[x] = qkey[x] BY SleepersAre, ReschedKeys
<1>2. QED BY <1>1, QuietSleep

LEMMA StopSleep ==
    ASSUME IInv, sleepq' = sleepq, NoWakeup \/ ~Expired(qkey), DEFER_STOP
    PROVE  SleepStep
<1>1. reschedNow(prstate, readylist, qkey, preempt) \/ stay(prstate, readylist, qkey, preempt)
  BY DEF DEFER_STOP
<1>2. \A x \in Pids : x # currpid => qkey'[x] = qkey[x] BY <1>1, SleepersAre, ReschedNowKeys
<1>3. QED BY <1>2, QuietSleep

\* A sleeper is woken by a message.
LEMMA ReadySleeperSleep ==
    ASSUME IInv, NoWakeup, NEW p \in Pids, OnQueue(sleepq, p), ReadySleeper(p)
    PROVE  SleepStep
<1>1. PICK t : t = getitem(p, sleepq) OBVIOUS
<1>2. PICK k : k = unsleepKeys(p, sleepq, qkey) OBVIOUS
<1>3. k \in [Pids -> Int] BY <1>2, SleepersAre, UnsleepKeys
<1>4. \A x : OnQueue(t, x) <=> OnQueue(sleepq, x) /\ x # p BY <1>1, SleepersAre, GetitemQueue
<1>5. sleepq' = t /\ ready(p, prstate, readylist, k) BY <1>1, <1>2 DEF ReadySleeper
<1>6. \A x \in Pids : x # p /\ x # currpid => qkey'[x] = k[x]
  BY <1>3, <1>5, SleepersAre, ReadyKeys
<1>7. Sleepers(t, k) BY <1>4, <1>5, <1>6, SleepersAre DEF Sleepers
<1>8. QED BY <1>1, <1>2, <1>7 DEF SleepStep

LEMMA DeliverSleep ==
    ASSUME IInv, NoWakeup, NEW p \in Pids, NEW m, deliver(p, m)
    PROVE  SleepStep
<1>1. CASE prstate[p] = "RECV" /\ ready(p, prstate, readylist, qkey) /\ UNCHANGED sleepq
  BY <1>1, ReadySleep
<1>2. CASE prstate[p] = "RECTIM" /\ ReadySleeper(p)
  <2>1. OnQueue(sleepq, p) BY <1>2 DEF IInv, SleepMatches
  <2>2. QED BY <1>2, <2>1, ReadySleeperSleep
<1>3. CASE UNCHANGED <<sched, sleepq>> BY <1>3, QuietSleep DEF sched
<1>4. QED BY <1>1, <1>2, <1>3 DEF deliver

\* A process goes to sleep.
LEMMA SleepForSleep ==
    ASSUME IInv, NoWakeup, NEW d \in Delays, NEW st \in {"SLEEP", "RECTIM"}, SleepFor(d, st)
    PROVE  SleepStep
<1>1. PICK k : k = insertdKeys(currpid, sleepq, qkey, d) OBVIOUS
<1>2. k \in [Pids -> Int]
  <2>1. sleepq \in Seq(Pids) /\ qkey \in [Pids -> Int] /\ currpid \in Pids /\ d \in Int
    BY SleepersAre, ArgsAssumption
  <2>2. QED BY <1>1, <2>1, InsertdKeys
<1>3. PICK ps : ps = [prstate EXCEPT ![currpid] = st] OBVIOUS
<1>4. ps[currpid] # "CURR" BY <1>3, SleepersAre
<1>5. resched(ps, readylist, k, preempt) BY <1>1, <1>3 DEF SleepFor, Block
<1>6. qkey' = k BY <1>2, <1>4, <1>5, ReschedKeys
<1>7. Sleepers(insertd(currpid, sleepq, qkey, d), k) BY <1>6 DEF SleepFor, Sleepers
<1>8. QED BY <1>1, <1>7 DEF SleepStep
-----------------------------------------------------------------------------
LEMMA KillRestSleep == ASSUME IInv, killRest PROVE SleepStep
<1> DEFINE p == cont[currpid].arg
<1>1. NoWakeup /\ p \in Pids BY SleepersAre DEF killRest, In, IInv, Calling, RestsValid, NoWakeup
<1>2. CASE resched(Gone(p), readylist, qkey, preempt) /\ UNCHANGED sleepq
  BY <1>1, <1>2, ReschedSleep
<1>3. CASE /\ prstate[p] \in {"SLEEP", "RECTIM"} /\ sleepq' = getitem(p, sleepq)
           /\ qkey' = unsleepKeys(p, sleepq, qkey)
  <2>1. OnQueue(sleepq, p) BY <1>1, <1>3 DEF IInv, SleepMatches
  <2>2. Sleepers(getitem(p, sleepq), unsleepKeys(p, sleepq, qkey)) BY <1>3 DEF Sleepers
  <2>3. QED BY <1>1, <2>1, <2>2 DEF SleepStep
<1>4. CASE UNCHANGED <<qkey, sleepq>> BY <1>1, <1>4, QuietSleep
<1>5. QED BY <1>2, <1>3, <1>4 DEF killRest

\* Whoever a semaphore releases was not asleep.
LEMMA ReleaseSleep ==
    ASSUME IInv, NoWakeup, NEW s \in Sems, squeue[s] # << >>, sleepq' = sleepq,
           ready(Head(squeue[s]), prstate, readylist, qkey)
    PROVE  SleepStep
<1>1. squeue[s] \in Seq(Pids) /\ NoDup(squeue[s])
  BY DEF IInv, TypeOK, TypeSems, Waits, WaitMatches
<1>2. Head(squeue[s]) \in Pids /\ OnQueue(squeue[s], Head(squeue[s]))
  BY <1>1, DequeueQueue, Zenon
<1>3. prstate[Head(squeue[s])] = "WAIT" BY <1>2 DEF IInv, Waits, WaitMatches
<1>4. QED BY <1>2, <1>3, ReadySleep

LEMMA SignalOnceSleep ==
    ASSUME IInv, NoWakeup, NEW s \in Sems, ~Within("semreset", s), SignalOnce(s), sleepq' = sleepq
    PROVE  SleepStep
<1>1. CASE UNCHANGED <<sched, squeue>> BY <1>1, QuietSleep DEF sched
<1>2. CASE scount[s] < 0 /\ ready(Head(squeue[s]), prstate, readylist, qkey)
  <2>1. Len(squeue[s]) = -scount[s] /\ scount[s] \in Int
    BY <1>2 DEF IInv, Waits, CountsWaiters, TypeOK, TypeSems
  <2>2. squeue[s] # << >> BY <1>2, <2>1
  <2>3. QED BY <1>2, <2>2, ReleaseSleep
<1>3. QED BY <1>1, <1>2 DEF SignalOnce

LEMMA SemRestsSleep ==
    ASSUME IInv, signalnRest \/ semdeleteRest \/ semresetRest PROVE SleepStep
<1> DEFINE s == cont[currpid].arg
<1>1. NoWakeup /\ sleepq' = sleepq
  BY DEF NoWakeup, In, signalnRest, semdeleteRest, semresetRest
<1>2. s \in Sems
  BY SleepersAre DEF signalnRest, semdeleteRest, semresetRest, In, IInv, Calling, RestsValid
<1>3. CASE DEFER_STOP BY <1>1, <1>3, StopSleep
<1>4. CASE squeue[s] # << >> /\ ready(Head(squeue[s]), prstate, readylist, qkey)
  BY <1>1, <1>2, <1>4, ReleaseSleep
<1>5. CASE SignalOnce(s) /\ cont[currpid].op # "semreset"
  <2>1. ~Within("semreset", s) BY <1>5 DEF Within
  <2>2. QED BY <1>1, <1>2, <1>5, <2>1, SignalOnceSleep
<1>6. CASE signalnRest BY <1>3, <1>5, <1>6 DEF signalnRest, In
<1>7. CASE semdeleteRest BY <1>3, <1>5, <1>7 DEF semdeleteRest, In
<1>8. CASE semresetRest BY <1>3, <1>4, <1>8 DEF semresetRest
<1>9. QED BY <1>6, <1>7, <1>8
-----------------------------------------------------------------------------
LEMMA ClkhandlerSleep == ASSUME IInv, clkhandler PROVE SleepStep
<1>1. NoWakeup /\ sleepq' = sleepq /\ Ticked \in [Pids -> Int]
  BY TickedOK DEF clkhandler, In, NoWakeup
<1>2. CASE ~Expired(Ticked) /\ TimeSlice(Ticked)
  <2>1. resched(prstate, readylist, Ticked, QUANTUM) \/ stay(prstate, readylist, Ticked, preempt - 1)
    BY <1>2 DEF TimeSlice
  <2>2. \A x \in Pids : x # currpid => qkey'[x] = Ticked[x]
    BY <1>1, <2>1, ReschedKeys, ReschedNowKeys
  <2>3. Sleepers(sleepq, Ticked) BY <1>1, <2>2, SleepersAre DEF Sleepers
  <2>4. QED BY <1>1, <1>2, <2>3 DEF SleepStep
<1>3. CASE /\ Expired(Ticked) /\ qkey' = Ticked /\ Then(Rest("wakeup", 0, 0))
           /\ UNCHANGED currpid
  <2>1. Sleepers(sleepq, Ticked) BY <1>1, <1>3 DEF Sleepers
  <2>2. cont'[currpid].op = "wakeup"
    <3>1. currpid \in Pids /\ cont \in [Pids -> [op : Ops, arg : Nat, n : Nat]]
      BY SleepersAre DEF IInv, TypeOK, TypeRest
    <3>2. cont'[currpid] = Rest("wakeup", 0, 0) BY <1>3, <3>1 DEF Then
    <3>3. QED BY <3>2 DEF Rest
  <2>3. ~NoWakeup' BY <1>3, <2>2 DEF NoWakeup
  <2>4. QED BY <1>1, <2>1, <2>3 DEF SleepStep
<1>4. QED BY <1>2, <1>3 DEF clkhandler

LEMMA ClkhandlerRestSleep == ASSUME IInv, clkhandlerRest PROVE SleepStep
<1>1. NoWakeup /\ sleepq' = sleepq BY DEF clkhandlerRest, In, NoWakeup
<1>2. resched(prstate, readylist, qkey, QUANTUM) \/ stay(prstate, readylist, qkey, preempt - 1)
  BY DEF clkhandlerRest, TimeSlice
<1>3. \A x \in Pids : x # currpid => qkey'[x] = qkey[x]
  BY <1>2, SleepersAre, ReschedKeys, ReschedNowKeys
<1>4. QED BY <1>1, <1>3, QuietSleep

LEMMA WakeupSleep == ASSUME IInv, wakeup PROVE SleepStep
<1>1. CASE /\ Expired(qkey) /\ sleepq' = Tail(sleepq)
           /\ ready(Head(sleepq), prstate, readylist, qkey) /\ UNCHANGED cont
  <2>1. /\ Head(sleepq) \in Pids /\ OnQueue(sleepq, Head(sleepq))
        /\ \A x : OnQueue(Tail(sleepq), x) <=> OnQueue(sleepq, x) /\ x # Head(sleepq)
    <3>1. sleepq \in Seq(Pids) /\ NoDup(sleepq) /\ sleepq # << >> BY <1>1, SleepersAre DEF Expired
    <3>2. QED BY <3>1, DequeueQueue, Zenon
  <2>2. \A x \in Pids : x # Head(sleepq) /\ x # currpid => qkey'[x] = qkey[x]
    BY <1>1, <2>1, SleepersAre, ReadyKeys
  <2>3. Sleepers(Tail(sleepq), qkey) BY <1>1, <2>1, <2>2, SleepersAre DEF Sleepers
  <2>4. cont[currpid].op = "wakeup" BY DEF wakeup, In
  <2>5. currpid' = currpid
    <3>1. ndefers = 1 BY <2>4 DEF IInv, Calling, DeferralOwned, DeferOps
    <3>2. QED BY <1>1, <3>1 DEF ready, resched, stay
  <2>6. ~NoWakeup' BY <1>1, <2>4, <2>5 DEF NoWakeup
  <2>7. QED BY <1>1, <2>3, <2>6 DEF SleepStep
<1>2. CASE ~Expired(qkey) /\ DEFER_STOP /\ UNCHANGED sleepq BY <1>2, StopSleep
<1>3. QED BY <1>1, <1>2 DEF wakeup

LEMMA SleepSteps == ASSUME IInv, [Next]_vars PROVE SleepStep
<1>1. In("user") => NoWakeup BY DEF In, NoWakeup
<1>2. CASE UserStep
  <2>1. ASSUME NEW prio \in Prios, create(prio) PROVE SleepStep
    BY <1>1, <2>1, QuietSleep DEF create, Call
  <2>2. ASSUME NEW p \in Pids, resume(p) PROVE SleepStep
    BY <1>1, <2>2, ReadySleep DEF resume, Call
  <2>3. ASSUME NEW p \in Pids, suspend(p) PROVE SleepStep
    <3>1. NoWakeup /\ sleepq' = sleepq BY <1>1, <2>3 DEF suspend, Call
    <3>2. CASE UNCHANGED qkey BY <3>1, <3>2, QuietSleep
    <3>3. CASE Block("SUSP", qkey) BY <3>1, <3>3, ReschedSleep DEF Block
    <3>4. QED BY <2>3, <3>2, <3>3 DEF suspend
  <2>4. ASSUME NEW p \in Pids, kill(p) PROVE SleepStep
    <3>1. NoWakeup /\ prparent[p] \in Pids
      BY <1>1, <2>4 DEF kill, Call, IInv, TypeOK, TypeProc
    <3>2. CASE UNCHANGED <<sched, msgs, sleepq>> BY <3>1, <3>2, QuietSleep DEF sched
    <3>3. CASE deliver(prparent[p], p) BY <3>1, <3>3, DeliverSleep
    <3>4. QED BY <2>4, <3>2, <3>3 DEF kill
  <2>5. ASSUME NEW p \in Pids, NEW prio \in NewPrios, chprio(p, prio) PROVE SleepStep
    BY <1>1, <2>5, QuietSleep DEF chprio, Call, sched
  <2>6. ASSUME NEW p \in Pids, NEW m \in Msgs, send(p, m) PROVE SleepStep
    BY <1>1, <2>6, DeliverSleep DEF send, Call
  <2>7. CASE recvclr BY <1>1, <2>7, QuietSleep DEF recvclr, Call, sched
  <2>8. CASE receive
    <3>1. NoWakeup /\ sleepq' = sleepq BY <1>1, <2>8 DEF receive, Call
    <3>2. CASE UNCHANGED sched BY <3>1, <3>2, QuietSleep DEF sched
    <3>3. CASE Block("RECV", qkey) BY <3>1, <3>3, ReschedSleep DEF Block
    <3>4. QED BY <2>8, <3>2, <3>3 DEF receive
  <2>9. CASE yield BY <1>1, <2>9, ReschedSleep DEF yield, Call
  <2>10. ASSUME NEW d \in Delays, recvtime(d) PROVE SleepStep
    <3>1. NoWakeup BY <1>1, <2>10 DEF recvtime, Call
    <3>2. CASE UNCHANGED <<sched, sleepq>> BY <3>1, <3>2, QuietSleep DEF sched
    <3>3. CASE SleepFor(d, "RECTIM") BY <3>1, <3>3, SleepForSleep
    <3>4. QED BY <2>10, <3>2, <3>3 DEF recvtime
  <2>11. ASSUME NEW d \in Delays, sleepms(d) PROVE SleepStep
    BY <1>1, <2>11, SleepForSleep DEF sleepms, Call
  <2>12. ASSUME NEW n \in Counts, semcreate(n) PROVE SleepStep
    BY <1>1, <2>12, QuietSleep DEF semcreate, Call, sched
  <2>13. ASSUME NEW s \in Sems, wait(s) PROVE SleepStep
    <3>1. NoWakeup /\ sleepq' = sleepq BY <1>1, <2>13 DEF wait, Call
    <3>2. CASE UNCHANGED sched BY <3>1, <3>2, QuietSleep DEF sched
    <3>3. CASE Block("WAIT", qkey) BY <3>1, <3>3, ReschedSleep DEF Block
    <3>4. QED BY <2>13, <3>2, <3>3 DEF wait
  <2>14. ASSUME NEW s \in Sems, signal(s) PROVE SleepStep
    <3>1. ~Within("semreset", s) BY <2>14 DEF signal, CallOrIntr, In, Within
    <3>2. QED BY <1>1, <2>14, <3>1, SignalOnceSleep DEF signal, CallOrIntr
  <2>15. ASSUME NEW k, StartDefer(k), In("user") PROVE SleepStep
    BY <1>1, <2>15, QuietSleep DEF StartDefer
  <2>16. ASSUME NEW s \in Sems, semdelete(s) PROVE SleepStep
    BY <2>15, <2>16 DEF semdelete, Call
  <2>17. ASSUME NEW s \in Sems, NEW n \in Counts, semreset(s, n) \/ signaln(s, n)
         PROVE  SleepStep
    BY <2>15, <2>17 DEF semreset, signaln, Call, CallOrIntr
  <2>18. QED BY <1>2, <2>1, <2>2, <2>3, <2>4, <2>5, <2>6, <2>7, <2>8, <2>9, <2>10, <2>11,
             <2>12, <2>13, <2>14, <2>16, <2>17 DEF UserStep
<1>3. CASE KernelStep
  <2>1. CASE receiveRest \/ recvtimeRest
    BY <2>1, QuietSleep DEF receiveRest, recvtimeRest, In, NoWakeup, sched
  <2>2. QED BY <1>3, <2>1, KillRestSleep, SemRestsSleep, WakeupSleep, ClkhandlerRestSleep
        DEF KernelStep
<1>4. CASE clkhandler BY <1>4, ClkhandlerSleep
<1>5. CASE UNCHANGED vars
  <2>1. Sleepers(sleepq, qkey) BY <1>5 DEF Sleepers, vars, sched
  <2>2. NoWakeup' => NoWakeup BY <1>5 DEF vars, sched, NoWakeup
  <2>3. QED BY <2>1, <2>2 DEF SleepStep
<1>6. QED BY <1>2, <1>3, <1>4, <1>5 DEF Next, Halted

\* No key on the sleep queue is negative, and none but those that wakeup is
\* about to take off it has run down to 0.
Deltas ==
    /\ \A i \in 1..Len(sleepq) : qkey[sleepq[i]] >= 0
    /\ NoWakeup /\ sleepq # << >> => qkey[sleepq[1]] > 0

\* The delays on the new list, with the keys given or those of the next state.
DelayOn(t, k, x) == Left(t, k, 0)[PosOf(x, t) + 1]
LEMMA SleepersKeep ==
    ASSUME NEW t \in Seq(Pids), NEW k \in [Pids -> Int], NEW new \in [Pids -> Int],
           \A x \in Pids : OnQueue(t, x) => new[x] = k[x]
    PROVE  /\ \A i \in 1..Len(t) : new[t[i]] = k[t[i]]
           /\ \A x : OnQueue(t, x) => DelayOn(t, new, x) = DelayOn(t, k, x) /\ DelayOn(t, k, x) \in Int
<1>1. \A i \in 1..Len(t) : t[i] \in Pids /\ OnQueue(t, t[i]) BY DEF OnQueue
<1>2. \A x : OnQueue(t, x) => x \in Pids BY <1>1 DEF OnQueue
<1>3. \A x : OnQueue(t, x) => new[x] = k[x] BY <1>2
<1>4. ASSUME NEW x, OnQueue(t, x)
      PROVE  DelayOn(t, new, x) = DelayOn(t, k, x) /\ DelayOn(t, k, x) \in Int
  <2>1. PICK i \in 1..(Len(t) + 1) : i = PosOf(x, t) + 1
    <3>1. PosOf(x, t) \in 1..Len(t) BY <1>4 DEF OnQueue, PosOf
    <3>2. QED BY <3>1
  <2>2. Left(t, new, 0)[i] = Left(t, k, 0)[i]
    <3>1. \A j \in 1..Len(t) : new[t[j]] = k[t[j]] BY <1>1, <1>3
    <3>2. Left(t, new, 0) = Left(t, k, 0) BY <3>1, LeftAgrees
    <3>3. QED BY <3>2
  <2>3. PICK r : r = Left(t, k, 0) OBVIOUS
  <2>4. 0 \in Int OBVIOUS
  <2>5. Drops(r, t, k, 0) BY <2>3, <2>4, LeftDrops
  <2>6. r[i] \in Int BY <2>1, <2>5 DEF Drops
  <2>7. QED BY <2>1, <2>2, <2>3, <2>6 DEF DelayOn
<1>5. QED BY <1>1, <1>3, <1>4

\* A step of the sleep queue, one kind after the other.
LEMMA SleepStepDelays ==
    ASSUME \A d \in Delays : d > 0, IInv, IInv', Deltas, SleepStep
    PROVE  /\ Deltas'
           /\ \A p \in Pids : OnQueue(sleepq, p) /\ OnQueue(sleepq', p) => DelayStep(p)
<1>1. /\ sleepq \in Seq(Pids) /\ NoDup(sleepq) /\ qkey \in [Pids -> Int]
      /\ currpid \in Pids /\ ~OnQueue(sleepq, currpid)
  BY SleepersAre
<1>2. PICK new : new = qkey' OBVIOUS
<1>3. new \in [Pids -> Int] BY <1>2 DEF IInv, TypeOK, TypeSched
<1>4. \A i \in 1..Len(sleepq) : qkey[sleepq[i]] >= 0 BY DEF Deltas
<1>5. ASSUME NEW t \in Seq(Pids), NEW k \in [Pids -> Int], Sleepers(t, k),
             \A i \in 1..Len(t) : k[t[i]] >= 0,
             NoWakeup' /\ t # << >> => k[t[1]] > 0
      PROVE  Deltas' /\ \A p \in Pids : OnQueue(t, p) =>
                           DelayLeft(p)' = -DelayOn(t, k, p) /\ DelayOn(t, k, p) \in Int
  <2>1. sleepq' = t BY <1>5 DEF Sleepers
  <2>2. /\ \A i \in 1..Len(t) : new[t[i]] = k[t[i]]
        /\ \A x : OnQueue(t, x) => DelayOn(t, new, x) = DelayOn(t, k, x) /\ DelayOn(t, k, x) \in Int
    <3>1. \A x \in Pids : OnQueue(t, x) => new[x] = k[x] BY <1>2, <1>5 DEF Sleepers
    <3>2. QED BY <1>3, <1>5, <3>1, SleepersKeep
  <2>3. \A i \in 1..Len(t) : new[t[i]] >= 0 BY <1>5, <2>2
  <2>4. NoWakeup' /\ t # << >> => new[t[1]] > 0
    <3>1. t # << >> => 1 \in 1..Len(t) OBVIOUS
    <3>2. QED BY <1>5, <2>2, <3>1
  <2>5. Deltas' BY <1>2, <2>1, <2>3, <2>4 DEF Deltas
  <2>6. \A p : DelayLeft(p)' = -DelayOn(t, new, p) BY <1>2, <2>1 DEF DelayLeft, DelayOn
  <2>7. QED BY <2>2, <2>5, <2>6
<1>6. \A p : DelayLeft(p) = -DelayOn(sleepq, qkey, p) BY DEF DelayLeft, DelayOn
<1>7. ASSUME NEW t \in Seq(Pids), NEW k \in [Pids -> Int], Sleepers(t, k),
             \A i \in 1..Len(t) : k[t[i]] >= 0,
             NoWakeup' /\ t # << >> => k[t[1]] > 0,
             \A x : OnQueue(sleepq, x) /\ OnQueue(t, x) =>
                       DelayOn(t, k, x) = DelayOn(sleepq, qkey, x)
      PROVE  /\ Deltas'
             /\ \A p \in Pids : OnQueue(sleepq, p) /\ OnQueue(sleepq', p) => DelayStep(p)
  <2>1. sleepq' = t BY <1>7 DEF Sleepers
  <2>2. Deltas' /\ \A p \in Pids : OnQueue(t, p) => DelayLeft(p)' = -DelayOn(t, k, p)
    BY <1>5, <1>7
  <2>3. ASSUME NEW p \in Pids, OnQueue(sleepq, p), OnQueue(t, p) PROVE DelayLeft(p)' = DelayLeft(p)
    BY <1>6, <1>7, <2>2, <2>3
  <2>4. QED BY <2>1, <2>2, <2>3 DEF DelayStep
<1>8. sleepq # << >> => 1 \in 1..Len(sleepq) /\ Head(sleepq) = sleepq[1] /\ sleepq[1] \in Pids
  BY <1>1
<1>9. CASE Sleepers(sleepq, qkey) /\ (NoWakeup' => NoWakeup \/ ~Expired(qkey))
  <2>1. NoWakeup' /\ sleepq # << >> => qkey[sleepq[1]] > 0
    <3>1. CASE NoWakeup BY <3>1 DEF Deltas
    <3>2. CASE ~Expired(qkey) BY <1>1, <1>8, <3>2 DEF Expired
    <3>3. QED BY <1>9, <3>1, <3>2
  <2>2. QED BY <1>1, <1>4, <1>7, <1>9, <2>1
<1>10. CASE Sleepers(sleepq, Ticked) /\ NoWakeup /\ (NoWakeup' => ~Expired(Ticked))
  <2>1. CASE sleepq = << >>
    <3>1. Ticked = qkey BY <2>1 DEF Ticked
    <3>2. QED BY <1>9, <1>10, <3>1
  <2>2. CASE sleepq # << >>
    <3>1. PICK k : k = Ticked OBVIOUS
    <3>2. k = [qkey EXCEPT ![Head(sleepq)] = @ - 1] BY <2>2, <3>1 DEF Ticked
    <3>3. k \in [Pids -> Int] /\ k[sleepq[1]] = qkey[sleepq[1]] - 1 BY <1>1, <1>8, <2>2, <3>2
    <3>4. qkey[sleepq[1]] > 0 BY <1>10, <2>2 DEF Deltas
    <3>5. \A i \in 1..Len(sleepq) : k[sleepq[i]] >= 0
      <4> TAKE i \in 1..Len(sleepq)
      <4>1. CASE i = 1 BY <1>1, <1>8, <2>2, <3>3, <3>4, <4>1
      <4>2. CASE i # 1
        <5>1. sleepq[i] # Head(sleepq) BY <1>1, <1>8, <2>2, <4>2 DEF NoDup
        <5>2. sleepq[i] \in Pids BY <1>1
        <5>3. k[sleepq[i]] = qkey[sleepq[i]] BY <1>1, <3>2, <5>1, <5>2
        <5>4. QED BY <1>4, <5>3
      <4>3. QED BY <4>1, <4>2
    <3>6. NoWakeup' => k[sleepq[1]] > 0
      <4>1. NoWakeup' => ~(k[sleepq[1]] <= 0) BY <1>8, <1>10, <2>2, <3>1 DEF Expired
      <4>2. k[sleepq[1]] \in Int BY <1>8, <2>2, <3>3
      <4>3. QED BY <4>1, <4>2
    <3>7. Deltas' /\ \A p \in Pids : OnQueue(sleepq, p) =>
                        DelayLeft(p)' = -DelayOn(sleepq, k, p) /\ DelayOn(sleepq, k, p) \in Int
      BY <1>1, <1>5, <1>10, <3>1, <3>3, <3>5, <3>6
    <3>8. \A x : OnQueue(sleepq, x) => DelayOn(sleepq, k, x) = DelayOn(sleepq, qkey, x) + 1
      BY <1>1, <2>2, <3>2, TickDelays DEF DelayOn
    <3>9. ASSUME NEW p \in Pids, OnQueue(sleepq, p) PROVE DelayLeft(p)' = DelayLeft(p) - 1
      <4>1. DelayOn(sleepq, qkey, p) \in Int
        <5>1. PICK i \in 1..(Len(sleepq) + 1) : i = PosOf(p, sleepq) + 1
          <6>1. PosOf(p, sleepq) \in 1..Len(sleepq) BY <3>9 DEF OnQueue, PosOf
          <6>2. QED BY <1>1, <6>1
        <5>2. PICK r : r = Left(sleepq, qkey, 0) OBVIOUS
        <5>3. 0 \in Int OBVIOUS
        <5>4. Drops(r, sleepq, qkey, 0) BY <1>1, <5>2, <5>3, LeftDrops
        <5>5. r[i] \in Int BY <5>1, <5>4 DEF Drops
        <5>6. QED BY <5>1, <5>2, <5>5 DEF DelayOn
      <4>2. PICK a \in Int : a = DelayOn(sleepq, qkey, p) BY <4>1
      <4>3. DelayLeft(p)' = -(a + 1) /\ DelayLeft(p) = -a BY <1>6, <3>7, <3>8, <3>9, <4>2
      <4>4. -(a + 1) = -a - 1 OBVIOUS
      <4>5. QED BY <4>3, <4>4
    <3>10. sleepq' = sleepq BY <1>10 DEF Sleepers
    <3>11. QED BY <3>7, <3>9, <3>10 DEF DelayStep
  <2>3. QED BY <2>1, <2>2
<1>11. CASE Sleepers(Tail(sleepq), qkey) /\ Expired(qkey) /\ ~NoWakeup'
  <2>1. sleepq # << >> /\ qkey[Head(sleepq)] <= 0 BY <1>11 DEF Expired
  <2>2. qkey[Head(sleepq)] = 0
    <3>1. qkey[sleepq[1]] \in Int /\ qkey[sleepq[1]] >= 0 BY <1>1, <1>4, <1>8, <2>1
    <3>2. QED BY <1>8, <2>1, <3>1
  <2>3. PICK t \in Seq(Pids) : t = Tail(sleepq)
    <3>1. Tail(sleepq) \in Seq(Pids) BY <1>1, <2>1, DequeueQueue, Zenon
    <3>2. QED BY <3>1
  <2>4. /\ \A i \in 1..Len(t) : qkey[t[i]] >= 0
        /\ \A x : OnQueue(t, x) => DelayOn(t, qkey, x) = DelayOn(sleepq, qkey, x)
    BY <1>1, <1>4, <2>1, <2>2, <2>3, TailDelays DEF DelayOn
  <2>5. QED BY <1>1, <1>7, <1>11, <2>3, <2>4
<1>12. ASSUME NEW p \in Pids, NoWakeup, OnQueue(sleepq, p),
              Sleepers(getitem(p, sleepq), unsleepKeys(p, sleepq, qkey))
       PROVE  /\ Deltas'
              /\ \A x \in Pids : OnQueue(sleepq, x) /\ OnQueue(sleepq', x) => DelayStep(x)
  <2>1. PICK t : t = getitem(p, sleepq) OBVIOUS
  <2>2. PICK k : k = unsleepKeys(p, sleepq, qkey) OBVIOUS
  <2>3. t \in Seq(Pids) BY <1>1, <1>12, <2>1, GetitemQueue
  <2>4. k \in [Pids -> Int] BY <1>1, <1>12, <2>2, UnsleepKeys
  <2>5. qkey[sleepq[1]] > 0
    <3>1. sleepq # << >> BY <1>12 DEF OnQueue
    <3>2. QED BY <1>12, <3>1 DEF Deltas
  <2>6. /\ \A i \in 1..Len(t) : k[t[i]] >= 0
        /\ t # << >> => k[t[1]] > 0
        /\ \A x : OnQueue(t, x) => DelayOn(t, k, x) = DelayOn(sleepq, qkey, x)
    BY <1>1, <1>4, <1>12, <2>1, <2>2, <2>5, GetitemDelays DEF DelayOn
  <2>7. Sleepers(t, k) BY <1>12, <2>1, <2>2
  <2>8. QED BY <1>7, <2>3, <2>4, <2>6, <2>7
<1>13. ASSUME NEW d \in Delays, NoWakeup,
              Sleepers(insertd(currpid, sleepq, qkey, d), insertdKeys(currpid, sleepq, qkey, d))
       PROVE  /\ Deltas'
              /\ \A x \in Pids : OnQueue(sleepq, x) /\ OnQueue(sleepq', x) => DelayStep(x)
  <2>1. PICK t : t = insertd(currpid, sleepq, qkey, d) OBVIOUS
  <2>2. PICK k : k = insertdKeys(currpid, sleepq, qkey, d) OBVIOUS
  <2>3. d \in Int /\ d > 0 BY ArgsAssumption
  <2>4. t \in Seq(Pids)
    <3>1. \A x : OnQueue(sleepq, x) => x # currpid BY <1>1
    <3>2. Keyed(sleepq, qkey) BY <1>1 DEF Keyed
    <3>3. insertd(currpid, sleepq, qkey, d) \in Seq(Pids)
      BY <1>1, <2>3, <3>1, <3>2, InsertdQueue, Zenon
    <3>4. QED BY <2>1, <3>3
  <2>5. k \in [Pids -> Int] BY <1>1, <2>2, <2>3, InsertdKeys
  <2>6. sleepq # << >> => qkey[sleepq[1]] > 0 BY <1>13 DEF Deltas
  <2>7. /\ \A i \in 1..Len(t) : k[t[i]] >= 0
        /\ k[t[1]] > 0
        /\ \A x : OnQueue(sleepq, x) => DelayOn(t, k, x) = DelayOn(sleepq, qkey, x)
    BY <1>1, <1>4, <2>1, <2>2, <2>3, <2>6, InsertdDelays DEF DelayOn
  <2>8. Sleepers(t, k) BY <1>13, <2>1, <2>2
  <2>9. QED BY <1>7, <2>4, <2>5, <2>7, <2>8
<1>14. QED BY <1>9, <1>10, <1>11, <1>12, <1>13 DEF SleepStep

\* Nobody's delay is lengthened or shortened by those who enter or leave the
\* sleep queue around it, on every system whose delays are not 0 (insertd.c,
\* unsleep.c, clkhandler.c:19).
THEOREM DelaysAreKept ==
    ASSUME \A d \in Delays : d > 0 PROVE Spec => DelaysKept
<1>1. Init => Deltas
  <2>1. ASSUME Init PROVE Deltas
    <3>1. sleepq = << >> BY <2>1 DEF Init
    <3>2. QED BY <3>1 DEF Deltas
  <2>2. QED BY <2>1
<1>2. IInv /\ IInv' /\ Deltas /\ [Next]_vars
        => /\ Deltas'
           /\ \A p \in Pids : OnQueue(sleepq, p) /\ OnQueue(sleepq', p) => DelayStep(p)
  BY SleepSteps, SleepStepDelays
<1>3. IInv /\ IInv' /\ Deltas /\ [Next]_vars
        => [\A p \in Pids : OnQueue(sleepq, p) /\ OnQueue(sleepq', p) => DelayStep(p)]_vars
  BY <1>2
<1>4. QED BY <1>1, <1>2, <1>3, Invariance, PTL DEF Spec, DelaysKept
==============================================================================
