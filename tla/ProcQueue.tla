------------------------------ MODULE ProcQueue ------------------------------
(***************************************************************************)
(* The process queues of Xinu (system/queue.c, insert.c, insertd.c,        *)
(* getitem.c, unsleep.c) as operators on sequences of process ids, head    *)
(* first.  The keys are not part of the sequence: as in queuetab[], there  *)
(* is one qkey per process, because a process is on at most one queue at a *)
(* time.                                                                   *)
(***************************************************************************)
EXTENDS Integers, Sequences, SequencesExt

\* Process p is on queue q, and no process is on q twice.
OnQueue(q, p) == \E i \in 1..Len(q) : q[i] = p
NoDup(q) == \A i, j \in 1..Len(q) : q[i] = q[j] => i = j

\* enqueue: append at the tail (FIFO queues of the semaphores).
BugLifo(p, q) == <<p>> \o q              \* insertion at the head
enqueue(p, q) == Append(q, p)

\* insert: the walk stops at the first node whose key is below k (the tail
\* node, with key MINKEY, stops it at the latest).
BugBeforeEquals(q, qk, k) ==             \* the walk stops at an equal key
    CHOOSE i \in 1..(Len(q) + 1) :
        /\ \A j \in 1..(i - 1) : qk[q[j]] > k
        /\ i <= Len(q) => qk[q[i]] <= k
BugAtTail(q, qk, k) == Len(q) + 1        \* the keys are not looked at
InsertPos(q, qk, k) ==
    CHOOSE i \in 1..(Len(q) + 1) :
        /\ \A j \in 1..(i - 1) : qk[q[j]] >= k
        /\ i <= Len(q) => qk[q[i]] < k
insert(p, q, qk, k) == InsertAt(q, InsertPos(q, qk, k), p)

\* getitem: unlink p from the queue it is on, wherever it stands.
PosOf(p, q) == CHOOSE i \in 1..Len(q) : q[i] = p
getitem(p, q) == RemoveAt(q, PosOf(p, q))

\* insertd: what is left of the delay when the walk along the delta list
\* reaches each node, the place where the walk stops, and the resulting list
\* and keys: the new node keeps what is left, its successor gives that up.
Left(q, qk, key) ==
    LET r[i \in 1..(Len(q) + 1)] ==
            IF i = 1 THEN key ELSE r[i - 1] - qk[q[i - 1]]
    IN r
InsertdPos(q, qk, key) ==
    CHOOSE i \in 1..(Len(q) + 1) :
        /\ \A j \in 1..(i - 1) : qk[q[j]] <= Left(q, qk, key)[j]
        /\ i <= Len(q) => qk[q[i]] > Left(q, qk, key)[i]
insertd(p, q, qk, key) == InsertAt(q, InsertdPos(q, qk, key), p)
insertdKeys(p, q, qk, key) ==
    LET i == InsertdPos(q, qk, key)
        k == Left(q, qk, key)[i]
    IN [x \in DOMAIN qk |->
            IF x = p THEN k
            ELSE IF i <= Len(q) /\ x = q[i] THEN qk[x] - k
            ELSE qk[x]]

\* unsleep: the successor inherits the delay of the process that leaves.
BugDelayLost(p, q, qk) == qk             \* the successor inherits nothing
unsleepKeys(p, q, qk) ==
    LET i == PosOf(p, q)
    IN [x \in DOMAIN qk |->
            IF i < Len(q) /\ x = q[i + 1] THEN qk[x] + qk[p] ELSE qk[x]]
==============================================================================
