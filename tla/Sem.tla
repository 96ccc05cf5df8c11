--------------------------------- MODULE Sem ---------------------------------
(***************************************************************************)
(* A counting semaphore as the rest of the system uses it: a record of the *)
(* permits left and the processes that wait, first come first served       *)
(* (system/wait.c, signal.c, semcount.c, semreset.c, semdelete.c, and the  *)
(* PR_WAIT case of kill.c).  Kernel is shown to implement these operations *)
(* (SemSpec); the modules of ports, buffers and devices are built on them. *)
(***************************************************************************)
EXTENDS ProcQueue, FiniteSets

\* semcreate(n)
SemNew(n) == [val |-> n, queue |-> << >>]

\* wait: whoever finds no permit is enqueued.
P(s, p) == IF s.val > 0 THEN [s EXCEPT !.val = @ - 1]
           ELSE [s EXCEPT !.queue = Append(@, p)]
Passes(s) == s.val > 0

\* signal: the permit goes to the first process that waits, which is ready
\* from then on, or is left for the next wait.
V(s) == IF s.queue # << >> THEN [s EXCEPT !.queue = Tail(@)]
        ELSE [s EXCEPT !.val = @ + 1]

\* signaln(s, n)
VN(s, n) == IF n <= Len(s.queue) THEN [s EXCEPT !.queue = SubSeq(@, n + 1, Len(@))]
            ELSE [val |-> s.val + n - Len(s.queue), queue |-> << >>]

\* kill of a process that waits; it does nothing to one that does not.
Waits(s, p) == OnQueue(s.queue, p)
Leave(s, p) == IF Waits(s, p) THEN [s EXCEPT !.queue = getitem(p, @)] ELSE s

\* The count in semtab, which semcount returns.
semcount(s) == IF s.queue # << >> THEN -Len(s.queue) ELSE s.val
==============================================================================
