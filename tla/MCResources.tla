---------------------------- MODULE MCResources -----------------------------
(***************************************************************************)
(* Paging, the memory allocator, ports, buffer pools and the tty driver,   *)
(* each explored by itself: part says which one takes steps.               *)
(***************************************************************************)
EXTENDS Paging, Memory, Ports, BufPool, Tty, TLC

VARIABLE part
resvars == <<part, vars, memvars, ptvars, bufvars, tyvars>>

\* The parts that do not step have one initial state.
One(S) == CHOOSE x \in S : TRUE
ResInit ==
    /\ part \in {"paging", "memory", "ports", "buffers", "tty"}
    /\ Init /\ meminit /\ ptinit /\ bufinit /\ ttyinit
    /\ part # "paging" => mem[0][0] = 0 /\ currpid = One(Pids)
    /\ part # "memory" => minheap = One(Ends)
    /\ part # "tty" => tybudget = One(TyBudgets)
ResNext ==
    /\ UNCHANGED part
    /\ \/ part = "paging" /\ Next /\ UNCHANGED <<memvars, ptvars, bufvars, tyvars>>
       \/ part = "memory" /\ MemNext /\ UNCHANGED <<vars, ptvars, bufvars, tyvars>>
       \/ part = "ports" /\ PtNext /\ UNCHANGED <<vars, memvars, bufvars, tyvars>>
       \/ part = "buffers" /\ BufNext /\ UNCHANGED <<vars, memvars, ptvars, tyvars>>
       \/ part = "tty" /\ TtyNext /\ UNCHANGED <<vars, memvars, ptvars, bufvars>>
ResSpec == ResInit /\ [][ResNext]_resvars

\* What is written, and how much is typed, written and controlled, and what.
Texts == {<<"a">>, <<"ctl", "nl">>}
Budgets == {[typed |-> 4, written |-> 0, control |-> 0, chars |-> {"a", "nl", "eof", "bs"}],
            [typed |-> 4, written |-> 0, control |-> 1, chars |-> {"ctl", "cr"}],
            [typed |-> 3, written |-> 0, control |-> 0, chars |-> {"ctl", "kill"}],
            [typed |-> 2, written |-> 4, control |-> 0, chars |-> {"stop", "start"}]}
\* Processes are interchangeable.
ResSymmetry == Permutations(PtProcs)
==============================================================================
