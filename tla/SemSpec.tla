------------------------------- MODULE SemSpec --------------------------------
(***************************************************************************)
(* What a table of semaphores promises: permits are taken and given one at *)
(* a time, whoever waits is served in order of arrival, and nobody waits   *)
(* while a permit is left.                                                 *)
(***************************************************************************)
EXTENDS Sem
CONSTANTS Sems, Procs
VARIABLE sem

SemInit == sem = [s \in Sems |-> SemNew(0)]

Waiting(s) == sem[s].queue # << >>

Become(s, v) == sem' = [sem EXCEPT ![s] = v]
SemNext ==
    \E s \in Sems :
        \/ \E p \in Procs : Become(s, P(sem[s], p))                           \* wait
        \/ Become(s, V(sem[s]))                                               \* signal
        \/ \E p \in Procs : Waits(sem[s], p) /\ Become(s, Leave(sem[s], p))   \* kill
        \/ /\ ~Waiting(s)                                                     \* create, reset
           /\ \E n \in {sem'[s].val} \cap Nat : Become(s, SemNew(n))

SemTable == SemInit /\ [][SemNext]_sem
==============================================================================
