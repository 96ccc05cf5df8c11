-------------------------------- MODULE Heap ---------------------------------
(***************************************************************************)
(* What the memory allocator promises: it hands out runs of free cells,    *)
(* and what is given back is free again.  A cell is free or belongs to one *)
(* block.  How the free cells are kept is the business of Memory.          *)
(***************************************************************************)
EXTENDS Integers

CONSTANT Arenas       \* the sets of cells it may have to give
VARIABLES free,       \* the cells nobody has
          given       \* the blocks handed out: a set of runs of cells

Init == free \in Arenas /\ given = {}
Take == \E low, high \in free :
            /\ low <= high /\ low..high \subseteq free
            /\ free' = free \ (low..high)
            /\ given' = given \cup {low..high}
GiveBack == \E b \in given : free' = free \cup b /\ given' = given \ {b}
Next == Take \/ GiveBack
Spec == Init /\ [][Next]_<<free, given>>
==============================================================================
