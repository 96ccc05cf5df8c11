------------------------------- MODULE Paging --------------------------------
(***************************************************************************)
(* The paging that sysinit turns on: page_table_init, write_cr3, dump_pd,  *)
(* enable_paging, and every access to memory afterwards.  The directory    *)
(* and the page tables are frames of the same physical memory that the     *)
(* processes store into.  A word is 0, or 1 + base for an entry whose      *)
(* present bit is set; the write and user bits have no effect on code that *)
(* runs in ring 0 with CR0.WP clear, as all of Xinu does.                  *)
(***************************************************************************)
EXTENDS Integers, FiniteSets

CONSTANTS DIRLEN,      \* XINU_PAGE_DIRECTORY_LENGTH
          ENTRIES,     \* PAGE_TABLE_ENTRIES: entries of a directory or table
          AREASTART,   \* first frame of the page table area
          AREAEND,     \* last frame of the page table area
          Pids,        \* the processes
          Values,      \* words that processes store
          Slots,       \* positions in a page that they store at
          Garbage      \* what memory may hold when the machine starts

XINU_PAGES == DIRLEN * ENTRIES               \* setsegs: maxheap is just below
Frames == 0..AREAEND
Index == 0..(ENTRIES - 1)

ASSUME AreaAssumption ==
    /\ DIRLEN \in Nat \ {0} /\ ENTRIES \in Nat \ {0} /\ DIRLEN < ENTRIES
    /\ AREASTART \in Nat /\ AREAEND \in Nat
    /\ XINU_PAGES <= AREASTART /\ AREASTART + DIRLEN <= AREAEND
    /\ AREAEND < ENTRIES * ENTRIES
ASSUME WordsAssumption ==
    /\ Values \cup Garbage \subseteq Nat /\ Slots \subseteq Index /\ Pids # {}

VARIABLES mem,                   \* physical memory: frame, position, word
          next_free_pt_frame, first_page_directory,
          cr2, cr3, pg,          \* page of the last fault, directory, CR0.PG
          boot, pd_index,        \* the step of sysinit, the table it is at
          currpid, panicked
tables == <<next_free_pt_frame, first_page_directory, boot, pd_index>>
vars == <<mem, tables, cr2, cr3, pg, currpid, panicked>>

Entry(base) == base + 1
Present(w) == w # 0
Base(w) == w - 1
Zeroed == [i \in Index |-> 0]                \* memset(page, 0, PAGE_SIZE)

\* A page is a pair: the parts pd_offset and pt_offset of a virtual address.
Pages == Index \X Index
Frame(v) == v[1] * ENTRIES + v[2]
PageOf(f) == CHOOSE v \in Pages : Frame(v) = f

\* The translation of the processor through the directory in frame cr3.
Pde(v) == mem[cr3][v[1]]
Pte(v) == mem[Base(Pde(v))][v[2]]
Mapped(v) ==
    /\ Present(Pde(v)) /\ Base(Pde(v)) \in Frames
    /\ Present(Pte(v)) /\ Base(Pte(v)) \in Frames
Reachable(v) == IF pg THEN Mapped(v) ELSE Frame(v) \in Frames
Physical(v) == IF pg THEN Base(Pte(v)) ELSE Frame(v)

Init ==
    /\ \E g \in Garbage : mem = [f \in Frames |-> [i \in Index |-> g]]
    /\ next_free_pt_frame = AREASTART
    /\ first_page_directory = 0 /\ cr2 = <<0, 0>> /\ cr3 = 0 /\ pg = FALSE
    /\ boot = "directory" /\ pd_index = 0
    /\ currpid \in Pids /\ panicked = FALSE

At(step) == boot = step /\ ~panicked

BugNoAdvance(f) == next_free_pt_frame' = f
Advance(f) == next_free_pt_frame' = f + 1
get_next_free_pt_frame(f) == f = next_free_pt_frame /\ Advance(f)

\* page_table_init takes a frame for the directory and clears it,
BugDirty(f) == mem                           \* without memset
Cleared(f) == [mem EXCEPT ![f] = Zeroed]
pageDirectory ==
    /\ At("directory")
    /\ \E f \in Frames :
        /\ get_next_free_pt_frame(f)
        /\ mem' = Cleared(f)
        /\ first_page_directory' = f
    /\ boot' = "tables" /\ pd_index' = 0
    /\ UNCHANGED <<cr2, cr3, pg, currpid, panicked>>

\* and, for each of its first entries, one for a table that maps each page to
\* the frame of the same number.
Table(d) == [i \in Index |-> Entry(d * ENTRIES + i)]
pageTable ==
    /\ At("tables") /\ pd_index < DIRLEN
    /\ \E f \in Frames :
        /\ get_next_free_pt_frame(f)
        /\ mem' = [mem EXCEPT ![f] = Table(pd_index),
                              ![first_page_directory][pd_index] = Entry(f)]
    /\ pd_index' = pd_index + 1
    /\ boot' = IF pd_index' = DIRLEN THEN "cr3" ELSE boot
    /\ UNCHANGED <<first_page_directory, cr2, cr3, pg, currpid, panicked>>

write_cr3 ==
    /\ At("cr3")
    /\ cr3' = first_page_directory /\ boot' = "dump"
    /\ UNCHANGED <<mem, next_free_pt_frame, first_page_directory, pd_index,
                   cr2, pg, currpid, panicked>>

\* Page fault, exception 14: initevec gave it the default handler, which goes
\* to trap and panic.  pagefault_handler_disp is installed nowhere.
fault(v) ==
    /\ cr2' = v /\ panicked' = TRUE
    /\ UNCHANGED <<mem, tables, cr3, pg, currpid>>

\* dump_pd reads the directory through the translation in force.
BugEnableFirst ==                            \* enable_paging, then dump_pd
    LET v == PageOf(first_page_directory)
    IN  /\ At("dump")
        /\ pg' = TRUE
        /\ IF Mapped(v) THEN boot' = "run" /\ UNCHANGED <<cr2, panicked>>
           ELSE cr2' = v /\ panicked' = TRUE /\ UNCHANGED boot
        /\ UNCHANGED <<mem, next_free_pt_frame, first_page_directory, pd_index, cr3, currpid>>
dump_pd ==
    LET v == PageOf(first_page_directory)
    IN  /\ At("dump")
        /\ IF Reachable(v)
           THEN /\ boot' = "enable"
                /\ UNCHANGED <<mem, next_free_pt_frame, first_page_directory,
                               pd_index, cr2, cr3, pg, currpid, panicked>>
           ELSE fault(v)

enable_paging ==
    /\ At("enable")
    /\ pg' = TRUE /\ boot' = "run"
    /\ UNCHANGED <<mem, next_free_pt_frame, first_page_directory, pd_index,
                   cr2, cr3, currpid, panicked>>

\* The current process stores a word; ctxsw changes the stack and leaves cr3.
store(v, i, w) ==
    /\ At("run")
    /\ \/ /\ Reachable(v)
          /\ mem' = [mem EXCEPT ![Physical(v)][i] = w]
          /\ UNCHANGED <<tables, cr2, cr3, pg, currpid, panicked>>
       \/ ~Reachable(v) /\ fault(v)

ctxsw(p) ==
    /\ At("run") /\ p # currpid
    /\ currpid' = p
    /\ UNCHANGED <<mem, tables, cr2, cr3, pg, panicked>>

Stopped == panicked /\ UNCHANGED vars        \* panic: a busy loop

Booting == pageDirectory \/ pageTable \/ write_cr3 \/ dump_pd \/ enable_paging
Next ==
    \/ Booting
    \/ \E v \in Pages, i \in Slots, w \in Values : store(v, i, w)
    \/ \E p \in Pids : ctxsw(p)
    \/ Stopped
Spec == Init /\ [][Next]_vars
-----------------------------------------------------------------------------
TypeOK ==
    /\ mem \in [Frames -> [Index -> Nat]]
    /\ next_free_pt_frame \in AREASTART..(AREAEND + 1)
    /\ first_page_directory \in Frames /\ cr3 \in Frames /\ cr2 \in Pages
    /\ pg \in BOOLEAN /\ panicked \in BOOLEAN
    /\ boot \in {"directory", "tables", "cr3", "dump", "enable", "run"}
    /\ pd_index \in 0..DIRLEN /\ currpid \in Pids

\* From the moment paging is on, and whatever the processes store, the pages
\* below maxheap and only those are mapped, each to the frame of its own number
\* (page_table_init): the stacks, the heap and the kernel keep their addresses.
IdentityMapped ==
    pg => \A v \in Pages :
        /\ Mapped(v) <=> Frame(v) < XINU_PAGES
        /\ Mapped(v) => Physical(v) = Frame(v)

\* The directory and its tables are different frames of the page table area,
\* and no page is mapped to one of them, so that no store can change the map.
TableFrames == {Base(mem[cr3][d]) : d \in {j \in Index : Present(mem[cr3][j])}}
TablesApart ==
    pg => /\ cr3 \notin TableFrames /\ Cardinality(TableFrames) = DIRLEN
          /\ TableFrames \cup {cr3} \subseteq AREASTART..AREAEND
          /\ \A v \in Pages : Mapped(v) => Physical(v) \notin TableFrames \cup {cr3}

\* A fault is always for a page that is not below maxheap, and never happens
\* while sysinit is still running (dump_pd comes before enable_paging).
FaultsOutside == panicked => boot = "run" /\ Frame(cr2) >= XINU_PAGES

\* README.md:26, "Per-process memory isolation": what a process stores in the
\* heap changes nothing that another process sees there.
Sees(p, v) == [i \in Index |-> IF Mapped(v) THEN mem[Physical(v)][i] ELSE 0]
HeapPages == {v \in Pages : Frame(v) < XINU_PAGES /\ v[1] > 0}
Isolated ==
    [][\A p \in Pids \ {currpid}, v \in HeapPages : At("run") => Sees(p, v)' = Sees(p, v)]_vars
==============================================================================
