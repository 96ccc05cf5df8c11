--------------------------------- MODULE Lfs ---------------------------------
(***************************************************************************)
(* The local file system (device/lfs) on a disk of sectors (device/ram):   *)
(* the directory, index blocks and data blocks on disk and their copies in *)
(* memory, processes that format the disk, and calls that open, read,      *)
(* write, seek, truncate and close files.                                  *)
(*                                                                         *)
(* open, read, write, seek, control and close disable interrupts (open.c:  *)
(* 19) around the functions here, and the RAM disk never blocks: each such *)
(* call is one step, which finds lf_mutex and lfmutex free.  lfscreate is  *)
(* called directly, with interrupts enabled and no mutex: only its calls   *)
(* of read and write are one step each.                                    *)
(***************************************************************************)
EXTENDS Integers, Sequences, SequencesExt, FiniteSets

CONSTANTS LfProcs,                           \* processes that call lfscreate
          LfNames, LfModes, LfBytes,
          Nlfl, LF_BLKSIZ, LF_IBLEN, LF_NUM_DIR_ENT,
          LfPerSector, LfWanted, LfSectors,  \* index blocks per sector; arguments of lfscreate
          LfBounds                           \* sets of bounds on the operations

VARIABLES lfdev,        \* Lf_data.lf_dskdev has been set
          lfdisk,       \* sector 0 (dir), index blocks (ib), data blocks (db)
          lfdir, lfdirpresent, lfdirdirty,
          lfltab,       \* the open file table
          lfproc,       \* where each process is in lfscreate
          lfpanic, lfbudget,
          lfwant,       \* auxiliary: the bytes of each file as they were written
          lffault       \* auxiliary: what has gone wrong
lfmem == <<lfdir, lfdirpresent, lfdirdirty>>
lfvars == <<lfdev, lfdisk, lfmem, lfltab, lfproc, lfpanic, lfbudget, lfwant, lffault>>

LF_INULL == -1
LF_DNULL == -1
LF_IDATA == LF_BLKSIZ * LF_IBLEN
LfDevs == 0..(Nlfl - 1)
\* lfscreate rounds the number of index blocks up to whole sectors; the rest,
\* without the directory, are data blocks, named by their sectors.
ibsectors == (LfWanted + LfPerSector - 1) \div LfPerSector
LfIbs == 0..(ibsectors * LfPerSector - 1)
LfDbs == (ibsectors + 1)..(LfSectors - 1)
ib2sect(i) == i \div LfPerSector + 1

lfibclear(offset) == [next |-> LF_INULL, offset |-> offset, dba |-> [k \in 0..(LF_IBLEN - 1) |-> LF_DNULL]]
LfFill == [k \in 0..(LF_BLKSIZ - 1) |-> 0]          \* DFILL
LfFreeDb(n) == [next |-> n, data |-> LfFill]           \* struct lfdbfree
LfDataDb(d) == [next |-> LF_DNULL, data |-> d]
LfClosed == [state |-> "FREE", name |-> "none", ent |-> 0, pos |-> 0, inum |-> LF_INULL,
             ib |-> lfibclear(0), dnum |-> LF_DNULL, db |-> LfFill, byte |-> LF_BLKSIZ,
             ibdirty |-> FALSE, dbdirty |-> FALSE]
LfIdle == [at |-> "idle", next |-> 0, sect |-> << >>]

\* What lfscreate writes: all blocks linked on the free lists.
LfFormat ==
    [fs |-> TRUE, dir |-> [dfree |-> ibsectors + 1, ifree |-> 0, files |-> << >>],
     ib |-> [i \in LfIbs |-> [lfibclear(0) EXCEPT !.next = IF i + 1 \in LfIbs THEN i + 1 ELSE LF_INULL]],
     db |-> [d \in LfDbs |-> LfFreeDb(IF d + 1 \in LfDbs THEN d + 1 ELSE LF_DNULL)]]
\* raminit fills the disk with text: no file system, and links that lead
\* nowhere.  No step follows one that has used them (LfSound).
LfBlank == [LfFormat EXCEPT !.fs = FALSE, !.ib = [i \in LfIbs |-> lfibclear(0)],
                            !.db = [d \in LfDbs |-> LfFreeDb(LF_DNULL)]]
lfscheck(disk) == disk.fs

lfsinit ==
    /\ lfdev = FALSE /\ lfdisk = LfBlank /\ lfdir = LfBlank.dir
    /\ lfdirpresent = FALSE /\ lfdirdirty = FALSE
    /\ lfltab = [d \in LfDevs |-> LfClosed]
    /\ lfproc = [p \in LfProcs |-> LfIdle] /\ lfpanic = FALSE
    /\ lfbudget \in LfBounds /\ lfwant = [n \in LfNames |-> << >>] /\ lffault = {}

\* lfscreate: a disk that has been formatted, or is being formatted, is
\* refused.  The device is recorded before the other arguments are looked at,
\* so that a call that failed cannot be made again.
LfMoves(p, at, next, sect) == lfproc' = [lfproc EXCEPT ![p] = [at |-> at, next |-> next, sect |-> sect]]
LfCreators == {p \in LfProcs : lfproc[p].at # "idle"}
lfscreate(p) ==
    /\ ~lfdev /\ lfproc[p].at = "idle" /\ LfMoves(p, "checked", 0, << >>)
    /\ UNCHANGED <<lfdev, lfdisk, lfmem, lfltab, lfpanic, lfbudget, lfwant, lffault>>
LfCreateRecords(p, ok) ==
    /\ lfproc[p].at = "checked" /\ lfdev' = TRUE
    /\ \/ ok /\ ibsectors <= LfSectors \div 2 /\ LfMoves(p, "dir", 0, << >>)
       \/ ~(ok /\ ibsectors <= LfSectors \div 2) /\ LfMoves(p, "idle", 0, << >>)
    /\ UNCHANGED <<lfdisk, lfmem, lfltab, lfpanic, lfbudget, lfwant, lffault>>
\* The directory, then the index blocks one by one (each with the rest of its
\* sector as lfibput has read it), then the data blocks.
LfReadSector(i) == [j \in {k \in LfIbs : ib2sect(k) = ib2sect(i)} |-> lfdisk.ib[j]]
LfCreateWrites(p) ==
    LET c == lfproc[p] IN
    /\ \/ /\ c.at = "dir" /\ lfdisk' = [lfdisk EXCEPT !.fs = TRUE, !.dir = LfFormat.dir]
          /\ LfMoves(p, "get", 0, << >>)
       \/ /\ c.at = "get" /\ lfdisk' = lfdisk /\ LfMoves(p, "put", c.next, LfReadSector(c.next))
       \/ /\ c.at = "put"
          /\ lfdisk' = [lfdisk EXCEPT !.ib = [i \in LfIbs |->
                 IF i = c.next THEN LfFormat.ib[i] ELSE IF i \in DOMAIN c.sect THEN c.sect[i] ELSE @[i]]]
          /\ \/ c.next + 1 \in LfIbs /\ LfMoves(p, "get", c.next + 1, << >>)
             \/ c.next + 1 \notin LfIbs /\ LfMoves(p, "data", ibsectors + 1, << >>)
       \/ /\ c.at = "data" /\ lfdisk' = [lfdisk EXCEPT !.db[c.next] = LfFormat.db[c.next]]
          /\ \/ c.next + 1 \in LfDbs /\ LfMoves(p, "data", c.next + 1, << >>)
             \/ c.next + 1 \notin LfDbs /\ LfMoves(p, "idle", 0, << >>)
    /\ UNCHANGED <<lfdev, lfmem, lfltab, lfpanic, lfbudget, lfwant, lffault>>
-----------------------------------------------------------------------------
\* The functions below lf_mutex work on the disk, the directory in memory, and
\* one open file; new is the block last allocated.
LfView(d) == [disk |-> lfdisk, dir |-> lfdir, dirty |-> lfdirdirty, f |-> lfltab[d],
              new |-> 0, panic |-> FALSE]
lfsave(s) == [s EXCEPT !.disk.dir = s.dir, !.dirty = FALSE]
lfibput(s) == [s EXCEPT !.disk.ib[s.f.inum] = s.f.ib, !.f.ibdirty = FALSE]
lfibget(s, i) == [s EXCEPT !.f.ib = s.disk.ib[i], !.f.inum = i]

BugForgetsData(s) ==                   \* the data block is not written
    LET d == IF s.dirty THEN lfsave(s) ELSE s IN
    IF d.f.ibdirty THEN lfibput([d EXCEPT !.f.dbdirty = FALSE]) ELSE [d EXCEPT !.f.dbdirty = FALSE]
lfflush(s) ==
    LET d == IF s.dirty THEN lfsave(s) ELSE s
        b == IF d.f.dbdirty THEN [d EXCEPT !.disk.db[d.f.dnum] = LfDataDb(d.f.db), !.f.dbdirty = FALSE]
             ELSE d
    IN  IF b.f.ibdirty THEN lfibput(b) ELSE b

lfiballoc(s) ==
    IF s.dir.ifree = LF_INULL THEN [s EXCEPT !.panic = TRUE]
    ELSE lfsave([s EXCEPT !.new = s.dir.ifree, !.dir.ifree = s.disk.ib[s.dir.ifree].next])
lfdballoc(s) ==
    IF s.dir.dfree = LF_DNULL THEN [s EXCEPT !.panic = TRUE]
    ELSE lfsave([s EXCEPT !.new = s.dir.dfree, !.dir.dfree = s.disk.db[s.dir.dfree].next, !.f.db = LfFill])
lfdbfree(s, d) ==
    LET t == [s EXCEPT !.disk.db[d] = LfFreeDb(s.dir.dfree), !.dir.dfree = d] IN
    [t EXCEPT !.disk.dir = t.dir]

\* lfsetup: the index block in memory, then the one that covers the position,
\* then the data block.
LfFirstIb(s) ==
    LET first == s.dir.files[s.f.ent].ilist IN
    IF s.f.inum = LF_INULL /\ first = LF_INULL
    THEN LET t == lfiballoc(s) IN
         IF t.panic THEN t
         ELSE [t EXCEPT !.dir.files[s.f.ent].ilist = t.new, !.f.ib = lfibclear(0), !.f.inum = t.new,
                        !.f.ibdirty = TRUE]
    ELSE IF s.f.inum = LF_INULL \/ s.f.pos < s.f.ib.offset THEN lfibget(s, first) ELSE s
LfNextIb(s) ==
    IF s.f.ib.next = LF_INULL
    THEN LET t == lfiballoc(s) IN
         IF t.panic THEN t
         ELSE [lfibput([t EXCEPT !.f.ib.next = t.new])
                   EXCEPT !.f.inum = t.new, !.f.ib = lfibclear(s.f.ib.offset + LF_IDATA),
                          !.f.ibdirty = TRUE, !.f.dnum = LF_DNULL]
    ELSE [lfibget(s, s.f.ib.next) EXCEPT !.f.dnum = LF_DNULL]
LfCoveringIb(s) ==
    LET go[k \in 0..Cardinality(LfIbs)] ==
            IF k = 0 THEN s
            ELSE LET t == go[k - 1] IN
                 IF ~t.panic /\ (t.f.pos \div LF_IDATA) * LF_IDATA > t.f.ib.offset THEN LfNextIb(t) ELSE t
    IN  go[Cardinality(LfIbs)]
LfDataBlock(s) ==
    LET dindex == (s.f.pos % LF_IDATA) \div LF_BLKSIZ
        dnum == s.f.ib.dba[dindex] IN
    IF s.panic THEN s
    ELSE IF dnum = LF_DNULL
    THEN LET t == lfdballoc(s) IN
         IF t.panic THEN t
         ELSE [t EXCEPT !.f.ib.dba[dindex] = t.new, !.f.ibdirty = TRUE, !.f.dnum = t.new]
    ELSE IF dnum # s.f.dnum
    THEN [s EXCEPT !.f.db = s.disk.db[dnum].data, !.f.dbdirty = FALSE, !.f.dnum = dnum]
    ELSE s
lfsetup(s) ==
    LET i == LfFirstIb(IF s.f.ibdirty \/ s.f.dbdirty THEN lfflush(s) ELSE s)
        b == LfDataBlock(IF i.panic THEN i ELSE LfCoveringIb(i)) IN
    [b EXCEPT !.f.byte = s.f.pos % LF_BLKSIZ]

\* lftruncate: the index blocks of the file, and its data blocks, go to the
\* front of the free lists.
LfChain(disk, first) ==
    LET go[k \in 0..Cardinality(LfIbs)] ==
            IF k = 0 THEN <<first>>
            ELSE LET c == go[k - 1] IN
                 IF Last(c) = LF_INULL THEN c ELSE Append(c, disk.ib[Last(c)].next)
    IN  SelectSeq(go[Cardinality(LfIbs)], LAMBDA i : i # LF_INULL)
LfDbsOf(ib) == SelectSeq([k \in 1..LF_IBLEN |-> ib.dba[k - 1]], LAMBDA d : d # LF_DNULL)
BugKeepsFree(ifree) == LF_INULL
LfFreeAfter(ifree) == ifree             \* the last index block points to the free list
lftruncate(s) ==
    LET c == IF s.f.ibdirty \/ s.f.dbdirty THEN lfflush(s) ELSE s
        ifree == c.dir.ifree
        chain == LfChain(c.disk, c.dir.files[c.f.ent].ilist)
        cleared == [c EXCEPT !.f.pos = 0, !.f.inum = LF_INULL, !.f.dnum = LF_DNULL, !.f.byte = LF_BLKSIZ,
                             !.dir.files[c.f.ent].ilist = LF_INULL, !.dir.files[c.f.ent].size = 0]
        freed == FoldLeft(lfdbfree, cleared, FlattenSeq([k \in DOMAIN chain |-> LfDbsOf(c.disk.ib[chain[k]])]))
        list == [i \in LfIbs |->
                    IF i \notin ToSet(chain) THEN freed.disk.ib[i]
                    ELSE [lfibclear(0) EXCEPT !.next = IF i = Last(chain) THEN LfFreeAfter(ifree)
                                                       ELSE c.disk.ib[i].next]] IN
    IF s.dir.files[s.f.ent].size = 0 THEN s
    ELSE [freed EXCEPT !.disk.ib = list, !.dir.ifree = Head(chain), !.dirty = TRUE]

LfBecome(d, s) ==
    /\ lfdisk' = s.disk /\ lfdir' = s.dir /\ lfdirdirty' = s.dirty
    /\ lfltab' = [lfltab EXCEPT ![d] = s.f]
\* The call goes to the blocks on disk, or only to those in memory.
LfFails(ondisk, f) == lffault' = lffault \cup f \cup (IF ondisk /\ LfCreators # {} THEN {"in use"} ELSE {})
-----------------------------------------------------------------------------
\* lfgetmode: no letter twice, not both o and n; both directions if neither
\* is named.
lfgetmode(m) ==
    LET s == ToSet(m) IN
    IF ~IsInjective(m) \/ {"o", "n"} \subseteq s \/ ~(s \subseteq {"r", "w", "o", "n"}) THEN {"SYSERR"}
    ELSE IF s \cap {"r", "w"} = {} THEN s \cup {"r", "w"} ELSE s

\* lfsopen: refused if the name is that of an open file, or no device is free.
LfOpenNames == {lfltab[d].name : d \in {e \in LfDevs : lfltab[e].state = "USED"}}
LfFreeDevs == {d \in LfDevs : lfltab[d].state = "FREE"}
LfFirst(S) == CHOOSE x \in S : \A y \in S : x <= y
\* The directory entry of a name, 0 if there is none.
LfEntry(dir, n) == LET E == {i \in DOMAIN dir.files : dir.files[i].name = n} IN
                   IF E = {} THEN 0 ELSE LfFirst(E)
lfsopen(n, m) ==
    LET mode == lfgetmode(m)
        dir == IF lfdirpresent THEN lfdir ELSE lfdisk.dir
        found == LfEntry(dir, n) # 0
        fails == \/ ~lfdirpresent /\ ~lfscheck(lfdisk)
                 \/ found /\ "n" \in mode
                 \/ ~found /\ ("o" \in mode \/ Len(dir.files) >= LF_NUM_DIR_ENT)
        grown == IF found THEN dir
                 ELSE [dir EXCEPT !.files = Append(@, [name |-> n, size |-> 0, ilist |-> LF_INULL])] IN
    /\ ~lfpanic /\ lfdev /\ lfbudget.opens > 0
    /\ mode # {"SYSERR"} /\ n \notin LfOpenNames /\ LfFreeDevs # {}
    /\ lfbudget' = [lfbudget EXCEPT !.opens = @ - 1]
    /\ lfdirpresent' = (lfdirpresent \/ lfscheck(lfdisk))
    /\ \/ fails /\ lfdir' = dir /\ UNCHANGED lfltab
       \/ /\ ~fails /\ lfdir' = grown
          /\ lfltab' = [lfltab EXCEPT ![LfFirst(LfFreeDevs)] =
                [LfClosed EXCEPT !.state = "USED", !.name = n, !.ent = LfEntry(grown, n)]]
    /\ UNCHANGED <<lfdev, lfdisk, lfdirdirty, lfproc, lfpanic, lfwant, lffault>>

\* The other calls change nothing (SYSERR, EOF) if the file is not open or its
\* position is out of range.
LfCalled(d, op) ==
    /\ ~lfpanic /\ lfltab[d].state = "USED" /\ lfbudget[op] > 0
    /\ lfbudget' = [lfbudget EXCEPT ![op] = @ - 1]
LfSize(d) == lfdir.files[lfltab[d].ent].size
lflseek(d, n) ==
    /\ LfCalled(d, "seek") /\ n <= LfSize(d)
    /\ lfltab' = [lfltab EXCEPT ![d] = [@ EXCEPT !.pos = n, !.byte = LF_BLKSIZ]]
    /\ UNCHANGED <<lfdev, lfdisk, lfmem, lfproc, lfpanic, lfwant, lffault>>

\* lflgetc and lflputc: within the block in memory, or after lfsetup.
LfInBlock(d) == lfltab[d].byte < LF_BLKSIZ
LfSetUp(d) == IF LfInBlock(d) THEN LfView(d) ELSE lfsetup(LfView(d))
LfMayMove(d, op) ==
    LfCalled(d, op) /\ (lfltab[d].pos < LfSize(d) \/ (op = "put" /\ lfltab[d].pos = LfSize(d)))
LfPanics(d) ==                          \* lfsetup finds no free block
    /\ \E op \in {"get", "put"} : LfMayMove(d, op)
    /\ LfSetUp(d).panic /\ lfpanic' = TRUE /\ LfFails(TRUE, {})
    /\ UNCHANGED <<lfdev, lfdisk, lfmem, lfltab, lfproc, lfwant>>
lflgetc(d) ==
    LET s == LfSetUp(d) IN
    /\ LfMayMove(d, "get") /\ ~s.panic /\ LfBecome(d, [s EXCEPT !.f.byte = @ + 1, !.f.pos = @ + 1])
    /\ LfFails(~LfInBlock(d),
               IF s.f.db[s.f.byte] # lfwant[s.f.name][s.f.pos + 1] THEN {"wrong byte"} ELSE {})
    /\ UNCHANGED <<lfdev, lfdirpresent, lfproc, lfpanic, lfwant>>
lflputc(d, ch) ==
    LET s == LfSetUp(d)
        w == lfwant[s.f.name]
        t == [s EXCEPT !.f.db[s.f.byte] = ch, !.f.byte = @ + 1, !.f.pos = @ + 1, !.f.dbdirty = TRUE] IN
    /\ LfMayMove(d, "put") /\ ~s.panic /\ LfFails(~LfInBlock(d), {})
    /\ LfBecome(d, IF s.f.pos < s.dir.files[s.f.ent].size THEN t
                   ELSE [t EXCEPT !.dir.files[s.f.ent].size = @ + 1, !.dirty = TRUE])
    /\ lfwant' = [lfwant EXCEPT ![s.f.name] = IF s.f.pos >= Len(w) THEN Append(w, ch)
                                             ELSE [w EXCEPT ![s.f.pos + 1] = ch]]
    /\ UNCHANGED <<lfdev, lfdirpresent, lfproc, lfpanic>>

\* lflcontrol(LF_CTL_TRUNC)
lflcontrol(d) ==
    /\ LfCalled(d, "trunc") /\ LfBecome(d, lftruncate(LfView(d)))
    /\ lfwant' = [lfwant EXCEPT ![lfltab[d].name] = << >>] /\ LfFails(LfSize(d) > 0, {})
    /\ UNCHANGED <<lfdev, lfdirpresent, lfproc, lfpanic>>
lflclose(d) ==
    LET flushes == lfdirdirty \/ lfltab[d].dbdirty \/ lfltab[d].ibdirty
        s == IF flushes THEN lfflush(LfView(d)) ELSE LfView(d) IN
    /\ LfCalled(d, "close") /\ LfBecome(d, [s EXCEPT !.f = LfClosed]) /\ LfFails(flushes, {})
    /\ UNCHANGED <<lfdev, lfdirpresent, lfproc, lfpanic, lfwant>>

LfsNext ==
    \/ \E p \in LfProcs :
          \/ lfscreate(p) \/ LfCreateWrites(p)
          \/ \E ok \in BOOLEAN : LfCreateRecords(p, ok)
    \/ \E n \in LfNames, m \in LfModes : lfsopen(n, m)
    \/ \E d \in LfDevs :
          \/ lflgetc(d) \/ LfPanics(d) \/ lflcontrol(d) \/ lflclose(d)
          \/ \E ch \in LfBytes : lflputc(d, ch)
          \/ \E n \in 0..LF_BLKSIZ : lflseek(d, n)
-----------------------------------------------------------------------------
LfDbChain(disk, first) ==
    LET go[k \in 0..Cardinality(LfDbs)] ==
            IF k = 0 THEN <<first>>
            ELSE LET c == go[k - 1] IN
                 IF Last(c) = LF_DNULL THEN c ELSE Append(c, disk.db[Last(c)].next)
    IN  SelectSeq(go[Cardinality(LfDbs)], LAMBDA d : d # LF_DNULL)
\* lfsckfmt: the numbers of free blocks that it finds.
lfsckfmt(disk) == <<Len(LfChain(disk, disk.dir.ifree)), Len(LfDbChain(disk, disk.dir.dfree))>>

\* What the file system promises does not survive a call that goes to the disk
\* between the check of a call of lfscreate and its last write, which starts
\* the free lists afresh (lfscreate.c:33).  A file may be opened meanwhile,
\* once the directory is there, and two processes may both have passed the
\* check and format the same disk.
LfSound == "in use" \notin lffault

\* A file gives back the bytes that were written to it, wherever they are: in
\* the block in memory, in a block that was flushed when the position moved
\* on, or on disk since the file was last closed.
LfReadsBack == LfSound => "wrong byte" \notin lffault

\* Every index block and every data block belongs to one file, at one place,
\* or is on its free list once: none is shared and none is lost, through
\* allocation, seeking, truncation and closing, once nobody is inside lfscreate.
\* A disk fresh from lfscreate passes lfsckfmt with all of them.
LfBlocksOwned ==
    LET inmem(i) == {d \in LfDevs : lfltab[d].state = "USED" /\ lfltab[d].inum = i}
        now == [lfdisk EXCEPT !.ib = [i \in LfIbs |->
                   IF inmem(i) = {} THEN lfdisk.ib[i] ELSE lfltab[LfFirst(inmem(i))].ib]]
        chains == [f \in DOMAIN lfdir.files |-> LfChain(now, lfdir.files[f].ilist)]
        used == FlattenSeq(chains)
        blocks == FlattenSeq([k \in DOMAIN used |-> LfDbsOf(now.ib[used[k]])])
        ibs == used \o LfChain(now, lfdir.ifree)
        dbs == blocks \o LfDbChain(now, lfdir.dfree) IN
    /\ LfSound /\ lfdirpresent /\ ~lfpanic /\ LfCreators = {} =>
          /\ IsInjective(ibs) /\ ToSet(ibs) = LfIbs
          /\ IsInjective(dbs) /\ ToSet(dbs) = LfDbs
          /\ \A f \in DOMAIN lfdir.files : lfdir.files[f].size = Len(lfwant[lfdir.files[f].name])
    /\ lfdisk.fs /\ ~lfdirpresent /\ LfCreators = {} => lfsckfmt(lfdisk) = <<Cardinality(LfIbs), Cardinality(LfDbs)>>
==============================================================================
