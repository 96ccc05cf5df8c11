--------------------------------- MODULE Rfs ---------------------------------
(***************************************************************************)
(* The remote file system (device/rfs): processes open, read, write, seek  *)
(* and close remote files and call the master device's control functions,  *)
(* one at a time (rf_mutex), by exchanges with a server over a network     *)
(* that loses, delays and reorders messages.  A process may be killed      *)
(* while it waits for the mutex or for a reply.                            *)
(***************************************************************************)
EXTENDS Sem

CONSTANTS RfProcs, RfNames, RfModes, RfBytes, RfCounts,
          Nrfl, RF_RETRIES, RF_DATALEN,
          RfCalls, RfKills              \* bounds

ASSUME RfAssumption == IsFiniteSet(RfProcs)

VARIABLES rfltab,                       \* the remote file devices
          rfmutex, rfseq, rfregistered, \* Rf_data
          rfproc,                       \* the call each process is in
          rfreq, rfrep,                 \* requests and replies on their way
          rffile,                       \* the server's files
          rfcalls, rfkilled, rfpanic,
          rfexec,                       \* auxiliary: requests the server has carried out
          rfwrong                       \* auxiliary: a reply taken that answers another call
rfsvars == <<rfltab, rfmutex, rfseq, rfregistered, rfproc, rfreq, rfrep, rffile,
             rfcalls, rfkilled, rfpanic, rfexec, rfwrong>>

RfDevs == 0..(Nrfl - 1)
RfFree == [state |-> "FREE", name |-> "none", pos |-> 0, mode |-> {}]
RfNone == [op |-> "none", dev |-> 0, name |-> "none", mode |-> {}, pos |-> 0, len |-> 0, byte |-> 0]
RfIdle == [at |-> "idle", call |-> RfNone, id |-> 0, seq |-> 0, tries |-> 0]
RfAbsent == <<-1>>

rfsinit ==
    /\ rfltab = [d \in RfDevs |-> RfFree] /\ rfmutex = SemNew(1) /\ rfseq = 1 /\ rfregistered = FALSE
    /\ rfproc = [p \in RfProcs |-> RfIdle] /\ rfreq = {} /\ rfrep = {}
    /\ rffile = [n \in RfNames |-> << >>] /\ rfcalls = 0 /\ rfkilled = {} /\ rfpanic = FALSE
    /\ rfexec = {} /\ rfwrong = FALSE

\* rfsgetmode: no letter twice, not both o and n; both directions if neither
\* is named.
rfsgetmode(m) ==
    LET s == ToSet(m) IN
    IF ~IsInjective(m) \/ {"o", "n"} \subseteq s \/ ~(s \subseteq {"r", "w", "o", "n"}) THEN {"SYSERR"}
    ELSE IF s \cap {"r", "w"} = {} THEN s \cup {"r", "w"} ELSE s
-----------------------------------------------------------------------------
\* Every call begins with a wait for the mutex.
RfCall(p, c) ==
    /\ ~rfpanic /\ p \notin rfkilled /\ rfproc[p].at = "idle" /\ rfcalls < RfCalls
    /\ rfcalls' = rfcalls + 1 /\ rfmutex' = P(rfmutex, p)
    /\ rfproc' = [rfproc EXCEPT ![p] = [RfIdle EXCEPT !.at = "enter", !.call = c, !.id = rfcalls + 1]]
    /\ UNCHANGED <<rfltab, rfseq, rfregistered, rfreq, rfrep, rffile, rfkilled, rfpanic, rfexec, rfwrong>>
RfRuns(p, at) == ~rfpanic /\ rfproc[p].at = at /\ ~Waits(rfmutex, p)
\* The functions: rflgetc and rflputc are a read and a write of one byte, and
\* rfscontrol's directory functions exchange the same messages as delete.
rfsopen(p, n, m) == RfCall(p, [RfNone EXCEPT !.op = "open", !.name = n, !.mode = rfsgetmode(m)])
rflread(p, d, k) == RfCall(p, [RfNone EXCEPT !.op = "read", !.dev = d, !.len = k])
rflwrite(p, d, k, b) == RfCall(p, [RfNone EXCEPT !.op = "write", !.dev = d, !.len = k, !.byte = b])
rflclose(p, d) == RfCall(p, [RfNone EXCEPT !.op = "close", !.dev = d])
rflseek(p, d, pos) == RfCall(p, [RfNone EXCEPT !.op = "seek", !.dev = d, !.pos = pos])
rfscontrol(p, n, func) == RfCall(p, [RfNone EXCEPT !.op = func, !.name = n])

BugKeepsMutex(p) == rfproc' = [rfproc EXCEPT ![p] = RfIdle] /\ UNCHANGED rfmutex
RfReturns(p) == rfproc' = [rfproc EXCEPT ![p] = RfIdle] /\ rfmutex' = V(rfmutex)
RfFails(p) == rfproc' = [rfproc EXCEPT ![p] = RfIdle] /\ rfmutex' = V(rfmutex)   \* return SYSERR

\* What each function tests before it talks to the server.
RfFreeDevs == {d \in RfDevs : rfltab[d].state = "FREE"}
RfFirst(S) == CHOOSE x \in S : \A y \in S : x <= y
RfUsed(c) == rfltab[c.dev].state = "USED"
RfGoodCount(c) == c.len > 0 /\ c.len <= RF_DATALEN
RfMayOpen(c) == RfFreeDevs # {} /\ c.mode # {"SYSERR"}
RfMayRead(c) == RfGoodCount(c) /\ RfUsed(c) /\ "r" \in rfltab[c.dev].mode
RfMayWrite(c) == RfGoodCount(c) /\ RfUsed(c) /\ "w" \in rfltab[c.dev].mode
RfAccepts(c) ==
    CASE c.op = "open"  -> RfMayOpen(c)
      [] c.op = "read"  -> RfMayRead(c)
      [] c.op = "write" -> RfMayWrite(c)
      [] c.op \in {"seek", "close"} -> RfUsed(c)
      [] OTHER -> TRUE                                       \* rfscontrol
\* rfsopen has put the name and the mode into a free device by then.
RfNamed(c) ==
    IF c.op = "open" /\ RfFreeDevs # {}
    THEN [rfltab EXCEPT ![RfFirst(RfFreeDevs)] = [@ EXCEPT !.name = c.name, !.mode = c.mode]]
    ELSE rfltab
rfrefuse(p) ==
    /\ RfRuns(p, "enter") /\ ~RfAccepts(rfproc[p].call) /\ RfFails(p)
    /\ rfltab' = RfNamed(rfproc[p].call)
    /\ UNCHANGED <<rfseq, rfregistered, rfreq, rfrep, rffile, rfcalls, rfkilled, rfpanic, rfexec, rfwrong>>
RfSeeks(p) ==
    /\ RfRuns(p, "enter") /\ rfproc[p].call.op = "seek" /\ RfAccepts(rfproc[p].call) /\ RfReturns(p)
    /\ rfltab' = [rfltab EXCEPT ![rfproc[p].call.dev].pos = rfproc[p].call.pos]
    /\ UNCHANGED <<rfseq, rfregistered, rfreq, rfrep, rffile, rfcalls, rfkilled, rfpanic, rfexec, rfwrong>>

\* The request: rfsopen names a free device; the others take the name and the
\* position from theirs.
RfRequest(c) ==
    IF c.op = "open" THEN [c EXCEPT !.dev = RfFirst(RfFreeDevs)]
    ELSE IF c.op \in {"read", "write", "close"}
    THEN [c EXCEPT !.name = rfltab[c.dev].name, !.pos = rfltab[c.dev].pos]
    ELSE c
\* rfscomm: the first call registers the port, which may fail, or finds that
\* the server has no address, which is a panic; then the number is assigned.
rfscomm(p) ==
    LET c == RfRequest(rfproc[p].call) IN
    /\ RfRuns(p, "enter") /\ RfAccepts(rfproc[p].call) /\ c.op # "seek"
    /\ rfltab' = RfNamed(c)
    /\ \/ /\ ~rfregistered /\ rfpanic' = TRUE /\ UNCHANGED <<rfproc, rfmutex, rfregistered, rfseq>>
       \/ /\ ~rfregistered /\ RfFails(p) /\ UNCHANGED <<rfregistered, rfseq, rfpanic>>
       \/ /\ rfregistered' = TRUE /\ rfseq' = rfseq + 1
          /\ rfproc' = [rfproc EXCEPT ![p] = [@ EXCEPT !.at = "send", !.call = c, !.seq = rfseq]]
          /\ UNCHANGED <<rfmutex, rfpanic>>
    /\ UNCHANGED <<rfreq, rfrep, rffile, rfcalls, rfkilled, rfexec, rfwrong>>
RfSend(p) ==
    /\ RfRuns(p, "send")
    /\ \/ /\ rfreq' = rfreq \cup {[call |-> rfproc[p].call, id |-> rfproc[p].id, seq |-> rfproc[p].seq]}
          /\ rfproc' = [rfproc EXCEPT ![p].at = "receive"] /\ UNCHANGED rfmutex
       \/ RfFails(p) /\ UNCHANGED rfreq                      \* udp_send fails
    /\ UNCHANGED <<rfltab, rfseq, rfregistered, rfrep, rffile, rfcalls, rfkilled, rfpanic, rfexec, rfwrong>>
RfRetry(p) ==
    \/ /\ rfproc[p].tries + 1 < RF_RETRIES /\ UNCHANGED rfmutex
       /\ rfproc' = [rfproc EXCEPT ![p].at = "send", ![p].tries = @ + 1]
    \/ rfproc[p].tries + 1 >= RF_RETRIES /\ RfFails(p)
RfTimeout(p) ==
    /\ RfRuns(p, "receive") /\ RfRetry(p)
    /\ UNCHANGED <<rfltab, rfseq, rfregistered, rfreq, rfrep, rffile, rfcalls, rfkilled, rfpanic, rfexec, rfwrong>>

BugTakesOlder(c, r, seq) == r.seq <= seq /\ r.op = c.op
RfIsMine(c, r, seq) == r.seq = seq /\ r.op = c.op
\* The rest of each function, for a reply with status 0.  The size of a file
\* is returned without a look at the status.
RfGood(c, r) == r.status = 0 \/ c.op = "size"
RfAfter(c, r) ==
    CASE c.op = "open" -> [rfltab EXCEPT ![c.dev] = [@ EXCEPT !.state = "USED", !.pos = 0]]
      [] c.op = "close" -> [rfltab EXCEPT ![c.dev].state = "FREE"]
      [] c.op \in {"read", "write"} -> [rfltab EXCEPT ![c.dev].pos = @ + r.len]
      [] OTHER -> rfltab
RfReceive(p, r) ==
    LET c == rfproc[p].call IN
    /\ RfRuns(p, "receive") /\ r \in rfrep /\ rfrep' = rfrep \ {r}
    /\ \/ /\ ~RfIsMine(c, r, rfproc[p].seq) /\ RfRetry(p) /\ UNCHANGED <<rfltab, rfwrong>>
       \/ /\ RfIsMine(c, r, rfproc[p].seq) /\ ~RfGood(c, r) /\ RfFails(p) /\ UNCHANGED <<rfltab, rfwrong>>
       \/ /\ RfIsMine(c, r, rfproc[p].seq) /\ RfGood(c, r) /\ RfReturns(p)
          /\ rfltab' = RfAfter(c, r)
          /\ rfwrong' = (rfwrong \/ [id |-> rfproc[p].id, status |-> r.status, len |-> r.len] \notin rfexec)
    /\ UNCHANGED <<rfseq, rfregistered, rfreq, rffile, rfcalls, rfkilled, rfpanic, rfexec>>

\* kill: a process that waits for the mutex leaves its queue; one that waits
\* for a reply takes the mutex with it.
RfKill(p) ==
    /\ ~rfpanic /\ Cardinality(rfkilled) < RfKills /\ p \notin rfkilled
    /\ Waits(rfmutex, p) \/ rfproc[p].at = "receive"
    /\ rfkilled' = rfkilled \cup {p} /\ rfmutex' = Leave(rfmutex, p)
    /\ rfproc' = [rfproc EXCEPT ![p] = [RfIdle EXCEPT !.at = IF Waits(rfmutex, p) THEN "idle" ELSE "dead"]]
    /\ UNCHANGED <<rfltab, rfseq, rfregistered, rfreq, rfrep, rffile, rfcalls, rfpanic, rfexec, rfwrong>>
-----------------------------------------------------------------------------
\* External: the server, and the network.
RfServed(c) ==                          \* status, length and the file afterwards
    LET f == rffile[c.name] IN
    CASE c.op = "open" -> IF (f = RfAbsent /\ "o" \in c.mode) \/ (f # RfAbsent /\ "n" \in c.mode)
                          THEN <<1, 0, f>> ELSE <<0, 0, IF f = RfAbsent THEN << >> ELSE f>>
      [] c.op \in {"close", "size"} -> IF f = RfAbsent THEN <<1, 0, f>> ELSE <<0, 0, f>>
      [] c.op = "read" -> IF f = RfAbsent THEN <<1, 0, f>>
                          ELSE <<0, IF c.pos >= Len(f) THEN 0
                                    ELSE IF c.pos + c.len > Len(f) THEN Len(f) - c.pos ELSE c.len, f>>
      [] c.op = "write" -> IF f = RfAbsent \/ c.pos > Len(f) THEN <<1, 0, f>>
                           ELSE <<0, c.len, [i \in 1..(IF c.pos + c.len > Len(f) THEN c.pos + c.len ELSE Len(f)) |->
                                               IF i > c.pos /\ i <= c.pos + c.len THEN c.byte ELSE f[i]]>>
      [] c.op = "trunc" -> IF f = RfAbsent THEN <<1, 0, f>> ELSE <<0, 0, << >>>>
      [] OTHER -> IF f = RfAbsent THEN <<1, 0, f>> ELSE <<0, 0, RfAbsent>>     \* delete
RfServer(m) ==
    LET s == RfServed(m.call) IN
    /\ m \in rfreq /\ rfreq' = rfreq \ {m}
    /\ rffile' = [rffile EXCEPT ![m.call.name] = s[3]]
    /\ rfrep' = rfrep \cup {[op |-> m.call.op, seq |-> m.seq, status |-> s[1], len |-> s[2]]}
    /\ rfexec' = IF s[1] = 0 \/ m.call.op = "size"
                 THEN rfexec \cup {[id |-> m.id, status |-> s[1], len |-> s[2]]} ELSE rfexec
    /\ UNCHANGED <<rfltab, rfmutex, rfseq, rfregistered, rfproc, rfcalls, rfkilled, rfpanic, rfwrong>>
RfLost ==
    /\ \/ \E m \in rfreq : rfreq' = rfreq \ {m} /\ UNCHANGED rfrep
       \/ \E r \in rfrep : rfrep' = rfrep \ {r} /\ UNCHANGED rfreq
    /\ UNCHANGED <<rfltab, rfmutex, rfseq, rfregistered, rfproc, rffile, rfcalls, rfkilled, rfpanic, rfexec, rfwrong>>

RfsNext ==
    \/ \E p \in RfProcs :
          \/ \E n \in RfNames, m \in RfModes : rfsopen(p, n, m)
          \/ \E d \in RfDevs, k \in RfCounts : rflread(p, d, k)
          \/ \E d \in RfDevs, k \in RfCounts, b \in RfBytes : rflwrite(p, d, k, b)
          \/ \E d \in RfDevs : rflclose(p, d) \/ rflseek(p, d, 0)
          \/ \E n \in RfNames, func \in {"delete", "trunc", "size"} : rfscontrol(p, n, func)
          \/ rfrefuse(p) \/ RfSeeks(p) \/ rfscomm(p) \/ RfSend(p) \/ RfTimeout(p)
          \/ \E r \in rfrep : RfReceive(p, r)
          \/ RfKill(p)
    \/ (\E m \in rfreq : RfServer(m)) \/ RfLost
RfsSpec == rfsinit /\ [][RfsNext]_rfsvars
-----------------------------------------------------------------------------
\* A call that reports success has been carried out by the server, this very
\* call and with the result it reports, although replies to earlier calls, and
\* to earlier copies of this one, may arrive at any time (rfscomm.c:77).
RfAnswered == ~rfwrong

\* The mutex is taken exactly while one process is between wait and signal:
\* every way out of every function gives it back, and only a process that is
\* killed in between keeps it for ever.
RfMutexBalanced ==
    LET inside == {p \in RfProcs : rfproc[p].at \notin {"idle", "enter"}
                                     \/ (rfproc[p].at = "enter" /\ ~Waits(rfmutex, p))} IN
    /\ Cardinality(inside) + rfmutex.val = 1
    /\ rfmutex.queue # << >> => rfmutex.val = 0
==============================================================================
