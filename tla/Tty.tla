--------------------------------- MODULE Tty ---------------------------------
(***************************************************************************)
(* The serial line driver (device/tty): the upper half called by reading   *)
(* and writing processes, the interrupt handlers, three circular buffers   *)
(* and the two semaphores between them.  Characters are the classes that   *)
(* the driver tells apart; of the echo only its length matters.            *)
(*                                                                         *)
(* Calls and handlers run with interrupts disabled.  tyrun is the process  *)
(* that is inside a call; nothing else happens until it blocks or returns. *)
(* A process that a handler has made ready continues at any later time.    *)
(***************************************************************************)
EXTENDS Sem

CONSTANTS TyReaders, TyWriters,     \* processes
          TY_IBUFLEN, TY_OBUFLEN, TY_EBUFLEN, UART_FIFO_SIZE,
          TyTexts,                  \* texts given to ttywrite
          TyReads,                  \* counts given to ttyread
          TyModes, TyEchoes,        \* modes and echo settings given to ttycontrol
          TyBudgets                 \* what is typed, and bounds on typing, writing, ttycontrol

VARIABLES tyibuff, tyihead, tyitail, tyisem, tyicursor,
          tyobuff, tyohead, tyotail, tyosem, tyoheld,
          tyehead, tyetail, tyimode, tyiecho,
          uart,        \* [busy, thre, on]: transmitting, output interrupt, enabled?
          typc,        \* what a process has left of its call
          tyrun,       \* the process inside a call, or NoProc
          tybudget,    \* what is left of the bounds
          tystored, tyout,  \* auxiliary: the characters that were put in the
                       \* input and output buffers and not taken out again
          tyecho,      \* auxiliary: how many characters the echo queue should hold
          tyfault      \* auxiliary: what has gone wrong with a buffer
tyinput == <<tyibuff, tyihead, tyitail, tyisem, tyicursor, tystored>>
tyoutput == <<tyobuff, tyohead, tyotail, tyosem, tyout>>
tyechoes == <<tyehead, tyetail, tyecho>>
tyvars == <<tyinput, tyoutput, tyechoes, tyoheld, tyimode, tyiecho, uart, typc,
            tyrun, tybudget, tyfault>>

NoProc == "none"
TyIdle == [op |-> "idle", left |-> 0, first |-> TRUE, text |-> << >>, passed |-> FALSE]

\* Characters: "a" printable, "ctl" any other control character, and those with
\* a meaning.
TY_NEWLINE == "nl"
TY_RETURN == "cr"
TY_EOFCH == "eof"
TY_BACKSP == "bs"
TY_KILLCH == "kill"
TY_STRTCH == "start"
TY_STOPCH == "stop"
TyChars == {"a", "ctl", TY_NEWLINE, TY_RETURN, TY_EOFCH, TY_BACKSP, TY_KILLCH, TY_STRTCH, TY_STOPCH}

\* Buffers have places, a process has an id, and only characters are written
\* and typed.
ASSUME TtyAssumption ==
    /\ IsFiniteSet(TyReaders) /\ IsFiniteSet(TyWriters) /\ NoProc \notin TyReaders \cup TyWriters
    /\ {TY_IBUFLEN, TY_OBUFLEN, TY_EBUFLEN, UART_FIFO_SIZE} \subseteq Nat \ {0}
    /\ TyReads \subseteq Nat /\ TyTexts \subseteq Seq(TyChars) \ {<< >>}
    /\ TyBudgets \subseteq [typed : Nat, written : Nat, control : Nat, chars : SUBSET TyChars]

ttyinit ==
    /\ tyibuff = [i \in 0..(TY_IBUFLEN - 1) |-> "a"] /\ tyihead = 0 /\ tyitail = 0
    /\ tyisem = SemNew(0) /\ tyicursor = 0
    /\ tyobuff = [i \in 0..(TY_OBUFLEN - 1) |-> "a"] /\ tyohead = 0 /\ tyotail = 0
    /\ tyosem = SemNew(TY_OBUFLEN) /\ tyoheld = FALSE
    /\ tyehead = 0 /\ tyetail = 0
    /\ tyimode = "COOKED" /\ tyiecho = TRUE
    /\ uart = [busy |-> FALSE, thre |-> TRUE, on |-> TRUE]            \* ttykickout
    /\ typc = [p \in TyReaders \cup TyWriters |-> TyIdle]
    /\ tyrun = NoProc /\ tybudget \in TyBudgets
    /\ tystored = << >> /\ tyout = << >> /\ tyecho = 0 /\ tyfault = {}

\* External: the UART.  Enabling the output interrupt raises it if the FIFO
\* is empty; otherwise it is raised when the last character has left.
ttykickout(u) == [u EXCEPT !.on = TRUE, !.thre = @ \/ ~u.busy]
UartSends ==
    /\ tyrun = NoProc /\ uart.busy
    /\ uart' = [uart EXCEPT !.busy = FALSE, !.thre = @ \/ uart.on]
    /\ UNCHANGED <<tyinput, tyoutput, tyechoes, tyoheld, tyimode, tyiecho, typc,
                   tyrun, tybudget, tyfault>>
-----------------------------------------------------------------------------
\* Input: ttyhandle_in for one character ch.

\* n calls of eputc: the queue is not tested for full.
eputc(n) ==
    /\ tyetail' = (tyetail + n) % TY_EBUFLEN
    /\ tyecho' = tyecho + n
    /\ uart' = IF n > 0 THEN ttykickout(uart) ELSE uart
    /\ UNCHANGED tyehead
TyLapped(n) == IF tyecho + n >= TY_EBUFLEN THEN {"echo_lapped"} ELSE {}

Control(ch) == ch \notin {"a", TY_NEWLINE, TY_RETURN}
echoch(ch) == IF tyiecho = FALSE THEN 0 ELSE IF ch = "a" THEN 1 ELSE 2
erase1(ch) == IF tyiecho = FALSE THEN 0 ELSE IF Control(ch) THEN 6 ELSE 3

\* Characters that processes may read, as the handler computes them.
Avail == IF semcount(tyisem) < 0 THEN 0 ELSE semcount(tyisem)

\* ch goes to the slot of tyitail; wrap is the test for the end of the buffer
\* after it.  A tail that was not wrapped before points at tyisem.
TyStore(ch, wrap) ==
    /\ tyibuff' = IF tyitail < TY_IBUFLEN THEN [tyibuff EXCEPT ![tyitail] = ch] ELSE tyibuff
    /\ tyitail' = IF wrap /\ tyitail + 1 >= TY_IBUFLEN THEN 0 ELSE tyitail + 1
    /\ tystored' = Append(tystored, ch)
    /\ UNCHANGED tyihead
TyStoreFault ==
    (IF tyitail >= TY_IBUFLEN THEN {"semaphore_overwritten"} ELSE {})
        \cup (IF Len(tystored) >= TY_IBUFLEN THEN {"unread_overwritten"} ELSE {})

TyQuiet == UNCHANGED <<tyinput, tyechoes, uart, tyfault>>
Bell == eputc(1) /\ tyfault' = tyfault \cup TyLapped(1) /\ UNCHANGED tyinput

\* Store, echo, and release n characters to readers.
TyAccept(ch, wrap, n, cursor, echo) ==
    /\ TyStore(ch, wrap) /\ eputc(echo)
    /\ tyisem' = VN(tyisem, n) /\ tyicursor' = cursor
    /\ tyfault' = tyfault \cup TyStoreFault \cup TyLapped(echo)

rawIn(ch) ==
    IF Avail >= TY_IBUFLEN THEN TyQuiet ELSE TyAccept(ch, TRUE, 1, tyicursor, 0)
cbreakIn(ch) ==
    IF Avail >= TY_IBUFLEN THEN Bell ELSE TyAccept(ch, TRUE, 1, tyicursor, echoch(ch))

Back(n) == (IF tyitail - n < 0 THEN TY_IBUFLEN ELSE 0) + tyitail - n
lineKill ==
    /\ tyitail' = Back(tyicursor) /\ tyicursor' = 0
    /\ tystored' = SubSeq(tystored, 1, Len(tystored) - tyicursor)
    /\ eputc(2) /\ tyfault' = tyfault \cup TyLapped(2)
    /\ UNCHANGED <<tyibuff, tyihead, tyisem>>
eraseChar ==
    IF tyicursor = 0 THEN TyQuiet
    ELSE LET n == erase1(tyibuff[Back(1)]) IN
         /\ tyitail' = Back(1) /\ tyicursor' = tyicursor - 1
         /\ tystored' = SubSeq(tystored, 1, Len(tystored) - 1)
         /\ eputc(n) /\ tyfault' = tyfault \cup TyLapped(n)
         /\ UNCHANGED <<tyibuff, tyihead, tyisem>>

cookedIn(ch) ==
    CASE ch = TY_KILLCH -> lineKill
      [] ch = TY_BACKSP -> eraseChar
      [] ch = TY_NEWLINE -> TyAccept(ch, TRUE, tyicursor + 1, 0, echoch(ch))
      [] OTHER ->
         IF Avail + tyicursor >= TY_IBUFLEN - 1 THEN Bell
         ELSE IF ch # TY_EOFCH THEN TyAccept(ch, TRUE, 0, tyicursor + 1, echoch(ch))
         ELSE IF tyicursor # 0
         THEN /\ eputc(echoch(ch)) /\ tyfault' = tyfault \cup TyLapped(echoch(ch))
              /\ UNCHANGED tyinput
         ELSE TyAccept(ch, FALSE, 1, 0, echoch(ch))        \* no wrap

ttyhandle_in(ch) ==
    LET c == IF ch = TY_RETURN THEN TY_NEWLINE ELSE ch IN      \* tyicrlf
    \/ tyimode = "RAW" /\ rawIn(ch) /\ UNCHANGED tyoheld
    \/ /\ tyimode # "RAW" /\ c = TY_STRTCH
       /\ tyoheld' = FALSE /\ uart' = ttykickout(uart)
       /\ UNCHANGED <<tyinput, tyechoes, tyfault>>
    \/ tyimode # "RAW" /\ c = TY_STOPCH /\ tyoheld' = TRUE /\ TyQuiet
    \/ /\ tyimode # "RAW" /\ c \notin {TY_STRTCH, TY_STOPCH}
       /\ tyoheld' = FALSE
       /\ IF tyimode = "CBREAK" THEN cbreakIn(c) ELSE cookedIn(c)

\* The model ends where the driver's own semaphore has been overwritten.
TyAlive == "semaphore_overwritten" \notin tyfault

\* ttyhandler, receiver data available: one character of its loop.  What the
\* handler makes ready does not run before the loop ends, and may run later.
TtyTyped(ch) ==
    /\ TyAlive /\ tyrun = NoProc /\ tybudget.typed > 0
    /\ tybudget' = [tybudget EXCEPT !.typed = @ - 1]
    /\ ttyhandle_in(ch)
    /\ UNCHANGED <<tyoutput, tyimode, tyiecho, typc, tyrun>>
-----------------------------------------------------------------------------
\* Output: ttyhandle_out, when the transmitter is empty.

TyMin(a, b) == IF a < b THEN a ELSE b

\* The echo queue is empty when its ends meet, lapped or not.
TyEchoLen == (tyetail - tyehead) % TY_EBUFLEN

\* Characters that the handler takes to be in the output buffer: a writer that
\* waits, or has been let through and not stored its character yet, counts.
OutAvail == TY_OBUFLEN - semcount(tyosem)

transmit ==
    LET e == TyMin(UART_FIFO_SIZE, TyEchoLen)
        n == TyMin(UART_FIFO_SIZE - e, OutAvail) IN
    /\ tyehead' = (tyehead + e) % TY_EBUFLEN
    /\ tyecho' = IF tyecho >= e THEN tyecho - e ELSE 0
    /\ tyohead' = (tyohead + n) % TY_OBUFLEN
    /\ tyosem' = VN(tyosem, n)
    /\ tyout' = SubSeq(tyout, n + 1, Len(tyout))
    /\ tyfault' = tyfault \cup IF n > Len(tyout) THEN {"unwritten_sent"} ELSE {}
    /\ uart' = [uart EXCEPT !.busy = TRUE, !.thre = FALSE]

BugOffEarly == TyEchoLen = 0            \* the output queue is not looked at
NothingToSend == TyEchoLen = 0 /\ semcount(tyosem) >= TY_OBUFLEN
ttyhandle_out ==
    /\ TyAlive /\ tyrun = NoProc /\ uart.thre
    /\ \/ /\ tyoheld /\ uart' = [uart EXCEPT !.thre = FALSE]
          /\ UNCHANGED <<tyoutput, tyechoes, tyfault>>
       \/ /\ ~tyoheld /\ NothingToSend
          /\ uart' = [uart EXCEPT !.thre = FALSE, !.on = FALSE]
          /\ UNCHANGED <<tyoutput, tyechoes, tyfault>>
       \/ /\ ~tyoheld /\ ~NothingToSend
          /\ transmit /\ UNCHANGED <<tyobuff, tyotail, tyetail>>
    /\ UNCHANGED <<tyinput, tyoheld, tyimode, tyiecho, typc, tyrun, tybudget>>
-----------------------------------------------------------------------------
\* Processes.  A call goes on while it does not block; passed says that wait
\* has been called for the next character and must not be called again.

TyBlocked(p) == Waits(tyisem, p) \/ Waits(tyosem, p)
TyRuns(p) == TyAlive /\ (tyrun = p \/ (tyrun = NoProc /\ typc[p].op # "idle" /\ ~TyBlocked(p)))
TyKeep(p, k) == typc' = [typc EXCEPT ![p] = k] /\ tyrun' = IF k.op = "idle" THEN NoProc ELSE p

TyCall(p, k) ==
    /\ TyAlive /\ tyrun = NoProc /\ typc[p].op = "idle"
    /\ TyKeep(p, k)
    /\ UNCHANGED <<tyinput, tyoutput, tyechoes, tyoheld, tyimode, tyiecho, uart, tyfault>>

\* In the other modes a count of 0 reads what is there.
ttyread(p, count) ==
    /\ UNCHANGED tybudget
    /\ LET n == IF tyimode # "COOKED" /\ count = 0 THEN semcount(tyisem) ELSE count IN
       /\ tyimode = "COOKED" \/ n > 0
       /\ TyCall(p, [TyIdle EXCEPT !.op = IF tyimode = "COOKED" THEN "line" ELSE "read",
                                   !.left = n])
ttywrite(p, text) ==
    /\ Len(text) <= tybudget.written
    /\ tybudget' = [tybudget EXCEPT !.written = @ - Len(text)]
    /\ TyCall(p, [TyIdle EXCEPT !.op = "write", !.text = text])
ttynextc(p) ==                             \* ttycontrol(TC_NEXTC)
    /\ tybudget.control > 0 /\ tybudget' = [tybudget EXCEPT !.control = @ - 1]
    /\ TyCall(p, [TyIdle EXCEPT !.op = "nextc"])

\* wait(tyisem) or wait(tyosem) inside a call.
TyWait(p) ==
    /\ TyRuns(p) /\ ~typc[p].passed
    /\ LET out == typc[p].op = "write"
           s == IF out THEN tyosem ELSE tyisem IN
       /\ tyosem' = IF out THEN P(s, p) ELSE tyosem
       /\ tyisem' = IF out THEN tyisem ELSE P(s, p)
       /\ tyrun' = IF Passes(s) THEN p ELSE NoProc
    /\ typc' = [typc EXCEPT ![p].passed = TRUE]
    /\ UNCHANGED <<tyibuff, tyihead, tyitail, tyicursor, tystored, tyobuff, tyohead,
                   tyotail, tyout, tyechoes, tyoheld, tyimode, tyiecho, uart, tybudget, tyfault>>

\* ttygetc after its wait, and what the loop of ttyread does with ch.
AfterGetc(k, ch) ==
    LET eof == k.first /\ ch = TY_EOFCH /\ tyimode = "COOKED"
        ends == k.op = "line" /\ (eof \/ ch \in {TY_NEWLINE, TY_RETURN}) IN
    IF k.left > 1 /\ ~ends THEN [k EXCEPT !.left = @ - 1, !.first = FALSE, !.passed = FALSE]
    ELSE TyIdle
NextHead == IF tyihead + 1 >= TY_IBUFLEN THEN 0 ELSE tyihead + 1
ttygetc(p) ==
    /\ TyRuns(p) /\ typc[p].op \in {"line", "read"} /\ typc[p].passed
    /\ tyihead' = NextHead
    /\ tystored' = IF tystored = << >> THEN << >> ELSE Tail(tystored)
    /\ TyKeep(p, AfterGetc(typc[p], tyibuff[tyihead]))
    /\ UNCHANGED <<tyibuff, tyitail, tyisem, tyicursor, tyoutput, tyechoes, tyoheld,
                   tyimode, tyiecho, uart, tybudget, tyfault>>

\* The permit goes back.
ttynextcRest(p) ==
    /\ TyRuns(p) /\ typc[p].op = "nextc" /\ typc[p].passed
    /\ tyisem' = V(tyisem) /\ TyKeep(p, TyIdle)
    /\ UNCHANGED <<tyibuff, tyihead, tyitail, tyicursor, tystored, tyoutput, tyechoes,
                   tyoheld, tyimode, tyiecho, uart, tybudget, tyfault>>

\* ttyputc after its wait.  A newline is preceded by a return, which waits for
\* a place of its own (tyocrlf).
AfterPutc(k) ==
    IF Len(k.text) = 1 THEN TyIdle ELSE [k EXCEPT !.text = Tail(@), !.passed = FALSE]
BugTailPast == tyotail + 1             \* without the test for the end of the buffer
NextOTail == IF tyotail + 1 >= TY_OBUFLEN THEN 0 ELSE tyotail + 1
ttyputc(p) ==
    /\ TyRuns(p) /\ typc[p].op = "write" /\ typc[p].passed
    /\ LET ch == Head(typc[p].text) IN
       /\ tyobuff' = [tyobuff EXCEPT ![tyotail] = ch]
       /\ tyotail' = NextOTail
       /\ tyout' = Append(tyout, ch)
       /\ uart' = ttykickout(uart)
       /\ TyKeep(p, AfterPutc(typc[p]))
    /\ UNCHANGED <<tyinput, tyohead, tyosem, tyechoes, tyoheld, tyimode, tyiecho,
                   tybudget, tyfault>>
OutChar(ch) == IF ch = TY_NEWLINE THEN <<TY_RETURN, ch>> ELSE <<ch>>
OutText(text) ==
    LET out[i \in 0..Len(text)] == IF i = 0 THEN << >> ELSE out[i - 1] \o OutChar(text[i])
    IN out[Len(text)]

ttycontrol(mode, echo) ==
    /\ TyAlive /\ tyrun = NoProc
    /\ tybudget.control > 0 /\ tybudget' = [tybudget EXCEPT !.control = @ - 1]
    /\ tyimode' = mode /\ tyiecho' = echo
    /\ UNCHANGED <<tyinput, tyoutput, tyechoes, tyoheld, uart, typc, tyrun, tyfault>>

TtyNext ==
    \/ \E ch \in tybudget.chars : TtyTyped(ch)
    \/ ttyhandle_out \/ UartSends
    \/ \E p \in TyReaders :
          \/ \E n \in TyReads : ttyread(p, n)
          \/ ttygetc(p) \/ ttynextc(p) \/ ttynextcRest(p)
    \/ \E p \in TyWriters : (\E text \in TyTexts : ttywrite(p, OutText(text))) \/ ttyputc(p)
    \/ \E p \in TyReaders \cup TyWriters : TyWait(p)
    \/ \E mode \in TyModes : ttycontrol(mode, tyiecho)
    \/ \E echo \in TyEchoes : ttycontrol(tyimode, echo)
TtySpec == ttyinit /\ [][TtyNext]_tyvars
-----------------------------------------------------------------------------
\* Processes let through wait whose character is still to be moved.
TyPassed(ops) ==
    {p \in TyReaders \cup TyWriters : typc[p].op \in ops /\ typc[p].passed /\ ~TyBlocked(p)}

\* The input buffer holds the characters that were accepted, edited and not
\* read, in order, in its circle from tyihead on, and the permits of the input
\* semaphore are those not on the line being edited: whatever the modes were
\* meanwhile, nothing is lost, read twice or read early.  It fails only once a
\* newline or a slow reader has let the tail run over unread characters, or an
\* end of file has left the tail behind the buffer (ttyhandle_in.c:126, 158).
TyInputFaults == {"unread_overwritten", "semaphore_overwritten"}
InputIntact ==
    tyfault \cap TyInputFaults = {} =>
        /\ \A i \in 1..Len(tystored) : tyibuff[(tyihead + i - 1) % TY_IBUFLEN] = tystored[i]
        /\ Len(tystored) = tyicursor + tyisem.val + Cardinality(TyPassed({"line", "read", "nextc"}))
        /\ (tyihead + Len(tystored)) % TY_IBUFLEN = tyitail % TY_IBUFLEN

\* The output buffer holds what was written and not sent, in order, and its
\* semaphore the free places not promised to a writer.  It fails only once
\* the handler has sent the place of a writer that was let through but had not
\* stored its character (ttyhandle_out.c:57).
OutputIntact ==
    "unwritten_sent" \notin tyfault =>
        /\ \A i \in 1..Len(tyout) : tyobuff[(tyohead + i - 1) % TY_OBUFLEN] = tyout[i]
        /\ Len(tyout) + tyosem.val + Cardinality(TyPassed({"write"})) = TY_OBUFLEN
        /\ (tyohead + Len(tyout)) % TY_OBUFLEN = tyotail

\* Both buffers, and the semaphores on which readers and writers wait for them.
TtyBuffersIntact == InputIntact /\ OutputIntact

\* Output that is to be sent is on its way: the transmitter is busy or will
\* interrupt, so that no writer waits for an interrupt that never comes.  The
\* handlers and ttyputc never stop it; only a character that ends ^S may leave
\* it stopped (ttykickout.c:16, ttyhandle_out.c:31).
TyPending == TyEchoLen # 0 \/ (tyout # << >> /\ "unwritten_sent" \notin tyfault)
TyUnderWay == uart.thre \/ (uart.busy /\ uart.on)
TyStalled == TyPending /\ ~tyoheld /\ ~TyUnderWay
OutputFlows == [][TyStalled' => TyStalled \/ tyoheld]_tyvars
==============================================================================
