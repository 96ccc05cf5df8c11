----------------------------- MODULE DriverProofs -----------------------------
(***************************************************************************)
(* The drivers with circular buffers: the tty driver, for every number of  *)
(* readers and writers, every size of its buffers and of the UART's queue  *)
(* and every input; the Ethernet driver, for every number of writers and   *)
(* every size of its rings.                                                *)
(***************************************************************************)
EXTENDS Tty, Eth, SemProofs

-----------------------------------------------------------------------------
\* The tty driver.  Who is in a call of one of the kinds and has called wait
\* for the next character: he waits for it, or has a permit to move it.
TyProcs == TyReaders \cup TyWriters
TyReading == {"line", "read", "nextc"}
TyClients(ops) == {p \in TyProcs : typc[p].op \in ops /\ typc[p].passed}

\* The shape of the state, whatever has gone wrong with a buffer.
TyRests == [op : {"idle", "write"} \cup TyReading, left : Int, first : BOOLEAN,
            text : Seq(TyChars), passed : BOOLEAN]
TyTypeOK ==
    /\ typc \in [TyProcs -> TyRests]
    /\ \A p \in TyProcs : typc[p].op = "write" => typc[p].text # << >>
    /\ tyisem \in SemRecords(TyProcs) /\ tyosem \in SemRecords(TyProcs)
    /\ tyicursor \in Nat /\ tyehead \in 0..(TY_EBUFLEN - 1) /\ tyetail \in 0..(TY_EBUFLEN - 1)
    /\ uart \in [busy : BOOLEAN, thre : BOOLEAN, on : BOOLEAN] /\ tyoheld \in BOOLEAN
    /\ tybudget \in [typed : Int, written : Int, control : Int, chars : SUBSET TyChars]

\* Only those in a call wait, on the semaphore of their call; the process inside
\* a call is not one of them.
TyServed ==
    /\ Serving(tyisem, TyClients(TyReading)) /\ Serving(tyosem, TyClients({"write"}))
    /\ Tight(tyosem) /\ semcount(tyosem) <= TY_OBUFLEN
    /\ tyrun # NoProc => tyrun \in TyProcs /\ typc[tyrun].op # "idle" /\ ~TyBlocked(tyrun)

\* The interrupt is raised only while it is enabled.
TyEnabled == uart.thre => uart.on

\* The buffers, as long as they have not gone wrong.
TyInput ==
    tyfault \cap TyInputFaults = {} =>
        /\ tyibuff \in [0..(TY_IBUFLEN - 1) -> TyChars] /\ tystored \in Seq(TyChars)
        /\ tyitail \in 0..TY_IBUFLEN
        /\ RingHas(tyibuff, TY_IBUFLEN, tyihead, tyitail % TY_IBUFLEN, tystored)
        /\ Len(tystored) = tyicursor + Taken(tyisem, TyClients(TyReading))
TyOutput ==
    "unwritten_sent" \notin tyfault =>
        /\ tyobuff \in [0..(TY_OBUFLEN - 1) -> TyChars] /\ tyout \in Seq(TyChars)
        /\ RingHas(tyobuff, TY_OBUFLEN, tyohead, tyotail, tyout)
        /\ Len(tyout) + Taken(tyosem, TyClients({"write"})) = TY_OBUFLEN

\* The inductive invariant.
TyInv == TyTypeOK /\ TyServed /\ TyEnabled /\ TyInput /\ TyOutput
-----------------------------------------------------------------------------
LEMMA TyConstants ==
    /\ TY_IBUFLEN \in Nat \ {0} /\ TY_OBUFLEN \in Nat \ {0} /\ TY_EBUFLEN \in Nat \ {0}
    /\ UART_FIFO_SIZE \in Nat \ {0} /\ IsFiniteSet(TyProcs)
    /\ NoProc \notin TyProcs /\ TyReads \subseteq Nat
    /\ TyReaders \subseteq TyProcs /\ TyWriters \subseteq TyProcs
<1>1. IsFiniteSet(TyProcs) BY TtyAssumption, FS_Union DEF TyProcs
<1>2. QED BY <1>1, TtyAssumption DEF TyProcs

LEMMA TyClientsFinite ==
    ASSUME NEW ops
    PROVE  IsFiniteSet(TyClients(ops)) /\ TyClients(ops) \subseteq TyProcs
<1>1. TyClients(ops) \subseteq TyProcs BY DEF TyClients
<1>2. QED BY <1>1, TyConstants, FS_Subset

\* What is written is characters again when returns have been put in: the
\* function that puts them in exists, up to every place n of the text.
OutUpTo(f, text, n) ==
    f = [i \in 0..n |-> IF i = 0 THEN << >> ELSE f[i - 1] \o OutChar(text[i])]
LEMMA OutBuiltTo == ASSUME NEW text, NEW n \in Nat PROVE \E f : OutUpTo(f, text, n)
<1> DEFINE T == {k \in Nat : ~\E f : OutUpTo(f, text, k)}
<1>1. SUFFICES ASSUME T # {} PROVE FALSE OBVIOUS
<1>2. PICK m \in T : \A k \in T : m <= k
  <2>1. T \subseteq Nat OBVIOUS
  <2> HIDE DEF T
  <2>2. QED BY <1>1, <2>1, LeastNat, Zenon
<1>3. m \in Nat /\ ~\E f : OutUpTo(f, text, m) OBVIOUS
<1>4. m # 0
  <2>1. PICK g : g = [k \in 0..0 |-> << >>] OBVIOUS
  <2>2. g = [k \in 0..0 |-> IF k = 0 THEN << >> ELSE g[k - 1] \o OutChar(text[k])] BY <2>1
  <2>3. OutUpTo(g, text, 0) BY <2>2 DEF OutUpTo
  <2>4. QED BY <1>3, <2>3
<1>5. PICK j \in Nat : m = j + 1
  <2>1. m - 1 \in Nat /\ m = (m - 1) + 1 BY <1>3, <1>4
  <2>2. QED BY <2>1
<1>6. j \notin T
  <2>1. ~(m <= j) BY <1>5
  <2> HIDE DEF T
  <2>2. QED BY <1>2, <2>1
<1>7. PICK f : OutUpTo(f, text, j) BY <1>6
<1>8. f = [k \in 0..j |-> IF k = 0 THEN << >> ELSE f[k - 1] \o OutChar(text[k])]
  BY <1>7 DEF OutUpTo
<1>9. PICK y : y = f[j] \o OutChar(text[m]) OBVIOUS
<1>10. PICK g : g = [k \in 0..m |-> IF k = m THEN y ELSE f[k]] OBVIOUS
<1>11. \A k \in 0..m : g[k] = IF k = 0 THEN << >> ELSE g[k - 1] \o OutChar(text[k])
  <2> TAKE k \in 0..m
  <2>1. CASE k = m
    <3>1. k # 0 /\ k - 1 = j /\ j \in 0..m /\ j # m BY <1>4, <1>5, <2>1
    <3>2. g[k] = y /\ g[j] = f[j] BY <1>10, <2>1, <3>1
    <3>3. QED BY <1>9, <2>1, <3>1, <3>2
  <2>2. CASE k # m
    <3>1. k \in 0..j /\ g[k] = f[k] BY <1>5, <1>10, <2>2
    <3>2. f[k] = IF k = 0 THEN << >> ELSE f[k - 1] \o OutChar(text[k]) BY <1>8, <3>1
    <3>3. k # 0 => k - 1 \in 0..m /\ k - 1 # m BY <1>5, <3>1
    <3>4. k # 0 => g[k - 1] = f[k - 1] BY <1>10, <3>3
    <3>5. QED BY <3>1, <3>2, <3>4
  <2>3. QED BY <2>1, <2>2
<1>12. g = [k \in 0..m |-> IF k = 0 THEN << >> ELSE g[k - 1] \o OutChar(text[k])]
  BY <1>10, <1>11
<1>13. OutUpTo(g, text, m) BY <1>12 DEF OutUpTo
<1>14. QED BY <1>3, <1>13

LEMMA OutCharOK ==
    ASSUME NEW ch \in TyChars PROVE OutChar(ch) \in Seq(TyChars) /\ OutChar(ch) # << >>
<1>1. TY_RETURN \in TyChars BY DEF TyChars
<1>2. \A a, b \in TyChars : /\ <<a, b>> \in Seq(TyChars) /\ <<a, b>> # << >>
                            /\ <<a>> \in Seq(TyChars) /\ <<a>> # << >>
  OBVIOUS
<1>3. QED BY <1>1, <1>2 DEF OutChar

LEMMA OutTextOK ==
    ASSUME NEW text \in TyTexts
    PROVE  OutText(text) \in Seq(TyChars) /\ OutText(text) # << >>
<1>1. PICK n \in Nat : n = Len(text) /\ n # 0 /\ \A i \in 1..n : text[i] \in TyChars
  <2>1. text \in Seq(TyChars) /\ text # << >> BY TtyAssumption
  <2>2. QED BY <2>1
<1>2. \E f : OutUpTo(f, text, n) BY OutBuiltTo
<1>3. PICK h : h = CHOOSE f : OutUpTo(f, text, n) OBVIOUS
<1>4. OutUpTo(h, text, n) BY <1>2, <1>3
<1>5. OutText(text) = h[n] BY <1>1, <1>3 DEF OutText, OutUpTo
<1>6. h = [k \in 0..n |-> IF k = 0 THEN << >> ELSE h[k - 1] \o OutChar(text[k])]
  BY <1>4 DEF OutUpTo
<1>7. h[0] = << >> /\ \A k \in 1..n : h[k] = h[k - 1] \o OutChar(text[k])
  <2>1. \A k \in 0..n : h[k] = IF k = 0 THEN << >> ELSE h[k - 1] \o OutChar(text[k]) BY <1>6
  <2>2. 0 \in 0..n /\ \A k \in 1..n : k \in 0..n /\ k # 0 BY <1>1
  <2>3. QED BY <2>1, <2>2
<1> DEFINE T == {k \in Nat : k <= n /\ ~(h[k] \in Seq(TyChars) /\ (k # 0 => h[k] # << >>))}
<1>8. T = {}
  <2> SUFFICES ASSUME T # {} PROVE FALSE OBVIOUS
  <2>1. PICK m \in T : \A k \in T : m <= k
    <3>1. T \subseteq Nat OBVIOUS
    <3> HIDE DEF T
    <3>2. QED BY <3>1, LeastNat, Zenon
  <2>2. m \in Nat /\ m <= n /\ ~(h[m] \in Seq(TyChars) /\ (m # 0 => h[m] # << >>)) OBVIOUS
  <2>3. m # 0
    <3>1. << >> \in Seq(TyChars) OBVIOUS
    <3>2. QED BY <1>7, <2>2, <3>1
  <2>4. m - 1 \in Nat /\ m - 1 <= n /\ ~(m <= m - 1) BY <2>2, <2>3
  <2>5. m - 1 \notin T
    <3> HIDE DEF T
    <3>1. QED BY <2>1, <2>4
  <2>6. h[m - 1] \in Seq(TyChars) BY <2>4, <2>5
  <2>7. m \in 1..n BY <2>2, <2>3
  <2>8. OutChar(text[m]) \in Seq(TyChars) /\ OutChar(text[m]) # << >> BY <1>1, <2>7, OutCharOK
  <2>9. \A a, b \in Seq(TyChars) : b # << >> => a \o b \in Seq(TyChars) /\ a \o b # << >>
    <3> SUFFICES ASSUME NEW a \in Seq(TyChars), NEW b \in Seq(TyChars), b # << >>
                 PROVE  a \o b \in Seq(TyChars) /\ a \o b # << >>
      OBVIOUS
    <3>1. a \o b \in Seq(TyChars) /\ Len(a \o b) = Len(a) + Len(b) OBVIOUS
    <3>2. Len(b) > 0 /\ Len(<< >>) = 0 OBVIOUS
    <3>3. Len(a \o b) # 0 BY <3>1, <3>2
    <3>4. QED BY <3>1, <3>2, <3>3
  <2>10. h[m] \in Seq(TyChars) /\ h[m] # << >> BY <1>7, <2>6, <2>7, <2>8, <2>9
  <2>11. QED BY <2>2, <2>10
<1>9. n \notin T BY <1>8
<1>10. QED BY <1>1, <1>5, <1>9
-----------------------------------------------------------------------------
\* What the parts of the invariant are about.
LEMMA TyInputKept ==
    ASSUME TyInput, UNCHANGED tyinput, tyfault \subseteq tyfault',
           TyClients(TyReading)' = TyClients(TyReading)
    PROVE  TyInput'
<1>1. /\ tyibuff' = tyibuff /\ tyihead' = tyihead /\ tyitail' = tyitail /\ tyisem' = tyisem
      /\ tyicursor' = tyicursor /\ tystored' = tystored
  BY DEF tyinput
<1>2. ASSUME tyfault' \cap TyInputFaults = {} PROVE tyfault \cap TyInputFaults = {} BY <1>2
<1>3. QED BY <1>1, <1>2 DEF TyInput

LEMMA TyOutputKept ==
    ASSUME TyOutput, UNCHANGED tyoutput, tyfault \subseteq tyfault',
           TyClients({"write"})' = TyClients({"write"})
    PROVE  TyOutput'
<1>1. /\ tyobuff' = tyobuff /\ tyohead' = tyohead /\ tyotail' = tyotail /\ tyosem' = tyosem
      /\ tyout' = tyout
  BY DEF tyoutput
<1>2. "unwritten_sent" \notin tyfault' => "unwritten_sent" \notin tyfault OBVIOUS
<1>3. QED BY <1>1, <1>2 DEF TyOutput

LEMMA TyServedKept ==
    ASSUME TyServed, UNCHANGED <<tyisem, tyosem, typc, tyrun>>
    PROVE  TyServed'
<1>1. UNCHANGED <<tyisem, tyosem>> /\ TyClients(TyReading)' = TyClients(TyReading)
      /\ TyClients({"write"})' = TyClients({"write"})
  BY DEF TyClients
<1>2. TyBlocked(tyrun)' <=> TyBlocked(tyrun) BY DEF TyBlocked
<1>3. QED BY <1>1, <1>2 DEF TyServed

\* A process whose call goes on with k.
LEMMA TyClientsAre ==
    ASSUME TyTypeOK, NEW p \in TyProcs, NEW k \in TyRests, typc' = [typc EXCEPT ![p] = k], NEW ops
    PROVE  /\ typc' \in [TyProcs -> TyRests] /\ typc'[p] = k
           /\ \A q \in TyProcs : q # p => typc'[q] = typc[q]
           /\ TyClients(ops)' = IF k.op \in ops /\ k.passed THEN TyClients(ops) \cup {p}
                                ELSE TyClients(ops) \ {p}
<1>1. typc \in [TyProcs -> TyRests] BY DEF TyTypeOK
<1>2. /\ typc' \in [TyProcs -> TyRests] /\ typc'[p] = k
      /\ \A q \in TyProcs : q # p => typc'[q] = typc[q]
  BY <1>1
<1>3. TyClients(ops)' = {q \in TyProcs : typc'[q].op \in ops /\ typc'[q].passed}
  BY DEF TyClients
<1>4. QED BY <1>2, <1>3 DEF TyClients

\* Whoever waits is in the call that waits: nobody waits on both semaphores, and
\* one that runs waits on none.
LEMMA TyWaiters ==
    ASSUME TyTypeOK, TyServed
    PROVE  /\ \A p : Waits(tyisem, p) => p \in TyClients(TyReading)
           /\ \A p : Waits(tyosem, p) => p \in TyClients({"write"})
           /\ TyPassed(TyReading) = Awake(tyisem, TyClients(TyReading))
           /\ TyPassed({"write"}) = Awake(tyosem, TyClients({"write"}))
           /\ \A p \in TyProcs : TyRuns(p) => ~TyBlocked(p) /\ typc[p].op # "idle"
<1>1. \A p : Waits(tyisem, p) => p \in TyClients(TyReading) BY ServingWaits DEF TyServed
<1>2. \A p : Waits(tyosem, p) => p \in TyClients({"write"}) BY ServingWaits DEF TyServed
<1>3. "write" \notin TyReading BY DEF TyReading
<1>4. \A p \in TyClients(TyReading) : ~Waits(tyosem, p) BY <1>2, <1>3 DEF TyClients
<1>5. \A p \in TyClients({"write"}) : ~Waits(tyisem, p) BY <1>1, <1>3 DEF TyClients
<1>6. \A ops : TyPassed(ops) = {p \in TyClients(ops) : ~TyBlocked(p)}
  BY DEF TyPassed, TyClients, TyProcs
<1>7. TyPassed(TyReading) = Awake(tyisem, TyClients(TyReading))
  BY <1>4, <1>6 DEF TyBlocked, Awake
<1>8. TyPassed({"write"}) = Awake(tyosem, TyClients({"write"}))
  BY <1>5, <1>6 DEF TyBlocked, Awake
<1>9. \A p \in TyProcs : TyRuns(p) => ~TyBlocked(p) /\ typc[p].op # "idle"
  BY TyConstants DEF TyRuns, TyServed
<1>10. QED BY <1>1, <1>2, <1>7, <1>8, <1>9
-----------------------------------------------------------------------------
LEMMA TyInit == ttyinit => TyInv
<1> SUFFICES ASSUME ttyinit PROVE TyInv OBVIOUS
<1>1. /\ TY_IBUFLEN \in Nat \ {0} /\ TY_OBUFLEN \in Nat \ {0} /\ TY_EBUFLEN \in Nat \ {0}
      /\ tyibuff = [i \in 0..(TY_IBUFLEN - 1) |-> "a"] /\ tyihead = 0 /\ tyitail = 0
      /\ tyobuff = [i \in 0..(TY_OBUFLEN - 1) |-> "a"] /\ tyohead = 0 /\ tyotail = 0
      /\ tystored = << >> /\ tyout = << >> /\ tyicursor = 0
  BY TyConstants DEF ttyinit
<1>2. TyIdle \in TyRests /\ TyIdle.op = "idle" /\ ~TyIdle.passed
  <2>1. << >> \in Seq(TyChars) OBVIOUS
  <2>2. QED BY <2>1 DEF TyIdle, TyRests
<1>3. typc \in [TyProcs -> TyRests] /\ \A p \in TyProcs : typc[p] = TyIdle
  BY <1>2 DEF ttyinit, TyProcs
<1>4. TyClients(TyReading) = {} /\ TyClients({"write"}) = {}
  BY <1>2, <1>3 DEF TyClients
<1>5. /\ tyisem \in SemRecords(TyProcs) /\ Serving(tyisem, {}) /\ Taken(tyisem, {}) = 0
      /\ tyosem \in SemRecords(TyProcs) /\ Serving(tyosem, {}) /\ Taken(tyosem, {}) = TY_OBUFLEN
  <2>1. tyisem = SemNew(0) /\ tyosem = SemNew(TY_OBUFLEN) /\ 0 \in Nat /\ TY_OBUFLEN \in Nat
    BY <1>1 DEF ttyinit
  <2>2. QED BY <2>1, TakenNew
<1>6. TyTypeOK
  <2>1. tyicursor \in Nat /\ tyehead \in 0..(TY_EBUFLEN - 1) /\ tyetail \in 0..(TY_EBUFLEN - 1)
    BY <1>1 DEF ttyinit
  <2>2. uart \in [busy : BOOLEAN, thre : BOOLEAN, on : BOOLEAN] /\ tyoheld \in BOOLEAN
    BY DEF ttyinit
  <2>3. tybudget \in [typed : Int, written : Int, control : Int, chars : SUBSET TyChars]
    <3>1. PICK b \in TyBudgets : b = tybudget BY DEF ttyinit
    <3>2. b \in [typed : Nat, written : Nat, control : Nat, chars : SUBSET TyChars]
      BY TtyAssumption
    <3>3. QED BY <3>1, <3>2
  <2>4. QED BY <1>2, <1>3, <1>5, <2>1, <2>2, <2>3 DEF TyTypeOK
<1>7. TyServed
  <2>1. tyosem.queue = << >> /\ tyosem.val = TY_OBUFLEN BY DEF ttyinit, SemNew
  <2>2. Tight(tyosem) /\ semcount(tyosem) <= TY_OBUFLEN
    BY <1>1, <2>1 DEF Tight, semcount
  <2>3. tyrun = NoProc BY DEF ttyinit
  <2>4. QED BY <1>4, <1>5, <2>2, <2>3 DEF TyServed
<1>8. TyEnabled BY DEF ttyinit, TyEnabled
<1>9. ASSUME NEW N \in Nat \ {0}, NEW f PROVE RingHas(f, N, 0, 0, << >>)
  <2>1. 0 \in 0..(N - 1) /\ Len(<< >>) = 0 OBVIOUS
  <2>2. (0 + 0) % N = 0 BY <2>1, RingPlaces
  <2>3. QED BY <2>1, <2>2 DEF RingHas
<1>10. "a" \in TyChars /\ << >> \in Seq(TyChars) /\ Len(<< >>) = 0 BY DEF TyChars
<1>11. TyInput
  <2>1. 0 \in 0..(TY_IBUFLEN - 1) /\ 0 + 0 = 0 BY <1>1
  <2>2. (0 + 0) % TY_IBUFLEN = 0 BY <1>1, <2>1, RingPlaces
  <2>3. tyitail % TY_IBUFLEN = 0 BY <1>1, <2>1, <2>2
  <2>4. tyibuff \in [0..(TY_IBUFLEN - 1) -> TyChars] BY <1>1, <1>10
  <2>5. RingHas(tyibuff, TY_IBUFLEN, tyihead, tyitail % TY_IBUFLEN, tystored)
    BY <1>1, <1>9, <2>3
  <2>6. QED BY <1>1, <1>4, <1>5, <1>10, <2>4, <2>5 DEF TyInput
<1>12. TyOutput
  <2>1. tyobuff \in [0..(TY_OBUFLEN - 1) -> TyChars] BY <1>1, <1>10
  <2>2. RingHas(tyobuff, TY_OBUFLEN, tyohead, tyotail, tyout) BY <1>1, <1>9
  <2>3. Len(tyout) + Taken(tyosem, TyClients({"write"})) = TY_OBUFLEN BY <1>1, <1>4, <1>5, <1>10
  <2>4. QED BY <1>1, <1>10, <2>1, <2>2, <2>3 DEF TyOutput
<1>13. QED BY <1>6, <1>7, <1>8, <1>11, <1>12 DEF TyInv
-----------------------------------------------------------------------------
\* Steps that move no character.  Of the transmitter and of the settings:
LEMMA TyKickout ==
    ASSUME NEW u \in [busy : BOOLEAN, thre : BOOLEAN, on : BOOLEAN]
    PROVE  /\ ttykickout(u) \in [busy : BOOLEAN, thre : BOOLEAN, on : BOOLEAN]
           /\ ttykickout(u).on /\ ttykickout(u).busy = u.busy
           /\ ttykickout(u).thre <=> u.thre \/ ~u.busy
  BY DEF ttykickout

LEMMA TyUartStep == ASSUME TyInv, UartSends PROVE TyInv'
<1>1. uart' = [uart EXCEPT !.busy = FALSE, !.thre = @ \/ uart.on] BY DEF UartSends
<1>2. uart \in [busy : BOOLEAN, thre : BOOLEAN, on : BOOLEAN] BY DEF TyInv, TyTypeOK
<1>3. uart' \in [busy : BOOLEAN, thre : BOOLEAN, on : BOOLEAN] /\ uart'.on = uart.on
      /\ (uart'.thre <=> uart.thre \/ uart.on)
  BY <1>1, <1>2
<1>4. UNCHANGED <<tyinput, tyoutput, tyechoes, tyoheld, tyimode, tyiecho, typc, tyrun, tybudget, tyfault>>
  BY DEF UartSends
<1>5. TyTypeOK' BY <1>3, <1>4 DEF TyInv, TyTypeOK, tyinput, tyoutput, tyechoes
<1>6. TyServed' BY <1>4, TyServedKept DEF TyInv, tyinput, tyoutput
<1>7. TyEnabled' BY <1>3 DEF TyInv, TyEnabled
<1>8. \A ops : TyClients(ops)' = TyClients(ops) BY <1>4 DEF TyClients
<1>9. TyInput' BY <1>4, <1>8, TyInputKept DEF TyInv
<1>10. TyOutput' BY <1>4, <1>8, TyOutputKept DEF TyInv
<1>11. QED BY <1>5, <1>6, <1>7, <1>9, <1>10 DEF TyInv

LEMMA TyControlStep == ASSUME TyInv, NEW mode, NEW echo, ttycontrol(mode, echo) PROVE TyInv'
<1>1. UNCHANGED <<tyinput, tyoutput, tyechoes, tyoheld, uart, typc, tyrun, tyfault>>
  BY DEF ttycontrol
<1>2. tybudget' \in [typed : Int, written : Int, control : Int, chars : SUBSET TyChars]
  <2>1. tybudget \in [typed : Int, written : Int, control : Int, chars : SUBSET TyChars]
    BY DEF TyInv, TyTypeOK
  <2>2. tybudget' = [tybudget EXCEPT !.control = @ - 1] BY DEF ttycontrol
  <2>3. QED BY <2>1, <2>2
<1>3. TyTypeOK' BY <1>1, <1>2 DEF TyInv, TyTypeOK, tyinput, tyoutput, tyechoes
<1>4. TyServed' BY <1>1, TyServedKept DEF TyInv, tyinput, tyoutput
<1>5. TyEnabled' BY <1>1 DEF TyInv, TyEnabled
<1>6. \A ops : TyClients(ops)' = TyClients(ops) BY <1>1 DEF TyClients
<1>7. TyInput' BY <1>1, <1>6, TyInputKept DEF TyInv
<1>8. TyOutput' BY <1>1, <1>6, TyOutputKept DEF TyInv
<1>9. QED BY <1>3, <1>4, <1>5, <1>7, <1>8 DEF TyInv

\* A call begins: what it has to do is written down.
LEMMA TyCallStep ==
    ASSUME TyInv, NEW p \in TyProcs, NEW k \in TyRests, ~k.passed, k.op # "idle",
           k.op = "write" => k.text # << >>, TyCall(p, k),
           tybudget' \in [typed : Int, written : Int, control : Int, chars : SUBSET TyChars]
    PROVE  TyInv'
<1>1. /\ UNCHANGED <<tyinput, tyoutput, tyechoes, tyoheld, tyimode, tyiecho, uart, tyfault>>
      /\ tyrun = NoProc /\ typc[p].op = "idle"
      /\ typc' = [typc EXCEPT ![p] = k] /\ tyrun' = p
  BY DEF TyCall, TyKeep
<1>2. UNCHANGED <<tyisem, tyosem>> BY <1>1 DEF tyinput, tyoutput
<1>3. typc' \in [TyProcs -> TyRests] /\ typc'[p] = k /\ \A q \in TyProcs : q # p => typc'[q] = typc[q]
  BY <1>1, TyClientsAre DEF TyInv
<1>4. TyClients(TyReading)' = TyClients(TyReading) /\ TyClients({"write"})' = TyClients({"write"})
  <2>1. \A q \in TyProcs : q \notin TyClients(TyReading) \/ typc[q].op # "idle"
    BY DEF TyClients, TyReading
  <2>2. p \notin TyClients(TyReading) /\ p \notin TyClients({"write"})
    BY <1>1 DEF TyClients, TyReading
  <2>3. TyClients(TyReading)' = TyClients(TyReading) \ {p}
    BY <1>1, TyClientsAre DEF TyInv
  <2>4. TyClients({"write"})' = TyClients({"write"}) \ {p}
    BY <1>1, TyClientsAre DEF TyInv
  <2>5. QED BY <2>2, <2>3, <2>4
<1>5. TyTypeOK' BY <1>1, <1>3 DEF TyInv, TyTypeOK, tyinput, tyoutput, tyechoes
<1>6. ~Waits(tyisem, p) /\ ~Waits(tyosem, p)
  BY <1>1, TyWaiters DEF TyInv, TyClients, TyReading
<1>7. TyServed'
  <2>1. ~TyBlocked(p)' BY <1>2, <1>6 DEF TyBlocked
  <2>2. typc'[p].op # "idle" BY <1>3
  <2>3. tyrun' # NoProc => tyrun' \in TyProcs /\ typc'[tyrun'].op # "idle" /\ ~TyBlocked(tyrun)'
    BY <1>1, <2>1, <2>2 DEF TyBlocked
  <2>4. QED BY <1>2, <1>4, <2>3 DEF TyInv, TyServed
<1>8. TyEnabled' BY <1>1 DEF TyInv, TyEnabled
<1>9. TyInput' BY <1>1, <1>4, TyInputKept DEF TyInv
<1>10. TyOutput' BY <1>1, <1>4, TyOutputKept DEF TyInv
<1>11. QED BY <1>5, <1>7, <1>8, <1>9, <1>10 DEF TyInv

LEMMA TyIdleIs ==
    /\ TyIdle \in TyRests /\ TyIdle.op = "idle" /\ ~TyIdle.passed
    /\ \A op \in {"write"} \cup TyReading, n \in Int : \A k :
          k = [TyIdle EXCEPT !.op = op, !.left = n] => k \in TyRests /\ k.op = op /\ ~k.passed
    /\ \A op \in {"write"} \cup TyReading, text \in Seq(TyChars) : \A k :
          k = [TyIdle EXCEPT !.op = op, !.text = text]
            => k \in TyRests /\ k.op = op /\ k.text = text /\ ~k.passed
    /\ \A k : k = [TyIdle EXCEPT !.op = "nextc"] => k \in TyRests /\ k.op = "nextc" /\ ~k.passed
<1>1. TyIdle \in TyRests /\ TyIdle.op = "idle" /\ ~TyIdle.passed
  <2>1. << >> \in Seq(TyChars) OBVIOUS
  <2>2. QED BY <2>1 DEF TyIdle, TyRests
<1>2. ASSUME NEW op \in {"write"} \cup TyReading, NEW n \in Int,
             NEW k, k = [TyIdle EXCEPT !.op = op, !.left = n]
      PROVE  k \in TyRests /\ k.op = op /\ ~k.passed
  BY <1>1, <1>2 DEF TyRests
<1>3. ASSUME NEW op \in {"write"} \cup TyReading, NEW text \in Seq(TyChars), NEW k,
             k = [TyIdle EXCEPT !.op = op, !.text = text]
      PROVE  k \in TyRests /\ k.op = op /\ k.text = text /\ ~k.passed
  BY <1>1, <1>3 DEF TyRests
<1>4. ASSUME NEW k, k = [TyIdle EXCEPT !.op = "nextc"]
      PROVE  k \in TyRests /\ k.op = "nextc" /\ ~k.passed
  BY <1>1, <1>4 DEF TyRests, TyReading
<1>5. QED BY <1>1, <1>2, <1>3, <1>4

LEMMA TyReadStep == ASSUME TyInv, NEW p \in TyReaders, NEW n \in TyReads, ttyread(p, n) PROVE TyInv'
<1>1. p \in TyProcs /\ n \in Int BY TyConstants
<1>2. semcount(tyisem) \in Int
  <2>1. tyisem \in SemRecords(TyProcs) BY DEF TyInv, TyTypeOK
  <2>2. tyisem.val \in Int /\ Len(tyisem.queue) \in Nat BY <2>1 DEF SemRecords
  <2>3. QED BY <2>2 DEF semcount
<1>3. PICK m \in Int, op \in {"line", "read"} :
          TyCall(p, [TyIdle EXCEPT !.op = op, !.left = m])
  <2>1. PICK m : m = (IF tyimode # "COOKED" /\ n = 0 THEN semcount(tyisem) ELSE n) OBVIOUS
  <2>2. PICK op : op = (IF tyimode = "COOKED" THEN "line" ELSE "read") OBVIOUS
  <2>3. TyCall(p, [TyIdle EXCEPT !.op = op, !.left = m]) BY <2>1, <2>2 DEF ttyread
  <2>4. m \in Int /\ op \in {"line", "read"} BY <1>1, <1>2, <2>1, <2>2
  <2>5. QED BY <2>3, <2>4
<1>4. PICK k : k = [TyIdle EXCEPT !.op = op, !.left = m] OBVIOUS
<1>5. k \in TyRests /\ k.op = op /\ ~k.passed
  <2>1. op \in {"write"} \cup TyReading BY DEF TyReading
  <2>2. \A c : c = [TyIdle EXCEPT !.op = op, !.left = m] => c \in TyRests /\ c.op = op /\ ~c.passed
    BY <2>1, TyIdleIs, Zenon
  <2>3. QED BY <1>4, <2>2
<1>6. k.op # "idle" /\ k.op # "write" BY <1>5
<1>7. tybudget' = tybudget BY DEF ttyread
<1>8. tybudget' \in [typed : Int, written : Int, control : Int, chars : SUBSET TyChars]
  BY <1>7 DEF TyInv, TyTypeOK
<1>9. TyCall(p, k) BY <1>3, <1>4
<1>10. QED BY <1>1, <1>5, <1>6, <1>8, <1>9, TyCallStep

LEMMA TyWriteStep ==
    ASSUME TyInv, NEW p \in TyWriters, NEW text \in TyTexts, ttywrite(p, OutText(text))
    PROVE  TyInv'
<1>1. PICK out \in Seq(TyChars) : out = OutText(text) /\ out # << >> BY OutTextOK
<1>2. TyCall(p, [TyIdle EXCEPT !.op = "write", !.text = out])
      /\ tybudget' = [tybudget EXCEPT !.written = @ - Len(out)]
  BY <1>1 DEF ttywrite
<1>3. PICK k : k = [TyIdle EXCEPT !.op = "write", !.text = out] OBVIOUS
<1>4. k \in TyRests /\ k.op = "write" /\ k.text = out /\ ~k.passed
  <2>1. PICK op \in {"write"} \cup TyReading : op = "write" OBVIOUS
  <2>2. \A c : c = [TyIdle EXCEPT !.op = op, !.text = out]
               => c \in TyRests /\ c.op = op /\ c.text = out /\ ~c.passed
    BY TyIdleIs, Zenon
  <2>3. QED BY <1>3, <2>1, <2>2
<1>5. tybudget' \in [typed : Int, written : Int, control : Int, chars : SUBSET TyChars]
  <2>1. tybudget \in [typed : Int, written : Int, control : Int, chars : SUBSET TyChars]
    BY DEF TyInv, TyTypeOK
  <2>2. QED BY <1>2, <2>1
<1>6. TyCall(p, k) /\ p \in TyProcs /\ k.op # "idle" BY <1>2, <1>3, <1>4, TyConstants
<1>7. QED BY <1>1, <1>4, <1>5, <1>6, TyCallStep

LEMMA TyNextcStep == ASSUME TyInv, NEW p \in TyReaders, ttynextc(p) PROVE TyInv'
<1>1. TyCall(p, [TyIdle EXCEPT !.op = "nextc"]) /\ tybudget' = [tybudget EXCEPT !.control = @ - 1]
  BY DEF ttynextc
<1>2. PICK k : k = [TyIdle EXCEPT !.op = "nextc"] OBVIOUS
<1>3. k \in TyRests /\ k.op = "nextc" /\ ~k.passed BY <1>2, TyIdleIs
<1>4. tybudget' \in [typed : Int, written : Int, control : Int, chars : SUBSET TyChars]
  <2>1. tybudget \in [typed : Int, written : Int, control : Int, chars : SUBSET TyChars]
    BY DEF TyInv, TyTypeOK
  <2>2. QED BY <1>1, <2>1
<1>5. TyCall(p, k) /\ p \in TyProcs /\ k.op # "idle" /\ k.op # "write" BY <1>1, <1>2, <1>3, TyConstants
<1>6. QED BY <1>3, <1>4, <1>5, TyCallStep
-----------------------------------------------------------------------------
\* wait: the process becomes one of those that the semaphore serves.
LEMMA TyPCount ==
    ASSUME NEW S, NEW s \in SemRecords(S), s.val \in Nat, NEW p \in S, NEW m \in Int, semcount(s) <= m
    PROVE  semcount(P(s, p)) <= m
<1>1. s.queue \in Seq(S) /\ Len(s.queue) \in Nat BY DEF SemRecords
<1>2. CASE Passes(s)
  <2>1. P(s, p).val = s.val - 1 /\ P(s, p).queue = s.queue BY <1>2, PSem
  <2>2. QED BY <1>1, <2>1 DEF semcount
<1>3. CASE ~Passes(s)
  <2>1. P(s, p).queue = Append(s.queue, p) BY <1>3, PSem DEF enqueue
  <2>2. Append(s.queue, p) # << >> /\ Len(Append(s.queue, p)) = Len(s.queue) + 1 BY <1>1
  <2>3. semcount(P(s, p)) = -(Len(s.queue) + 1) BY <2>1, <2>2 DEF semcount
  <2>4. s.queue = << >> => Len(s.queue) = 0 OBVIOUS
  <2>5. semcount(s) >= -Len(s.queue) BY <1>1, <2>4 DEF semcount
  <2>6. semcount(s) \in Int BY <1>1 DEF semcount
  <2>7. QED BY <1>1, <2>3, <2>5, <2>6
<1>4. QED BY <1>2, <1>3

LEMMA TyWaitStep == ASSUME TyInv, NEW p \in TyProcs, TyWait(p) PROVE TyInv'
<1>1. PICK k : k = [typc[p] EXCEPT !.passed = TRUE] OBVIOUS
<1>2. /\ TyRuns(p) /\ ~typc[p].passed /\ typc' = [typc EXCEPT ![p] = k]
      /\ UNCHANGED <<tyibuff, tyihead, tyitail, tyicursor, tystored, tyobuff, tyohead,
                     tyotail, tyout, tyechoes, tyoheld, tyimode, tyiecho, uart, tybudget, tyfault>>
  BY <1>1 DEF TyWait
<1>3. typc[p] \in TyRests /\ typc[p].op # "idle" /\ ~TyBlocked(p)
  BY <1>2, TyWaiters DEF TyInv, TyTypeOK
<1>4. k \in TyRests /\ k.op = typc[p].op /\ k.passed /\ k.text = typc[p].text
  BY <1>1, <1>3 DEF TyRests
<1>5. /\ typc' \in [TyProcs -> TyRests] /\ typc'[p] = k
      /\ \A q \in TyProcs : q # p => typc'[q] = typc[q]
  BY <1>2, <1>4, TyClientsAre DEF TyInv
<1>6. /\ tyisem \in SemRecords(TyProcs) /\ tyosem \in SemRecords(TyProcs)
      /\ Serving(tyisem, TyClients(TyReading)) /\ Serving(tyosem, TyClients({"write"}))
      /\ Tight(tyosem) /\ semcount(tyosem) <= TY_OBUFLEN
  BY DEF TyInv, TyTypeOK, TyServed
<1>7. p \notin TyClients(TyReading) /\ p \notin TyClients({"write"}) BY <1>2 DEF TyClients
<1>8. ~Waits(tyisem, p) /\ ~Waits(tyosem, p) BY <1>3 DEF TyBlocked
<1>9. TyEnabled' BY <1>2 DEF TyInv, TyEnabled
<1>10. \A q \in TyProcs : typc'[q].op = "write" => typc'[q].text # << >>
  BY <1>3, <1>4, <1>5 DEF TyInv, TyTypeOK
<1>11. CASE typc[p].op = "write"
  <2>1. /\ tyosem' = P(tyosem, p) /\ tyisem' = tyisem
        /\ tyrun' = IF Passes(tyosem) THEN p ELSE NoProc
    BY <1>11 DEF TyWait
  <2>2. TyClients({"write"})' = TyClients({"write"}) \cup {p}
    <3>1. k.op \in {"write"} BY <1>4, <1>11
    <3>2. QED BY <1>2, <1>4, <3>1, TyClientsAre DEF TyInv
  <2>3. TyClients(TyReading)' = TyClients(TyReading)
    <3>1. k.op \notin TyReading BY <1>4, <1>11 DEF TyReading
    <3>2. TyClients(TyReading)' = TyClients(TyReading) \ {p}
      BY <1>2, <1>4, <3>1, TyClientsAre DEF TyInv
    <3>3. QED BY <1>7, <3>2
  <2>4. PICK C : C = TyClients({"write"}) /\ IsFiniteSet(C) BY TyClientsFinite
  <2>5. Serving(tyosem', C \cup {p}) /\ Taken(tyosem', C \cup {p}) = Taken(tyosem, C)
    BY <1>6, <1>7, <2>1, <2>4, TakenEnter
  <2>6. tyosem' \in SemRecords(TyProcs) BY <1>6, <2>1, PSem
  <2>7. Tight(tyosem') BY <1>6, <2>1, <2>4, TightKept
  <2>8. semcount(tyosem') <= TY_OBUFLEN
    <3>1. tyosem.val \in Nat /\ TY_OBUFLEN \in Int BY <1>6, TyConstants DEF Serving
    <3>2. QED BY <1>6, <2>1, <3>1, TyPCount
  <2>9. Passes(tyosem) => ~Waits(tyosem', p)
    <3>1. Passes(tyosem) => tyosem'.queue = tyosem.queue BY <1>6, <2>1, PSem
    <3>2. QED BY <1>8, <3>1 DEF Waits
  <2>10. TyServed'
    <3>1. tyrun' # NoProc => tyrun' = p /\ Passes(tyosem) BY <2>1
    <3>2. tyrun' # NoProc => ~TyBlocked(tyrun)' BY <1>8, <2>1, <2>9, <3>1 DEF TyBlocked
    <3>3. typc'[p].op # "idle" BY <1>3, <1>4, <1>5
    <3>4. Serving(tyisem', TyClients(TyReading)') BY <1>6, <2>1, <2>3
    <3>5. Serving(tyosem', TyClients({"write"})') BY <2>2, <2>4, <2>5
    <3>6. QED BY <2>7, <2>8, <3>1, <3>2, <3>3, <3>4, <3>5 DEF TyServed
  <2>11. TyTypeOK' BY <1>2, <1>5, <1>10, <2>1, <2>6 DEF TyInv, TyTypeOK, tyechoes
  <2>12. TyInput'
    <3>1. UNCHANGED tyinput BY <1>2, <2>1 DEF tyinput
    <3>2. QED BY <1>2, <2>3, <3>1, TyInputKept DEF TyInv
  <2>13. TyOutput'
    <3>1. Taken(tyosem', TyClients({"write"})') = Taken(tyosem, TyClients({"write"}))
      BY <2>2, <2>4, <2>5
    <3>2. QED BY <1>2, <3>1 DEF TyInv, TyOutput
  <2>14. QED BY <1>9, <2>10, <2>11, <2>12, <2>13 DEF TyInv
<1>12. CASE typc[p].op # "write"
  <2>1. /\ tyisem' = P(tyisem, p) /\ tyosem' = tyosem
        /\ tyrun' = IF Passes(tyisem) THEN p ELSE NoProc
    BY <1>12 DEF TyWait
  <2>2. TyClients(TyReading)' = TyClients(TyReading) \cup {p}
    <3>1. k.op \in TyReading BY <1>3, <1>4, <1>12 DEF TyRests
    <3>2. QED BY <1>2, <1>4, <3>1, TyClientsAre DEF TyInv
  <2>3. TyClients({"write"})' = TyClients({"write"})
    <3>1. k.op \notin {"write"} BY <1>4, <1>12
    <3>2. TyClients({"write"})' = TyClients({"write"}) \ {p}
      BY <1>2, <1>4, <3>1, TyClientsAre DEF TyInv
    <3>3. QED BY <1>7, <3>2
  <2>4. PICK C : C = TyClients(TyReading) /\ IsFiniteSet(C) BY TyClientsFinite
  <2>5. Serving(tyisem', C \cup {p}) /\ Taken(tyisem', C \cup {p}) = Taken(tyisem, C)
    BY <1>6, <1>7, <2>1, <2>4, TakenEnter
  <2>6. tyisem' \in SemRecords(TyProcs) BY <1>6, <2>1, PSem
  <2>7. Passes(tyisem) => ~Waits(tyisem', p)
    <3>1. Passes(tyisem) => tyisem'.queue = tyisem.queue BY <1>6, <2>1, PSem
    <3>2. QED BY <1>8, <3>1 DEF Waits
  <2>8. TyServed'
    <3>1. tyrun' # NoProc => tyrun' = p /\ Passes(tyisem) BY <2>1
    <3>2. tyrun' # NoProc => ~TyBlocked(tyrun)' BY <1>8, <2>1, <2>7, <3>1 DEF TyBlocked
    <3>3. typc'[p].op # "idle" BY <1>3, <1>4, <1>5
    <3>4. Serving(tyosem', TyClients({"write"})') BY <1>6, <2>1, <2>3
    <3>5. Serving(tyisem', TyClients(TyReading)') BY <2>2, <2>4, <2>5
    <3>6. QED BY <1>6, <2>1, <3>1, <3>2, <3>3, <3>4, <3>5 DEF TyServed
  <2>9. TyTypeOK' BY <1>2, <1>5, <1>10, <2>1, <2>6 DEF TyInv, TyTypeOK, tyechoes
  <2>10. TyOutput'
    <3>1. UNCHANGED tyoutput BY <1>2, <2>1 DEF tyoutput
    <3>2. QED BY <1>2, <2>3, <3>1, TyOutputKept DEF TyInv
  <2>11. TyInput'
    <3>1. Taken(tyisem', TyClients(TyReading)') = Taken(tyisem, TyClients(TyReading))
      BY <2>2, <2>4, <2>5
    <3>2. QED BY <1>2, <3>1 DEF TyInv, TyInput
  <2>12. QED BY <1>9, <2>8, <2>9, <2>10, <2>11 DEF TyInv
<1>13. QED BY <1>11, <1>12
-----------------------------------------------------------------------------
\* A character is moved by the process that was let through for it, which is
\* then no longer one of those that the semaphore serves.
LEMMA TakenNat ==
    ASSUME NEW s, NEW C, IsFiniteSet(C), Serving(s, C) PROVE Taken(s, C) \in Nat
<1>1. s.val \in Nat /\ Cardinality(Awake(s, C)) \in Nat BY AwakeFinite DEF Serving
<1>2. QED BY <1>1 DEF Taken

LEMMA RingNext ==
    ASSUME NEW N \in Nat \ {0}, NEW i \in 0..(N - 1)
    PROVE  (IF i + 1 >= N THEN 0 ELSE i + 1) = (i + 1) % N
<1>1. i + 1 \in Nat /\ i + 1 < 2 * N OBVIOUS
<1>2. PICK x \in Nat : x = i + 1 /\ x < 2 * N BY <1>1
<1>3. x % N = IF x < N THEN x ELSE x - N BY <1>2, RingWrap
<1>4. QED BY <1>2, <1>3

\* What a process has left of its call, when it does not wait or has done.
LEMMA TyGoesOn ==
    ASSUME TyInv, NEW p \in TyProcs, TyRuns(p), NEW k \in TyRests, ~k.passed, TyKeep(p, k),
           k.op = "write" => k.text # << >>
    PROVE  /\ typc' \in [TyProcs -> TyRests]
           /\ \A q \in TyProcs : typc'[q].op = "write" => typc'[q].text # << >>
           /\ TyClients(TyReading)' = TyClients(TyReading) \ {p}
           /\ TyClients({"write"})' = TyClients({"write"}) \ {p}
           /\ tyrun' # NoProc => tyrun' = p /\ typc'[tyrun'].op # "idle"
           /\ ~Waits(tyisem, p) /\ ~Waits(tyosem, p)
<1>1. typc' = [typc EXCEPT ![p] = k] /\ tyrun' = IF k.op = "idle" THEN NoProc ELSE p
  BY DEF TyKeep
<1>2. /\ typc' \in [TyProcs -> TyRests] /\ typc'[p] = k
      /\ \A q \in TyProcs : q # p => typc'[q] = typc[q]
  BY <1>1, TyClientsAre DEF TyInv
<1>3. TyClients(TyReading)' = TyClients(TyReading) \ {p} BY <1>1, TyClientsAre DEF TyInv
<1>4. TyClients({"write"})' = TyClients({"write"}) \ {p} BY <1>1, TyClientsAre DEF TyInv
<1>5. ~Waits(tyisem, p) /\ ~Waits(tyosem, p) BY TyWaiters DEF TyInv, TyBlocked
<1>6. tyrun' # NoProc => tyrun' = p /\ typc'[tyrun'].op # "idle" BY <1>1, <1>2
<1>7. \A q \in TyProcs : typc'[q].op = "write" => typc'[q].text # << >>
  BY <1>2 DEF TyInv, TyTypeOK
<1>8. QED BY <1>2, <1>3, <1>4, <1>5, <1>6, <1>7

LEMMA TyGetcLeaves ==
    ASSUME NEW k \in TyRests, k.op \in {"line", "read"}, NEW ch
    PROVE  AfterGetc(k, ch) \in TyRests /\ ~AfterGetc(k, ch).passed /\ AfterGetc(k, ch).op # "write"
<1>1. PICK j : j = [k EXCEPT !.left = @ - 1, !.first = FALSE, !.passed = FALSE] OBVIOUS
<1>2. j \in TyRests /\ ~j.passed /\ j.op = k.op
  <2>1. PICK n \in Int : n = k.left - 1 BY DEF TyRests
  <2>2. j = [k EXCEPT !.left = n, !.first = FALSE, !.passed = FALSE] BY <1>1, <2>1
  <2>3. QED BY <2>2 DEF TyRests
<1>3. TyIdle \in TyRests /\ TyIdle.op = "idle" /\ ~TyIdle.passed BY TyIdleIs
<1>4. AfterGetc(k, ch) = j \/ AfterGetc(k, ch) = TyIdle BY <1>1 DEF AfterGetc
<1>5. QED BY <1>2, <1>3, <1>4

LEMMA TyGetcStep == ASSUME TyInv, NEW p \in TyReaders, ttygetc(p) PROVE TyInv'
<1>1. PICK k : k = AfterGetc(typc[p], tyibuff[tyihead]) OBVIOUS
<1>2. /\ p \in TyProcs /\ TyRuns(p) /\ typc[p].op \in {"line", "read"} /\ typc[p].passed
      /\ tyihead' = NextHead /\ tystored' = (IF tystored = << >> THEN << >> ELSE Tail(tystored))
      /\ TyKeep(p, k)
      /\ UNCHANGED <<tyibuff, tyitail, tyisem, tyicursor, tyoutput, tyechoes, tyoheld,
                     tyimode, tyiecho, uart, tybudget, tyfault>>
  BY <1>1, TyConstants DEF ttygetc
<1>3. k \in TyRests /\ ~k.passed /\ k.op # "write"
  BY <1>1, <1>2, TyGetcLeaves DEF TyInv, TyTypeOK
<1>4. /\ typc' \in [TyProcs -> TyRests]
      /\ \A q \in TyProcs : typc'[q].op = "write" => typc'[q].text # << >>
      /\ TyClients(TyReading)' = TyClients(TyReading) \ {p}
      /\ TyClients({"write"})' = TyClients({"write"}) \ {p}
      /\ tyrun' # NoProc => tyrun' = p /\ typc'[tyrun'].op # "idle"
      /\ ~Waits(tyisem, p) /\ ~Waits(tyosem, p)
  BY <1>2, <1>3, TyGoesOn
<1>5. p \in TyClients(TyReading) /\ p \notin TyClients({"write"})
  BY <1>2 DEF TyClients, TyReading
<1>6. UNCHANGED <<tyosem, tyoutput, tyfault>> BY <1>2 DEF tyoutput
<1>7. PICK C : C = TyClients(TyReading) /\ IsFiniteSet(C) /\ IsFiniteSet(C \ {p})
  BY TyClientsFinite, FS_RemoveElement
<1>8. /\ Serving(tyisem, C \ {p}) /\ Taken(tyisem, C \ {p}) = Taken(tyisem, C) - 1
      /\ Taken(tyisem, C) \in Nat /\ Taken(tyisem, C \ {p}) \in Nat
  <2>1. tyisem \in SemRecords(TyProcs) /\ Serving(tyisem, C) /\ p \in C
    BY <1>5, <1>7 DEF TyInv, TyTypeOK, TyServed
  <2>2. Serving(tyisem, C \ {p}) /\ Taken(tyisem, C \ {p}) = Taken(tyisem, C) - 1
    BY <1>4, <1>7, <2>1, TakenGone
  <2>3. QED BY <1>7, <2>1, <2>2, TakenNat
<1>9. TyTypeOK' BY <1>2, <1>4, <1>6 DEF TyInv, TyTypeOK, tyechoes
<1>10. TyServed'
  <2>1. Serving(tyisem', TyClients(TyReading)') BY <1>2, <1>4, <1>7, <1>8
  <2>2. Serving(tyosem', TyClients({"write"})') BY <1>4, <1>5, <1>6 DEF TyInv, TyServed
  <2>3. tyrun' # NoProc => ~TyBlocked(tyrun)' BY <1>2, <1>4, <1>6 DEF TyBlocked
  <2>4. QED BY <1>2, <1>4, <1>6, <2>1, <2>2, <2>3 DEF TyInv, TyServed
<1>11. TyEnabled' BY <1>2 DEF TyInv, TyEnabled
<1>12. TyOutput' BY <1>4, <1>5, <1>6, TyOutputKept DEF TyInv
<1>13. TyInput'
  <2> SUFFICES ASSUME tyfault' \cap TyInputFaults = {}
               PROVE  /\ tyibuff' \in [0..(TY_IBUFLEN - 1) -> TyChars] /\ tystored' \in Seq(TyChars)
                      /\ tyitail' \in 0..TY_IBUFLEN
                      /\ RingHas(tyibuff', TY_IBUFLEN, tyihead', tyitail' % TY_IBUFLEN, tystored')
                      /\ Len(tystored') = tyicursor' + Taken(tyisem', TyClients(TyReading)')
    BY DEF TyInput
  <2>1. /\ tyibuff \in [0..(TY_IBUFLEN - 1) -> TyChars] /\ tystored \in Seq(TyChars)
        /\ tyitail \in 0..TY_IBUFLEN
        /\ RingHas(tyibuff, TY_IBUFLEN, tyihead, tyitail % TY_IBUFLEN, tystored)
        /\ Len(tystored) = tyicursor + Taken(tyisem, C)
    BY <1>6, <1>7 DEF TyInv, TyInput
  <2>2. tyicursor \in Nat /\ TY_IBUFLEN \in Nat \ {0} BY TyConstants DEF TyInv, TyTypeOK
  <2>3. 1 \in 0..Len(tystored) /\ tystored # << >>
    <3>1. Len(tystored) \in Nat /\ Len(tystored) >= 1 BY <1>8, <2>1, <2>2
    <3>2. QED BY <3>1
  <2>4. /\ RingHas(tyibuff, TY_IBUFLEN, (tyihead + 1) % TY_IBUFLEN, tyitail % TY_IBUFLEN,
                 SubSeq(tystored, 1 + 1, Len(tystored)))
        /\ SubSeq(tystored, 1 + 1, Len(tystored)) \in Seq(TyChars)
        /\ Len(SubSeq(tystored, 1 + 1, Len(tystored))) = Len(tystored) - 1
    BY <2>1, <2>2, <2>3, RingHasTake
  <2>5. tystored' = SubSeq(tystored, 1 + 1, Len(tystored)) BY <1>2, <2>1, <2>3
  <2>6. tyihead \in 0..(TY_IBUFLEN - 1) BY <2>1 DEF RingHas
  <2>7. tyihead' = (tyihead + 1) % TY_IBUFLEN BY <1>2, <2>2, <2>6, RingNext DEF NextHead
  <2>8. Len(tystored') = tyicursor' + Taken(tyisem', TyClients(TyReading)')
    <3>1. tyicursor' = tyicursor /\ tyisem' = tyisem BY <1>2
    <3>2. TyClients(TyReading)' = C \ {p} BY <1>4, <1>7
    <3>3. Taken(tyisem', TyClients(TyReading)') = Taken(tyisem, C) - 1 BY <1>8, <3>1, <3>2
    <3>4. Len(tystored) = tyicursor + Taken(tyisem, C) BY <2>1
    <3>5. Len(tystored') = Len(tystored) - 1 BY <2>4, <2>5
    <3>6. QED BY <1>8, <2>2, <3>1, <3>3, <3>4, <3>5
  <2>9. QED BY <1>2, <2>1, <2>4, <2>5, <2>7, <2>8
<1>14. QED BY <1>9, <1>10, <1>11, <1>12, <1>13 DEF TyInv

LEMMA TyNextcRestStep == ASSUME TyInv, NEW p \in TyReaders, ttynextcRest(p) PROVE TyInv'
<1>1. /\ p \in TyProcs /\ TyRuns(p) /\ typc[p].op = "nextc" /\ typc[p].passed
      /\ tyisem' = V(tyisem) /\ TyKeep(p, TyIdle)
      /\ UNCHANGED <<tyibuff, tyihead, tyitail, tyicursor, tystored, tyoutput, tyechoes,
                     tyoheld, tyimode, tyiecho, uart, tybudget, tyfault>>
  BY TyConstants DEF ttynextcRest
<1>2. TyIdle \in TyRests /\ ~TyIdle.passed /\ TyIdle.op = "idle" BY TyIdleIs
<1>3. /\ typc' \in [TyProcs -> TyRests]
      /\ \A q \in TyProcs : typc'[q].op = "write" => typc'[q].text # << >>
      /\ TyClients(TyReading)' = TyClients(TyReading) \ {p}
      /\ TyClients({"write"})' = TyClients({"write"}) \ {p}
      /\ ~Waits(tyisem, p) /\ ~Waits(tyosem, p)
  BY <1>1, <1>2, TyGoesOn
<1>4. tyrun' = NoProc BY <1>1, <1>2 DEF TyKeep
<1>5. p \in TyClients(TyReading) /\ p \notin TyClients({"write"})
  BY <1>1 DEF TyClients, TyReading
<1>6. UNCHANGED <<tyosem, tyoutput, tyfault>> BY <1>1 DEF tyoutput
<1>7. PICK C : C = TyClients(TyReading) /\ IsFiniteSet(C) BY TyClientsFinite
<1>8. tyisem \in SemRecords(TyProcs) /\ Serving(tyisem, C) /\ p \in C
  BY <1>5, <1>7 DEF TyInv, TyTypeOK, TyServed
<1>9. Serving(tyisem', C \ {p}) /\ Taken(tyisem', C \ {p}) = Taken(tyisem, C)
  BY <1>1, <1>3, <1>7, <1>8, TakenExit
<1>10. tyisem' \in SemRecords(TyProcs) BY <1>1, <1>8, VSem
<1>11. TyTypeOK' BY <1>1, <1>3, <1>6, <1>10 DEF TyInv, TyTypeOK, tyechoes
<1>12. TyServed'
  <2>1. Serving(tyisem', TyClients(TyReading)') BY <1>3, <1>7, <1>9
  <2>2. Serving(tyosem', TyClients({"write"})') BY <1>3, <1>5, <1>6 DEF TyInv, TyServed
  <2>3. QED BY <1>4, <1>6, <2>1, <2>2 DEF TyInv, TyServed
<1>13. TyEnabled' BY <1>1 DEF TyInv, TyEnabled
<1>14. TyOutput' BY <1>3, <1>5, <1>6, TyOutputKept DEF TyInv
<1>15. TyInput'
  <2>1. Taken(tyisem', TyClients(TyReading)') = Taken(tyisem, TyClients(TyReading))
    BY <1>3, <1>7, <1>9
  <2>2. QED BY <1>1, <2>1 DEF TyInv, TyInput
<1>16. QED BY <1>11, <1>12, <1>13, <1>14, <1>15 DEF TyInv

LEMMA TyPutcLeaves ==
    ASSUME NEW k \in TyRests, k.op = "write", k.text # << >>
    PROVE  /\ AfterPutc(k) \in TyRests /\ ~AfterPutc(k).passed
           /\ AfterPutc(k).op = "write" => AfterPutc(k).text # << >>
           /\ Head(k.text) \in TyChars
<1>1. k.text \in Seq(TyChars) /\ Len(k.text) \in Nat /\ Len(k.text) # 0 BY DEF TyRests
<1>2. Head(k.text) \in TyChars BY <1>1
<1>3. CASE Len(k.text) = 1 BY <1>2, <1>3, TyIdleIs DEF AfterPutc
<1>4. CASE Len(k.text) # 1
  <2>1. PICK u \in Seq(TyChars) : u = Tail(k.text) /\ u # << >>
    <3>1. Tail(k.text) \in Seq(TyChars) /\ Len(Tail(k.text)) = Len(k.text) - 1 BY <1>1
    <3>2. Len(<< >>) = 0 OBVIOUS
    <3>3. Len(Tail(k.text)) # 0 BY <1>1, <1>4, <3>1
    <3>4. QED BY <3>1, <3>2, <3>3
  <2>2. PICK j : j = [k EXCEPT !.text = u, !.passed = FALSE] OBVIOUS
  <2>3. AfterPutc(k) = j BY <1>4, <2>1, <2>2 DEF AfterPutc
  <2>4. j \in TyRests /\ ~j.passed /\ j.text = u BY <2>2 DEF TyRests
  <2>5. QED BY <1>2, <2>1, <2>3, <2>4
<1>5. QED BY <1>3, <1>4

LEMMA TyPutcStep == ASSUME TyInv, NEW p \in TyWriters, ttyputc(p) PROVE TyInv'
<1>1. PICK k, ch : k = AfterPutc(typc[p]) /\ ch = Head(typc[p].text) OBVIOUS
<1>2. /\ p \in TyProcs /\ TyRuns(p) /\ typc[p].op = "write" /\ typc[p].passed
      /\ tyobuff' = [tyobuff EXCEPT ![tyotail] = ch] /\ tyotail' = NextOTail
      /\ tyout' = Append(tyout, ch) /\ uart' = ttykickout(uart) /\ TyKeep(p, k)
      /\ UNCHANGED <<tyinput, tyohead, tyosem, tyechoes, tyoheld, tyimode, tyiecho,
                     tybudget, tyfault>>
  BY <1>1, TyConstants DEF ttyputc
<1>3. typc[p] \in TyRests /\ typc[p].text # << >> BY <1>2 DEF TyInv, TyTypeOK
<1>4. /\ k \in TyRests /\ ~k.passed /\ ch \in TyChars
      /\ k.op = "write" => k.text # << >>
  <2>1. PICK j \in TyRests : j = typc[p] BY <1>3
  <2>2. j.op = "write" /\ j.text # << >> BY <1>2, <1>3, <2>1
  <2>3. /\ AfterPutc(j) \in TyRests /\ ~AfterPutc(j).passed
        /\ AfterPutc(j).op = "write" => AfterPutc(j).text # << >>
        /\ Head(j.text) \in TyChars
    BY <2>2, TyPutcLeaves
  <2>4. QED BY <1>1, <2>1, <2>3
<1>5. /\ typc' \in [TyProcs -> TyRests]
      /\ \A q \in TyProcs : typc'[q].op = "write" => typc'[q].text # << >>
      /\ TyClients(TyReading)' = TyClients(TyReading) \ {p}
      /\ TyClients({"write"})' = TyClients({"write"}) \ {p}
      /\ tyrun' # NoProc => tyrun' = p /\ typc'[tyrun'].op # "idle"
      /\ ~Waits(tyisem, p) /\ ~Waits(tyosem, p)
  <2>1. ~k.passed /\ (k.op = "write" => k.text # << >>) BY <1>4
  <2>2. TyKeep(p, k) /\ TyRuns(p) /\ p \in TyProcs /\ k \in TyRests BY <1>2, <1>4
  <2>3. QED BY <2>1, <2>2, TyGoesOn
<1>6. p \in TyClients({"write"}) /\ p \notin TyClients(TyReading)
  BY <1>2 DEF TyClients, TyReading
<1>7. UNCHANGED <<tyisem, tyicursor>> BY <1>2 DEF tyinput
<1>8. PICK C : C = TyClients({"write"}) /\ IsFiniteSet(C) /\ IsFiniteSet(C \ {p})
  BY TyClientsFinite, FS_RemoveElement
<1>9. /\ Serving(tyosem, C \ {p}) /\ Taken(tyosem, C \ {p}) = Taken(tyosem, C) - 1
      /\ Taken(tyosem, C) \in Nat /\ Taken(tyosem, C \ {p}) \in Nat
  <2>1. tyosem \in SemRecords(TyProcs) /\ Serving(tyosem, C) /\ p \in C
    BY <1>6, <1>8 DEF TyInv, TyTypeOK, TyServed
  <2>2. Serving(tyosem, C \ {p}) /\ Taken(tyosem, C \ {p}) = Taken(tyosem, C) - 1
    BY <1>5, <1>8, <2>1, TakenGone
  <2>3. QED BY <1>8, <2>1, <2>2, TakenNat
<1>10. /\ uart' \in [busy : BOOLEAN, thre : BOOLEAN, on : BOOLEAN] /\ uart'.on
  <2>1. uart \in [busy : BOOLEAN, thre : BOOLEAN, on : BOOLEAN] BY DEF TyInv, TyTypeOK
  <2>2. QED BY <1>2, <2>1, TyKickout
<1>11. TyTypeOK' BY <1>2, <1>5, <1>7, <1>10 DEF TyInv, TyTypeOK, tyechoes
<1>12. TyServed'
  <2>1. Serving(tyosem', TyClients({"write"})') BY <1>2, <1>5, <1>8, <1>9
  <2>2. Serving(tyisem', TyClients(TyReading)') BY <1>5, <1>6, <1>7 DEF TyInv, TyServed
  <2>3. tyrun' # NoProc => ~TyBlocked(tyrun)' BY <1>2, <1>5, <1>7 DEF TyBlocked
  <2>4. QED BY <1>2, <1>5, <1>7, <2>1, <2>2, <2>3 DEF TyInv, TyServed
<1>13. TyEnabled' BY <1>10 DEF TyEnabled
<1>14. TyInput' BY <1>2, <1>5, <1>6, TyInputKept DEF TyInv
<1>15. TyOutput'
  <2> SUFFICES ASSUME "unwritten_sent" \notin tyfault'
               PROVE  /\ tyobuff' \in [0..(TY_OBUFLEN - 1) -> TyChars] /\ tyout' \in Seq(TyChars)
                      /\ RingHas(tyobuff', TY_OBUFLEN, tyohead', tyotail', tyout')
                      /\ Len(tyout') + Taken(tyosem', TyClients({"write"})') = TY_OBUFLEN
    BY DEF TyOutput
  <2>1. /\ tyobuff \in [0..(TY_OBUFLEN - 1) -> TyChars] /\ tyout \in Seq(TyChars)
        /\ RingHas(tyobuff, TY_OBUFLEN, tyohead, tyotail, tyout)
        /\ Len(tyout) + Taken(tyosem, C) = TY_OBUFLEN
    BY <1>2, <1>8 DEF TyInv, TyOutput
  <2>2. TY_OBUFLEN \in Nat \ {0} BY TyConstants
  <2>3. Len(tyout) < TY_OBUFLEN
    <3>1. Len(tyout) \in Nat BY <2>1
    <3>2. QED BY <1>9, <2>1, <2>2, <3>1
  <2>4. /\ RingHas([tyobuff EXCEPT ![tyotail] = ch], TY_OBUFLEN, tyohead, (tyotail + 1) % TY_OBUFLEN,
                 Append(tyout, ch))
        /\ tyotail \in 0..(TY_OBUFLEN - 1)
        /\ [tyobuff EXCEPT ![tyotail] = ch] \in [0..(TY_OBUFLEN - 1) -> TyChars]
    BY <1>4, <2>1, <2>2, <2>3, RingHasPut
  <2>5. tyotail' = (tyotail + 1) % TY_OBUFLEN BY <1>2, <2>2, <2>4, RingNext DEF NextOTail
  <2>6. Append(tyout, ch) \in Seq(TyChars) /\ Len(Append(tyout, ch)) = Len(tyout) + 1
    BY <1>4, <2>1
  <2>7. Len(tyout') + Taken(tyosem', TyClients({"write"})') = TY_OBUFLEN
    <3>1. Len(tyout) \in Nat BY <2>1
    <3>2. Len(tyout') = Len(tyout) + 1 BY <1>2, <2>6
    <3>3. Taken(tyosem', TyClients({"write"})') = Taken(tyosem, C) - 1 BY <1>2, <1>5, <1>8, <1>9
    <3>4. QED BY <1>9, <2>1, <2>2, <3>1, <3>2, <3>3
  <2>8. QED BY <1>2, <2>4, <2>5, <2>6, <2>7
<1>16. QED BY <1>11, <1>12, <1>13, <1>14, <1>15 DEF TyInv
-----------------------------------------------------------------------------
\* Sending: the permits of the places that become free, at most as many as the
\* handler counts, which is right unless it has sent one that was not written.
LEMMA TyEchoLenIs ==
    ASSUME TyTypeOK
    PROVE  TyEchoLen \in 0..(TY_EBUFLEN - 1) /\ \A x \in Int : x % TY_EBUFLEN \in 0..(TY_EBUFLEN - 1)
<1>1. TY_EBUFLEN \in Nat \ {0} BY TyConstants
<1>2. PICK N \in Nat \ {0} : N = TY_EBUFLEN BY <1>1
<1>3. \A x \in Int : x % N \in 0..(N - 1) OBVIOUS
<1>4. tyetail - tyehead \in Int BY DEF TyTypeOK
<1>5. QED BY <1>2, <1>3, <1>4 DEF TyEchoLen

\* What transmit takes from the output buffer: n places.
LEMMA TyTransmits ==
    ASSUME TyInv, transmit
    PROVE  \E n \in Nat :
              /\ n <= TY_OBUFLEN - semcount(tyosem)
              /\ tyohead' = (tyohead + n) % TY_OBUFLEN /\ tyosem' = VN(tyosem, n)
              /\ tyout' = SubSeq(tyout, n + 1, Len(tyout))
              /\ tyfault' = tyfault \cup IF n > Len(tyout) THEN {"unwritten_sent"} ELSE {}
              /\ tyehead' \in 0..(TY_EBUFLEN - 1)
              /\ uart' = [uart EXCEPT !.busy = TRUE, !.thre = FALSE]
<1>1. PICK e, n : /\ e = TyMin(UART_FIFO_SIZE, TyEchoLen) /\ n = TyMin(UART_FIFO_SIZE - e, OutAvail)
                  /\ tyehead' = (tyehead + e) % TY_EBUFLEN
                  /\ tyohead' = (tyohead + n) % TY_OBUFLEN /\ tyosem' = VN(tyosem, n)
                  /\ tyout' = SubSeq(tyout, n + 1, Len(tyout))
                  /\ tyfault' = tyfault \cup IF n > Len(tyout) THEN {"unwritten_sent"} ELSE {}
                  /\ uart' = [uart EXCEPT !.busy = TRUE, !.thre = FALSE]
  BY DEF transmit
<1>2. UART_FIFO_SIZE \in Nat /\ TY_OBUFLEN \in Nat /\ TY_EBUFLEN \in Nat \ {0} BY TyConstants
<1>3. TyEchoLen \in Nat /\ tyehead \in Int BY <1>2, TyEchoLenIs DEF TyInv, TyTypeOK
<1>4. e \in Nat /\ e <= UART_FIFO_SIZE BY <1>1, <1>2, <1>3 DEF TyMin
<1>5. semcount(tyosem) \in Int /\ semcount(tyosem) <= TY_OBUFLEN
  BY VCount DEF TyInv, TyTypeOK, TyServed
<1>6. OutAvail \in Nat /\ OutAvail = TY_OBUFLEN - semcount(tyosem) BY <1>2, <1>5 DEF OutAvail
<1>7. n \in Nat /\ n <= OutAvail BY <1>1, <1>2, <1>4, <1>6 DEF TyMin
<1>8. tyehead + e \in Int BY <1>3, <1>4
<1>9. tyehead' \in 0..(TY_EBUFLEN - 1) BY <1>1, <1>8, TyEchoLenIs DEF TyInv
<1>10. QED BY <1>1, <1>6, <1>7, <1>9

LEMMA TyOutStep == ASSUME TyInv, ttyhandle_out PROVE TyInv'
<1>1. /\ UNCHANGED <<tyinput, tyoheld, tyimode, tyiecho, typc, tyrun, tybudget>> /\ tyrun = NoProc
      /\ \/ /\ UNCHANGED <<tyoutput, tyechoes, tyfault>>
            /\ \/ uart' = [uart EXCEPT !.thre = FALSE]
               \/ uart' = [uart EXCEPT !.thre = FALSE, !.on = FALSE]
         \/ transmit /\ UNCHANGED <<tyobuff, tyotail, tyetail>>
  BY DEF ttyhandle_out
<1>2. uart \in [busy : BOOLEAN, thre : BOOLEAN, on : BOOLEAN] BY DEF TyInv, TyTypeOK
<1>3. UNCHANGED <<tyisem, tyicursor>> BY <1>1 DEF tyinput
<1>4. \A ops : TyClients(ops)' = TyClients(ops) BY <1>1 DEF TyClients
<1>5. CASE /\ UNCHANGED <<tyoutput, tyechoes, tyfault>>
           /\ \/ uart' = [uart EXCEPT !.thre = FALSE]
              \/ uart' = [uart EXCEPT !.thre = FALSE, !.on = FALSE]
  <2>1. uart' \in [busy : BOOLEAN, thre : BOOLEAN, on : BOOLEAN] /\ ~uart'.thre BY <1>2, <1>5
  <2>2. TyTypeOK' BY <1>1, <1>3, <1>5, <2>1 DEF TyInv, TyTypeOK, tyoutput, tyechoes
  <2>3. UNCHANGED tyosem BY <1>5 DEF tyoutput
  <2>4. TyServed' BY <1>1, <1>3, <2>3, TyServedKept DEF TyInv
  <2>5. TyEnabled' BY <2>1 DEF TyEnabled
  <2>6. TyInput' BY <1>1, <1>4, <1>5, TyInputKept DEF TyInv
  <2>7. TyOutput' BY <1>4, <1>5, TyOutputKept DEF TyInv
  <2>8. QED BY <2>2, <2>4, <2>5, <2>6, <2>7 DEF TyInv
<1>6. CASE transmit /\ UNCHANGED <<tyobuff, tyotail, tyetail>>
  <2>1. PICK n \in Nat :
              /\ n <= TY_OBUFLEN - semcount(tyosem)
              /\ tyohead' = (tyohead + n) % TY_OBUFLEN /\ tyosem' = VN(tyosem, n)
              /\ tyout' = SubSeq(tyout, n + 1, Len(tyout))
              /\ tyfault' = tyfault \cup IF n > Len(tyout) THEN {"unwritten_sent"} ELSE {}
              /\ tyehead' \in 0..(TY_EBUFLEN - 1)
              /\ uart' = [uart EXCEPT !.busy = TRUE, !.thre = FALSE]
    BY <1>6, TyTransmits
  <2>2. PICK C : C = TyClients({"write"}) /\ IsFiniteSet(C) BY TyClientsFinite
  <2>3. tyosem \in SemRecords(TyProcs) /\ Serving(tyosem, C) /\ Tight(tyosem)
    BY <2>2 DEF TyInv, TyTypeOK, TyServed
  <2>4. GivenN(tyosem, C, TyProcs, n) BY <2>2, <2>3, TakenVN
  <2>5. /\ tyosem' \in SemRecords(TyProcs) /\ Serving(tyosem', C) /\ Tight(tyosem')
        /\ Taken(tyosem', C) = Taken(tyosem, C) + n /\ semcount(tyosem') = semcount(tyosem) + n
    BY <2>1, <2>3, <2>4 DEF GivenN
  <2>6. uart' \in [busy : BOOLEAN, thre : BOOLEAN, on : BOOLEAN] /\ ~uart'.thre BY <1>2, <2>1
  <2>7. TyTypeOK' BY <1>1, <1>3, <1>6, <2>1, <2>5, <2>6 DEF TyInv, TyTypeOK
  <2>8. semcount(tyosem') <= TY_OBUFLEN
    <3>1. semcount(tyosem) \in Int /\ TY_OBUFLEN \in Int BY <2>3, VCount, TyConstants
    <3>2. QED BY <2>1, <2>5, <3>1
  <2>9. TyServed'
    <3>1. tyrun' = NoProc BY <1>1
    <3>2. Serving(tyisem', TyClients(TyReading)') BY <1>3, <1>4 DEF TyInv, TyServed
    <3>3. Serving(tyosem', TyClients({"write"})') BY <1>4, <2>2, <2>5
    <3>4. QED BY <2>5, <2>8, <3>1, <3>2, <3>3 DEF TyServed
  <2>10. TyEnabled' BY <2>6 DEF TyEnabled
  <2>11. tyfault \subseteq tyfault' BY <2>1
  <2>12. TyInput' BY <1>1, <1>4, <2>11, TyInputKept DEF TyInv
  <2>13. TyOutput'
    <3> SUFFICES ASSUME "unwritten_sent" \notin tyfault'
                 PROVE  /\ tyobuff' \in [0..(TY_OBUFLEN - 1) -> TyChars] /\ tyout' \in Seq(TyChars)
                        /\ RingHas(tyobuff', TY_OBUFLEN, tyohead', tyotail', tyout')
                        /\ Len(tyout') + Taken(tyosem', TyClients({"write"})') = TY_OBUFLEN
      BY DEF TyOutput
    <3>1. /\ tyobuff \in [0..(TY_OBUFLEN - 1) -> TyChars] /\ tyout \in Seq(TyChars)
          /\ RingHas(tyobuff, TY_OBUFLEN, tyohead, tyotail, tyout)
          /\ Len(tyout) + Taken(tyosem, C) = TY_OBUFLEN
      BY <2>2, <2>11 DEF TyInv, TyOutput
    <3>2. TY_OBUFLEN \in Nat \ {0} BY TyConstants
    <3>3. n <= Len(tyout) /\ Len(tyout) \in Nat BY <2>1, <3>1
    <3>4. n \in 0..Len(tyout) BY <3>3
    <3>5. /\ RingHas(tyobuff, TY_OBUFLEN, (tyohead + n) % TY_OBUFLEN, tyotail, SubSeq(tyout, n + 1, Len(tyout)))
          /\ SubSeq(tyout, n + 1, Len(tyout)) \in Seq(TyChars)
          /\ Len(SubSeq(tyout, n + 1, Len(tyout))) = Len(tyout) - n
      BY <3>1, <3>2, <3>4, RingHasTake
    <3>6. Taken(tyosem, C) \in Int BY <2>2, <2>3, TakenInt
    <3>7. Len(tyout') + Taken(tyosem', TyClients({"write"})') = TY_OBUFLEN
      BY <1>4, <2>1, <2>2, <2>5, <3>1, <3>2, <3>3, <3>5, <3>6
    <3>8. QED BY <1>6, <2>1, <3>1, <3>5, <3>7
  <2>14. QED BY <2>7, <2>9, <2>10, <2>12, <2>13 DEF TyInv
<1>7. QED BY <1>1, <1>5, <1>6
-----------------------------------------------------------------------------
\* What the handler of a typed character does to the input: it stores c, after
\* which n characters more can be read and cursor are on the line; or it erases
\* the last n of the line; or nothing.
TyStores(c, wrap, n, cursor) ==
    /\ c \in TyChars /\ n \in Nat /\ cursor \in Nat /\ cursor + n = tyicursor + 1
    /\ TyStore(c, wrap) /\ tyisem' = VN(tyisem, n) /\ tyicursor' = cursor
    /\ TyStoreFault \subseteq tyfault'
TyErases(n) ==
    /\ n \in 0..tyicursor /\ tyitail' = Back(n) /\ tyicursor' = tyicursor - n
    /\ tystored' = SubSeq(tystored, 1, Len(tystored) - n)
    /\ UNCHANGED <<tyibuff, tyihead, tyisem>>
TyEdits ==
    \/ UNCHANGED tyinput
    \/ \E c, wrap, n, cursor : TyStores(c, wrap, n, cursor)
    \/ \E n : TyErases(n)

\* And to the output: it asks for the interrupt, or has echoed nothing.
TyEchoed ==
    /\ tyehead' = tyehead /\ tyetail' \in 0..(TY_EBUFLEN - 1)
    /\ uart' = ttykickout(uart) \/ (uart' = uart /\ tyetail' = tyetail)
TyFaults ==
    /\ tyfault \subseteq tyfault'
    /\ "unwritten_sent" \in tyfault' => "unwritten_sent" \in tyfault

LEMMA TyFaultsAre ==
    /\ \A n : "unwritten_sent" \notin TyLapped(n)
    /\ "unwritten_sent" \notin TyStoreFault
  BY DEF TyLapped, TyStoreFault

LEMMA TyEputc == ASSUME TyInv, NEW n \in Nat, eputc(n) PROVE TyEchoed
<1>1. TY_EBUFLEN \in Nat \ {0} BY TyConstants
<1>2. tyetail \in 0..(TY_EBUFLEN - 1) BY DEF TyInv, TyTypeOK
<1>3. tyetail' = (tyetail + n) % TY_EBUFLEN /\ tyehead' = tyehead
      /\ uart' = (IF n > 0 THEN ttykickout(uart) ELSE uart)
  BY DEF eputc
<1>4. tyetail + n \in Int BY <1>1, <1>2
<1>5. tyetail' \in 0..(TY_EBUFLEN - 1) BY <1>3, <1>4, TyEchoLenIs DEF TyInv
<1>6. CASE n = 0
  <2>1. (tyetail + 0) % TY_EBUFLEN = tyetail BY <1>1, <1>2, RingPlaces
  <2>2. QED BY <1>3, <1>5, <1>6, <2>1 DEF TyEchoed
<1>7. CASE n # 0 BY <1>3, <1>5, <1>7 DEF TyEchoed
<1>8. QED BY <1>6, <1>7

LEMMA TyEchoCounts ==
    \A ch : echoch(ch) \in Nat /\ erase1(ch) \in Nat
  BY DEF echoch, erase1

LEMMA TyQuietIs == ASSUME TyInv, TyQuiet PROVE TyEdits /\ TyEchoed /\ TyFaults
<1>1. tyehead' = tyehead /\ tyetail' = tyetail /\ UNCHANGED <<tyinput, uart, tyfault>>
  BY DEF TyQuiet, tyechoes
<1>2. tyetail \in 0..(TY_EBUFLEN - 1) BY DEF TyInv, TyTypeOK
<1>3. QED BY <1>1, <1>2 DEF TyEdits, TyEchoed, TyFaults

LEMMA TyEchoesOnly ==
    ASSUME TyInv, NEW n \in Nat, eputc(n), tyfault' = tyfault \cup TyLapped(n), UNCHANGED tyinput
    PROVE  TyEdits /\ TyEchoed /\ TyFaults
<1>1. TyEchoed BY TyEputc
<1>2. TyFaults BY TyFaultsAre DEF TyFaults
<1>3. QED BY <1>1, <1>2 DEF TyEdits

LEMMA TyAcceptIs ==
    ASSUME TyInv, NEW c \in TyChars, NEW wrap, NEW n \in Nat, NEW cursor \in Nat,
           cursor + n = tyicursor + 1, NEW echo \in Nat, TyAccept(c, wrap, n, cursor, echo)
    PROVE  TyEdits /\ TyEchoed /\ TyFaults
<1>1. /\ TyStore(c, wrap) /\ eputc(echo) /\ tyisem' = VN(tyisem, n) /\ tyicursor' = cursor
      /\ tyfault' = tyfault \cup TyStoreFault \cup TyLapped(echo)
  BY DEF TyAccept
<1>2. TyEchoed BY <1>1, TyEputc
<1>3. TyFaults BY <1>1, TyFaultsAre DEF TyFaults
<1>4. TyStores(c, wrap, n, cursor) BY <1>1 DEF TyStores
<1>5. QED BY <1>2, <1>3, <1>4 DEF TyEdits

LEMMA TyEraseIs ==
    ASSUME TyInv, NEW n \in 0..tyicursor, NEW m \in Nat, eputc(m), tyfault' = tyfault \cup TyLapped(m),
           tyitail' = Back(n), tyicursor' = tyicursor - n,
           tystored' = SubSeq(tystored, 1, Len(tystored) - n), UNCHANGED <<tyibuff, tyihead, tyisem>>
    PROVE  TyEdits /\ TyEchoed /\ TyFaults
<1>1. TyEchoed BY TyEputc
<1>2. TyFaults BY TyFaultsAre DEF TyFaults
<1>3. TyErases(n) BY DEF TyErases
<1>4. QED BY <1>1, <1>2, <1>3 DEF TyEdits

LEMMA TyHandles ==
    ASSUME TyInv, NEW ch \in TyChars, ttyhandle_in(ch)
    PROVE  TyEdits /\ TyEchoed /\ TyFaults /\ tyoheld' \in BOOLEAN
<1>1. tyicursor \in Nat /\ tyoheld \in BOOLEAN BY DEF TyInv, TyTypeOK
<1>2. PICK c \in TyChars : c = (IF ch = TY_RETURN THEN TY_NEWLINE ELSE ch)
  <2>1. TY_NEWLINE \in TyChars BY DEF TyChars
  <2>2. QED BY <2>1
<1>3. \A x : echoch(x) \in Nat /\ erase1(x) \in Nat BY TyEchoCounts
<1>4. 1 \in Nat /\ 0 \in Nat /\ tyicursor + 1 \in Nat BY <1>1
<1>5. ASSUME rawIn(ch) PROVE TyEdits /\ TyEchoed /\ TyFaults
  <2>1. TyQuiet \/ TyAccept(ch, TRUE, 1, tyicursor, 0) BY <1>5 DEF rawIn
  <2>2. QED BY <1>1, <1>4, <2>1, TyQuietIs, TyAcceptIs
<1>6. ASSUME Bell PROVE TyEdits /\ TyEchoed /\ TyFaults
  BY <1>4, <1>6, TyEchoesOnly DEF Bell
<1>7. ASSUME cbreakIn(c) PROVE TyEdits /\ TyEchoed /\ TyFaults
  <2>1. Bell \/ TyAccept(c, TRUE, 1, tyicursor, echoch(c)) BY <1>7 DEF cbreakIn
  <2>2. PICK m \in Nat : m = echoch(c) BY <1>3
  <2>3. QED BY <1>1, <1>4, <1>6, <2>1, <2>2, TyAcceptIs
<1>8. ASSUME lineKill PROVE TyEdits /\ TyEchoed /\ TyFaults
  <2>1. /\ tyitail' = Back(tyicursor) /\ tyicursor' = 0
        /\ tystored' = SubSeq(tystored, 1, Len(tystored) - tyicursor)
        /\ eputc(2) /\ tyfault' = tyfault \cup TyLapped(2)
        /\ UNCHANGED <<tyibuff, tyihead, tyisem>>
    BY <1>8 DEF lineKill
  <2>2. tyicursor \in 0..tyicursor /\ tyicursor' = tyicursor - tyicursor /\ 2 \in Nat BY <1>1, <2>1
  <2>3. QED BY <2>1, <2>2, TyEraseIs
<1>9. ASSUME eraseChar PROVE TyEdits /\ TyEchoed /\ TyFaults
  <2>1. CASE tyicursor = 0 BY <1>9, <2>1, TyQuietIs DEF eraseChar
  <2>2. CASE tyicursor # 0
    <3>1. PICK n \in Nat : n = erase1(tyibuff[Back(1)]) BY <1>3
    <3>2. /\ tyitail' = Back(1) /\ tyicursor' = tyicursor - 1
          /\ tystored' = SubSeq(tystored, 1, Len(tystored) - 1)
          /\ eputc(n) /\ tyfault' = tyfault \cup TyLapped(n)
          /\ UNCHANGED <<tyibuff, tyihead, tyisem>>
      BY <1>9, <2>2, <3>1 DEF eraseChar
    <3>3. 1 \in 0..tyicursor BY <1>1, <2>2
    <3>4. QED BY <3>2, <3>3, TyEraseIs
  <2>3. QED BY <2>1, <2>2
<1>10. ASSUME cookedIn(c) PROVE TyEdits /\ TyEchoed /\ TyFaults
  <2>1. PICK m \in Nat : m = echoch(c) BY <1>3
  <2>2. \/ lineKill \/ eraseChar \/ Bell
        \/ TyAccept(c, TRUE, tyicursor + 1, 0, m)
        \/ TyAccept(c, TRUE, 0, tyicursor + 1, m)
        \/ eputc(m) /\ tyfault' = tyfault \cup TyLapped(m) /\ UNCHANGED tyinput
        \/ tyicursor = 0 /\ TyAccept(c, FALSE, 1, 0, m)
    BY <1>10, <2>1 DEF cookedIn
  <2>3. CASE TyAccept(c, TRUE, tyicursor + 1, 0, m)
    <3>1. 0 + (tyicursor + 1) = tyicursor + 1 BY <1>1
    <3>2. QED BY <1>4, <2>3, <3>1, TyAcceptIs
  <2>4. CASE TyAccept(c, TRUE, 0, tyicursor + 1, m)
    <3>1. (tyicursor + 1) + 0 = tyicursor + 1 BY <1>1
    <3>2. QED BY <1>4, <2>4, <3>1, TyAcceptIs
  <2>5. CASE eputc(m) /\ tyfault' = tyfault \cup TyLapped(m) /\ UNCHANGED tyinput
    BY <2>5, TyEchoesOnly
  <2>6. CASE tyicursor = 0 /\ TyAccept(c, FALSE, 1, 0, m)
    <3>1. 0 + 1 = tyicursor + 1 BY <2>6
    <3>2. QED BY <1>4, <2>6, <3>1, TyAcceptIs
  <2>7. QED BY <1>6, <1>8, <1>9, <2>2, <2>3, <2>4, <2>5, <2>6
<1>11. CASE tyimode = "RAW" /\ rawIn(ch) /\ UNCHANGED tyoheld BY <1>1, <1>5, <1>11
<1>12. CASE /\ tyimode # "RAW" /\ c = TY_STRTCH
            /\ tyoheld' = FALSE /\ uart' = ttykickout(uart)
            /\ UNCHANGED <<tyinput, tyechoes, tyfault>>
  <2>1. tyetail \in 0..(TY_EBUFLEN - 1) BY DEF TyInv, TyTypeOK
  <2>2. TyEchoed BY <1>12, <2>1 DEF TyEchoed, tyechoes
  <2>3. QED BY <1>12, <2>2 DEF TyEdits, TyFaults
<1>13. CASE tyimode # "RAW" /\ c = TY_STOPCH /\ tyoheld' = TRUE /\ TyQuiet BY <1>13, TyQuietIs
<1>14. CASE /\ tyimode # "RAW" /\ c \notin {TY_STRTCH, TY_STOPCH}
            /\ tyoheld' = FALSE
            /\ IF tyimode = "CBREAK" THEN cbreakIn(c) ELSE cookedIn(c)
  BY <1>7, <1>10, <1>14
<1>15. QED BY <1>2, <1>11, <1>12, <1>13, <1>14 DEF ttyhandle_in

\* The tail goes back by n places, also one that was not wrapped.
LEMMA RingBack ==
    ASSUME NEW N \in Nat \ {0}, NEW h \in 0..(N - 1), NEW c \in 0..N, NEW n \in 0..c,
           NEW t \in 0..N, t % N = (h + c) % N,
           NEW b, b = (IF t - n < 0 THEN N ELSE 0) + t - n
    PROVE  b \in 0..N /\ b % N = (h + (c - n)) % N
<1>1. \A x \in Nat : x < 2 * N => x % N = IF x < N THEN x ELSE x - N BY RingWrap
<1>2. t \in Nat /\ t < 2 * N /\ h + c \in Nat /\ h + c < 2 * N OBVIOUS
<1>3. /\ t % N = (IF t < N THEN t ELSE t - N)
      /\ (h + c) % N = (IF h + c < N THEN h + c ELSE h + c - N)
  BY <1>1, <1>2
<1>4. b \in 0..N OBVIOUS
<1>5. b < 2 * N /\ h + (c - n) \in Nat /\ h + (c - n) < 2 * N BY <1>4
<1>6. /\ b % N = (IF b < N THEN b ELSE b - N)
      /\ (h + (c - n)) % N = (IF h + (c - n) < N THEN h + (c - n) ELSE h + (c - n) - N)
  BY <1>1, <1>4, <1>5
<1>7. (IF t < N THEN t ELSE t - N) = (IF h + c < N THEN h + c ELSE h + c - N) BY <1>3
<1>8. (IF b < N THEN b ELSE b - N) = (IF h + (c - n) < N THEN h + (c - n) ELSE h + (c - n) - N)
  BY <1>7
<1>9. QED BY <1>4, <1>6, <1>8

LEMMA TyStoresInput ==
    ASSUME TyInv, NEW c, NEW wrap, NEW n, NEW cursor, TyStores(c, wrap, n, cursor), TyFaults,
           TyClients(TyReading)' = TyClients(TyReading)
    PROVE  TyInput' /\ tyisem' \in SemRecords(TyProcs) /\ tyicursor' \in Nat
           /\ Serving(tyisem', TyClients(TyReading)')
<1>1. /\ c \in TyChars /\ n \in Nat /\ cursor \in Nat /\ cursor + n = tyicursor + 1
      /\ TyStore(c, wrap) /\ tyisem' = VN(tyisem, n) /\ tyicursor' = cursor
      /\ TyStoreFault \subseteq tyfault'
  BY DEF TyStores
<1>2. PICK C : C = TyClients(TyReading) /\ IsFiniteSet(C) BY TyClientsFinite
<1>3. tyisem \in SemRecords(TyProcs) /\ Serving(tyisem, C) /\ tyicursor \in Nat
  BY <1>2 DEF TyInv, TyTypeOK, TyServed
<1>4. GivenN(tyisem, C, TyProcs, n) BY <1>1, <1>2, <1>3, TakenVN
<1>5. /\ tyisem' \in SemRecords(TyProcs) /\ Serving(tyisem', C)
      /\ Taken(tyisem', C) = Taken(tyisem, C) + n
  BY <1>1, <1>4 DEF GivenN
<1>6. ASSUME tyfault' \cap TyInputFaults = {}
      PROVE  /\ tyibuff' \in [0..(TY_IBUFLEN - 1) -> TyChars] /\ tystored' \in Seq(TyChars)
             /\ tyitail' \in 0..TY_IBUFLEN
             /\ RingHas(tyibuff', TY_IBUFLEN, tyihead', tyitail' % TY_IBUFLEN, tystored')
             /\ Len(tystored') = tyicursor' + Taken(tyisem', C)
  <2>1. tyfault \cap TyInputFaults = {} BY <1>6 DEF TyFaults
  <2>2. /\ tyibuff \in [0..(TY_IBUFLEN - 1) -> TyChars] /\ tystored \in Seq(TyChars)
        /\ tyitail \in 0..TY_IBUFLEN
        /\ RingHas(tyibuff, TY_IBUFLEN, tyihead, tyitail % TY_IBUFLEN, tystored)
        /\ Len(tystored) = tyicursor + Taken(tyisem, C)
    BY <1>2, <2>1 DEF TyInv, TyInput
  <2>3. PICK N \in Nat \ {0} : N = TY_IBUFLEN BY TyConstants
  <2>4. tyitail < N /\ Len(tystored) < N
    <3>1. ~(tyitail >= N) /\ ~(Len(tystored) >= N)
      <4>1. TyStoreFault \cap TyInputFaults = {} BY <1>1, <1>6
      <4>2. tyitail >= N => "semaphore_overwritten" \in TyStoreFault BY <2>3 DEF TyStoreFault
      <4>3. Len(tystored) >= N => "unread_overwritten" \in TyStoreFault BY <2>3 DEF TyStoreFault
      <4>4. QED BY <4>1, <4>2, <4>3 DEF TyInputFaults
    <3>2. tyitail \in Int /\ Len(tystored) \in Nat BY <2>2, <2>3
    <3>3. QED BY <2>3, <3>1, <3>2
  <2>5. tyitail \in 0..(N - 1) BY <2>2, <2>3, <2>4
  <2>6. \A x \in Nat : x < 2 * N => x % N = IF x < N THEN x ELSE x - N BY RingWrap
  <2>7. tyitail \in Nat /\ tyitail < 2 * N /\ tyitail + 1 \in Nat /\ tyitail + 1 < 2 * N /\ 0 < 2 * N
    BY <2>5
  <2>8. /\ tyitail % N = tyitail /\ 0 % N = 0
        /\ (tyitail + 1) % N = (IF tyitail + 1 < N THEN tyitail + 1 ELSE tyitail + 1 - N)
    <3>1. PICK x \in Nat : x = tyitail BY <2>7
    <3>2. PICK y \in Nat : y = tyitail + 1 BY <2>7
    <3>3. x % N = (IF x < N THEN x ELSE x - N) BY <2>6, <2>7, <3>1
    <3>4. y % N = (IF y < N THEN y ELSE y - N) BY <2>6, <2>7, <3>2
    <3>5. 0 % N = (IF 0 < N THEN 0 ELSE 0 - N) BY <2>6, <2>7
    <3>6. 0 < N BY <2>3
    <3>7. QED BY <2>4, <3>1, <3>2, <3>3, <3>4, <3>5, <3>6
  <2>9. /\ RingHas([tyibuff EXCEPT ![tyitail] = c], N, tyihead, (tyitail + 1) % N, Append(tystored, c))
        /\ [tyibuff EXCEPT ![tyitail] = c] \in [0..(N - 1) -> TyChars]
    <3>1. RingHas(tyibuff, N, tyihead, tyitail, tystored) BY <2>2, <2>3, <2>8
    <3>2. tyibuff \in [0..(N - 1) -> TyChars] BY <2>2, <2>3
    <3>3. QED BY <1>1, <2>2, <2>4, <3>1, <3>2, RingHasPut
  <2>10. /\ tyibuff' = [tyibuff EXCEPT ![tyitail] = c] /\ tyihead' = tyihead
         /\ tyitail' = (IF wrap /\ tyitail + 1 >= N THEN 0 ELSE tyitail + 1)
         /\ tystored' = Append(tystored, c)
    BY <1>1, <2>3, <2>4 DEF TyStore
  <2>11. tyitail' \in 0..N /\ tyitail' % N = (tyitail + 1) % N
    <3>1. CASE wrap /\ tyitail + 1 >= N
      <4>1. tyitail' = 0 /\ tyitail + 1 = N BY <2>5, <2>10, <3>1
      <4>2. (tyitail + 1) % N = 0 BY <2>8, <4>1
      <4>3. QED BY <2>8, <4>1, <4>2
    <3>2. CASE ~(wrap /\ tyitail + 1 >= N)
      <4>1. tyitail' = tyitail + 1 BY <2>10, <3>2
      <4>2. QED BY <2>5, <4>1
    <3>3. QED BY <3>1, <3>2
  <2>12. tystored' \in Seq(TyChars) /\ Len(tystored') = Len(tystored) + 1
    BY <1>1, <2>2, <2>10
  <2>13. Len(tystored') = tyicursor' + Taken(tyisem', C)
    <3>1. PICK k \in Int : k = Taken(tyisem, C) BY <1>2, <1>3, TakenInt
    <3>2. PICK l \in Nat : l = Len(tystored) BY <2>2
    <3>3. l = tyicursor + k BY <2>2, <3>1, <3>2
    <3>4. Len(tystored') = l + 1 BY <2>12, <3>2
    <3>5. tyicursor' + n = tyicursor + 1 /\ tyicursor' \in Nat /\ n \in Nat BY <1>1
    <3>6. Taken(tyisem', C) = k + n BY <1>5, <3>1
    <3>7. PICK x, y \in Nat : x = tyicursor /\ y = tyicursor' BY <1>3, <3>5
    <3>8. l = x + k /\ y + n = x + 1 BY <3>3, <3>5, <3>7
    <3>9. l + 1 = y + (k + n) BY <3>5, <3>8
    <3>10. QED BY <3>4, <3>6, <3>7, <3>9
  <2>14. QED BY <2>3, <2>9, <2>10, <2>11, <2>12, <2>13
<1>7. TyInput'
  <2>1. TyClients(TyReading)' = C BY <1>2
  <2>2. QED BY <1>6, <2>1 DEF TyInput
<1>8. QED BY <1>1, <1>2, <1>5, <1>7

LEMMA TyErasesInput ==
    ASSUME TyInv, NEW n, TyErases(n), TyFaults, TyClients(TyReading)' = TyClients(TyReading)
    PROVE  TyInput' /\ tyisem' = tyisem /\ tyicursor' \in Nat
<1>1. /\ n \in 0..tyicursor /\ tyitail' = Back(n) /\ tyicursor' = tyicursor - n
      /\ tystored' = SubSeq(tystored, 1, Len(tystored) - n)
      /\ UNCHANGED <<tyibuff, tyihead, tyisem>>
  BY DEF TyErases
<1>2. PICK C : C = TyClients(TyReading) /\ IsFiniteSet(C) BY TyClientsFinite
<1>3. Serving(tyisem, C) /\ tyicursor \in Nat BY <1>2 DEF TyInv, TyTypeOK, TyServed
<1>4. ASSUME tyfault' \cap TyInputFaults = {}
      PROVE  /\ tyibuff' \in [0..(TY_IBUFLEN - 1) -> TyChars] /\ tystored' \in Seq(TyChars)
             /\ tyitail' \in 0..TY_IBUFLEN
             /\ RingHas(tyibuff', TY_IBUFLEN, tyihead', tyitail' % TY_IBUFLEN, tystored')
             /\ Len(tystored') = tyicursor' + Taken(tyisem', C)
  <2>1. tyfault \cap TyInputFaults = {} BY <1>4 DEF TyFaults
  <2>2. /\ tyibuff \in [0..(TY_IBUFLEN - 1) -> TyChars] /\ tystored \in Seq(TyChars)
        /\ tyitail \in 0..TY_IBUFLEN
        /\ RingHas(tyibuff, TY_IBUFLEN, tyihead, tyitail % TY_IBUFLEN, tystored)
        /\ Len(tystored) = tyicursor + Taken(tyisem, C)
    BY <1>2, <2>1 DEF TyInv, TyInput
  <2>3. PICK N \in Nat \ {0} : N = TY_IBUFLEN BY TyConstants
  <2>4. PICK l \in Nat : l = Len(tystored) BY <2>2
  <2>5. Taken(tyisem, C) \in Nat BY <1>2, <1>3, TakenNat
  <2>6. n \in 0..l BY <1>1, <1>3, <2>2, <2>4, <2>5
  <2>7. /\ RingHas(tyibuff, N, tyihead, (tyihead + (l - n)) % N, tystored')
        /\ tystored' \in Seq(TyChars) /\ Len(tystored') = l - n
    <3>1. RingHas(tyibuff, N, tyihead, tyitail % N, tystored) BY <2>2, <2>3
    <3>2. n \in 0..Len(tystored) BY <2>4, <2>6
    <3>3. /\ RingHas(tyibuff, N, tyihead, (tyihead + (Len(tystored) - n)) % N,
                   SubSeq(tystored, 1, Len(tystored) - n))
          /\ SubSeq(tystored, 1, Len(tystored) - n) \in Seq(TyChars)
          /\ Len(SubSeq(tystored, 1, Len(tystored) - n)) = Len(tystored) - n
      BY <2>2, <3>1, <3>2, RingHasDrop
    <3>4. QED BY <1>1, <2>4, <3>3
  <2>8. PICK b : b = (IF tyitail - n < 0 THEN N ELSE 0) + tyitail - n OBVIOUS
  <2>9. b \in 0..N /\ b % N = (tyihead + (l - n)) % N
    <3>1. tyihead \in 0..(N - 1) /\ l \in 0..N /\ tyitail % N = (tyihead + l) % N
      BY <2>2, <2>3, <2>4 DEF RingHas
    <3>2. tyitail \in 0..N BY <2>2, <2>3
    <3>3. PICK h \in 0..(N - 1) : h = tyihead BY <3>1
    <3>4. PICK t \in 0..N : t = tyitail BY <3>2
    <3>5. t % N = (h + l) % N BY <3>1, <3>3, <3>4
    <3>6. b = (IF t - n < 0 THEN N ELSE 0) + t - n BY <2>8, <3>4
    <3>7. b \in 0..N /\ b % N = (h + (l - n)) % N BY <2>6, <3>1, <3>5, <3>6, RingBack
    <3>8. QED BY <3>3, <3>7
  <2>10. tyitail' = b BY <1>1, <2>3, <2>8 DEF Back
  <2>11. Len(tystored') = tyicursor' + Taken(tyisem', C)
    <3>1. tyisem' = tyisem BY <1>1
    <3>2. QED BY <1>1, <1>3, <2>2, <2>4, <2>5, <2>6, <2>7, <3>1
  <2>12. QED BY <1>1, <2>2, <2>3, <2>7, <2>9, <2>10, <2>11
<1>5. TyInput'
  <2>1. TyClients(TyReading)' = C BY <1>2
  <2>2. QED BY <1>4, <2>1 DEF TyInput
<1>6. tyicursor' \in Nat BY <1>1, <1>3
<1>7. QED BY <1>1, <1>5, <1>6

LEMMA TyTypedStep == ASSUME TyInv, NEW ch \in tybudget.chars, TtyTyped(ch) PROVE TyInv'
<1>1. /\ tyrun = NoProc /\ tybudget' = [tybudget EXCEPT !.typed = @ - 1] /\ ttyhandle_in(ch)
      /\ UNCHANGED <<tyoutput, tyimode, tyiecho, typc, tyrun>>
  BY DEF TtyTyped
<1>2. tybudget \in [typed : Int, written : Int, control : Int, chars : SUBSET TyChars]
  BY DEF TyInv, TyTypeOK
<1>3. ch \in TyChars BY <1>2
<1>4. tybudget' \in [typed : Int, written : Int, control : Int, chars : SUBSET TyChars]
  BY <1>1, <1>2
<1>5. TyEdits /\ TyEchoed /\ TyFaults /\ tyoheld' \in BOOLEAN BY <1>1, <1>3, TyHandles
<1>6. \A ops : TyClients(ops)' = TyClients(ops) BY <1>1 DEF TyClients
<1>7. tyosem' = tyosem BY <1>1 DEF tyoutput
<1>8. uart' \in [busy : BOOLEAN, thre : BOOLEAN, on : BOOLEAN] /\ TyEnabled'
  <2>1. uart \in [busy : BOOLEAN, thre : BOOLEAN, on : BOOLEAN] /\ TyEnabled
    BY DEF TyInv, TyTypeOK
  <2>2. CASE uart' = uart BY <2>1, <2>2 DEF TyEnabled
  <2>3. CASE uart' = ttykickout(uart) BY <2>1, <2>3, TyKickout DEF TyEnabled
  <2>4. QED BY <1>5, <2>2, <2>3 DEF TyEchoed
<1>9. /\ TyInput' /\ tyisem' \in SemRecords(TyProcs) /\ tyicursor' \in Nat
      /\ Serving(tyisem', TyClients(TyReading)')
  <2>1. /\ tyisem \in SemRecords(TyProcs) /\ tyicursor \in Nat
        /\ Serving(tyisem, TyClients(TyReading))
    BY DEF TyInv, TyTypeOK, TyServed
  <2>2. CASE UNCHANGED tyinput
    <3>1. TyInput' BY <1>5, <1>6, <2>2, TyInputKept DEF TyInv, TyFaults
    <3>2. QED BY <1>6, <2>1, <2>2, <3>1 DEF tyinput
  <2>3. ASSUME NEW c, NEW wrap, NEW n, NEW cursor, TyStores(c, wrap, n, cursor)
        PROVE  /\ TyInput' /\ tyisem' \in SemRecords(TyProcs) /\ tyicursor' \in Nat
               /\ Serving(tyisem', TyClients(TyReading)')
    BY <1>5, <1>6, <2>3, TyStoresInput
  <2>4. ASSUME NEW n, TyErases(n)
        PROVE  /\ TyInput' /\ tyisem' \in SemRecords(TyProcs) /\ tyicursor' \in Nat
               /\ Serving(tyisem', TyClients(TyReading)')
    <3>1. TyInput' /\ tyisem' = tyisem /\ tyicursor' \in Nat BY <1>5, <1>6, <2>4, TyErasesInput
    <3>2. QED BY <1>6, <2>1, <3>1
  <2>5. QED BY <1>5, <2>2, <2>3, <2>4 DEF TyEdits
<1>10. TyTypeOK'
  <2>1. tyehead' \in 0..(TY_EBUFLEN - 1) /\ tyetail' \in 0..(TY_EBUFLEN - 1)
    BY <1>5 DEF TyEchoed, TyInv, TyTypeOK
  <2>2. QED BY <1>1, <1>4, <1>5, <1>7, <1>8, <1>9, <2>1 DEF TyInv, TyTypeOK
<1>11. TyServed'
  <2>1. Serving(tyosem', TyClients({"write"})') BY <1>6, <1>7 DEF TyInv, TyServed
  <2>2. tyrun' = NoProc BY <1>1
  <2>3. QED BY <1>7, <1>9, <2>1, <2>2 DEF TyInv, TyServed
<1>12. TyOutput'
  <2>1. "unwritten_sent" \notin tyfault' => "unwritten_sent" \notin tyfault
    BY <1>5 DEF TyFaults
  <2>2. TyClients({"write"})' = TyClients({"write"}) BY <1>6
  <2>3. tyfault \subseteq tyfault' BY <1>5 DEF TyFaults
  <2>4. QED BY <1>1, <2>2, <2>3, TyOutputKept DEF TyInv
<1>13. QED BY <1>8, <1>9, <1>10, <1>11, <1>12 DEF TyInv
-----------------------------------------------------------------------------
LEMMA TyNextStep == TyInv /\ [TtyNext]_tyvars => TyInv'
<1> SUFFICES ASSUME TyInv, [TtyNext]_tyvars PROVE TyInv' OBVIOUS
<1>1. ASSUME NEW ch \in tybudget.chars, TtyTyped(ch) PROVE TyInv' BY <1>1, TyTypedStep
<1>2. CASE ttyhandle_out BY <1>2, TyOutStep
<1>3. CASE UartSends BY <1>3, TyUartStep
<1>4. ASSUME NEW p \in TyReaders, NEW n \in TyReads, ttyread(p, n) PROVE TyInv'
  BY <1>4, TyReadStep
<1>5. ASSUME NEW p \in TyReaders, ttygetc(p) \/ ttynextc(p) \/ ttynextcRest(p) PROVE TyInv'
  BY <1>5, TyGetcStep, TyNextcStep, TyNextcRestStep
<1>6. ASSUME NEW p \in TyWriters, NEW text \in TyTexts, ttywrite(p, OutText(text)) PROVE TyInv'
  BY <1>6, TyWriteStep
<1>7. ASSUME NEW p \in TyWriters, ttyputc(p) PROVE TyInv' BY <1>7, TyPutcStep
<1>8. ASSUME NEW p \in TyProcs, TyWait(p) PROVE TyInv' BY <1>8, TyWaitStep
<1>9. ASSUME NEW mode, NEW echo, ttycontrol(mode, echo) PROVE TyInv' BY <1>9, TyControlStep
<1>10. CASE UNCHANGED tyvars
  <2>1. UNCHANGED <<tyinput, tyoutput, tyechoes, tyoheld, tyimode, tyiecho, uart, typc,
                    tyrun, tybudget, tyfault>>
    BY <1>10 DEF tyvars
  <2>2. TyTypeOK' BY <2>1 DEF TyInv, TyTypeOK, tyinput, tyoutput, tyechoes
  <2>3. TyServed' BY <2>1, TyServedKept DEF TyInv, tyinput, tyoutput
  <2>4. TyEnabled' BY <2>1 DEF TyInv, TyEnabled
  <2>5. \A ops : TyClients(ops)' = TyClients(ops) BY <2>1 DEF TyClients
  <2>6. TyInput' BY <2>1, <2>5, TyInputKept DEF TyInv
  <2>7. TyOutput' BY <2>1, <2>5, TyOutputKept DEF TyInv
  <2>8. QED BY <2>2, <2>3, <2>4, <2>6, <2>7 DEF TyInv
<1>11. QED
  BY <1>1, <1>2, <1>3, <1>4, <1>5, <1>6, <1>7, <1>8, <1>9, <1>10 DEF TtyNext, TyProcs

LEMMA TyAlways == TtySpec => []TyInv
<1>1. TyInv /\ [TtyNext]_tyvars => TyInv' BY TyNextStep
<1>2. QED BY TyInit, <1>1, PTL DEF TtySpec

\* What the buffers hold, between the tail and the head, is what was accepted
\* and not read and what was written and not sent, in order, and the
\* semaphores count it: as long as no character has been stored over another
\* one, and none sent that was not there (ttyhandle_in.c, ttygetc.c, ttyputc.c,
\* ttyhandle_out.c).
THEOREM TtyBuffersAreIntact == TtySpec => []TtyBuffersIntact
<1>1. TyInv => TtyBuffersIntact
  <2> SUFFICES ASSUME TyInv PROVE TtyBuffersIntact OBVIOUS
  <2>1. /\ TyPassed(TyReading) = Awake(tyisem, TyClients(TyReading))
        /\ TyPassed({"write"}) = Awake(tyosem, TyClients({"write"}))
    BY TyWaiters DEF TyInv
  <2>2. InputIntact
    <3> SUFFICES ASSUME tyfault \cap TyInputFaults = {}
                 PROVE  /\ \A i \in 1..Len(tystored) :
                              tyibuff[(tyihead + i - 1) % TY_IBUFLEN] = tystored[i]
                        /\ Len(tystored) = tyicursor + tyisem.val
                              + Cardinality(TyPassed({"line", "read", "nextc"}))
                        /\ (tyihead + Len(tystored)) % TY_IBUFLEN = tyitail % TY_IBUFLEN
      BY DEF InputIntact
    <3>1. /\ RingHas(tyibuff, TY_IBUFLEN, tyihead, tyitail % TY_IBUFLEN, tystored)
          /\ Len(tystored) = tyicursor + Taken(tyisem, TyClients(TyReading))
      BY DEF TyInv, TyInput
    <3>2. PICK n : n = Cardinality(Awake(tyisem, TyClients(TyReading))) OBVIOUS
    <3>3. n \in Nat /\ Taken(tyisem, TyClients(TyReading)) = tyisem.val + n
      BY <3>2, TyClientsFinite, AwakeFinite DEF Taken
    <3>4. Cardinality(TyPassed({"line", "read", "nextc"})) = n BY <2>1, <3>2 DEF TyReading
    <3>5. tyicursor \in Nat /\ tyisem.val \in Int BY DEF TyInv, TyTypeOK, SemRecords
    <3>6. Len(tystored) = tyicursor + tyisem.val + n BY <3>1, <3>3, <3>5
    <3>7. QED BY <3>1, <3>4, <3>6 DEF RingHas
  <2>3. OutputIntact
    <3> SUFFICES ASSUME "unwritten_sent" \notin tyfault
                 PROVE  /\ \A i \in 1..Len(tyout) :
                              tyobuff[(tyohead + i - 1) % TY_OBUFLEN] = tyout[i]
                        /\ Len(tyout) + tyosem.val + Cardinality(TyPassed({"write"})) = TY_OBUFLEN
                        /\ (tyohead + Len(tyout)) % TY_OBUFLEN = tyotail
      BY DEF OutputIntact
    <3>1. /\ RingHas(tyobuff, TY_OBUFLEN, tyohead, tyotail, tyout) /\ tyout \in Seq(TyChars)
          /\ Len(tyout) + Taken(tyosem, TyClients({"write"})) = TY_OBUFLEN
      BY DEF TyInv, TyOutput
    <3>2. PICK n : n = Cardinality(Awake(tyosem, TyClients({"write"}))) OBVIOUS
    <3>3. n \in Nat /\ Taken(tyosem, TyClients({"write"})) = tyosem.val + n
      BY <3>2, TyClientsFinite, AwakeFinite DEF Taken
    <3>4. Cardinality(TyPassed({"write"})) = n BY <2>1, <3>2
    <3>5. Len(tyout) \in Nat /\ tyosem.val \in Int BY <3>1 DEF TyInv, TyTypeOK, SemRecords
    <3>6. Len(tyout) + tyosem.val + n = TY_OBUFLEN BY <3>1, <3>3, <3>5
    <3>7. QED BY <3>1, <3>4, <3>6 DEF RingHas
  <2>4. QED BY <2>2, <2>3 DEF TtyBuffersIntact
<1>2. QED BY <1>1, TyAlways, PTL
-----------------------------------------------------------------------------
LEMMA TyAsks ==
    ASSUME TyInv, uart' = ttykickout(uart) PROVE TyUnderWay'
<1>1. uart \in [busy : BOOLEAN, thre : BOOLEAN, on : BOOLEAN] BY DEF TyInv, TyTypeOK
<1>2. uart'.on /\ (uart'.thre \/ uart'.busy) BY <1>1 DEF ttykickout
<1>3. QED BY <1>2 DEF TyUnderWay

LEMMA TyStaysStalled ==
    ASSUME UNCHANGED <<uart, tyout, tyehead, tyetail>>,
           "unwritten_sent" \in tyfault => "unwritten_sent" \in tyfault',
           TyStalled', ~tyoheld
    PROVE  TyStalled
<1>1. TyEchoLen' = TyEchoLen BY DEF TyEchoLen
<1>2. TyPending BY <1>1 DEF TyStalled, TyPending
<1>3. ~TyUnderWay BY DEF TyStalled, TyUnderWay
<1>4. QED BY <1>2, <1>3 DEF TyStalled

\* With nothing to send there is nothing in the buffer: a writer that was let
\* through, or is not yet in the buffer, counts.
LEMMA TyNothingPends == ASSUME TyInv, NothingToSend PROVE ~TyPending
<1>1. TyEchoLen = 0 /\ semcount(tyosem) >= TY_OBUFLEN BY DEF NothingToSend
<1>2. ASSUME "unwritten_sent" \notin tyfault PROVE tyout = << >>
  <2>1. PICK C : C = TyClients({"write"}) /\ IsFiniteSet(C) BY TyClientsFinite
  <2>2. tyout \in Seq(TyChars) /\ Len(tyout) + Taken(tyosem, C) = TY_OBUFLEN
    BY <1>2, <2>1 DEF TyInv, TyOutput
  <2>3. PICK n \in Nat : n = Cardinality(Awake(tyosem, C)) BY <2>1, AwakeFinite
  <2>4. tyosem.val \in Int /\ tyosem.queue \in Seq(TyProcs)
    BY DEF TyInv, TyTypeOK, SemRecords
  <2>5. PICK l \in Nat : l = Len(tyosem.queue) BY <2>4
  <2>6. semcount(tyosem) = (IF tyosem.queue # << >> THEN -l ELSE tyosem.val)
    BY <2>5 DEF semcount
  <2>7. PICK N \in Nat \ {0} : N = TY_OBUFLEN BY TyConstants
  <2>8. tyosem.queue = << >> /\ tyosem.val >= N BY <1>1, <2>4, <2>6, <2>7
  <2>9. PICK m \in Nat : m = Len(tyout) BY <2>2
  <2>10. m + (tyosem.val + n) = N BY <2>2, <2>3, <2>7, <2>9 DEF Taken
  <2>11. m = 0 BY <2>4, <2>8, <2>10
  <2>12. \A t \in Seq(TyChars) : Len(t) = 0 => t = << >> OBVIOUS
  <2>13. QED BY <2>2, <2>9, <2>11, <2>12
<1>3. QED BY <1>1, <1>2 DEF TyPending

LEMMA TyFlows == TyInv /\ [TtyNext]_tyvars => (TyStalled' => TyStalled \/ tyoheld)
<1> SUFFICES ASSUME TyInv, [TtyNext]_tyvars, TyStalled', ~tyoheld PROVE TyStalled OBVIOUS
<1>1. ~TyUnderWay' /\ TyPending' BY DEF TyStalled
<1>2. ASSUME NEW ch \in tybudget.chars, TtyTyped(ch) PROVE TyStalled
  <2>1. ch \in TyChars BY DEF TyInv, TyTypeOK
  <2>2. TyEchoed /\ TyFaults BY <1>2, <2>1, TyHandles DEF TtyTyped
  <2>3. tyout' = tyout BY <1>2 DEF TtyTyped, tyoutput
  <2>4. UNCHANGED <<uart, tyehead, tyetail>> BY <1>1, <2>2, TyAsks DEF TyEchoed
  <2>5. QED BY <2>2, <2>3, <2>4, TyStaysStalled DEF TyFaults
<1>3. CASE ttyhandle_out
  <2>1. CASE /\ ~tyoheld /\ NothingToSend
             /\ UNCHANGED <<tyoutput, tyechoes, tyfault>>
    <3>1. ~TyPending BY <2>1, TyNothingPends
    <3>2. TyEchoLen' = TyEchoLen BY <2>1 DEF TyEchoLen, tyechoes
    <3>3. ~TyPending' BY <2>1, <3>1, <3>2 DEF TyPending, tyoutput
    <3>4. QED BY <1>1, <3>3
  <2>2. CASE transmit
    <3>1. uart \in [busy : BOOLEAN, thre : BOOLEAN, on : BOOLEAN] /\ uart.on
      BY <1>3 DEF ttyhandle_out, TyInv, TyTypeOK, TyEnabled
    <3>2. uart' = [uart EXCEPT !.busy = TRUE, !.thre = FALSE] BY <2>2 DEF transmit
    <3>3. TyUnderWay' BY <3>1, <3>2 DEF TyUnderWay
    <3>4. QED BY <1>1, <3>3
  <2>3. QED BY <1>3, <2>1, <2>2 DEF ttyhandle_out
<1>4. CASE UartSends
  <2>1. UNCHANGED <<tyoutput, tyechoes, tyfault>> /\ uart.busy
        /\ uart' = [uart EXCEPT !.busy = FALSE, !.thre = @ \/ uart.on]
    BY <1>4 DEF UartSends
  <2>2. uart \in [busy : BOOLEAN, thre : BOOLEAN, on : BOOLEAN] BY DEF TyInv, TyTypeOK
  <2>3. uart'.thre <=> uart.thre \/ uart.on BY <2>1, <2>2
  <2>4. ~TyUnderWay BY <1>1, <2>3 DEF TyUnderWay
  <2>5. TyEchoLen' = TyEchoLen BY <2>1 DEF TyEchoLen, tyechoes
  <2>6. TyPending BY <1>1, <2>1, <2>5 DEF TyPending, tyoutput
  <2>7. QED BY <2>4, <2>6 DEF TyStalled
<1>5. ASSUME NEW p, ttyputc(p) PROVE TyStalled
  <2>1. uart' = ttykickout(uart) BY <1>5 DEF ttyputc
  <2>2. QED BY <1>1, <2>1, TyAsks
<1>6. ASSUME UNCHANGED <<uart, tyout, tyehead, tyetail, tyfault>> PROVE TyStalled
  BY <1>6, TyStaysStalled
<1>7. ASSUME NEW p, NEW n, ttyread(p, n) PROVE TyStalled
  BY <1>6, <1>7 DEF ttyread, TyCall, tyoutput, tyechoes
<1>8. ASSUME NEW p, ttygetc(p) \/ ttynextc(p) \/ ttynextcRest(p) PROVE TyStalled
  BY <1>6, <1>8 DEF ttygetc, ttynextc, ttynextcRest, TyCall, tyoutput, tyechoes
<1>9. ASSUME NEW p, NEW text, ttywrite(p, text) PROVE TyStalled
  BY <1>6, <1>9 DEF ttywrite, TyCall, tyoutput, tyechoes
<1>10. ASSUME NEW p, TyWait(p) PROVE TyStalled
  BY <1>6, <1>10 DEF TyWait, tyechoes
<1>11. ASSUME NEW mode, NEW echo, ttycontrol(mode, echo) PROVE TyStalled
  BY <1>6, <1>11 DEF ttycontrol, tyoutput, tyechoes
<1>12. CASE UNCHANGED tyvars BY <1>6, <1>12 DEF tyvars, tyoutput, tyechoes
<1>13. QED BY <1>2, <1>3, <1>4, <1>5, <1>7, <1>8, <1>9, <1>10, <1>11, <1>12 DEF TtyNext

\* No step leaves output that is to be sent without a transmitter that is busy
\* or will interrupt, unless it was so before or the output was held: whoever
\* puts a character in a buffer asks for the interrupt (ttykickout.c), and the
\* handler turns it off only with both buffers empty (ttyhandle_out.c:31).
THEOREM OutputKeepsFlowing == TtySpec => OutputFlows
<1>1. TyInv /\ [TtyNext]_tyvars => [TyStalled' => TyStalled \/ tyoheld]_tyvars BY TyFlows
<1>2. QED BY <1>1, TyAlways, PTL DEF TtySpec, OutputFlows
-----------------------------------------------------------------------------
\* The Ethernet driver.  How far x is from h, going round a ring of N places,
\* and the place that is d places from h.
Away(N, h, x) == IF x >= h THEN x - h ELSE x - h + N
Place(N, h, d) == IF h + d < N THEN h + d ELSE h + d - N

\* Who waits for a packet or for a descriptor, or has been let through.
EthReading == IF rxpc = "copy" THEN {EthReader} ELSE {}
EthWriting == {w \in EthWriters : txpc[w].at = "fill"}
EthRxSlots == 0..(EthRxSize - 1)

\* The shape of the state.
RxRings == [full : SUBSET EthRxSlots, head : EthRxSlots, tail : EthRxSlots,
            rdh : EthRxSlots, rdt : EthRxSlots]
TxRings == [done : SUBSET EthSlots, head : EthSlots, tail : EthSlots, tdh : EthSlots,
            tdt : EthSlots, sent : [EthSlots -> EthWriters \cup {"none"}]]
EthRxType ==
    rx \in RxRings /\ isem \in SemRecords({EthReader}) /\ Serving(isem, EthReading)
EthTxType ==
    /\ tx \in TxRings /\ txpc \in [EthWriters -> [at : {"idle", "fill", "advance"}, slot : EthSlots]]
    /\ osem \in SemRecords(EthWriters) /\ Serving(osem, EthWriting)

\* Nothing is received before the receiver is enabled, and nothing read or
\* written before the driver is up.
EthFresh ==
    /\ ~EthReceives => rx.full = {} /\ rx.rdh = 0
    /\ ethstate # "UP" =>
        /\ rx.head = 0 /\ rx.tail = 0 /\ rxpc = "idle"
        /\ tx.tdh = 0 /\ tx.tdt = 0 /\ \A w \in EthWriters : txpc[w].at = "idle"

\* Once the adapter has been given descriptors, it has all behind the reader
\* but those of the batch that the reader is in.
EthGap(h) ==
    IF h % E1000_RING_BOUNDARY = 0 THEN EthRxSize - E1000_RING_BOUNDARY
    ELSE EthRxSize - (h % E1000_RING_BOUNDARY)
EthGiven ==
    ethstate \in {"rx", "tx", "UP"} => Away(EthRxSize, rx.head, rx.rdt) = EthGap(rx.head)

\* From the reader on: packets that were counted by the handler, packets that
\* were not, and descriptors of the adapter.  The reader's own descriptor is
\* among them until it is cleared, and the reader ahead of it until it advances.
RxHas(r, cleared, taken) ==
    /\ Away(EthRxSize, r.head, r.tail) <= Away(EthRxSize, r.head, r.rdh)
    /\ Away(EthRxSize, r.head, r.rdh) <= Away(EthRxSize, r.head, r.rdt)
    /\ Away(EthRxSize, r.head, r.tail) = taken + cleared
    /\ \A x \in EthRxSlots : x \in r.full <=> /\ cleared <= Away(EthRxSize, r.head, x)
                                             /\ Away(EthRxSize, r.head, x)
                                                   < Away(EthRxSize, r.head, r.rdh)
RxCleared == IF rxpc = "advance" THEN 1 ELSE 0
EthRx ==
    /\ RxHas(rx, RxCleared, Taken(isem, EthReading))
    /\ "packet_error" \notin ethfault

\* From the head on: v packets that were transmitted, u that the adapter has,
\* one that is being filled in, and descriptors that the semaphore counts.
TxHas(t, taken, u, v, f) ==
    /\ u + v + f <= EthTxSize
    /\ t.tdh = Place(EthTxSize, t.head, v) /\ t.tdt = Place(EthTxSize, t.head, v + u)
    /\ t.tail = t.tdt
    /\ \A x \in EthSlots : x \in t.done <=> Away(EthTxSize, t.head, x) < v
    /\ \A x \in EthSlots : t.sent[x] # "none" <=> Away(EthTxSize, t.head, x) < u + v + f
    /\ taken = EthTxSize - (u + v + f)
TxFilling == IF EthInFill = {} THEN 0 ELSE 1
EthTx ==
    /\ \E u, v \in Nat : TxHas(tx, Taken(osem, EthWriting), u, v, TxFilling)
    /\ \A w \in EthInFill : txpc[w].slot = tx.tail /\ ethcpu = w

\* The inductive invariant.
EthInv == EthRxType /\ EthTxType /\ EthFresh /\ EthGiven /\ EthRx /\ EthTx
-----------------------------------------------------------------------------
\* Going round.
LEMMA PlaceIs ==
    ASSUME NEW N \in Nat \ {0}, NEW h \in 0..(N - 1), NEW d \in 0..N
    PROVE  (h + d) % N = Place(N, h, d) /\ Place(N, h, d) \in 0..(N - 1)
<1>1. PICK x \in Nat : x = h + d OBVIOUS
<1>2. x < 2 * N BY <1>1
<1>3. x % N = IF x < N THEN x ELSE x - N BY <1>2, RingWrap
<1>4. (h + d) % N = IF h + d < N THEN h + d ELSE h + d - N BY <1>1, <1>3
<1>5. QED BY <1>4 DEF Place

LEMMA AwayIs ==
    ASSUME NEW N \in Nat \ {0}, NEW h \in 0..(N - 1), NEW x \in 0..(N - 1)
    PROVE  (x - h) % N = Away(N, h, x) /\ Away(N, h, x) \in 0..(N - 1)
           /\ Place(N, h, Away(N, h, x)) = x
<1>1. CASE x >= h
  <2>1. PICK y \in Nat : y = x - h BY <1>1
  <2>2. y < 2 * N /\ y < N BY <1>1, <2>1
  <2>3. y % N = y BY <2>2, RingWrap
  <2>4. (x - h) % N = x - h BY <2>1, <2>3
  <2>5. QED BY <1>1, <2>2, <2>1, <2>4 DEF Away, Place
<1>2. CASE x < h
  <2>1. PICK y \in Int : y = x - h OBVIOUS
  <2>2. -N < y /\ y < 0 BY <1>2, <2>1
  <2>3. y % N = y + N BY <2>2
  <2>4. (x - h) % N = x - h + N BY <2>1, <2>3
  <2>5. QED BY <1>2, <2>4 DEF Away, Place
<1>3. QED BY <1>1, <1>2

LEMMA AwayPlace ==
    ASSUME NEW N \in Nat \ {0}, NEW h \in 0..(N - 1), NEW d \in 0..(N - 1)
    PROVE  Away(N, h, Place(N, h, d)) = d
  BY DEF Away, Place

\* Seen from the next place everything else is one nearer.
LEMMA AwayNext ==
    ASSUME NEW N \in Nat \ {0}, NEW h \in 0..(N - 1), NEW g, g = Place(N, h, 1)
    PROVE  /\ g \in 0..(N - 1) /\ Away(N, g, h) = N - 1
           /\ \A x \in 0..(N - 1) : x # h => Away(N, g, x) = Away(N, h, x) - 1
           /\ \A x \in 0..(N - 1) : Away(N, h, x) = 0 <=> x = h
  BY DEF Away, Place

\* The remainder of the next number.
LEMMA RemainderIs ==
    ASSUME NEW B \in Nat \ {0}, NEW q \in Int, NEW r \in 0..(B - 1)
    PROVE  (B * q + r) % B = r
<1> DEFINE z == B * q + r
           p == z \div B
           s == z % B
<1>1. z \in Int /\ p \in Int /\ s \in Int /\ 0 <= s /\ s < B /\ z = B * p + s OBVIOUS
<1> HIDE DEF p, s
<1>2. B * q + r = B * p + s BY <1>1
<1>3. \A d \in Int : (d >= 1 => B * d >= B) /\ (d <= -1 => B * d <= -B) OBVIOUS
<1>4. B * (q - p) = s - r BY <1>1, <1>2
<1>5. ~(q - p >= 1) /\ ~(q - p <= -1) BY <1>1, <1>3, <1>4
<1>6. q = p BY <1>1, <1>5
<1>7. QED BY <1>1, <1>2, <1>6 DEF s

LEMMA RemainderNext ==
    ASSUME NEW B \in Nat \ {0}, NEW x \in Nat
    PROVE  x % B \in 0..(B - 1) /\ (x + 1) % B = IF (x % B) + 1 = B THEN 0 ELSE (x % B) + 1
<1>1. PICK q, r \in Int : x = B * q + r /\ r = x % B /\ r \in 0..(B - 1) OBVIOUS
<1>2. CASE r + 1 = B
  <2>1. B * (q + 1) = B * q + B BY <1>1
  <2>2. x + 1 = B * (q + 1) + 0
    <3>1. PICK y, z \in Int : y = B * q /\ z = B * (q + 1) BY <1>1
    <3>2. x = y + r /\ z = y + B BY <1>1, <2>1, <3>1
    <3>3. x + 1 = z + 0 BY <1>1, <1>2, <3>1, <3>2
    <3>4. QED BY <3>1, <3>3
  <2>3. (B * (q + 1) + 0) % B = 0 BY <1>1, RemainderIs
  <2>4. QED BY <1>1, <1>2, <2>2, <2>3
<1>3. CASE r + 1 # B
  <2>1. x + 1 = B * q + (r + 1) /\ r + 1 \in 0..(B - 1) BY <1>1, <1>3
  <2>2. (B * q + (r + 1)) % B = r + 1 BY <1>1, <2>1, RemainderIs
  <2>3. QED BY <1>1, <1>3, <2>1, <2>2
<1>4. QED BY <1>2, <1>3
-----------------------------------------------------------------------------
LEMMA EthConstants ==
    /\ EthRxSize \in Nat \ {0} /\ EthTxSize \in Nat \ {0} /\ E1000_RING_BOUNDARY \in Nat \ {0}
    /\ EthRxSize % E1000_RING_BOUNDARY = 0 /\ IsFiniteSet(EthWriters) /\ "none" \notin EthWriters
    /\ EthReader \notin EthWriters
  BY EthAssumption

\* The receive ring: the adapter stores a packet.
LEMMA RxStores ==
    ASSUME NEW r \in RxRings, NEW c \in {0, 1}, NEW m \in Nat, RxHas(r, c, m), r.rdh # r.rdt,
           NEW r2 \in RxRings, r2.full = r.full \cup {r.rdh}, r2.rdh = (r.rdh + 1) % EthRxSize,
           r2.head = r.head, r2.tail = r.tail, r2.rdt = r.rdt
    PROVE  RxHas(r2, c, m)
<1>1. PICK N \in Nat \ {0} : N = EthRxSize /\ EthRxSlots = 0..(N - 1)
  BY EthConstants DEF EthRxSlots
<1>2. PICK h, a, b \in 0..(N - 1) : h = r.head /\ a = r.rdh /\ b = r.rdt BY <1>1 DEF RxRings
<1>3. PICK t \in 0..(N - 1) : t = r.tail BY <1>1 DEF RxRings
<1>4. PICK e : e = Place(N, a, 1) OBVIOUS
<1>5. e \in 0..(N - 1) /\ r2.rdh = e
  <2>1. 1 \in 0..N OBVIOUS
  <2>2. (a + 1) % N = Place(N, a, 1) /\ Place(N, a, 1) \in 0..(N - 1) BY <2>1, PlaceIs
  <2>3. QED BY <1>1, <1>2, <1>4, <2>2
<1>6. /\ Away(N, h, t) <= Away(N, h, a) /\ Away(N, h, a) <= Away(N, h, b)
      /\ Away(N, h, t) = m + c
      /\ \A x \in 0..(N - 1) : x \in r.full <=> c <= Away(N, h, x) /\ Away(N, h, x) < Away(N, h, a)
  BY <1>1, <1>2, <1>3 DEF RxHas
<1>7. a # b BY <1>2
<1>8. Away(N, h, e) = Away(N, h, a) + 1 /\ Away(N, h, e) <= Away(N, h, b)
  BY <1>4, <1>6, <1>7 DEF Away, Place
<1>9. \A x \in 0..(N - 1) : x # a => Away(N, h, x) # Away(N, h, a) BY DEF Away
<1>10. \A x \in 0..(N - 1) : Away(N, h, x) \in Int BY DEF Away
<1>11. \A x \in 0..(N - 1) :
          x \in r2.full <=> c <= Away(N, h, x) /\ Away(N, h, x) < Away(N, h, e)
  <2> TAKE x \in 0..(N - 1)
  <2>1. x \in r2.full <=> x \in r.full \/ x = a BY <1>2
  <2>2. PICK i, k \in Int : i = Away(N, h, x) /\ k = Away(N, h, a) BY <1>10
  <2>3. (x \in r.full <=> c <= i /\ i < k) /\ Away(N, h, e) = k + 1 BY <1>6, <1>8, <2>2
  <2>4. c <= k BY <1>6, <1>10, <2>2
  <2>5. x = a <=> i = k BY <1>9, <2>2
  <2>6. QED BY <2>1, <2>2, <2>3, <2>4, <2>5
<1>12. /\ Away(N, h, t) <= Away(N, h, e)
  BY <1>6, <1>8, <1>10
<1>13. r2.head = h /\ r2.tail = t /\ r2.rdt = b BY <1>2, <1>3
<1>14. QED BY <1>1, <1>5, <1>6, <1>8, <1>11, <1>12, <1>13 DEF RxHas

\* What the handlers count: the descriptors before the first that is not set.
LEMMA RunIs ==
    ASSUME NEW N \in Nat \ {0}, NEW S, NEW t \in 0..(N - 1), NEW d \in 0..N,
           \A i \in 0..(N - 1) : i < d => (t + i) % N \in S, d # N => (t + d) % N \notin S
    PROVE  EthRun(S, t, N) = d
<1> DEFINE stops == {n \in 0..(N - 1) : (t + n) % N \notin S}
<1>1. EthRun(S, t, N) = IF stops = {} THEN N ELSE CHOOSE n \in stops : \A m \in stops : n <= m
  BY DEF EthRun
<1>2. \A n \in stops : n \in 0..(N - 1) /\ d <= n OBVIOUS
<1>3. CASE d = N
  <2>1. \A n \in stops : FALSE BY <1>2, <1>3
  <2>2. stops = {} BY <2>1
  <2>3. QED BY <1>1, <1>3, <2>2
<1>4. CASE d # N
  <2>1. d \in stops BY <1>4
  <2>2. \A n \in stops : (\A m \in stops : n <= m) => n = d
    <3> TAKE n \in stops
    <3> HAVE \A m \in stops : n <= m
    <3>1. n <= d BY <2>1
    <3>2. d <= n /\ n \in 0..(N - 1) BY <1>2
    <3>3. QED BY <3>1, <3>2
  <2>3. \A m \in stops : d <= m BY <1>2
  <2> HIDE DEF stops
  <2>4. d = CHOOSE n \in stops : \A m \in stops : n <= m
    <3>1. PICK c : c = CHOOSE n \in stops : \A m \in stops : n <= m OBVIOUS
    <3>2. \E n \in stops : \A m \in stops : n <= m BY <2>1, <2>3
    <3>3. c \in stops /\ \A m \in stops : c <= m BY <3>1, <3>2
    <3>4. QED BY <2>2, <3>1, <3>3
  <2>5. QED BY <1>1, <2>1, <2>4
<1>5. QED BY <1>3, <1>4

\* The handler counts what came.
LEMMA RxCounts ==
    ASSUME NEW r \in RxRings, NEW c \in {0, 1}, NEW m \in Nat, RxHas(r, c, m),
           NEW n, n = EthRun(r.full, r.tail, EthRxSize),
           NEW r2 \in RxRings, r2.tail = (r.tail + n) % EthRxSize,
           r2.full = r.full, r2.rdh = r.rdh, r2.head = r.head, r2.rdt = r.rdt
    PROVE  n \in Nat /\ RxHas(r2, c, m + n)
<1>1. PICK N \in Nat \ {0} : N = EthRxSize /\ EthRxSlots = 0..(N - 1)
  BY EthConstants DEF EthRxSlots
<1>2. PICK h, a, b \in 0..(N - 1) : h = r.head /\ a = r.rdh /\ b = r.rdt BY <1>1 DEF RxRings
<1>3. PICK t \in 0..(N - 1) : t = r.tail BY <1>1 DEF RxRings
<1>4. /\ Away(N, h, t) <= Away(N, h, a) /\ Away(N, h, a) <= Away(N, h, b)
      /\ Away(N, h, t) = m + c
      /\ \A x \in 0..(N - 1) : x \in r.full <=> c <= Away(N, h, x) /\ Away(N, h, x) < Away(N, h, a)
  BY <1>1, <1>2, <1>3 DEF RxHas
<1>5. Away(N, h, t) \in Int /\ Away(N, h, a) \in Int BY DEF Away
<1>6. PICK d : d = Away(N, h, a) - Away(N, h, t) OBVIOUS
<1>7. d \in 0..(N - 1) /\ Place(N, t, d) = a BY <1>4, <1>6 DEF Away, Place
<1>8. \A i \in 0..(N - 1) : (t + i) % N = Place(N, t, i) /\ Place(N, t, i) \in 0..(N - 1)
  <2>1. \A i \in 0..(N - 1) : i \in 0..N OBVIOUS
  <2>2. QED BY <2>1, PlaceIs
<1>9. \A i \in 0..(N - 1) : i < d => (t + i) % N \in r.full
  <2> TAKE i \in 0..(N - 1)
  <2> HAVE i < d
  <2>1. PICK x \in 0..(N - 1) : x = Place(N, t, i) /\ x = (t + i) % N BY <1>8
  <2>2. Away(N, h, x) = Away(N, h, t) + i BY <1>6, <2>1 DEF Away, Place
  <2>3. c <= Away(N, h, x) /\ Away(N, h, x) < Away(N, h, a)
    <3>1. PICK k, l \in Int : k = Away(N, h, t) /\ l = Away(N, h, a) BY <1>5
    <3>2. k = m + c /\ d = l - k /\ Away(N, h, x) = k + i BY <1>4, <1>6, <2>2, <3>1
    <3>3. QED BY <1>7, <3>1, <3>2
  <2>4. QED BY <1>4, <2>1, <2>3
<1>10. (t + d) % N \notin r.full
  <2>1. (t + d) % N = a BY <1>7, <1>8
  <2>2. Away(N, h, a) \in Int BY DEF Away
  <2>3. QED BY <1>4, <2>1, <2>2
<1>11. n = d
  <2>1. d \in 0..N BY <1>7
  <2>2. EthRun(r.full, t, N) = d BY <1>9, <1>10, <2>1, RunIs
  <2>3. QED BY <1>1, <1>3, <2>2
<1>12. r2.tail = a BY <1>1, <1>3, <1>7, <1>8, <1>11
<1>13. Away(N, h, a) = m + n + c
  <2>1. PICK k, l \in Int : k = Away(N, h, t) /\ l = Away(N, h, a) BY <1>5
  <2>2. k = m + c /\ d = l - k BY <1>4, <1>6, <2>1
  <2>3. QED BY <1>7, <1>11, <2>1, <2>2
<1>14. Away(N, h, a) <= Away(N, h, a) BY DEF Away
<1>15. r2.head = h /\ r2.rdh = a /\ r2.rdt = b /\ r2.full = r.full BY <1>2
<1>16. RxHas(r2, c, m + n)
  <2>1. m + n + c = (m + n) + c BY <1>7, <1>11
  <2>2. QED BY <1>1, <1>4, <1>12, <1>13, <1>14, <1>15, <2>1 DEF RxHas
<1>17. QED BY <1>7, <1>11, <1>16

\* The reader copies the packet at the head and clears its descriptor.
LEMMA RxClears ==
    ASSUME NEW r \in RxRings, NEW m \in Nat, RxHas(r, 0, m), m > 0,
           NEW r2 \in RxRings, r2.full = r.full \ {r.head},
           r2.rdh = r.rdh, r2.head = r.head, r2.tail = r.tail, r2.rdt = r.rdt
    PROVE  r.head \in r.full /\ RxHas(r2, 1, m - 1)
<1>1. PICK N \in Nat \ {0} : N = EthRxSize /\ EthRxSlots = 0..(N - 1)
  BY EthConstants DEF EthRxSlots
<1>2. PICK h, a, b \in 0..(N - 1) : h = r.head /\ a = r.rdh /\ b = r.rdt BY <1>1 DEF RxRings
<1>3. PICK t \in 0..(N - 1) : t = r.tail BY <1>1 DEF RxRings
<1>4. /\ Away(N, h, t) <= Away(N, h, a) /\ Away(N, h, a) <= Away(N, h, b)
      /\ Away(N, h, t) = m + 0
      /\ \A x \in 0..(N - 1) : x \in r.full <=> 0 <= Away(N, h, x) /\ Away(N, h, x) < Away(N, h, a)
  BY <1>1, <1>2, <1>3 DEF RxHas
<1>5. \A x \in 0..(N - 1) : Away(N, h, x) \in Nat /\ (Away(N, h, x) = 0 <=> x = h) BY DEF Away
<1>6. PICK k, l \in Nat : k = Away(N, h, t) /\ l = Away(N, h, a) BY <1>5
<1>7. k = m /\ k <= l /\ l > 0 BY <1>4, <1>6
<1>8. h \in r.full BY <1>4, <1>5, <1>6, <1>7
<1>9. \A x \in 0..(N - 1) : x \in r2.full <=> 1 <= Away(N, h, x) /\ Away(N, h, x) < l
  <2> TAKE x \in 0..(N - 1)
  <2>1. x \in r2.full <=> x \in r.full /\ x # h BY <1>2
  <2>2. PICK i \in Nat : i = Away(N, h, x) /\ (i = 0 <=> x = h) BY <1>5
  <2>3. x \in r.full <=> 0 <= i /\ i < l BY <1>4, <1>6, <2>2
  <2>4. QED BY <2>1, <2>2, <2>3
<1>10. k = (m - 1) + 1 BY <1>7
<1>11. r2.head = h /\ r2.rdh = a /\ r2.rdt = b /\ r2.tail = t BY <1>2, <1>3
<1>12. RxHas(r2, 1, m - 1) BY <1>1, <1>4, <1>6, <1>9, <1>10, <1>11 DEF RxHas
<1>13. QED BY <1>2, <1>8, <1>12

\* The reader advances, and hands back a batch when it leaves its first
\* descriptor: the adapter then has all descriptors but the reader's own, and
\* one less with every further descriptor of the batch.
LEMMA RxAdvances ==
    ASSUME NEW r \in RxRings, NEW m \in Nat, RxHas(r, 1, m),
           Away(EthRxSize, r.head, r.rdt) = EthGap(r.head),
           NEW r2 \in RxRings, r2.head = (r.head + 1) % EthRxSize,
           r2.rdt = IF r.head % E1000_RING_BOUNDARY = 0
                    THEN (r.rdt + E1000_RING_BOUNDARY) % EthRxSize ELSE r.rdt,
           r2.full = r.full, r2.rdh = r.rdh, r2.tail = r.tail
    PROVE  RxHas(r2, 0, m) /\ Away(EthRxSize, r2.head, r2.rdt) = EthGap(r2.head)
<1>1. PICK N \in Nat \ {0} : N = EthRxSize /\ EthRxSlots = 0..(N - 1)
  BY EthConstants DEF EthRxSlots
<1>2. PICK h, a, b \in 0..(N - 1) : h = r.head /\ a = r.rdh /\ b = r.rdt BY <1>1 DEF RxRings
<1>3. PICK t \in 0..(N - 1) : t = r.tail BY <1>1 DEF RxRings
<1>4. PICK B \in Nat \ {0} : B = E1000_RING_BOUNDARY BY EthConstants
<1>5. N % B = 0 BY <1>1, <1>4, EthConstants
<1>6. PICK s \in Nat : s = h % B /\ s < B BY <1>2, <1>4
<1>7. PICK g : g = Place(N, h, 1) OBVIOUS
<1>8. g = (h + 1) % N /\ g \in 0..(N - 1)
  <2>1. 1 \in 0..N OBVIOUS
  <2>2. QED BY <1>7, <2>1, PlaceIs
<1>9. /\ Away(N, g, h) = N - 1
      /\ \A x \in 0..(N - 1) : x # h => Away(N, g, x) = Away(N, h, x) - 1
      /\ \A x \in 0..(N - 1) : Away(N, h, x) = 0 <=> x = h
  BY <1>7, AwayNext
<1>10. /\ Away(N, h, t) <= Away(N, h, a) /\ Away(N, h, a) <= Away(N, h, b)
       /\ Away(N, h, t) = m + 1
       /\ \A x \in 0..(N - 1) : x \in r.full <=> 1 <= Away(N, h, x) /\ Away(N, h, x) < Away(N, h, a)
  BY <1>1, <1>2, <1>3 DEF RxHas
<1>11. Away(N, h, b) = IF s = 0 THEN N - B ELSE N - s BY <1>1, <1>2, <1>4, <1>6 DEF EthGap
<1>12. \A x \in 0..(N - 1) : Away(N, h, x) \in 0..(N - 1) BY DEF Away
<1>13. t # h /\ a # h /\ b # h
  <2>1. PICK k, l, j \in 0..(N - 1) : k = Away(N, h, t) /\ l = Away(N, h, a) /\ j = Away(N, h, b)
    BY <1>12
  <2>2. k # 0 /\ l # 0 /\ j # 0 BY <1>10, <2>1
  <2>3. QED BY <1>9, <2>1, <2>2
<1>14. PICK e \in 0..(N - 1) : e = r2.rdt BY <1>1 DEF RxRings
\* How far the first descriptor is that the adapter does not have.
<1>15. Away(N, g, e) = N - s - 1
  <2>1. CASE s = 0
    <3>1. B <= N /\ B \in 0..N
      <4>1. Away(N, h, b) \in 0..(N - 1) BY <1>12
      <4>2. QED BY <1>11, <2>1, <4>1
    <3>2. (b + B) % N = Place(N, b, B) BY <3>1, PlaceIs
    <3>3. e = Place(N, b, B) BY <1>1, <1>2, <1>4, <1>6, <1>14, <2>1, <3>2
    <3>4. Away(N, h, b) = N - B BY <1>11, <2>1
    <3>5. e = h BY <3>1, <3>3, <3>4 DEF Away, Place
    <3>6. QED BY <1>9, <2>1, <3>5
  <2>2. CASE s # 0
    <3>1. e = b BY <1>2, <1>4, <1>6, <1>14, <2>2
    <3>2. Away(N, g, b) = Away(N, h, b) - 1 BY <1>9, <1>13
    <3>3. QED BY <1>11, <2>2, <3>1, <3>2
  <2>3. QED BY <2>1, <2>2
<1>16. g % B = IF s + 1 = B THEN 0 ELSE s + 1
  <2>1. (h + 1) % B = IF (h % B) + 1 = B THEN 0 ELSE (h % B) + 1
    <3>1. h \in Nat OBVIOUS
    <3>2. QED BY <3>1, RemainderNext
  <2>2. CASE h + 1 < N
    <3>1. g = h + 1 BY <1>7, <2>2 DEF Place
    <3>2. QED BY <1>6, <2>1, <3>1
  <2>3. CASE ~(h + 1 < N)
    <3>1. g = 0 /\ h + 1 = N BY <1>7, <2>3 DEF Place
    <3>2. (IF s + 1 = B THEN 0 ELSE s + 1) = 0 BY <1>5, <1>6, <2>1, <3>1
    <3>3. 0 % B = 0 OBVIOUS
    <3>4. QED BY <3>1, <3>2, <3>3
  <2>4. QED BY <2>2, <2>3
<1>17. EthGap(g) = N - s - 1
  <2>1. EthGap(g) = IF g % B = 0 THEN N - B ELSE N - (g % B) BY <1>1, <1>4 DEF EthGap
  <2>2. CASE s + 1 = B
    <3>1. EthGap(g) = N - B BY <1>16, <2>1, <2>2
    <3>2. QED BY <1>6, <2>2, <3>1
  <2>3. CASE s + 1 # B
    <3>1. g % B = s + 1 /\ s + 1 # 0 BY <1>6, <1>16, <2>3
    <3>2. EthGap(g) = N - (s + 1) BY <2>1, <3>1
    <3>3. QED BY <1>6, <3>2
  <2>4. QED BY <2>2, <2>3
<1>18. /\ Away(N, g, t) <= Away(N, g, a) /\ Away(N, g, a) <= Away(N, g, e)
       /\ Away(N, g, t) = m + 0
  <2>1. PICK k, l, j \in 0..(N - 1) : k = Away(N, h, t) /\ l = Away(N, h, a) /\ j = Away(N, h, b)
    BY <1>12
  <2>2. Away(N, g, t) = k - 1 /\ Away(N, g, a) = l - 1 BY <1>9, <1>13, <2>1
  <2>3. k <= l /\ l <= j /\ k = m + 1 BY <1>10, <2>1
  <2>4. j <= N - s BY <1>4, <1>6, <1>11, <2>1
  <2>5. QED BY <1>6, <1>15, <2>2, <2>3, <2>4
<1>19. \A x \in 0..(N - 1) : x \in r.full <=> 0 <= Away(N, g, x) /\ Away(N, g, x) < Away(N, g, a)
  <2> TAKE x \in 0..(N - 1)
  <2>1. PICK i, l \in 0..(N - 1) : i = Away(N, h, x) /\ l = Away(N, h, a) BY <1>12
  <2>2. x \in r.full <=> 1 <= i /\ i < l BY <1>10, <2>1
  <2>3. Away(N, g, a) = l - 1 BY <1>9, <1>13, <2>1
  <2>4. CASE x = h
    <3>1. i = 0 /\ Away(N, g, x) = N - 1 BY <1>9, <2>1, <2>4
    <3>2. QED BY <2>2, <2>3, <3>1
  <2>5. CASE x # h
    <3>1. i # 0 /\ Away(N, g, x) = i - 1 BY <1>9, <2>1, <2>5
    <3>2. QED BY <2>2, <2>3, <3>1
  <2>6. QED BY <2>4, <2>5
<1>20. r2.head = g /\ r2.rdh = a /\ r2.rdt = e /\ r2.tail = t /\ r2.full = r.full
  BY <1>1, <1>2, <1>3, <1>8, <1>14
<1>21. RxHas(r2, 0, m) BY <1>1, <1>18, <1>19, <1>20 DEF RxHas
<1>22. QED BY <1>1, <1>15, <1>17, <1>20, <1>21
-----------------------------------------------------------------------------
\* The transmit ring: the adapter has transmitted a packet.
TxSent(t, m, u, v, f) == u - 1 \in Nat /\ v + 1 \in Nat /\ TxHas(t, m, u - 1, v + 1, f)
LEMMA TxSends ==
    ASSUME NEW t \in TxRings, NEW m, NEW u \in Nat, NEW v \in Nat, NEW f \in {0, 1},
           TxHas(t, m, u, v, f), t.tdh # t.tdt,
           NEW t2 \in TxRings, t2.done = t.done \cup {t.tdh}, t2.tdh = (t.tdh + 1) % EthTxSize,
           t2.head = t.head, t2.tail = t.tail, t2.tdt = t.tdt, t2.sent = t.sent
    PROVE  TxSent(t2, m, u, v, f)
<1>1. PICK N \in Nat \ {0} : N = EthTxSize /\ EthSlots = 0..(N - 1)
  BY EthConstants DEF EthSlots
<1>2. PICK h, a \in 0..(N - 1) : h = t.head /\ a = t.tdh BY <1>1 DEF TxRings
<1>3. /\ u + v + f <= N /\ a = Place(N, h, v) /\ t.tdt = Place(N, h, v + u) /\ t.tail = t.tdt
      /\ \A x \in 0..(N - 1) : x \in t.done <=> Away(N, h, x) < v
      /\ \A x \in 0..(N - 1) : t.sent[x] # "none" <=> Away(N, h, x) < u + v + f
      /\ m = N - (u + v + f)
  BY <1>1, <1>2 DEF TxHas
<1>4. u # 0
  <2>1. a # t.tdt BY <1>2
  <2>2. u = 0 => v + u = v OBVIOUS
  <2>3. QED BY <1>3, <2>1, <2>2
<1>5. t2.tdh = Place(N, h, v + 1)
  <2>1. 1 \in 0..N OBVIOUS
  <2>2. (a + 1) % N = Place(N, a, 1) BY <2>1, PlaceIs
  <2>3. Place(N, a, 1) = Place(N, h, v + 1) BY <1>3, <1>4 DEF Place
  <2>4. QED BY <1>1, <1>2, <2>2, <2>3
<1>6. v < N BY <1>3, <1>4
<1>7. \A x \in 0..(N - 1) : Away(N, h, x) \in 0..(N - 1) BY DEF Away
<1>8. Away(N, h, a) = v BY <1>3, <1>6, AwayPlace
<1>9. \A x \in 0..(N - 1) : Away(N, h, x) = v => x = a BY <1>8 DEF Away
<1>10. \A x \in 0..(N - 1) : x \in t2.done <=> Away(N, h, x) < v + 1
  <2> TAKE x \in 0..(N - 1)
  <2>1. x \in t2.done <=> x \in t.done \/ x = a BY <1>2
  <2>2. PICK i \in 0..(N - 1) : i = Away(N, h, x) BY <1>7
  <2>3. (x \in t.done <=> i < v) /\ (x = a <=> i = v) BY <1>3, <1>8, <1>9, <2>2
  <2>4. QED BY <2>1, <2>2, <2>3
<1>11. /\ u - 1 \in Nat /\ v + 1 \in Nat /\ (u - 1) + (v + 1) + f = u + v + f
       /\ (v + 1) + (u - 1) = v + u
  BY <1>4
<1>12. t2.head = h BY <1>2
<1>13. TxHas(t2, m, u - 1, v + 1, f) BY <1>1, <1>3, <1>5, <1>10, <1>11, <1>12 DEF TxHas
<1>14. QED BY <1>11, <1>13 DEF TxSent

\* The handler takes back what was transmitted.
LEMMA TxReclaims ==
    ASSUME NEW t \in TxRings, NEW m \in Int, NEW u \in Nat, NEW v \in Nat, NEW f \in {0, 1},
           TxHas(t, m, u, v, f), NEW n, n = EthRun(t.done, t.head, EthTxSize),
           NEW t2 \in TxRings, t2.head = (t.head + n) % EthTxSize,
           t2.done = t.done \ {(t.head + i) % EthTxSize : i \in 0..(n - 1)},
           t2.sent = [i \in EthSlots |-> IF (i - t.head) % EthTxSize < n THEN "none" ELSE t.sent[i]],
           t2.tail = t.tail, t2.tdh = t.tdh, t2.tdt = t.tdt
    PROVE  n \in Nat /\ TxHas(t2, m + n, u, 0, f)
<1>1. PICK N \in Nat \ {0} : N = EthTxSize /\ EthSlots = 0..(N - 1)
  BY EthConstants DEF EthSlots
<1>2. PICK h \in 0..(N - 1) : h = t.head BY <1>1 DEF TxRings
<1>3. /\ u + v + f <= N /\ t.tdh = Place(N, h, v) /\ t.tdt = Place(N, h, v + u) /\ t.tail = t.tdt
      /\ \A x \in 0..(N - 1) : x \in t.done <=> Away(N, h, x) < v
      /\ \A x \in 0..(N - 1) : t.sent[x] # "none" <=> Away(N, h, x) < u + v + f
      /\ m = N - (u + v + f)
  BY <1>1, <1>2 DEF TxHas
<1>4. v \in 0..N /\ v + u \in 0..N BY <1>3
<1>5. \A i \in 0..(N - 1) : /\ (h + i) % N = Place(N, h, i) /\ Place(N, h, i) \in 0..(N - 1)
                            /\ Away(N, h, Place(N, h, i)) = i
  <2>1. \A i \in 0..(N - 1) : i \in 0..N OBVIOUS
  <2>2. QED BY <2>1, PlaceIs, AwayPlace
<1>6. n = v
  <2>1. \A i \in 0..(N - 1) : i < v => (h + i) % N \in t.done
    <3> TAKE i \in 0..(N - 1)
    <3> HAVE i < v
    <3>1. PICK x \in 0..(N - 1) : x = (h + i) % N /\ Away(N, h, x) = i BY <1>5
    <3>2. QED BY <1>3, <3>1
  <2>2. v # N => (h + v) % N \notin t.done
    <3> HAVE v # N
    <3>1. v \in 0..(N - 1) BY <1>4
    <3>2. PICK x \in 0..(N - 1) : x = (h + v) % N /\ Away(N, h, x) = v BY <1>5, <3>1
    <3>3. QED BY <1>3, <3>2
  <2>3. EthRun(t.done, h, N) = v BY <1>4, <2>1, <2>2, RunIs
  <2>4. QED BY <1>1, <1>2, <2>3
<1>7. PICK g \in 0..(N - 1) : g = Place(N, h, v) /\ t2.head = g
  <2>1. (h + v) % N = Place(N, h, v) /\ Place(N, h, v) \in 0..(N - 1) BY <1>4, PlaceIs
  <2>2. t2.head = (h + v) % N BY <1>1, <1>2, <1>6
  <2>3. QED BY <2>1, <2>2
<1>8. \A x \in 0..(N - 1) :
         Away(N, h, x) \in 0..(N - 1) /\ (x - h) % N = Away(N, h, x)
         /\ Place(N, h, Away(N, h, x)) = x
  BY AwayIs
<1>9. \A x \in 0..(N - 1) :
         Away(N, g, x) = IF Away(N, h, x) >= v THEN Away(N, h, x) - v ELSE Away(N, h, x) - v + N
  BY <1>4, <1>7 DEF Away, Place
<1>10. \A x \in 0..(N - 1) : ~(Away(N, g, x) < 0) BY DEF Away
<1>11. \A x \in 0..(N - 1) : x \notin t2.done
  <2> TAKE x \in 0..(N - 1)
  <2>1. CASE x \in t.done
    <3>1. PICK i \in 0..(N - 1) : i = Away(N, h, x) /\ Place(N, h, i) = x BY <1>8
    <3>2. i < v BY <1>3, <2>1, <3>1
    <3>3. i \in 0..(v - 1) BY <1>4, <3>1, <3>2
    <3>4. x = (h + i) % N BY <1>5, <3>1
    <3>5. t2.done = t.done \ {(h + j) % N : j \in 0..(v - 1)} BY <1>1, <1>2, <1>6
    <3>6. QED BY <3>3, <3>4, <3>5
  <2>2. QED BY <2>1
<1>12. \A x \in 0..(N - 1) : t2.sent[x] # "none" <=> Away(N, g, x) < u + 0 + f
  <2> TAKE x \in 0..(N - 1)
  <2>1. PICK i \in 0..(N - 1) : i = Away(N, h, x) /\ (x - h) % N = i BY <1>8
  <2>2. t2.sent[x] = IF i < v THEN "none" ELSE t.sent[x] BY <1>1, <1>2, <1>6, <2>1
  <2>3. Away(N, g, x) = IF i >= v THEN i - v ELSE i - v + N BY <1>9, <2>1
  <2>4. t.sent[x] # "none" <=> i < u + v + f BY <1>3, <2>1
  <2>5. CASE i < v BY <1>3, <2>2, <2>3, <2>5
  <2>6. CASE ~(i < v) BY <1>3, <2>2, <2>3, <2>4, <2>6
  <2>7. QED BY <2>5, <2>6
<1>13. /\ t2.tdh = Place(N, g, 0) /\ t2.tdt = Place(N, g, 0 + u) /\ t2.tail = t2.tdt
  <2>1. Place(N, g, 0) = g BY DEF Place
  <2>2. Place(N, g, 0 + u) = Place(N, h, v + u) BY <1>3, <1>7 DEF Place
  <2>3. QED BY <1>3, <1>7, <2>1, <2>2
<1>14. u + 0 + f <= N /\ m + n = N - (u + 0 + f) BY <1>3, <1>6
<1>15. TxHas(t2, m + n, u, 0, f)
  BY <1>1, <1>7, <1>10, <1>11, <1>12, <1>13, <1>14 DEF TxHas
<1>16. QED BY <1>6, <1>15

\* A writer stores a packet, and advances.
LEMMA TxFills ==
    ASSUME NEW t \in TxRings, NEW m \in Int, NEW u \in Nat, NEW v \in Nat,
           TxHas(t, m, u, v, 0), m > 0, NEW w, w # "none",
           NEW t2 \in TxRings, t2.sent = [t.sent EXCEPT ![t.tail] = w], t2.done = t.done \ {t.tail},
           t2.head = t.head, t2.tail = t.tail, t2.tdh = t.tdh, t2.tdt = t.tdt
    PROVE  TxHas(t2, m - 1, u, v, 1)
<1>1. PICK N \in Nat \ {0} : N = EthTxSize /\ EthSlots = 0..(N - 1)
  BY EthConstants DEF EthSlots
<1>2. PICK h, a \in 0..(N - 1) : h = t.head /\ a = t.tail BY <1>1 DEF TxRings
<1>3. /\ u + v + 0 <= N /\ t.tdh = Place(N, h, v) /\ t.tdt = Place(N, h, v + u) /\ a = t.tdt
      /\ \A x \in 0..(N - 1) : x \in t.done <=> Away(N, h, x) < v
      /\ \A x \in 0..(N - 1) : t.sent[x] # "none" <=> Away(N, h, x) < u + v + 0
      /\ m = N - (u + v + 0)
  BY <1>1, <1>2 DEF TxHas
<1>4. v + u \in 0..(N - 1) BY <1>3
<1>5. Away(N, h, a) = v + u BY <1>3, <1>4, AwayPlace
<1>6. \A x \in 0..(N - 1) : Away(N, h, x) \in 0..(N - 1) /\ (Away(N, h, x) = v + u => x = a)
  BY <1>5 DEF Away
<1>7. \A x \in 0..(N - 1) : x \in t2.done <=> Away(N, h, x) < v
  <2> TAKE x \in 0..(N - 1)
  <2>1. x \in t2.done <=> x \in t.done /\ x # a BY <1>2
  <2>2. ~(Away(N, h, a) < v) BY <1>5
  <2>3. QED BY <1>3, <2>1, <2>2
<1>8. \A x \in 0..(N - 1) : t2.sent[x] # "none" <=> Away(N, h, x) < u + v + 1
  <2> TAKE x \in 0..(N - 1)
  <2>1. PICK i \in 0..(N - 1) : i = Away(N, h, x) BY <1>6
  <2>2. t2.sent[x] = IF x = a THEN w ELSE t.sent[x]
    <3>1. t.sent \in [EthSlots -> EthWriters \cup {"none"}] BY DEF TxRings
    <3>2. QED BY <1>1, <1>2, <3>1
  <2>3. (t.sent[x] # "none" <=> i < u + v + 0) /\ (x = a <=> i = v + u) BY <1>3, <1>5, <1>6, <2>1
  <2>4. QED BY <2>1, <2>2, <2>3
<1>9. u + v + 1 <= N /\ m - 1 = N - (u + v + 1) BY <1>3, <1>4
<1>10. t2.head = h /\ t2.tail = t2.tdt BY <1>2, <1>3
<1>11. QED BY <1>1, <1>3, <1>7, <1>8, <1>9, <1>10 DEF TxHas

LEMMA TxAdvances ==
    ASSUME NEW t \in TxRings, NEW m \in Int, NEW u \in Nat, NEW v \in Nat, TxHas(t, m, u, v, 1),
           NEW t2 \in TxRings, t2.tdt = (t.tdt + 1) % EthTxSize, t2.tail = (t.tail + 1) % EthTxSize,
           t2.head = t.head, t2.tdh = t.tdh, t2.done = t.done, t2.sent = t.sent
    PROVE  TxHas(t2, m, u + 1, v, 0)
<1>1. PICK N \in Nat \ {0} : N = EthTxSize /\ EthSlots = 0..(N - 1)
  BY EthConstants DEF EthSlots
<1>2. PICK h, a \in 0..(N - 1) : h = t.head /\ a = t.tdt BY <1>1 DEF TxRings
<1>3. /\ u + v + 1 <= N /\ t.tdh = Place(N, h, v) /\ a = Place(N, h, v + u) /\ t.tail = a
      /\ \A x \in 0..(N - 1) : x \in t.done <=> Away(N, h, x) < v
      /\ \A x \in 0..(N - 1) : t.sent[x] # "none" <=> Away(N, h, x) < u + v + 1
      /\ m = N - (u + v + 1)
  BY <1>1, <1>2 DEF TxHas
<1>4. (a + 1) % N = Place(N, h, v + (u + 1))
  <2>1. 1 \in 0..N OBVIOUS
  <2>2. (a + 1) % N = Place(N, a, 1) BY <2>1, PlaceIs
  <2>3. Place(N, a, 1) = Place(N, h, v + (u + 1)) BY <1>3 DEF Place
  <2>4. QED BY <2>2, <2>3
<1>5. (u + 1) + v + 0 = u + v + 1 OBVIOUS
<1>6. t2.head = h /\ t2.tdt = Place(N, h, v + (u + 1)) /\ t2.tail = t2.tdt
  BY <1>1, <1>2, <1>3, <1>4
<1>7. QED BY <1>1, <1>3, <1>5, <1>6 DEF TxHas
-----------------------------------------------------------------------------
\* The steps of the driver.
LEMMA EthInitHolds == EthInit => EthInv
<1> SUFFICES ASSUME EthInit PROVE EthInv OBVIOUS
<1>1. EthRxSize \in Nat \ {0} /\ EthTxSize \in Nat \ {0} BY EthConstants
<1>2. /\ ethstate = "DOWN" /\ ethfault = {} /\ isem = SemNew(0) /\ osem = SemNew(EthTxSize)
      /\ rx = [full |-> {}, head |-> 0, tail |-> 0, rdh |-> 0, rdt |-> 0] /\ rxpc = "idle"
      /\ tx = [done |-> {}, head |-> 0, tail |-> 0, tdh |-> 0, tdt |-> 0,
               sent |-> [i \in EthSlots |-> "none"]]
      /\ txpc = [w \in EthWriters |-> [at |-> "idle", slot |-> 0]]
  BY DEF EthInit
<1>3. 0 \in EthRxSlots /\ 0 \in EthSlots BY <1>1 DEF EthRxSlots, EthSlots
<1>4. \A w \in EthWriters : txpc[w].at = "idle" BY <1>2
<1>5. EthReading = {} /\ EthWriting = {} /\ EthInFill = {}
  BY <1>2, <1>4 DEF EthReading, EthWriting, EthInFill
<1>6. /\ isem \in SemRecords({EthReader}) /\ Serving(isem, {}) /\ Taken(isem, {}) = 0
      /\ osem \in SemRecords(EthWriters) /\ Serving(osem, {}) /\ Taken(osem, {}) = EthTxSize
  BY <1>1, <1>2, TakenNew
<1>7. EthRxType BY <1>2, <1>3, <1>5, <1>6 DEF EthRxType, RxRings
<1>8. EthTxType
  <2>1. tx \in TxRings BY <1>2, <1>3 DEF TxRings
  <2>2. txpc \in [EthWriters -> [at : {"idle", "fill", "advance"}, slot : EthSlots]]
    BY <1>2, <1>3
  <2>3. QED BY <1>5, <1>6, <2>1, <2>2 DEF EthTxType
<1>9. EthFresh BY <1>2, <1>4 DEF EthFresh, EthReceives
<1>10. EthGiven BY <1>2 DEF EthGiven
<1>11. EthRx
  <2>1. RxCleared = 0 /\ Taken(isem, EthReading) = 0 BY <1>2, <1>5, <1>6 DEF RxCleared
  <2>2. Away(EthRxSize, 0, 0) = 0 /\ \A x \in EthRxSlots : ~(x < 0)
    BY <1>1 DEF Away, EthRxSlots
  <2>3. \A x \in EthRxSlots : ~(Away(EthRxSize, 0, x) < 0) BY <1>1 DEF Away, EthRxSlots
  <2>4. RxHas(rx, 0, 0) BY <1>2, <2>2, <2>3 DEF RxHas
  <2>5. QED BY <1>2, <2>1, <2>4 DEF EthRx
<1>12. EthTx
  <2>1. TxFilling = 0 /\ Taken(osem, EthWriting) = EthTxSize BY <1>5, <1>6 DEF TxFilling
  <2>2. \A x \in EthSlots : ~(Away(EthTxSize, 0, x) < 0) BY <1>1 DEF Away, EthSlots
  <2>3. Place(EthTxSize, 0, 0) = 0 BY <1>1 DEF Place
  <2>4. 0 + 0 + 0 = 0 /\ 0 + 0 = 0 /\ 0 <= EthTxSize /\ EthTxSize = EthTxSize - 0 BY <1>1
  <2>5. TxHas(tx, EthTxSize, 0, 0, 0) BY <1>2, <2>2, <2>3, <2>4 DEF TxHas
  <2>6. \E u, v \in Nat : TxHas(tx, Taken(osem, EthWriting), u, v, TxFilling) BY <2>1, <2>5
  <2>7. QED BY <1>5, <2>6 DEF EthTx
<1>13. QED BY <1>7, <1>8, <1>9, <1>10, <1>11, <1>12 DEF EthInv

\* What a step leaves as it is when it leaves one of the rings alone.
LEMMA EthRxKept ==
    ASSUME EthInv, UNCHANGED <<rx, isem, rxpc>>, "packet_error" \notin ethfault'
    PROVE  EthRxType' /\ EthRx'
  BY DEF EthInv, EthRxType, EthRx, EthReading, RxCleared
LEMMA EthTxKept ==
    ASSUME EthInv, UNCHANGED <<tx, osem, txpc>>, ethcpu' = ethcpu \/ EthInFill = {}
    PROVE  EthTxType' /\ EthTx'
<1>1. EthWriting' = EthWriting /\ EthInFill' = EthInFill /\ TxFilling' = TxFilling
  BY DEF EthWriting, EthInFill, TxFilling
<1>2. EthTxType' BY <1>1 DEF EthInv, EthTxType
<1>3. EthTx' BY <1>1 DEF EthInv, EthTx
<1>4. QED BY <1>2, <1>3

LEMMA EthGapAtStart ==
    /\ EthGap(0) = RxFirstTail /\ RxFirstTail \in EthRxSlots
    /\ Away(EthRxSize, 0, RxFirstTail) = RxFirstTail /\ Away(EthRxSize, 0, 0) = 0
<1>1. PICK N, B \in Nat \ {0} : N = EthRxSize /\ B = E1000_RING_BOUNDARY /\ N % B = 0
  BY EthConstants
<1>2. B <= N
  <2>1. CASE N < B
    <3>1. N \in Nat /\ N < 2 * B BY <2>1
    <3>2. N % B = IF N < B THEN N ELSE N - B BY <3>1, RingWrap
    <3>3. QED BY <1>1, <2>1, <3>2
  <2>2. QED BY <2>1
<1>3. 0 % B = 0 OBVIOUS
<1>4. RxFirstTail = N - B BY <1>1 DEF RxFirstTail
<1>5. EthGap(0) = N - B BY <1>1, <1>3 DEF EthGap
<1>6. Away(N, 0, N - B) = N - B /\ Away(N, 0, 0) = 0 BY <1>2 DEF Away
<1>7. QED BY <1>1, <1>2, <1>4, <1>5, <1>6 DEF EthRxSlots

LEMMA EthStageStep ==
    ASSUME EthInv, NEW from, NEW to, EthStage(from, to), from # "UP",
           "packet_error" \in ethfault' => "packet_error" \in ethfault,
           to \in {"rx", "tx", "UP"} <=> from \in {"rx", "tx", "UP"},
           UNCHANGED <<rx, tx>>
    PROVE  EthInv'
<1>1. ethstate = from /\ ethstate' = to /\ UNCHANGED <<isem, rxpc, osem, txpc, ethcpu>> BY DEF EthStage
<1>2. "packet_error" \notin ethfault' BY DEF EthInv, EthRx
<1>3. EthRxType' /\ EthRx' BY <1>1, <1>2, EthRxKept
<1>4. EthTxType' /\ EthTx' BY <1>1, EthTxKept
<1>5. EthFresh' BY <1>1 DEF EthInv, EthFresh, EthReceives
<1>6. EthGiven' BY <1>1 DEF EthInv, EthGiven
<1>7. QED BY <1>3, <1>4, <1>5, <1>6 DEF EthInv

LEMMA EthConfigureRx == ASSUME EthInv, _82545EM_configure_rx PROVE EthInv'
<1>1. /\ ethstate = "link" /\ ethstate' = "rx" /\ UNCHANGED <<isem, rxpc, osem, txpc, tx, ethcpu, ethfault>>
      /\ rx' = [rx EXCEPT !.rdh = 0, !.rdt = RxFirstTail]
  BY DEF _82545EM_configure_rx, EthStage
<1>2. /\ rx.full = {} /\ rx.head = 0 /\ rx.tail = 0 /\ rx.rdh = 0 /\ rxpc = "idle"
      /\ tx.tdh = 0 /\ tx.tdt = 0 /\ \A w \in EthWriters : txpc[w].at = "idle"
  BY <1>1 DEF EthInv, EthFresh, EthReceives
<1>3. rx \in RxRings BY DEF EthInv, EthRxType
<1>4. EthRxSize \in Nat \ {0} BY EthConstants
<1>5. 0 \in EthRxSlots /\ RxFirstTail \in EthRxSlots /\ EthGap(0) = RxFirstTail
      /\ Away(EthRxSize, 0, RxFirstTail) = RxFirstTail /\ Away(EthRxSize, 0, 0) = 0
  BY <1>4, EthGapAtStart DEF EthRxSlots
<1>6. /\ rx' \in RxRings /\ rx'.full = {} /\ rx'.head = 0 /\ rx'.tail = 0 /\ rx'.rdh = 0
      /\ rx'.rdt = RxFirstTail
  BY <1>1, <1>2, <1>3, <1>5 DEF RxRings
<1>7. EthTxType' /\ EthTx' BY <1>1, EthTxKept
<1>8. EthFresh' BY <1>1, <1>2, <1>6 DEF EthFresh, EthReceives
<1>9. EthGiven' BY <1>5, <1>6 DEF EthGiven
<1>10. EthReading' = EthReading /\ RxCleared' = RxCleared BY <1>1 DEF EthReading, RxCleared
<1>11. EthRxType' BY <1>1, <1>6, <1>10 DEF EthInv, EthRxType
<1>12. EthRx'
  <2>1. PICK m : m = Taken(isem, EthReading) OBVIOUS
  <2>2. RxHas(rx, RxCleared, m) /\ "packet_error" \notin ethfault BY <2>1 DEF EthInv, EthRx
  <2>3. PICK z \in Nat : z = RxFirstTail BY <1>5 DEF EthRxSlots
  <2>4. Away(EthRxSize, 0, 0) <= Away(EthRxSize, 0, RxFirstTail) BY <1>5, <2>3
  <2>5. RxHas(rx', RxCleared, m) BY <1>2, <1>6, <2>2, <2>4 DEF RxHas
  <2>6. QED BY <1>1, <1>10, <2>1, <2>2, <2>5 DEF EthRx
<1>13. QED BY <1>7, <1>8, <1>9, <1>11, <1>12 DEF EthInv

LEMMA EthStarts ==
    ASSUME EthInv, \/ _82545EMInit \/ _82545EM_reset_hw \/ _82545EM_phy_reg \/ _82545EM_init_hw
                   \/ _82545EM_configure_tx \/ ethinit
    PROVE  EthInv'
<1>1. CASE _82545EMInit
  BY <1>1, EthStageStep DEF _82545EMInit, EthKeeps
<1>2. CASE _82545EM_reset_hw
  BY <1>2, EthStageStep DEF _82545EM_reset_hw, EthKeeps
<1>3. CASE _82545EM_phy_reg
  <2>1. PICK to \in {"phy", "failed"} : EthStage("reset", to) /\ UNCHANGED <<rx, tx, ethfault>>
    BY <1>3 DEF _82545EM_phy_reg, EthKeeps
  <2>2. QED BY <2>1, EthStageStep
<1>4. CASE _82545EM_init_hw
  <2>1. PICK to \in {"phy", "link"} : EthStage("phy", to) /\ UNCHANGED <<rx, tx, ethfault>>
    BY <1>4 DEF _82545EM_init_hw, EthKeeps
  <2>2. QED BY <2>1, EthStageStep
<1>5. CASE _82545EM_configure_tx
  <2>1. EthStage("rx", "tx") /\ UNCHANGED <<rx, ethfault>> /\ tx' = [tx EXCEPT !.tdh = 0, !.tdt = 0]
    BY <1>5 DEF _82545EM_configure_tx
  <2>2. tx.tdh = 0 /\ tx.tdt = 0 BY <2>1 DEF EthInv, EthFresh, EthStage
  <2>3. tx \in TxRings BY DEF EthInv, EthTxType
  <2>4. tx' = tx BY <2>1, <2>2, <2>3 DEF TxRings
  <2>5. QED BY <2>1, <2>4, EthStageStep
<1>6. CASE ethinit
  BY <1>6, EthStageStep DEF ethinit
<1>7. QED BY <1>1, <1>2, <1>3, <1>4, <1>5, <1>6
-----------------------------------------------------------------------------
\* Whoever is in a call is so because the driver is up.
LEMMA EthUpIs ==
    ASSUME EthInv, rxpc # "idle" \/ \E w \in EthWriters : txpc[w].at # "idle"
    PROVE  EthUp
  BY DEF EthInv, EthFresh, EthUp

LEMMA EthReadingIs ==
    ASSUME EthInv
    PROVE  /\ IsFiniteSet(EthReading) /\ IsFiniteSet(EthWriting)
           /\ Taken(isem, EthReading) \in Nat /\ Taken(osem, EthWriting) \in Nat
           /\ RxCleared \in {0, 1} /\ TxFilling \in {0, 1}
<1>1. IsFiniteSet(EthReading) BY FS_EmptySet, FS_Singleton DEF EthReading
<1>2. IsFiniteSet(EthWriting)
  <2>1. EthWriting \subseteq EthWriters BY DEF EthWriting
  <2>2. QED BY <2>1, EthConstants, FS_Subset
<1>3. Serving(isem, EthReading) /\ Serving(osem, EthWriting) BY DEF EthInv, EthRxType, EthTxType
<1>4. QED BY <1>1, <1>2, <1>3, TakenNat DEF RxCleared, TxFilling

LEMMA EthArrives == ASSUME EthInv, RxArrives PROVE EthInv'
<1>1. /\ EthReceives /\ rx.rdh # rx.rdt
      /\ rx' = [rx EXCEPT !.full = @ \cup {rx.rdh}, !.rdh = (@ + 1) % EthRxSize]
      /\ UNCHANGED <<ethstate, isem, rxpc, tx, osem, txpc, ethcpu, ethfault>>
  BY DEF RxArrives
<1>2. PICK c, m : c = RxCleared /\ m = Taken(isem, EthReading) OBVIOUS
<1>3. c \in {0, 1} /\ m \in Nat BY <1>2, EthReadingIs
<1>4. rx \in RxRings /\ RxHas(rx, c, m) BY <1>2 DEF EthInv, EthRxType, EthRx
<1>5. rx.rdh \in EthRxSlots /\ (rx.rdh + 1) % EthRxSize \in EthRxSlots
  <2>1. rx.rdh \in EthRxSlots BY <1>4 DEF RxRings
  <2>2. QED BY <2>1, EthConstants DEF EthRxSlots
<1>6. /\ rx' \in RxRings /\ rx'.full = rx.full \cup {rx.rdh} /\ rx'.rdh = (rx.rdh + 1) % EthRxSize
      /\ rx'.head = rx.head /\ rx'.tail = rx.tail /\ rx'.rdt = rx.rdt
  BY <1>1, <1>4, <1>5 DEF RxRings
<1>7. RxHas(rx', c, m)
  <2>1. PICK r2 : r2 = rx' OBVIOUS
  <2>2. RxHas(r2, c, m) BY <1>1, <1>3, <1>4, <1>6, <2>1, RxStores
  <2>3. QED BY <2>1, <2>2
<1>8. RxCleared' = c /\ EthReading' = EthReading BY <1>1, <1>2 DEF RxCleared, EthReading
<1>9. EthRxType' BY <1>1, <1>6, <1>8 DEF EthInv, EthRxType
<1>10. EthRx' BY <1>1, <1>2, <1>7, <1>8 DEF EthInv, EthRx
<1>11. EthTxType' /\ EthTx' BY <1>1, EthTxKept
<1>12. EthFresh' BY <1>1, <1>6 DEF EthInv, EthFresh, EthReceives
<1>13. EthGiven' BY <1>1, <1>6 DEF EthInv, EthGiven
<1>14. QED BY <1>9, <1>10, <1>11, <1>12, <1>13 DEF EthInv

LEMMA EthSends == ASSUME EthInv, TxLeaves PROVE EthInv'
<1>1. /\ ethstate = "UP" /\ tx.tdh # tx.tdt
      /\ tx' = [tx EXCEPT !.done = @ \cup {tx.tdh}, !.tdh = (@ + 1) % EthTxSize]
      /\ UNCHANGED <<ethstate, rx, isem, rxpc, osem, txpc, ethcpu, ethfault>>
  BY DEF TxLeaves, EthUp
<1>2. tx \in TxRings BY DEF EthInv, EthTxType
<1>3. tx.tdh \in EthSlots /\ (tx.tdh + 1) % EthTxSize \in EthSlots
  <2>1. tx.tdh \in EthSlots BY <1>2 DEF TxRings
  <2>2. QED BY <2>1, EthConstants DEF EthSlots
<1>4. /\ tx' \in TxRings /\ tx'.done = tx.done \cup {tx.tdh} /\ tx'.tdh = (tx.tdh + 1) % EthTxSize
      /\ tx'.head = tx.head /\ tx'.tail = tx.tail /\ tx'.tdt = tx.tdt /\ tx'.sent = tx.sent
  BY <1>1, <1>2, <1>3 DEF TxRings
<1>5. EthWriting' = EthWriting /\ EthInFill' = EthInFill /\ TxFilling' = TxFilling
  BY <1>1 DEF EthWriting, EthInFill, TxFilling
<1>6. EthTxType' BY <1>1, <1>4, <1>5 DEF EthInv, EthTxType
<1>7. EthTx'
  <2> SUFFICES /\ \E u, v \in Nat : TxHas(tx', Taken(osem, EthWriting), u, v, TxFilling)
               /\ \A w \in EthInFill : txpc[w].slot = tx'.tail /\ ethcpu = w
    BY <1>1, <1>5 DEF EthTx
  <2>1. PICK f, m : f = TxFilling /\ m = Taken(osem, EthWriting) OBVIOUS
  <2>2. PICK u, v \in Nat : TxHas(tx, m, u, v, f) BY <2>1 DEF EthInv, EthTx
  <2>3. f \in {0, 1} BY <2>1, EthReadingIs
  <2>4. PICK t2 : t2 = tx' OBVIOUS
  <2>5. u - 1 \in Nat /\ v + 1 \in Nat /\ TxHas(t2, m, u - 1, v + 1, f)
    <3>1. PICK t : t = tx OBVIOUS
    <3>2. /\ t2 \in TxRings /\ t2.done = t.done \cup {t.tdh} /\ t2.tdh = (t.tdh + 1) % EthTxSize
          /\ t2.head = t.head /\ t2.tail = t.tail /\ t2.tdt = t.tdt /\ t2.sent = t.sent
      BY <1>4, <2>4, <3>1
    <3>3. t \in TxRings /\ t.tdh # t.tdt /\ TxHas(t, m, u, v, f) BY <1>1, <1>2, <2>2, <3>1
    <3>4. TxSent(t2, m, u, v, f) BY <2>3, <3>2, <3>3, TxSends
    <3>5. QED BY <3>4 DEF TxSent
  <2>6. \A w \in EthInFill : txpc[w].slot = tx.tail /\ ethcpu = w BY DEF EthInv, EthTx
  <2>7. QED BY <1>4, <2>1, <2>4, <2>5, <2>6
<1>8. EthRxType' /\ EthRx'
  <2>1. "packet_error" \notin ethfault' BY <1>1 DEF EthInv, EthRx
  <2>2. QED BY <1>1, <2>1, EthRxKept
<1>9. EthFresh' BY <1>1 DEF EthFresh, EthReceives
<1>10. EthGiven' BY <1>1 DEF EthInv, EthGiven
<1>11. QED BY <1>6, <1>7, <1>8, <1>9, <1>10 DEF EthInv

\* The handler's two parts.
LEMMA RunNat == ASSUME NEW N \in Nat \ {0}, NEW S, NEW t PROVE EthRun(S, t, N) \in Nat
<1> DEFINE stops == {n \in 0..(N - 1) : (t + n) % N \notin S}
<1>1. EthRun(S, t, N) = IF stops = {} THEN N ELSE CHOOSE n \in stops : \A m \in stops : n <= m
  BY DEF EthRun
<1>2. stops \subseteq Nat OBVIOUS
<1> HIDE DEF stops
<1>3. ASSUME stops # {} PROVE (CHOOSE n \in stops : \A m \in stops : n <= m) \in Nat
  <2>1. PICK n \in stops : \A m \in stops : n <= m BY <1>2, <1>3, LeastNat, Zenon
  <2>2. PICK c : c = CHOOSE k \in stops : \A m \in stops : k <= m OBVIOUS
  <2>3. c \in stops BY <2>1, <2>2
  <2>4. QED BY <1>2, <2>2, <2>3
<1>4. QED BY <1>1, <1>3

LEMMA EthRxHandled ==
    ASSUME EthInv, eth_rxPackets(EthRun(rx.full, rx.tail, EthRxSize)), rxpc' = rxpc,
           ethfault' = ethfault
    PROVE  EthRxType' /\ EthRx' /\ rx'.rdt = rx.rdt /\ rx'.head = rx.head
<1>1. PICK n : n = EthRun(rx.full, rx.tail, EthRxSize) OBVIOUS
<1>2. rx' = [rx EXCEPT !.tail = (@ + n) % EthRxSize] /\ isem' = VN(isem, n)
  BY <1>1 DEF eth_rxPackets
<1>3. PICK c, m : c = RxCleared /\ m = Taken(isem, EthReading) OBVIOUS
<1>4. c \in {0, 1} /\ m \in Nat BY <1>3, EthReadingIs
<1>5. rx \in RxRings /\ RxHas(rx, c, m) BY <1>3 DEF EthInv, EthRxType, EthRx
<1>6. n \in Nat BY <1>1, EthConstants, RunNat
<1>7. (rx.tail + n) % EthRxSize \in EthRxSlots
  <2>1. rx.tail \in EthRxSlots BY <1>5 DEF RxRings
  <2>2. QED BY <1>6, <2>1, EthConstants DEF EthRxSlots
<1>8. /\ rx' \in RxRings /\ rx'.tail = (rx.tail + n) % EthRxSize
      /\ rx'.full = rx.full /\ rx'.rdh = rx.rdh /\ rx'.head = rx.head /\ rx'.rdt = rx.rdt
  BY <1>2, <1>5, <1>7 DEF RxRings
<1>9. RxHas(rx', c, m + n)
  <2>1. PICK r2 : r2 = rx' OBVIOUS
  <2>2. RxHas(r2, c, m + n) BY <1>1, <1>4, <1>5, <1>8, <2>1, RxCounts
  <2>3. QED BY <2>1, <2>2
<1>10. RxCleared' = c /\ EthReading' = EthReading BY <1>3 DEF RxCleared, EthReading
<1>11. GivenN(isem, EthReading, {EthReader}, n)
  BY <1>6, EthReadingIs, TakenVN DEF EthInv, EthRxType
<1>12. /\ isem' \in SemRecords({EthReader}) /\ Serving(isem', EthReading)
       /\ Taken(isem', EthReading) = m + n
  BY <1>2, <1>3, <1>11 DEF GivenN
<1>13. EthRxType' BY <1>8, <1>10, <1>12 DEF EthRxType
<1>14. EthRx' BY <1>9, <1>10, <1>12 DEF EthInv, EthRx
<1>15. QED BY <1>8, <1>13, <1>14

LEMMA EthTxHandled ==
    ASSUME EthInv, eth_txPackets(EthRun(tx.done, tx.head, EthTxSize)), txpc' = txpc,
           ethcpu' = ethcpu
    PROVE  EthTxType' /\ EthTx' /\ tx'.tdh = tx.tdh /\ tx'.tdt = tx.tdt
<1>1. PICK n : n = EthRun(tx.done, tx.head, EthTxSize) OBVIOUS
<1>2. PICK gone, left : /\ gone = {(tx.head + i) % EthTxSize : i \in 0..(n - 1)}
                        /\ left = [i \in EthSlots |-> IF (i - tx.head) % EthTxSize < n
                                                      THEN "none" ELSE tx.sent[i]]
  OBVIOUS
<1>3. /\ tx' = [tx EXCEPT !.done = @ \ gone, !.sent = left, !.head = (@ + n) % EthTxSize]
      /\ osem' = VN(osem, n)
  BY <1>1, <1>2 DEF eth_txPackets
<1>4. n \in Nat BY <1>1, EthConstants, RunNat
<1>5. tx \in TxRings BY DEF EthInv, EthTxType
<1>6. (tx.head + n) % EthTxSize \in EthSlots
  <2>1. tx.head \in EthSlots BY <1>5 DEF TxRings
  <2>2. QED BY <1>4, <2>1, EthConstants DEF EthSlots
<1>7. left \in [EthSlots -> EthWriters \cup {"none"}]
  <2>1. tx.sent \in [EthSlots -> EthWriters \cup {"none"}] BY <1>5 DEF TxRings
  <2>2. \A i \in EthSlots : tx.sent[i] \in EthWriters \cup {"none"} BY <2>1
  <2>3. QED BY <1>2, <2>2
<1>8. tx.done \ gone \in SUBSET EthSlots BY <1>5 DEF TxRings
<1>9. /\ tx' \in TxRings /\ tx'.head = (tx.head + n) % EthTxSize /\ tx'.done = tx.done \ gone
      /\ tx'.sent = left /\ tx'.tail = tx.tail /\ tx'.tdh = tx.tdh /\ tx'.tdt = tx.tdt
  BY <1>3, <1>5, <1>6, <1>7, <1>8 DEF TxRings
<1>10. EthWriting' = EthWriting /\ EthInFill' = EthInFill /\ TxFilling' = TxFilling
  BY DEF EthWriting, EthInFill, TxFilling
<1>11. PICK f, m : f = TxFilling /\ m = Taken(osem, EthWriting) OBVIOUS
<1>12. f \in {0, 1} /\ m \in Nat BY <1>11, EthReadingIs
<1>13. GivenN(osem, EthWriting, EthWriters, n)
  BY <1>4, EthReadingIs, TakenVN DEF EthInv, EthTxType
<1>14. /\ osem' \in SemRecords(EthWriters) /\ Serving(osem', EthWriting)
       /\ Taken(osem', EthWriting) = m + n
  BY <1>3, <1>11, <1>13 DEF GivenN
<1>15. EthTxType' BY <1>9, <1>10, <1>14 DEF EthInv, EthTxType
<1>16. EthTx'
  <2> SUFFICES /\ \E u, v \in Nat : TxHas(tx', m + n, u, v, f)
               /\ \A w \in EthInFill : txpc[w].slot = tx'.tail /\ ethcpu = w
    BY <1>10, <1>11, <1>14 DEF EthTx
  <2>1. PICK u, v \in Nat : TxHas(tx, m, u, v, f) BY <1>11 DEF EthInv, EthTx
  <2>2. PICK t, t2 : t = tx /\ t2 = tx' OBVIOUS
  <2>3. /\ t2 \in TxRings /\ t2.head = (t.head + n) % EthTxSize
        /\ t2.done = t.done \ {(t.head + i) % EthTxSize : i \in 0..(n - 1)}
        /\ t2.sent = [i \in EthSlots |-> IF (i - t.head) % EthTxSize < n THEN "none" ELSE t.sent[i]]
        /\ t2.tail = t.tail /\ t2.tdh = t.tdh /\ t2.tdt = t.tdt
    BY <1>2, <1>9, <2>2
  <2>4. t \in TxRings /\ TxHas(t, m, u, v, f) /\ n = EthRun(t.done, t.head, EthTxSize) /\ m \in Int
    BY <1>1, <1>5, <1>12, <2>1, <2>2
  <2>5. TxHas(t2, m + n, u, 0, f) BY <1>12, <2>3, <2>4, TxReclaims
  <2>6. \A w \in EthInFill : txpc[w].slot = tx.tail /\ ethcpu = w BY DEF EthInv, EthTx
  <2>7. QED BY <1>9, <2>2, <2>5, <2>6
<1>17. QED BY <1>9, <1>15, <1>16

LEMMA EthHandles == ASSUME EthInv, ethhandler PROVE EthInv'
<1>1. /\ ethstate = "UP" /\ UNCHANGED <<ethstate, rxpc, txpc, ethcpu, ethfault>>
      /\ \/ eth_rxPackets(EthRun(rx.full, rx.tail, EthRxSize)) \/ UNCHANGED <<rx, isem>>
      /\ \/ eth_txPackets(EthRun(tx.done, tx.head, EthTxSize)) \/ UNCHANGED <<tx, osem>>
  BY DEF ethhandler, EthUp
<1>2. "packet_error" \notin ethfault' BY <1>1 DEF EthInv, EthRx
<1>3. EthRxType' /\ EthRx' /\ rx'.rdt = rx.rdt /\ rx'.head = rx.head
  <2>1. CASE eth_rxPackets(EthRun(rx.full, rx.tail, EthRxSize)) BY <1>1, <2>1, EthRxHandled
  <2>2. CASE UNCHANGED <<rx, isem>> BY <1>1, <1>2, <2>2, EthRxKept
  <2>3. QED BY <1>1, <2>1, <2>2
<1>4. EthTxType' /\ EthTx'
  <2>1. CASE eth_txPackets(EthRun(tx.done, tx.head, EthTxSize)) BY <1>1, <2>1, EthTxHandled
  <2>2. CASE UNCHANGED <<tx, osem>> BY <1>1, <2>2, EthTxKept
  <2>3. QED BY <1>1, <2>1, <2>2
<1>5. EthFresh' BY <1>1 DEF EthFresh, EthReceives
<1>6. EthGiven' BY <1>1, <1>3 DEF EthInv, EthGiven
<1>7. QED BY <1>3, <1>4, <1>5, <1>6 DEF EthInv

\* While the reader may run no writer is between filling and advancing, and
\* while a writer may run no other one is.
LEMMA EthReaderRuns == ASSUME EthInv, EthMayRun(EthReader) PROVE EthInFill = {}
<1>1. SUFFICES ASSUME NEW w \in EthInFill PROVE FALSE OBVIOUS
<1>2. ethcpu = w BY DEF EthInv, EthTx
<1>3. w \in EthWriters BY DEF EthInFill
<1>4. QED BY <1>2, <1>3, EthConstants DEF EthMayRun
LEMMA EthWriterRuns ==
    ASSUME EthInv, NEW w \in EthWriters, EthMayRun(w) PROVE EthInFill \subseteq {w}
<1>1. SUFFICES ASSUME NEW x \in EthInFill PROVE x = w OBVIOUS
<1>2. ethcpu = x BY DEF EthInv, EthTx
<1>3. x \in EthWriters BY DEF EthInFill
<1>4. QED BY <1>2, <1>3, EthConstants DEF EthMayRun

\* The reader: he waits, clears a descriptor, and advances.
LEMMA EthReadStep == ASSUME EthInv, ethread PROVE EthInv'
<1>1. /\ ethstate = "UP" /\ rxpc = "idle" /\ isem' = P(isem, EthReader) /\ rxpc' = "copy"
      /\ UNCHANGED <<ethstate, rx, tx, osem, txpc, ethfault>> /\ EthMayRun(EthReader)
  BY DEF ethread, EthUp, EthCpuFree, EthMayRun
<1>2. EthReading = {} /\ EthReading' = {EthReader} /\ RxCleared = 0 /\ RxCleared' = 0
  BY <1>1 DEF EthReading, RxCleared
<1>3. isem \in SemRecords({EthReader}) /\ Serving(isem, {}) BY <1>2 DEF EthInv, EthRxType
<1>4. /\ P(isem, EthReader) \in SemRecords({EthReader}) /\ Serving(P(isem, EthReader), {EthReader})
      /\ Taken(P(isem, EthReader), {EthReader}) = Taken(isem, {})
  <2>1. EthReader \in {EthReader} /\ EthReader \notin {} /\ IsFiniteSet({})
        /\ {} \cup {EthReader} = {EthReader}
    BY FS_EmptySet
  <2>2. PICK S : S = {EthReader} OBVIOUS
  <2>3. P(isem, EthReader) \in SemRecords(S) BY <1>3, <2>1, <2>2, PSem
  <2>4. Serving(P(isem, EthReader), {} \cup {EthReader})
        /\ Taken(P(isem, EthReader), {} \cup {EthReader}) = Taken(isem, {})
    BY <1>3, <2>1, <2>2, TakenEnter
  <2>5. QED BY <2>1, <2>2, <2>3, <2>4
<1>5. EthRxType' BY <1>1, <1>2, <1>4 DEF EthInv, EthRxType
<1>6. EthRx' BY <1>1, <1>2, <1>4 DEF EthInv, EthRx
<1>7. EthTxType' /\ EthTx' BY <1>1, EthTxKept, EthReaderRuns
<1>8. EthFresh' BY <1>1 DEF EthFresh, EthReceives
<1>9. EthGiven' BY <1>1 DEF EthInv, EthGiven
<1>10. QED BY <1>5, <1>6, <1>7, <1>8, <1>9 DEF EthInv

LEMMA EthCopyStep == ASSUME EthInv, ethreadCopy PROVE EthInv'
<1>1. /\ rxpc = "copy" /\ ~Waits(isem, EthReader) /\ rx' = [rx EXCEPT !.full = @ \ {rx.head}]
      /\ rxpc' = "advance"
      /\ ethfault' = (IF rx.head \in rx.full THEN ethfault ELSE ethfault \cup {"packet_error"})
      /\ UNCHANGED <<ethstate, isem, tx, osem, txpc>> /\ EthMayRun(EthReader)
  BY DEF ethreadCopy
<1>2. ethstate = "UP" BY <1>1, EthUpIs DEF EthUp
<1>3. EthReading = {EthReader} /\ EthReading' = {} /\ RxCleared = 0 /\ RxCleared' = 1
  BY <1>1 DEF EthReading, RxCleared
<1>4. PICK m : m = Taken(isem, {EthReader}) OBVIOUS
<1>5. rx \in RxRings /\ RxHas(rx, 0, m) /\ isem \in SemRecords({EthReader})
      /\ Serving(isem, {EthReader}) /\ m \in Nat
  BY <1>3, <1>4, EthReadingIs DEF EthInv, EthRxType, EthRx
<1>6. Serving(isem, {}) /\ Taken(isem, {}) = m - 1
  <2>1. EthReader \in {EthReader} /\ {EthReader} \ {EthReader} = {} OBVIOUS
  <2>2. PICK S : S = {EthReader} OBVIOUS
  <2>3. IsFiniteSet({EthReader}) BY FS_Singleton
  <2>4. Serving(isem, {EthReader} \ {EthReader})
        /\ Taken(isem, {EthReader} \ {EthReader}) = Taken(isem, {EthReader}) - 1
    BY <1>1, <1>5, <2>1, <2>2, <2>3, TakenGone
  <2>5. QED BY <1>4, <2>1, <2>4
<1>7. m > 0
  <2>1. Taken(isem, {}) \in Nat BY <1>6, FS_EmptySet, TakenNat
  <2>2. QED BY <1>5, <1>6, <2>1
<1>8. /\ rx' \in RxRings /\ rx'.full = rx.full \ {rx.head} /\ rx'.rdh = rx.rdh
      /\ rx'.head = rx.head /\ rx'.tail = rx.tail /\ rx'.rdt = rx.rdt
  BY <1>1, <1>5 DEF RxRings
<1>9. rx.head \in rx.full /\ RxHas(rx', 1, m - 1)
  <2>1. PICK r, r2 : r = rx /\ r2 = rx' OBVIOUS
  <2>2. /\ r2 \in RxRings /\ r2.full = r.full \ {r.head} /\ r2.rdh = r.rdh
        /\ r2.head = r.head /\ r2.tail = r.tail /\ r2.rdt = r.rdt
    BY <1>8, <2>1
  <2>3. r \in RxRings /\ RxHas(r, 0, m) BY <1>5, <2>1
  <2>4. r.head \in r.full /\ RxHas(r2, 1, m - 1) BY <1>5, <1>7, <2>2, <2>3, RxClears
  <2>5. QED BY <2>1, <2>4
<1>10. ethfault' = ethfault BY <1>1, <1>9
<1>11. EthRxType' BY <1>1, <1>3, <1>5, <1>6, <1>8 DEF EthRxType
<1>12. EthRx' BY <1>1, <1>3, <1>6, <1>9, <1>10 DEF EthInv, EthRx
<1>13. EthTxType' /\ EthTx' BY <1>1, EthTxKept, EthReaderRuns
<1>14. EthFresh' BY <1>1, <1>2 DEF EthFresh, EthReceives
<1>15. EthGiven' BY <1>1, <1>8 DEF EthInv, EthGiven
<1>16. QED BY <1>11, <1>12, <1>13, <1>14, <1>15 DEF EthInv

LEMMA EthAdvanceStep == ASSUME EthInv, ethreadAdvance PROVE EthInv'
<1>1. /\ rxpc = "advance" /\ rxpc' = "idle"
      /\ rx' = [rx EXCEPT !.head = (@ + 1) % EthRxSize,
                          !.rdt = IF rx.head % E1000_RING_BOUNDARY = 0
                                  THEN (@ + E1000_RING_BOUNDARY) % EthRxSize ELSE @]
      /\ UNCHANGED <<ethstate, isem, tx, osem, txpc, ethfault>> /\ EthMayRun(EthReader)
  BY DEF ethreadAdvance
<1>2. ethstate = "UP" BY <1>1, EthUpIs DEF EthUp
<1>3. EthReading = {} /\ EthReading' = {} /\ RxCleared = 1 /\ RxCleared' = 0
  BY <1>1 DEF EthReading, RxCleared
<1>4. PICK m : m = Taken(isem, {}) OBVIOUS
<1>5. rx \in RxRings /\ RxHas(rx, 1, m) /\ m \in Nat
      /\ Away(EthRxSize, rx.head, rx.rdt) = EthGap(rx.head)
  BY <1>2, <1>3, <1>4, EthReadingIs DEF EthInv, EthRxType, EthRx, EthGiven
<1>6. PICK b : b = IF rx.head % E1000_RING_BOUNDARY = 0
                   THEN (rx.rdt + E1000_RING_BOUNDARY) % EthRxSize ELSE rx.rdt
  OBVIOUS
<1>7. b \in EthRxSlots /\ (rx.head + 1) % EthRxSize \in EthRxSlots
  <2>1. rx.head \in EthRxSlots /\ rx.rdt \in EthRxSlots BY <1>5 DEF RxRings
  <2>2. (rx.head + 1) % EthRxSize \in EthRxSlots
        /\ (rx.rdt + E1000_RING_BOUNDARY) % EthRxSize \in EthRxSlots
    BY <2>1, EthConstants DEF EthRxSlots
  <2>3. QED BY <1>6, <2>1, <2>2
<1>8. /\ rx' \in RxRings /\ rx'.head = (rx.head + 1) % EthRxSize /\ rx'.rdt = b
      /\ rx'.full = rx.full /\ rx'.rdh = rx.rdh /\ rx'.tail = rx.tail
  BY <1>1, <1>5, <1>6, <1>7 DEF RxRings
<1>9. RxHas(rx', 0, m) /\ Away(EthRxSize, rx'.head, rx'.rdt) = EthGap(rx'.head)
  <2>1. PICK r, r2 : r = rx /\ r2 = rx' OBVIOUS
  <2>2. /\ r2 \in RxRings /\ r2.head = (r.head + 1) % EthRxSize
        /\ r2.rdt = (IF r.head % E1000_RING_BOUNDARY = 0
                     THEN (r.rdt + E1000_RING_BOUNDARY) % EthRxSize ELSE r.rdt)
        /\ r2.full = r.full /\ r2.rdh = r.rdh /\ r2.tail = r.tail
    BY <1>6, <1>8, <2>1
  <2>3. r \in RxRings /\ RxHas(r, 1, m) /\ Away(EthRxSize, r.head, r.rdt) = EthGap(r.head)
    BY <1>5, <2>1
  <2>4. RxHas(r2, 0, m) /\ Away(EthRxSize, r2.head, r2.rdt) = EthGap(r2.head)
    BY <1>5, <2>2, <2>3, RxAdvances
  <2>5. QED BY <2>1, <2>4
<1>10. EthRxType' BY <1>1, <1>3, <1>8 DEF EthInv, EthRxType
<1>11. EthRx' BY <1>1, <1>3, <1>4, <1>9 DEF EthInv, EthRx
<1>12. EthTxType' /\ EthTx' BY <1>1, EthTxKept, EthReaderRuns
<1>13. EthFresh' BY <1>1, <1>2 DEF EthFresh, EthReceives
<1>14. EthGiven' BY <1>9 DEF EthGiven
<1>15. QED BY <1>10, <1>11, <1>12, <1>13, <1>14 DEF EthInv

\* A writer: he waits, fills the descriptor at the tail, and advances.
LEMMA EthAt ==
    ASSUME EthInv, NEW w \in EthWriters, NEW k \in [at : {"idle", "fill", "advance"}, slot : EthSlots],
           txpc' = [txpc EXCEPT ![w] = k]
    PROVE  /\ txpc' \in [EthWriters -> [at : {"idle", "fill", "advance"}, slot : EthSlots]]
           /\ txpc'[w] = k /\ \A x \in EthWriters : x # w => txpc'[x] = txpc[x]
           /\ EthWriting' = IF k.at = "fill" THEN EthWriting \cup {w} ELSE EthWriting \ {w}
           /\ EthInFill' = IF k.at = "advance" THEN EthInFill \cup {w} ELSE EthInFill \ {w}
<1>1. txpc \in [EthWriters -> [at : {"idle", "fill", "advance"}, slot : EthSlots]]
  BY DEF EthInv, EthTxType
<1>2. /\ txpc' \in [EthWriters -> [at : {"idle", "fill", "advance"}, slot : EthSlots]]
      /\ txpc'[w] = k /\ \A x \in EthWriters : x # w => txpc'[x] = txpc[x]
  BY <1>1
<1>3. EthWriting' = {x \in EthWriters : txpc'[x].at = "fill"}
      /\ EthInFill' = {x \in EthWriters : txpc'[x].at = "advance"}
  BY DEF EthWriting, EthInFill
<1>4. EthWriting' = IF k.at = "fill" THEN EthWriting \cup {w} ELSE EthWriting \ {w}
  BY <1>2, <1>3 DEF EthWriting
<1>5. EthInFill' = IF k.at = "advance" THEN EthInFill \cup {w} ELSE EthInFill \ {w}
  BY <1>2, <1>3 DEF EthInFill
<1>6. QED BY <1>2, <1>4, <1>5

LEMMA EthWriteStep == ASSUME EthInv, NEW w \in EthWriters, ethwrite(w) PROVE EthInv'
<1>1. /\ ethstate = "UP" /\ txpc[w].at = "idle" /\ osem' = P(osem, w)
      /\ txpc' = [txpc EXCEPT ![w].at = "fill"]
      /\ UNCHANGED <<ethstate, rx, isem, rxpc, tx, ethfault>> /\ ethcpu = "none"
  BY DEF ethwrite, EthUp, EthCpuFree
<1>2. PICK k : k = [txpc[w] EXCEPT !.at = "fill"] OBVIOUS
<1>3. txpc[w] \in [at : {"idle", "fill", "advance"}, slot : EthSlots] BY DEF EthInv, EthTxType
<1>4. k \in [at : {"idle", "fill", "advance"}, slot : EthSlots] /\ k.at = "fill" BY <1>2, <1>3
<1>5. txpc' = [txpc EXCEPT ![w] = k] BY <1>1, <1>2
<1>6. /\ txpc' \in [EthWriters -> [at : {"idle", "fill", "advance"}, slot : EthSlots]]
      /\ \A x \in EthWriters : x # w => txpc'[x] = txpc[x]
      /\ EthWriting' = EthWriting \cup {w} /\ EthInFill' = EthInFill \ {w}
  BY <1>4, <1>5, EthAt
<1>7. w \notin EthWriting /\ w \notin EthInFill BY <1>1 DEF EthWriting, EthInFill
<1>8. EthInFill' = EthInFill /\ TxFilling' = TxFilling BY <1>6, <1>7 DEF TxFilling
<1>9. osem \in SemRecords(EthWriters) /\ Serving(osem, EthWriting) /\ IsFiniteSet(EthWriting)
  BY EthReadingIs DEF EthInv, EthTxType
<1>10. /\ osem' \in SemRecords(EthWriters) /\ Serving(osem', EthWriting \cup {w})
       /\ Taken(osem', EthWriting \cup {w}) = Taken(osem, EthWriting)
  BY <1>1, <1>7, <1>9, PSem, TakenEnter
<1>11. EthTxType' BY <1>1, <1>6, <1>10 DEF EthInv, EthTxType
<1>12. EthTx'
  <2>1. EthMayRun(EthReader) BY <1>1 DEF EthMayRun
  <2>2. EthInFill = {} /\ EthInFill' = {} BY <1>8, <2>1, EthReaderRuns
  <2>3. \E u, v \in Nat : TxHas(tx, Taken(osem, EthWriting), u, v, TxFilling) BY DEF EthInv, EthTx
  <2>4. QED BY <1>1, <1>6, <1>8, <1>10, <2>2, <2>3 DEF EthTx
<1>13. EthRxType' /\ EthRx'
  <2>1. "packet_error" \notin ethfault' BY <1>1 DEF EthInv, EthRx
  <2>2. QED BY <1>1, <2>1, EthRxKept
<1>14. EthFresh' BY <1>1 DEF EthFresh, EthReceives
<1>15. EthGiven' BY <1>1 DEF EthInv, EthGiven
<1>16. QED BY <1>11, <1>12, <1>13, <1>14, <1>15 DEF EthInv

\* The rings after an advance.
LEMMA EthAdvancedIs ==
    ASSUME NEW t \in TxRings
    PROVE  /\ EthAdvanced(t) \in TxRings /\ EthAdvanced(t).tdt = (t.tdt + 1) % EthTxSize
           /\ EthAdvanced(t).tail = (t.tail + 1) % EthTxSize /\ EthAdvanced(t).head = t.head
           /\ EthAdvanced(t).tdh = t.tdh /\ EthAdvanced(t).done = t.done
           /\ EthAdvanced(t).sent = t.sent
<1>1. (t.tdt + 1) % EthTxSize \in EthSlots /\ (t.tail + 1) % EthTxSize \in EthSlots
  <2>1. t.tdt \in EthSlots /\ t.tail \in EthSlots BY DEF TxRings
  <2>2. QED BY <2>1, EthConstants DEF EthSlots
<1>2. QED BY <1>1 DEF EthAdvanced, TxRings

LEMMA EthFillStep == ASSUME EthInv, NEW w \in EthWriters, ethwriteFill(w) PROVE EthInv'
<1>1. PICK filled : filled = [tx EXCEPT !.sent[tx.tail] = w, !.done = @ \ {tx.tail}] OBVIOUS
<1>2. PICK k : k = [at |-> "advance", slot |-> tx.tail] OBVIOUS
<1>3. /\ txpc[w].at = "fill" /\ ~Waits(osem, w) /\ EthMayRun(w) /\ ethcpu' = w
      /\ tx' = filled /\ txpc' = [txpc EXCEPT ![w] = k]
      /\ UNCHANGED <<ethstate, rx, isem, rxpc, osem, ethfault>>
  BY <1>1, <1>2 DEF ethwriteFill
<1>4. ethstate = "UP"
  <2>1. txpc[w].at # "idle" BY <1>3
  <2>2. QED BY <2>1, EthUpIs DEF EthUp
<1>5. tx \in TxRings BY DEF EthInv, EthTxType
<1>6. tx.tail \in EthSlots /\ 0 \in EthSlots
  <2>1. 0 \in EthSlots BY EthConstants DEF EthSlots
  <2>2. QED BY <1>5, <2>1 DEF TxRings
<1>7. k \in [at : {"idle", "fill", "advance"}, slot : EthSlots] /\ k.at = "advance" /\ k.slot = tx.tail
  BY <1>2, <1>6
<1>8. /\ txpc' \in [EthWriters -> [at : {"idle", "fill", "advance"}, slot : EthSlots]]
      /\ txpc'[w] = k
      /\ EthWriting' = EthWriting \ {w}
      /\ EthInFill' = EthInFill \cup {w}
  BY <1>3, <1>7, EthAt
<1>9. w \in EthWriting /\ w \notin EthInFill BY <1>3 DEF EthWriting, EthInFill
<1>10. PICK m : m = Taken(osem, EthWriting) OBVIOUS
<1>11. osem \in SemRecords(EthWriters) /\ Serving(osem, EthWriting) /\ IsFiniteSet(EthWriting)
       /\ m \in Nat
  BY <1>10, EthReadingIs DEF EthInv, EthTxType
<1>12. Serving(osem, EthWriting \ {w}) /\ Taken(osem, EthWriting \ {w}) = m - 1
  BY <1>3, <1>9, <1>10, <1>11, TakenGone
<1>13. m > 0
  <2>1. IsFiniteSet(EthWriting \ {w}) BY <1>11, FS_RemoveElement
  <2>2. Taken(osem, EthWriting \ {w}) \in Nat BY <1>12, <2>1, TakenNat
  <2>3. QED BY <1>11, <1>12, <2>2
<1>14. /\ filled \in TxRings /\ filled.sent = [tx.sent EXCEPT ![tx.tail] = w]
       /\ filled.done = tx.done \ {tx.tail} /\ filled.head = tx.head /\ filled.tail = tx.tail
       /\ filled.tdh = tx.tdh /\ filled.tdt = tx.tdt
  <2>1. PICK g : g = [tx.sent EXCEPT ![tx.tail] = w] OBVIOUS
  <2>2. tx.sent \in [EthSlots -> EthWriters \cup {"none"}] BY <1>5 DEF TxRings
  <2>3. g \in [EthSlots -> EthWriters \cup {"none"}] BY <2>1, <2>2
  <2>4. filled = [tx EXCEPT !.sent = g, !.done = @ \ {tx.tail}] BY <1>1, <1>5, <2>1 DEF TxRings
  <2>5. QED BY <1>5, <2>1, <2>3, <2>4 DEF TxRings
<1>15. tx' \in TxRings BY <1>3, <1>14
<1>16. EthTxType' BY <1>3, <1>8, <1>11, <1>12, <1>15 DEF EthTxType
<1>17. EthTx'
  <2>1. EthInFill = {} BY <1>3, <1>9, EthWriterRuns
  <2>2. TxFilling = 0 BY <2>1 DEF TxFilling
  <2>3. PICK u, v \in Nat : TxHas(tx, m, u, v, 0) BY <1>10, <2>1, <2>2 DEF EthInv, EthTx
  <2>4. TxHas(filled, m - 1, u, v, 1)
    <3>1. PICK t : t = tx OBVIOUS
    <3>2. /\ filled.sent = [t.sent EXCEPT ![t.tail] = w] /\ filled.done = t.done \ {t.tail}
          /\ filled.head = t.head /\ filled.tail = t.tail /\ filled.tdh = t.tdh
          /\ filled.tdt = t.tdt /\ filled \in TxRings
      BY <1>14, <3>1
    <3>3. t \in TxRings /\ TxHas(t, m, u, v, 0) /\ m \in Int /\ w # "none"
      BY <1>5, <1>11, <2>3, <3>1, EthConstants
    <3>4. QED BY <1>13, <3>2, <3>3, TxFills
  <2>5. EthInFill' = {w} /\ txpc'[w].slot = tx.tail BY <1>7, <1>8, <2>1
  <2>6. TxFilling' = 1 BY <2>5 DEF TxFilling
  <2>7. TxHas(tx', m - 1, u, v, TxFilling') /\ tx'.tail = tx.tail BY <1>3, <1>14, <2>4, <2>6
  <2>8. \E u2, v2 \in Nat : TxHas(tx', Taken(osem', EthWriting'), u2, v2, TxFilling')
    BY <1>3, <1>8, <1>12, <2>7
  <2>9. \A x \in EthInFill' : txpc'[x].slot = tx'.tail /\ ethcpu' = x BY <1>3, <2>5, <2>7
  <2>10. QED BY <2>8, <2>9 DEF EthTx
<1>18. EthRxType' /\ EthRx'
  <2>1. "packet_error" \notin ethfault' BY <1>3 DEF EthInv, EthRx
  <2>2. QED BY <1>3, <2>1, EthRxKept
<1>19. EthFresh' BY <1>3, <1>4 DEF EthFresh, EthReceives
<1>20. EthGiven' BY <1>3 DEF EthInv, EthGiven
<1>21. QED BY <1>16, <1>17, <1>18, <1>19, <1>20 DEF EthInv

LEMMA EthWroteStep == ASSUME EthInv, NEW w \in EthWriters, ethwriteAdvance(w) PROVE EthInv'
<1>1. PICK k : k = [at |-> "idle", slot |-> 0] OBVIOUS
<1>2. /\ txpc[w].at = "advance" /\ tx' = EthAdvanced(tx) /\ txpc' = [txpc EXCEPT ![w] = k]
      /\ UNCHANGED <<ethstate, rx, isem, rxpc, osem, ethfault>> /\ EthMayRun(w)
  BY <1>1 DEF ethwriteAdvance
<1>3. ethstate = "UP"
  <2>1. txpc[w].at # "idle" BY <1>2
  <2>2. QED BY <2>1, EthUpIs DEF EthUp
<1>4. tx \in TxRings BY DEF EthInv, EthTxType
<1>5. k \in [at : {"idle", "fill", "advance"}, slot : EthSlots] /\ k.at = "idle"
  <2>1. 0 \in EthSlots BY EthConstants DEF EthSlots
  <2>2. QED BY <1>1, <2>1
<1>6. /\ txpc' \in [EthWriters -> [at : {"idle", "fill", "advance"}, slot : EthSlots]]
      /\ EthWriting' = EthWriting \ {w} /\ EthInFill' = EthInFill \ {w}
  BY <1>2, <1>5, EthAt
<1>7. w \notin EthWriting /\ w \in EthInFill BY <1>2 DEF EthWriting, EthInFill
<1>8. EthWriting' = EthWriting BY <1>6, <1>7
<1>9. tx' \in TxRings BY <1>2, <1>4, EthAdvancedIs
<1>10. EthTxType' BY <1>2, <1>6, <1>8, <1>9 DEF EthInv, EthTxType
<1>11. EthTx'
  <2> SUFFICES /\ \E u, v \in Nat : TxHas(tx', Taken(osem, EthWriting), u, v, TxFilling')
               /\ EthInFill' = {}
    BY <1>2, <1>8 DEF EthTx
  <2>1. EthInFill = {w} BY <1>2, <1>7, EthWriterRuns
  <2>2. TxFilling = 1 /\ EthInFill' = {} BY <1>6, <2>1 DEF TxFilling
  <2>3. TxFilling' = 0 BY <2>2 DEF TxFilling
  <2>4. PICK m : m = Taken(osem, EthWriting) OBVIOUS
  <2>5. PICK u, v \in Nat : TxHas(tx, m, u, v, 1) BY <2>2, <2>4 DEF EthInv, EthTx
  <2>6. m \in Int BY <2>4, EthReadingIs
  <2>7. PICK t, t2 : t = tx /\ t2 = EthAdvanced(t) OBVIOUS
  <2>8. t \in TxRings /\ TxHas(t, m, u, v, 1) BY <1>4, <2>5, <2>7
  <2>9. /\ t2 \in TxRings /\ t2.tdt = (t.tdt + 1) % EthTxSize
        /\ t2.tail = (t.tail + 1) % EthTxSize /\ t2.head = t.head
        /\ t2.tdh = t.tdh /\ t2.done = t.done /\ t2.sent = t.sent
    BY <2>7, <2>8, EthAdvancedIs
  <2>10. TxHas(t2, m, u + 1, v, 0) BY <2>6, <2>8, <2>9, TxAdvances
  <2>11. u + 1 \in Nat /\ tx' = t2 BY <1>2, <2>7
  <2>12. QED BY <2>2, <2>3, <2>4, <2>10, <2>11
<1>12. EthRxType' /\ EthRx'
  <2>1. "packet_error" \notin ethfault' BY <1>2 DEF EthInv, EthRx
  <2>2. QED BY <1>2, <2>1, EthRxKept
<1>13. EthFresh' BY <1>2, <1>3 DEF EthFresh, EthReceives
<1>14. EthGiven' BY <1>2 DEF EthInv, EthGiven
<1>15. QED BY <1>10, <1>11, <1>12, <1>13, <1>14 DEF EthInv

LEMMA EthNextStep == EthInv /\ [EthNext]_ethvars => EthInv'
<1> SUFFICES ASSUME EthInv, [EthNext]_ethvars PROVE EthInv' OBVIOUS
<1>1. CASE \/ _82545EMInit \/ _82545EM_reset_hw \/ _82545EM_phy_reg \/ _82545EM_init_hw
           \/ _82545EM_configure_tx \/ ethinit
  BY <1>1, EthStarts
<1>2. CASE _82545EM_configure_rx BY <1>2, EthConfigureRx
<1>3. CASE RxArrives BY <1>3, EthArrives
<1>4. CASE TxLeaves BY <1>4, EthSends
<1>5. CASE ethhandler BY <1>5, EthHandles
<1>6. CASE ethread BY <1>6, EthReadStep
<1>7. CASE ethreadCopy BY <1>7, EthCopyStep
<1>8. CASE ethreadAdvance BY <1>8, EthAdvanceStep
<1>9. ASSUME NEW w \in EthWriters, ethwrite(w) \/ ethwriteFill(w) \/ ethwriteAdvance(w)
      PROVE  EthInv'
  BY <1>9, EthWriteStep, EthFillStep, EthWroteStep
<1>10. CASE UNCHANGED ethvars
  <2>1. UNCHANGED <<ethstate, rx, isem, rxpc, tx, osem, txpc, ethcpu, ethfault>> BY <1>10 DEF ethvars
  <2>2. "packet_error" \notin ethfault' BY <2>1 DEF EthInv, EthRx
  <2>3. EthRxType' /\ EthRx' BY <2>1, <2>2, EthRxKept
  <2>4. EthTxType' /\ EthTx' BY <2>1, EthTxKept
  <2>5. EthFresh' BY <2>1 DEF EthInv, EthFresh, EthReceives
  <2>6. EthGiven' BY <2>1 DEF EthInv, EthGiven
  <2>7. QED BY <2>3, <2>4, <2>5, <2>6 DEF EthInv
<1>11. QED BY <1>1, <1>2, <1>3, <1>4, <1>5, <1>6, <1>7, <1>8, <1>9, <1>10 DEF EthNext

LEMMA EthAlways == EthSpec => []EthInv
<1>1. EthInv /\ [EthNext]_ethvars => EthInv' BY EthNextStep
<1>2. QED BY EthInitHolds, <1>1, PTL DEF EthSpec
-----------------------------------------------------------------------------
\* The places from the one that is a places on, b of them.
PlacesFrom(N, g, b) == {(g + i) % N : i \in 0..(b - 1)}
Within(N, h, a, b) == {x \in 0..(N - 1) : a <= Away(N, h, x) /\ Away(N, h, x) < a + b}
LEMMA Window ==
    ASSUME NEW N \in Nat \ {0}, NEW h \in 0..(N - 1), NEW a \in 0..N, NEW b \in 0..N, a + b <= N,
           NEW g, g = Place(N, h, a)
    PROVE  /\ PlacesFrom(N, g, b) = Within(N, h, a, b)
           /\ IsFiniteSet(PlacesFrom(N, g, b)) /\ Cardinality(PlacesFrom(N, g, b)) = b
<1>1. PICK W : W = {(g + i) % N : i \in 0..(b - 1)} OBVIOUS
<1>2. g \in 0..(N - 1) BY PlaceIs
<1>3. \A i \in 0..(N - 1) : (g + i) % N = Place(N, g, i) /\ Place(N, g, i) \in 0..(N - 1)
  <2>1. \A i \in 0..(N - 1) : i \in 0..N OBVIOUS
  <2>2. QED BY <1>2, <2>1, PlaceIs
<1>4. \A i \in 0..(N - 1) : i < b => Away(N, h, Place(N, g, i)) = a + i BY DEF Away, Place
<1>5. \A x \in 0..(N - 1) :
         Away(N, h, x) \in 0..(N - 1) /\ Place(N, h, Away(N, h, x)) = x
  BY AwayIs
<1>6. ASSUME NEW x \in W
      PROVE  x \in 0..(N - 1) /\ a <= Away(N, h, x) /\ Away(N, h, x) < a + b
  <2>1. PICK i \in 0..(b - 1) : x = (g + i) % N BY <1>1
  <2>2. i \in 0..(N - 1) /\ i < b OBVIOUS
  <2>3. x = Place(N, g, i) /\ x \in 0..(N - 1) BY <1>3, <2>1, <2>2
  <2>4. Away(N, h, x) = a + i BY <1>4, <2>2, <2>3
  <2>5. QED BY <2>2, <2>3, <2>4
<1>7. ASSUME NEW x \in 0..(N - 1), a <= Away(N, h, x), Away(N, h, x) < a + b
      PROVE  x \in W
  <2>1. PICK d \in 0..(N - 1) : d = Away(N, h, x) /\ Place(N, h, d) = x BY <1>5
  <2>2. PICK i \in 0..(N - 1) : i = d - a /\ i < b /\ i \in 0..(b - 1) BY <1>7, <2>1
  <2>3. Place(N, g, i) = x BY <2>1, <2>2 DEF Place
  <2>4. x = (g + i) % N BY <1>3, <2>3
  <2>5. QED BY <1>1, <2>2, <2>4
<1>8. W = {x \in 0..(N - 1) : a <= Away(N, h, x) /\ Away(N, h, x) < a + b} BY <1>6, <1>7
<1>9. IsFiniteSet(W) /\ Cardinality(W) = b
  <2>1. PICK f : f = [x \in 0..(N - 1) |-> x] OBVIOUS
  <2>2. \A i \in 0..(N - 1) : f[(g + i) % N] = (g + i) % N BY <1>3, <2>1
  <2>3. \A i, j \in 0..(N - 1) : (g + i) % N = (g + j) % N => i = j BY <1>2, RingPlaces
  <2>4. \A i \in 0..(b - 1) : i \in 0..(N - 1) OBVIOUS
  <2>5. RingSound(f, N, g, (g + b) % N, b)
    <3>1. \A i, j \in 0..(b - 1) : f[(g + i) % N] = f[(g + j) % N] => i = j
      BY <2>2, <2>3, <2>4
    <3>2. QED BY <1>2, <3>1 DEF RingSound
  <2>6. Ring(f, N, g, b) = W BY <1>1, <2>2, <2>4 DEF Ring
  <2>7. IsFiniteSet(Ring(f, N, g, b)) /\ Cardinality(Ring(f, N, g, b)) = b BY <2>5, RingCount
  <2>8. QED BY <2>6, <2>7
<1>10. PlacesFrom(N, g, b) = W BY <1>1 DEF PlacesFrom
<1>11. W = Within(N, h, a, b) BY <1>8 DEF Within
<1>12. QED BY <1>9, <1>10, <1>11

LEMMA EthReadsPackets == EthInv => RxPermits
<1> SUFFICES ASSUME EthInv PROVE RxPermits OBVIOUS
<1>1. PICK passed : passed = IF rxpc = "copy" /\ ~Waits(isem, EthReader) THEN 1 ELSE 0 OBVIOUS
<1>2. PICK m : m = Taken(isem, EthReading) OBVIOUS
<1>3. m \in Nat BY <1>2, EthReadingIs
<1>4. m = isem.val + passed
  <2>1. Cardinality({}) = 0 /\ Cardinality({EthReader}) = 1 BY FS_EmptySet, FS_Singleton
  <2>2. CASE rxpc = "copy" /\ ~Waits(isem, EthReader)
    <3>1. Awake(isem, EthReading) = {EthReader} BY <2>2 DEF Awake, EthReading
    <3>2. QED BY <1>1, <1>2, <2>1, <2>2, <3>1 DEF Taken
  <2>3. CASE ~(rxpc = "copy" /\ ~Waits(isem, EthReader))
    <3>1. Awake(isem, EthReading) = {} BY <2>3 DEF Awake, EthReading
    <3>2. QED BY <1>1, <1>2, <2>1, <2>3, <3>1 DEF Taken
  <2>4. QED BY <2>2, <2>3
<1>5. PICK unread : unread = {(rx.head + i) % EthRxSize :
                                i \in 0..(EthRun(rx.full, rx.head, EthRxSize) - 1)}
  OBVIOUS
<1>6. ASSUME rxpc # "advance"
      PROVE  /\ rx.full = unread /\ m = (rx.tail - rx.head) % EthRxSize
             /\ m <= Cardinality(unread)
  <2>1. RxHas(rx, 0, m) /\ rx \in RxRings
    BY <1>2, <1>6 DEF EthInv, EthRx, RxCleared, EthRxType
  <2>2. PICK N \in Nat \ {0} : N = EthRxSize /\ EthRxSlots = 0..(N - 1)
    BY EthConstants DEF EthRxSlots
  <2>3. PICK h, a, t \in 0..(N - 1) : h = rx.head /\ a = rx.rdh /\ t = rx.tail
    BY <2>1, <2>2 DEF RxRings
  <2>4. PICK k : k = Away(N, h, a) OBVIOUS
  <2>5. k \in 0..(N - 1) /\ Place(N, h, k) = a /\ Away(N, h, t) = (t - h) % N
    BY <2>4, AwayIs
  <2>6. /\ Away(N, h, t) <= k /\ Away(N, h, t) = m + 0
        /\ \A x \in 0..(N - 1) : x \in rx.full <=> 0 <= Away(N, h, x) /\ Away(N, h, x) < k
    BY <2>1, <2>2, <2>3, <2>4 DEF RxHas
  <2>7. m <= k /\ m = (t - h) % N BY <1>3, <2>5, <2>6
  <2>8. \A i \in 0..(N - 1) : (h + i) % N = Place(N, h, i) /\ Place(N, h, i) \in 0..(N - 1)
                              /\ Away(N, h, Place(N, h, i)) = i
    <3>1. \A i \in 0..(N - 1) : i \in 0..N OBVIOUS
    <3>2. QED BY <3>1, PlaceIs, AwayPlace
  <2>9. \A i \in 0..(N - 1) : (h + i) % N \in rx.full <=> i < k
    <3> TAKE i \in 0..(N - 1)
    <3>1. PICK x \in 0..(N - 1) : x = (h + i) % N /\ Away(N, h, x) = i BY <2>8
    <3>2. 0 <= i OBVIOUS
    <3>3. QED BY <2>6, <3>1, <3>2
  <2>10. EthRun(rx.full, h, N) = k
    <3>1. k \in 0..N /\ ~(k < k) BY <2>5
    <3>2. (h + k) % N \notin rx.full BY <2>5, <2>9, <3>1
    <3>3. \A i \in 0..(N - 1) : i < k => (h + i) % N \in rx.full BY <2>9
    <3>4. QED BY <3>1, <3>2, <3>3, RunIs
  <2>11. unread = {(h + i) % N : i \in 0..(k - 1)} BY <1>5, <2>2, <2>3, <2>10
  <2>12. /\ unread = {x \in 0..(N - 1) : 0 <= Away(N, h, x) /\ Away(N, h, x) < 0 + k}
         /\ Cardinality(unread) = k
    <3>1. PICK z \in 0..N : z = 0 OBVIOUS
    <3>2. h = Place(N, h, z) BY <3>1 DEF Place
    <3>3. k \in 0..N /\ z + k <= N BY <2>5, <3>1
    <3>4. PlacesFrom(N, h, k) = Within(N, h, z, k) /\ Cardinality(PlacesFrom(N, h, k)) = k
      BY <3>2, <3>3, Window
    <3>5. unread = PlacesFrom(N, h, k) BY <2>11 DEF PlacesFrom
    <3>6. QED BY <3>1, <3>4, <3>5 DEF Within
  <2>13. rx.full = unread
    <3>1. rx.full \subseteq 0..(N - 1) BY <2>1, <2>2 DEF RxRings
    <3>2. 0 + k = k BY <2>5
    <3>3. QED BY <2>6, <2>12, <3>1, <3>2
  <2>14. QED BY <2>2, <2>3, <2>7, <2>12, <2>13
<1>7. "packet_error" \notin ethfault BY DEF EthInv, EthRx
<1>8. QED BY <1>1, <1>4, <1>5, <1>6, <1>7 DEF RxPermits

LEMMA EthOwnSlots == EthInv => TxOwnSlots
<1> SUFFICES ASSUME EthInv PROVE TxOwnSlots OBVIOUS
<1>1. PICK filling : filling = {txpc[w].slot : w \in EthInFill} OBVIOUS
<1>2. PICK sending, free, passed :
         /\ sending = {(tx.tdh + i) % EthTxSize :
                         i \in 0..(((tx.tdt - tx.tdh) % EthTxSize) - 1)}
         /\ free = {i \in EthSlots : tx.sent[i] = "none"}
         /\ passed = {w \in EthWriters : txpc[w].at = "fill" /\ ~Waits(osem, w)}
  OBVIOUS
<1>3. SUFFICES ASSUME Cardinality(TxPending) < EthTxSize
               PROVE  /\ TxPending \ filling = sending
                      /\ osem.val + Cardinality(passed) = Cardinality(free)
  BY <1>1, <1>2 DEF TxOwnSlots
<1>4. PICK N \in Nat \ {0} : N = EthTxSize /\ EthSlots = 0..(N - 1)
  BY EthConstants DEF EthSlots
<1>5. PICK m, f : m = Taken(osem, EthWriting) /\ f = TxFilling OBVIOUS
<1>6. f \in {0, 1} /\ m \in Nat BY <1>5, EthReadingIs
<1>7. PICK u, v \in Nat : TxHas(tx, m, u, v, f) BY <1>5 DEF EthInv, EthTx
<1>8. tx \in TxRings BY DEF EthInv, EthTxType
<1>9. PICK h, a, b \in 0..(N - 1) : h = tx.head /\ a = tx.tdh /\ b = tx.tdt
  BY <1>4, <1>8 DEF TxRings
<1>10. /\ u + v + f <= N /\ a = Place(N, h, v) /\ b = Place(N, h, v + u) /\ tx.tail = b
       /\ \A x \in 0..(N - 1) : x \in tx.done <=> Away(N, h, x) < v
       /\ \A x \in 0..(N - 1) : tx.sent[x] # "none" <=> Away(N, h, x) < u + v + f
       /\ m = N - (u + v + f)
  BY <1>4, <1>7, <1>9 DEF TxHas
<1>11. \A x \in 0..(N - 1) : Away(N, h, x) \in 0..(N - 1) BY DEF Away
<1>12. TxPending = {x \in 0..(N - 1) : v <= Away(N, h, x) /\ Away(N, h, x) < u + v + f}
  <2>1. TxPending = {x \in 0..(N - 1) : tx.sent[x] # "none" /\ x \notin tx.done}
    BY <1>4 DEF TxPending
  <2>2. \A x \in 0..(N - 1) : x \notin tx.done <=> v <= Away(N, h, x) BY <1>10, <1>11
  <2>3. QED BY <1>10, <2>1, <2>2
<1>13. u < N
  <2>1. SUFFICES ASSUME u = N PROVE FALSE BY <1>6, <1>10
  <2>2. v = 0 /\ f = 0 BY <1>6, <1>10, <2>1
  <2>3. \A x \in 0..(N - 1) : v <= Away(N, h, x) /\ Away(N, h, x) < u + v + f
    BY <1>11, <2>1, <2>2
  <2>4. TxPending = 0..(N - 1) BY <1>12, <2>3
  <2>5. PICK n \in Int : n = N - 1 OBVIOUS
  <2>6. Cardinality(0..n) = IF 0 > n THEN 0 ELSE n - 0 + 1 BY FS_Interval
  <2>7. Cardinality(TxPending) = N BY <2>4, <2>5, <2>6
  <2>8. QED BY <1>3, <1>4, <2>7
<1>14. sending = {x \in 0..(N - 1) : v <= Away(N, h, x) /\ Away(N, h, x) < v + u}
  <2>1. (b - a) % N = Away(N, a, b) BY AwayIs
  <2>2. Away(N, a, b) = u BY <1>6, <1>10, <1>13 DEF Away, Place
  <2>3. sending = {(a + i) % N : i \in 0..(u - 1)} BY <1>2, <1>4, <1>9, <2>1, <2>2
  <2>4. v \in 0..N /\ u \in 0..N /\ v + u <= N BY <1>6, <1>10
  <2>5. PlacesFrom(N, a, u) = Within(N, h, v, u) BY <1>10, <2>4, Window
  <2>6. QED BY <2>3, <2>5 DEF PlacesFrom, Within
<1>15. TxPending \ filling = sending
  <2>1. CASE EthInFill = {}
    <3>1. f = 0 /\ filling = {} BY <1>1, <1>5, <2>1 DEF TxFilling
    <3>2. u + v + f = v + u BY <3>1
    <3>3. QED BY <1>12, <1>14, <3>1, <3>2
  <2>2. CASE EthInFill # {}
    <3>1. PICK w \in EthInFill : txpc[w].slot = tx.tail /\ EthInFill = {w}
      <4>1. PICK w \in EthInFill : TRUE BY <2>2
      <4>2. \A x \in EthInFill : txpc[x].slot = tx.tail /\ ethcpu = x BY DEF EthInv, EthTx
      <4>3. QED BY <4>1, <4>2
    <3>2. filling = {b} /\ f = 1 BY <1>1, <1>5, <1>10, <2>2, <3>1 DEF TxFilling
    <3>3. v + u \in 0..(N - 1) BY <1>10, <3>2
    <3>4. Away(N, h, b) = v + u BY <1>10, <3>3, AwayPlace
    <3>5. \A x \in 0..(N - 1) : Away(N, h, x) = v + u => x = b BY <3>4 DEF Away
    <3>6. \A x \in 0..(N - 1) : Away(N, h, x) < u + v + f /\ x # b <=> Away(N, h, x) < v + u
      <4> TAKE x \in 0..(N - 1)
      <4>1. PICK i \in 0..(N - 1) : i = Away(N, h, x) BY <1>11
      <4>2. x = b <=> i = v + u BY <3>4, <3>5, <4>1
      <4>3. QED BY <3>2, <4>1, <4>2
    <3>7. QED BY <1>12, <1>14, <3>2, <3>6
  <2>3. QED BY <2>1, <2>2
<1>16. Cardinality(free) = m
  <2>1. PICK c \in 0..N : c = u + v + f BY <1>6, <1>10
  <2>2. PICK g : g = Place(N, h, c) OBVIOUS
  <2>3. m \in 0..N /\ c + m = N BY <1>6, <1>10, <2>1
  <2>4. PICK window : window = PlacesFrom(N, g, m) OBVIOUS
  <2>5. window = Within(N, h, c, m) /\ Cardinality(window) = m BY <2>2, <2>3, <2>4, Window
  <2>6. \A x \in 0..(N - 1) : tx.sent[x] = "none" <=> c <= Away(N, h, x) /\ Away(N, h, x) < c + m
    <3> TAKE x \in 0..(N - 1)
    <3>1. PICK i \in 0..(N - 1) : i = Away(N, h, x) BY <1>11
    <3>2. tx.sent[x] # "none" <=> i < c BY <1>10, <2>1, <3>1
    <3>3. QED BY <2>3, <3>1, <3>2
  <2>7. free = window BY <1>2, <1>4, <2>5, <2>6 DEF Within
  <2>8. QED BY <2>5, <2>7
<1>17. osem.val + Cardinality(passed) = m
  <2>1. passed = Awake(osem, EthWriting) BY <1>2 DEF Awake, EthWriting
  <2>2. QED BY <1>5, <2>1 DEF Taken
<1>18. QED BY <1>15, <1>16, <1>17

\* A packet that is read was received, once, and a packet that is to be
\* written has a descriptor of its own until it was transmitted; the semaphores
\* count them.  On the transmit side as long as the ring is not quite full
\* (ethread.c, ethwrite.c, ethhandler.c, 82545EMInit.c).
THEOREM EthRingsAreSound == EthSpec => []EthRingsSound
<1>1. EthInv => EthRingsSound
  BY EthReadsPackets, EthOwnSlots DEF EthRingsSound
<1>2. QED BY <1>1, EthAlways, PTL
=============================================================================
