---------------------------- MODULE ServiceProofs ----------------------------
(***************************************************************************)
(* The services above the kernel, for every number of processes, slots and  *)
(* buffers and every budget of calls, packets and kills, in this order: the *)
(* remote file system (its mutex, and the reply a call takes), ARP (claimed *)
(* addresses, pending entries), IP (the output queue and its buffers), UDP, *)
(* DHCP (settings), ICMP, and the namespace (the mapping of a name).  Each  *)
(* part begins with the lemmas on its operators and its invariant, has one  *)
(* lemma per action or kind of step, and ends with the theorems.            *)
(***************************************************************************)
EXTENDS Rfs, Arp, Ip, Udp, Icmp, Dhcp, Nam, SemProofs, FunctionTheorems

-----------------------------------------------------------------------------
\* The remote file system.  Where a process is, and its call, of a set C of
\* calls that are not looked into.
RfStops == {"idle", "enter", "send", "receive", "dead"}
Places(C) == [at : RfStops, call : C, id : Nat, seq : Nat, tries : Nat]
RfTypeOK ==
    /\ rfmutex \in SemRecords(RfProcs) /\ rfseq \in Nat /\ rfcalls \in Nat
    /\ \E C : rfproc \in [RfProcs -> Places(C)]

\* Whoever is in a call waits for the mutex, has it, or died with it.
RfUsers == {p \in RfProcs : rfproc[p].at # "idle"}
RfMutexed ==
    /\ Serving(rfmutex, RfUsers) /\ Taken(rfmutex, RfUsers) = 1 /\ Tight(rfmutex)
    /\ \A p \in RfProcs : Waits(rfmutex, p) => rfproc[p].at = "enter"

\* Numbers are given once, so what travels under a number belongs to one call.
RfTalks == {p \in RfProcs : rfproc[p].at \in {"send", "receive"}}
RfPaid(p, r) ==
    r.status = 0 \/ r.op = "size"
      => [id |-> rfproc[p].id, status |-> r.status, len |-> r.len] \in rfexec
RfNumbered ==
    /\ \A p \in RfTalks : rfproc[p].seq < rfseq
    /\ \A p, q \in RfTalks : rfproc[p].seq = rfproc[q].seq => p = q
    /\ \A m \in rfreq : /\ m.seq \in Nat /\ m.seq < rfseq
                        /\ \A p \in RfTalks : rfproc[p].seq = m.seq => rfproc[p].id = m.id
    /\ \A r \in rfrep : /\ r.seq \in Nat /\ r.seq < rfseq
                        /\ \A p \in RfTalks : rfproc[p].seq = r.seq => RfPaid(p, r)

\* The inductive invariant.
RfInv == RfTypeOK /\ RfMutexed /\ RfNumbered /\ ~rfwrong

-----------------------------------------------------------------------------
\* The steps by what they do to the mutex.  A process moves on inside.
LEMMA MutexStays ==
    ASSUME RfTypeOK, RfMutexed, rfmutex' = rfmutex, NEW p \in RfProcs, ~Waits(rfmutex, p),
           rfproc[p].at # "idle", rfproc'[p].at # "idle",
           \A q \in RfProcs : q # p => rfproc'[q] = rfproc[q]
    PROVE  RfMutexed'
<1>1. RfUsers' = RfUsers BY DEF RfUsers
<1>2. \A q \in RfProcs : Waits(rfmutex, q) => rfproc'[q].at = "enter" BY DEF RfMutexed
<1>3. QED BY <1>1, <1>2 DEF RfMutexed

\* It leaves and gives the mutex back.
LEMMA MutexBack ==
    ASSUME RfTypeOK, RfMutexed, rfmutex' = V(rfmutex), NEW p \in RfProcs,
           ~Waits(rfmutex, p), rfproc[p].at # "idle", rfproc'[p].at = "idle",
           \A q \in RfProcs : q # p => rfproc'[q] = rfproc[q]
    PROVE  RfMutexed' /\ V(rfmutex) \in SemRecords(RfProcs)
<1>1. /\ rfmutex \in SemRecords(RfProcs) /\ Serving(rfmutex, RfUsers) /\ Tight(rfmutex)
      /\ Taken(rfmutex, RfUsers) = 1
      /\ \A q \in RfProcs : Waits(rfmutex, q) => rfproc[q].at = "enter"
  BY DEF RfTypeOK, RfMutexed
<1>2. IsFiniteSet(RfUsers) BY RfAssumption, FS_Subset DEF RfUsers
<1>3. p \in RfUsers /\ RfUsers' = RfUsers \ {p} BY DEF RfUsers
<1>4. Serving(V(rfmutex), RfUsers \ {p}) /\ Taken(V(rfmutex), RfUsers \ {p}) = 1
  BY <1>1, <1>2, <1>3, TakenExit
<1>5. Tight(V(rfmutex)) /\ \A x : Waits(V(rfmutex), x) => Waits(rfmutex, x)
  BY <1>1, TightKept
<1>6. ASSUME NEW q \in RfProcs, Waits(V(rfmutex), q) PROVE rfproc'[q].at = "enter"
  <2>1. Waits(rfmutex, q) /\ q # p BY <1>5, <1>6
  <2>2. QED BY <1>1, <2>1
<1>7. V(rfmutex) \in SemRecords(RfProcs) BY <1>1, VSem
<1>8. QED BY <1>3, <1>4, <1>5, <1>6, <1>7 DEF RfMutexed

\* The steps that give no number, send nothing and take no reply.
LEMMA NumbersStay ==
    ASSUME RfNumbered, rfseq' = rfseq, rfexec' = rfexec,
           rfreq' \subseteq rfreq, rfrep' \subseteq rfrep,
           \A q \in RfTalks' : /\ q \in RfTalks
                               /\ rfproc'[q].seq = rfproc[q].seq /\ rfproc'[q].id = rfproc[q].id
    PROVE  RfNumbered'
<1>1. \A q \in RfTalks' : \A r : RfPaid(q, r) => RfPaid(q, r)' BY DEF RfPaid
<1>2. QED BY <1>1 DEF RfNumbered

\* A process goes to another place.
LEMMA PlaceIs ==
    ASSUME NEW C, rfproc \in [RfProcs -> Places(C)], NEW p \in RfProcs, NEW D, C \subseteq D,
           NEW x \in Places(D), rfproc' = [rfproc EXCEPT ![p] = x]
    PROVE  /\ \E E : rfproc' \in [RfProcs -> Places(E)]
           /\ rfproc'[p] = x /\ \A q \in RfProcs : q # p => rfproc'[q] = rfproc[q]
<1>1. \A q \in RfProcs : rfproc[q] \in Places(D) BY DEF Places
<1>2. rfproc' \in [RfProcs -> Places(D)] BY <1>1
<1>3. QED BY <1>2

LEMMA IdlePlace ==
    ASSUME NEW C, NEW a \in RfStops
    PROVE  /\ RfIdle \in Places(C \cup {RfNone}) /\ RfIdle.at = "idle"
           /\ [RfIdle EXCEPT !.at = a] \in Places(C \cup {RfNone})
           /\ [RfIdle EXCEPT !.at = a].at = a
  BY DEF RfIdle, Places, RfStops

LEMMA LeavesCall ==
    ASSUME RfTypeOK, RfMutexed, NEW p \in RfProcs, ~Waits(rfmutex, p), rfproc[p].at # "idle",
           rfproc' = [rfproc EXCEPT ![p] = RfIdle], rfmutex' = V(rfmutex),
           rfseq' \in Nat, rfcalls' \in Nat
    PROVE  /\ RfTypeOK' /\ RfMutexed'
           /\ \A q \in RfTalks' : q \in RfTalks /\ rfproc'[q] = rfproc[q]
<1>1. PICK C : rfproc \in [RfProcs -> Places(C)] BY DEF RfTypeOK
<1>2. PICK x : x = RfIdle OBVIOUS
<1>3. x \in Places(C \cup {RfNone}) /\ x.at = "idle" BY <1>2, IdlePlace DEF RfStops
<1>4. /\ \E E : rfproc' \in [RfProcs -> Places(E)]
      /\ rfproc'[p] = x /\ \A q \in RfProcs : q # p => rfproc'[q] = rfproc[q]
  BY <1>1, <1>2, <1>3, PlaceIs
<1>5. RfMutexed' /\ rfmutex' \in SemRecords(RfProcs) BY <1>3, <1>4, MutexBack
<1>6. RfTypeOK' BY <1>4, <1>5 DEF RfTypeOK
<1>7. \A q \in RfTalks' : q \in RfTalks /\ rfproc'[q] = rfproc[q]
  BY <1>3, <1>4 DEF RfTalks
<1>8. QED BY <1>5, <1>6, <1>7

LEMMA MovesOn ==
    ASSUME RfTypeOK, RfMutexed, NEW p \in RfProcs, ~Waits(rfmutex, p), rfproc[p].at # "idle",
           NEW C, rfproc \in [RfProcs -> Places(C)], NEW D, C \subseteq D,
           NEW x \in Places(D), x.at # "idle", rfproc' = [rfproc EXCEPT ![p] = x],
           rfmutex' = rfmutex, rfseq' \in Nat, rfcalls' \in Nat
    PROVE  /\ RfTypeOK' /\ RfMutexed' /\ rfproc'[p] = x
           /\ \A q \in RfProcs : q # p => rfproc'[q] = rfproc[q]
<1>1. /\ \E E : rfproc' \in [RfProcs -> Places(E)]
      /\ rfproc'[p] = x /\ \A q \in RfProcs : q # p => rfproc'[q] = rfproc[q]
  BY PlaceIs
<1>2. RfMutexed' BY <1>1, MutexStays
<1>3. RfTypeOK' BY <1>1 DEF RfTypeOK
<1>4. QED BY <1>1, <1>2, <1>3

-----------------------------------------------------------------------------
\* The actions.
LEMMA RfCallOK == ASSUME RfInv, NEW p \in RfProcs, NEW c, RfCall(p, c) PROVE RfInv'
<1>1. RfTypeOK /\ RfMutexed /\ RfNumbered BY DEF RfInv
<1>2. PICK C : rfproc \in [RfProcs -> Places(C)] BY <1>1 DEF RfTypeOK
<1>3. PICK x : x = [RfIdle EXCEPT !.at = "enter", !.call = c, !.id = rfcalls + 1] OBVIOUS
<1>4. x \in Places(C \cup {c}) /\ x.at = "enter"
  <2>1. PICK n \in Nat : n = rfcalls + 1 BY <1>1 DEF RfTypeOK
  <2>2. x = [at |-> "enter", call |-> c, id |-> n, seq |-> 0, tries |-> 0]
    BY <1>3, <2>1 DEF RfIdle
  <2>3. QED BY <2>2 DEF Places, RfStops
<1>5. rfproc' = [rfproc EXCEPT ![p] = x] /\ rfproc[p].at = "idle" /\ rfmutex' = P(rfmutex, p)
  BY <1>3 DEF RfCall
<1>6. /\ \E E : rfproc' \in [RfProcs -> Places(E)]
      /\ rfproc'[p] = x /\ \A q \in RfProcs : q # p => rfproc'[q] = rfproc[q]
  BY <1>2, <1>4, <1>5, PlaceIs
<1>7. /\ rfmutex \in SemRecords(RfProcs) /\ Serving(rfmutex, RfUsers) /\ Tight(rfmutex)
      /\ Taken(rfmutex, RfUsers) = 1
      /\ \A q \in RfProcs : Waits(rfmutex, q) => rfproc[q].at = "enter"
  BY <1>1 DEF RfTypeOK, RfMutexed
<1>8. IsFiniteSet(RfUsers) BY RfAssumption, FS_Subset DEF RfUsers
<1>9. p \notin RfUsers /\ RfUsers' = RfUsers \cup {p} BY <1>4, <1>5, <1>6 DEF RfUsers
<1>10. PICK t : t = P(rfmutex, p) OBVIOUS
<1>11. /\ t \in SemRecords(RfProcs)
       /\ Serving(t, RfUsers \cup {p}) /\ Taken(t, RfUsers \cup {p}) = 1
  BY <1>7, <1>8, <1>9, <1>10, TakenEnter, PSem
<1>12. Tight(t) /\ \A y : Waits(t, y) => Waits(rfmutex, y) \/ y = p
  BY <1>7, <1>10, TightKept
<1>13. \A q \in RfProcs : Waits(t, q) => rfproc'[q].at = "enter"
  BY <1>4, <1>6, <1>7, <1>12
<1>14. RfMutexed' BY <1>5, <1>9, <1>10, <1>11, <1>12, <1>13 DEF RfMutexed
<1>15. RfTypeOK'
  <2>1. rfcalls' \in Nat /\ rfseq' \in Nat BY <1>1 DEF RfTypeOK, RfCall
  <2>2. QED BY <1>5, <1>6, <1>10, <1>11, <2>1 DEF RfTypeOK
<1>16. RfNumbered'
  <2>1. \A q \in RfTalks' : q \in RfTalks /\ rfproc'[q] = rfproc[q]
    BY <1>4, <1>6 DEF RfTalks
  <2>2. rfseq' = rfseq /\ rfexec' = rfexec /\ rfreq' = rfreq /\ rfrep' = rfrep BY DEF RfCall
  <2>3. QED BY <1>1, <2>1, <2>2, NumbersStay
<1>17. ~rfwrong' BY DEF RfInv, RfCall
<1>18. QED BY <1>14, <1>15, <1>16, <1>17 DEF RfInv

\* A call that ends, with no reply or with one that is refused.
LEMMA RfEndsOK ==
    ASSUME RfInv, NEW p \in RfProcs, ~Waits(rfmutex, p), rfproc[p].at # "idle",
           rfproc' = [rfproc EXCEPT ![p] = RfIdle], rfmutex' = V(rfmutex),
           rfseq' = rfseq, rfcalls' = rfcalls, rfexec' = rfexec, rfreq' = rfreq,
           rfrep' \subseteq rfrep, ~rfwrong'
    PROVE  RfInv'
<1>1. RfTypeOK /\ RfMutexed /\ RfNumbered BY DEF RfInv
<1>2. rfseq' \in Nat /\ rfcalls' \in Nat BY <1>1 DEF RfTypeOK
<1>3. /\ RfTypeOK' /\ RfMutexed'
      /\ \A q \in RfTalks' : q \in RfTalks /\ rfproc'[q] = rfproc[q]
  BY <1>1, <1>2, LeavesCall
<1>4. RfNumbered' BY <1>1, <1>3, NumbersStay
<1>5. QED BY <1>3, <1>4 DEF RfInv

\* A process that tries again, or waits for its reply.
LEMMA RfMovesOK ==
    ASSUME RfInv, NEW p \in RfProcs, ~Waits(rfmutex, p), rfproc[p].at \in {"send", "receive"},
           NEW C, rfproc \in [RfProcs -> Places(C)], NEW x \in Places(C),
           x.at \in {"send", "receive"}, x.id = rfproc[p].id, x.seq = rfproc[p].seq,
           rfproc' = [rfproc EXCEPT ![p] = x], rfmutex' = rfmutex,
           rfseq' = rfseq, rfcalls' = rfcalls, rfexec' = rfexec, rfreq' = rfreq,
           rfrep' \subseteq rfrep, ~rfwrong'
    PROVE  RfInv'
<1>1. RfTypeOK /\ RfMutexed /\ RfNumbered BY DEF RfInv
<1>2. rfseq' \in Nat /\ rfcalls' \in Nat BY <1>1 DEF RfTypeOK
<1>3. rfproc[p].at # "idle" /\ x.at # "idle" OBVIOUS
<1>4. /\ RfTypeOK' /\ RfMutexed' /\ rfproc'[p] = x
      /\ \A q \in RfProcs : q # p => rfproc'[q] = rfproc[q]
  BY <1>1, <1>2, <1>3, MovesOn
<1>5. \A q \in RfTalks' : /\ q \in RfTalks
                          /\ rfproc'[q].seq = rfproc[q].seq /\ rfproc'[q].id = rfproc[q].id
  BY <1>4 DEF RfTalks
<1>6. RfNumbered' BY <1>1, <1>5, NumbersStay
<1>7. QED BY <1>4, <1>6 DEF RfInv

LEMMA RfRetryOK ==
    ASSUME RfInv, NEW p \in RfProcs, ~Waits(rfmutex, p), rfproc[p].at = "receive", RfRetry(p),
           rfseq' = rfseq, rfcalls' = rfcalls, rfexec' = rfexec, rfreq' = rfreq,
           rfrep' \subseteq rfrep, ~rfwrong'
    PROVE  RfInv'
<1>1. PICK C : rfproc \in [RfProcs -> Places(C)] BY DEF RfInv, RfTypeOK
<1>2. PICK y : y = rfproc[p] OBVIOUS
<1>3. y \in Places(C) BY <1>1, <1>2
<1>4. CASE rfmutex' = rfmutex /\ rfproc' = [rfproc EXCEPT ![p].at = "send", ![p].tries = @ + 1]
  <2>1. PICK x : x = [y EXCEPT !.at = "send", !.tries = @ + 1] OBVIOUS
  <2>2. rfproc' = [rfproc EXCEPT ![p] = x] BY <1>1, <1>2, <1>4, <2>1
  <2>3. PICK n \in Nat : n = y.tries + 1 BY <1>3 DEF Places
  <2>4. x = [y EXCEPT !.at = "send", !.tries = n] BY <2>1, <2>3
  <2>5. x \in Places(C) /\ x.at = "send" /\ x.id = y.id /\ x.seq = y.seq
    BY <1>3, <2>4 DEF Places, RfStops
  <2>6. QED BY <1>1, <1>2, <1>4, <2>2, <2>5, RfMovesOK
<1>5. CASE RfFails(p) BY <1>5, RfEndsOK DEF RfFails
<1>6. QED BY <1>4, <1>5 DEF RfRetry

LEMMA RfRefuseOK == ASSUME RfInv, NEW p \in RfProcs, rfrefuse(p) PROVE RfInv'
<1>1. ~rfwrong' /\ rfrep' \subseteq rfrep BY DEF RfInv, rfrefuse
<1>2. QED BY <1>1, RfEndsOK DEF rfrefuse, RfRuns, RfFails

LEMMA RfSeeksOK == ASSUME RfInv, NEW p \in RfProcs, RfSeeks(p) PROVE RfInv'
<1>1. ~rfwrong' /\ rfrep' \subseteq rfrep BY DEF RfInv, RfSeeks
<1>2. QED BY <1>1, RfEndsOK DEF RfSeeks, RfRuns, RfReturns

LEMMA RfTimeoutOK == ASSUME RfInv, NEW p \in RfProcs, RfTimeout(p) PROVE RfInv'
<1>1. ~rfwrong' /\ rfrep' \subseteq rfrep BY DEF RfInv, RfTimeout
<1>2. QED BY <1>1, RfRetryOK DEF RfTimeout, RfRuns

\* A number that nothing under way has yet.
LEMMA RfscommOK == ASSUME RfInv, NEW p \in RfProcs, rfscomm(p) PROVE RfInv'
<1>1. /\ ~rfwrong' /\ rfrep' = rfrep /\ rfreq' = rfreq /\ rfcalls' = rfcalls /\ rfexec' = rfexec
      /\ ~Waits(rfmutex, p) /\ rfproc[p].at = "enter"
  BY DEF RfInv, rfscomm, RfRuns
<1>2. RfTypeOK /\ RfMutexed /\ RfNumbered BY DEF RfInv
<1>3. CASE UNCHANGED <<rfproc, rfmutex, rfregistered, rfseq>>
  <2>1. RfTypeOK' /\ RfMutexed' BY <1>1, <1>2, <1>3 DEF RfTypeOK, RfMutexed, RfUsers
  <2>2. RfNumbered' BY <1>1, <1>2, <1>3, NumbersStay DEF RfTalks
  <2>3. QED BY <1>1, <2>1, <2>2 DEF RfInv
<1>4. CASE RfFails(p) /\ UNCHANGED <<rfregistered, rfseq, rfpanic>>
  BY <1>1, <1>4, RfEndsOK DEF RfFails
<1>5. PICK c : c = RfRequest(rfproc[p].call) OBVIOUS
<1>6. CASE /\ rfseq' = rfseq + 1 /\ rfmutex' = rfmutex
           /\ rfproc' = [rfproc EXCEPT ![p] = [@ EXCEPT !.at = "send", !.call = c, !.seq = rfseq]]
  <2>1. PICK C : rfproc \in [RfProcs -> Places(C)] BY <1>2 DEF RfTypeOK
  <2>2. PICK y : y = rfproc[p] OBVIOUS
  <2>3. PICK x : x = [y EXCEPT !.at = "send", !.call = c, !.seq = rfseq] OBVIOUS
  <2>4. rfproc' = [rfproc EXCEPT ![p] = x] BY <1>6, <2>1, <2>2, <2>3
  <2>5. y \in Places(C) /\ rfseq \in Nat /\ rfcalls \in Nat BY <1>2, <2>1, <2>2 DEF RfTypeOK
  <2>6. x \in Places(C \cup {c}) /\ x.at = "send" /\ x.id = y.id /\ x.seq = rfseq
    BY <2>3, <2>5 DEF Places, RfStops
  <2>7. rfseq' \in Nat /\ rfcalls' \in Nat BY <1>1, <1>6, <2>5
  <2>8. x.at # "idle" /\ rfproc[p].at # "idle" /\ C \subseteq C \cup {c} BY <1>1, <2>6
  <2>9. /\ RfTypeOK' /\ RfMutexed' /\ rfproc'[p] = x
        /\ \A q \in RfProcs : q # p => rfproc'[q] = rfproc[q]
    BY <1>1, <1>2, <1>6, <2>1, <2>4, <2>6, <2>7, <2>8, MovesOn
  <2>10. \A q \in RfTalks' : q # p => q \in RfTalks /\ rfproc'[q] = rfproc[q]
    BY <2>9 DEF RfTalks
  <2>11. \A q \in RfTalks' : rfproc'[q].seq \in Nat BY <2>9 DEF RfTypeOK, Places, RfTalks
  <2>12. RfNumbered'
    <3>1. \A q \in RfTalks' : q # p => rfproc'[q].seq < rfseq BY <1>2, <2>10 DEF RfNumbered
    <3>2. \A q \in RfTalks' : rfproc'[q].seq < rfseq'
      BY <1>6, <2>5, <2>6, <2>9, <2>11, <3>1
    <3>3. \A q, s \in RfTalks' : rfproc'[q].seq = rfproc'[s].seq => q = s
      BY <1>2, <2>5, <2>6, <2>9, <2>10, <2>11, <3>1 DEF RfNumbered
    <3>4. \A m \in rfreq' : /\ m.seq \in Nat /\ m.seq < rfseq'
                            /\ \A q \in RfTalks' : rfproc'[q].seq = m.seq => rfproc'[q].id = m.id
      BY <1>1, <1>2, <1>6, <2>5, <2>6, <2>9, <2>10, <2>11 DEF RfNumbered
    <3>5. \A r \in rfrep' : /\ r.seq \in Nat /\ r.seq < rfseq'
                            /\ \A q \in RfTalks' : rfproc'[q].seq = r.seq => RfPaid(q, r)'
      BY <1>1, <1>2, <1>6, <2>5, <2>6, <2>9, <2>10, <2>11 DEF RfNumbered, RfPaid
    <3>6. QED BY <3>2, <3>3, <3>4, <3>5 DEF RfNumbered
  <2>13. QED BY <1>1, <2>9, <2>12 DEF RfInv
<1>7. QED BY <1>5, <1>3, <1>4, <1>6, Zenon DEF rfscomm

LEMMA RfSendOK == ASSUME RfInv, NEW p \in RfProcs, RfSend(p) PROVE RfInv'
<1>1. /\ ~rfwrong' /\ rfrep' = rfrep /\ rfseq' = rfseq /\ rfcalls' = rfcalls /\ rfexec' = rfexec
      /\ ~Waits(rfmutex, p) /\ rfproc[p].at = "send"
  BY DEF RfInv, RfSend, RfRuns
<1>2. RfTypeOK /\ RfMutexed /\ RfNumbered BY DEF RfInv
<1>3. PICK m : m = [call |-> rfproc[p].call, id |-> rfproc[p].id, seq |-> rfproc[p].seq] OBVIOUS
<1>4. CASE /\ rfreq' = rfreq \cup {m} /\ rfmutex' = rfmutex
           /\ rfproc' = [rfproc EXCEPT ![p].at = "receive"]
  <2>1. PICK C : rfproc \in [RfProcs -> Places(C)] BY <1>2 DEF RfTypeOK
  <2>2. PICK y : y = rfproc[p] OBVIOUS
  <2>3. PICK x : x = [y EXCEPT !.at = "receive"] OBVIOUS
  <2>4. rfproc' = [rfproc EXCEPT ![p] = x] BY <1>4, <2>1, <2>2, <2>3
  <2>5. y \in Places(C) BY <2>1, <2>2
  <2>6. /\ x \in Places(C) /\ x.at = "receive" /\ x.id = y.id /\ x.seq = y.seq
        /\ y.seq \in Nat
    BY <2>3, <2>5 DEF Places, RfStops
  <2>7. /\ RfTypeOK' /\ RfMutexed' /\ rfproc'[p] = x
        /\ \A q \in RfProcs : q # p => rfproc'[q] = rfproc[q]
    <3>1. rfseq' \in Nat /\ rfcalls' \in Nat BY <1>1, <1>2 DEF RfTypeOK
    <3>2. x.at # "idle" /\ rfproc[p].at # "idle" BY <1>1, <2>6
    <3>3. QED BY <1>1, <1>2, <1>4, <2>1, <2>4, <2>6, <3>1, <3>2, MovesOn
  <2>8. \A q \in RfTalks' : /\ q \in RfTalks
                            /\ rfproc'[q].seq = rfproc[q].seq /\ rfproc'[q].id = rfproc[q].id
    BY <1>1, <2>2, <2>6, <2>7 DEF RfTalks
  <2>9. p \in RfTalks BY <1>1 DEF RfTalks
  <2>10. m.seq = y.seq /\ m.id = y.id BY <1>3, <2>2
  <2>11. \A q \in RfTalks : rfproc[q].seq = m.seq => q = p /\ rfproc[q].id = m.id
    BY <1>2, <2>2, <2>9, <2>10 DEF RfNumbered
  <2>12. RfNumbered'
    <3>1. \A q \in RfTalks' : rfproc'[q].seq < rfseq' BY <1>1, <1>2, <2>8 DEF RfNumbered
    <3>2. \A q, s \in RfTalks' : rfproc'[q].seq = rfproc'[s].seq => q = s
      BY <1>2, <2>8 DEF RfNumbered
    <3>3. \A n \in rfreq' : /\ n.seq \in Nat /\ n.seq < rfseq'
                            /\ \A q \in RfTalks' : rfproc'[q].seq = n.seq => rfproc'[q].id = n.id
      <4>1. \A n \in rfreq : /\ n.seq \in Nat /\ n.seq < rfseq
                             /\ \A q \in RfTalks : rfproc[q].seq = n.seq => rfproc[q].id = n.id
        BY <1>2 DEF RfNumbered
      <4>2. m.seq \in Nat /\ m.seq < rfseq BY <1>2, <2>2, <2>6, <2>9, <2>10 DEF RfNumbered
      <4>3. QED BY <1>1, <1>4, <2>8, <2>11, <4>1, <4>2
    <3>4. \A r \in rfrep' : /\ r.seq \in Nat /\ r.seq < rfseq'
                            /\ \A q \in RfTalks' : rfproc'[q].seq = r.seq => RfPaid(q, r)'
      BY <1>1, <1>2, <2>8 DEF RfNumbered, RfPaid
    <3>5. QED BY <3>1, <3>2, <3>3, <3>4 DEF RfNumbered
  <2>13. QED BY <1>1, <2>7, <2>12 DEF RfInv
<1>5. CASE RfFails(p) /\ UNCHANGED rfreq BY <1>1, <1>5, RfEndsOK DEF RfFails
<1>6. QED BY <1>3, <1>4, <1>5, Zenon DEF RfSend

\* The reply that is taken bears the number of the call, so it was sent for it.
LEMMA RfReceiveOK ==
    ASSUME RfInv, NEW p \in RfProcs, NEW r \in rfrep, RfReceive(p, r) PROVE RfInv'
<1>1. /\ rfrep' \subseteq rfrep /\ rfseq' = rfseq /\ rfcalls' = rfcalls /\ rfexec' = rfexec
      /\ rfreq' = rfreq /\ ~Waits(rfmutex, p) /\ rfproc[p].at = "receive"
  BY DEF RfReceive, RfRuns
<1>2. ~rfwrong /\ RfNumbered BY DEF RfInv
<1>3. PICK c : c = rfproc[p].call OBVIOUS
<1>4. CASE RfRetry(p) /\ UNCHANGED <<rfltab, rfwrong>> BY <1>1, <1>2, <1>4, RfRetryOK
<1>5. CASE RfFails(p) /\ UNCHANGED <<rfltab, rfwrong>>
  BY <1>1, <1>2, <1>5, RfEndsOK DEF RfFails
<1>6. CASE /\ RfIsMine(c, r, rfproc[p].seq) /\ RfGood(c, r) /\ RfReturns(p)
           /\ rfwrong' = (rfwrong \/ [id |-> rfproc[p].id, status |-> r.status,
                                      len |-> r.len] \notin rfexec)
  <2>1. r.status = 0 \/ r.op = "size" BY <1>6 DEF RfIsMine, RfGood
  <2>2. p \in RfTalks /\ rfproc[p].seq = r.seq BY <1>1, <1>6 DEF RfTalks, RfIsMine
  <2>3. RfPaid(p, r) BY <1>2, <2>2 DEF RfNumbered
  <2>4. ~rfwrong' BY <1>2, <1>6, <2>1, <2>3 DEF RfPaid
  <2>5. QED BY <1>1, <1>6, <2>4, RfEndsOK DEF RfReturns
<1>7. QED BY <1>3, <1>4, <1>5, <1>6, Zenon DEF RfReceive

\* A process that is killed while it waits for the mutex leaves the queue; one
\* that waits for its reply keeps the mutex.
LEMMA RfKillOK == ASSUME RfInv, NEW p \in RfProcs, RfKill(p) PROVE RfInv'
<1>1. /\ ~rfwrong' /\ rfrep' = rfrep /\ rfreq' = rfreq /\ rfexec' = rfexec
      /\ rfseq' = rfseq /\ rfcalls' = rfcalls /\ rfmutex' = Leave(rfmutex, p)
      /\ Waits(rfmutex, p) \/ rfproc[p].at = "receive"
  BY DEF RfInv, RfKill
<1>2. RfTypeOK /\ RfMutexed /\ RfNumbered BY DEF RfInv
<1>3. PICK C : rfproc \in [RfProcs -> Places(C)] BY <1>2 DEF RfTypeOK
<1>4. PICK a : a = IF Waits(rfmutex, p) THEN "idle" ELSE "dead" OBVIOUS
<1>5. PICK x : x = [RfIdle EXCEPT !.at = a] OBVIOUS
<1>6. x \in Places(C \cup {RfNone}) /\ x.at = a BY <1>4, <1>5, IdlePlace DEF RfStops
<1>7. rfproc' = [rfproc EXCEPT ![p] = x] BY <1>4, <1>5 DEF RfKill
<1>8. /\ \E E : rfproc' \in [RfProcs -> Places(E)]
      /\ rfproc'[p] = x /\ \A q \in RfProcs : q # p => rfproc'[q] = rfproc[q]
  BY <1>3, <1>6, <1>7, PlaceIs
<1>9. /\ rfmutex \in SemRecords(RfProcs) /\ Serving(rfmutex, RfUsers) /\ Tight(rfmutex)
      /\ Taken(rfmutex, RfUsers) = 1
      /\ \A q \in RfProcs : Waits(rfmutex, q) => rfproc[q].at = "enter"
  BY <1>2 DEF RfTypeOK, RfMutexed
<1>10. IsFiniteSet(RfUsers) BY RfAssumption, FS_Subset DEF RfUsers
<1>11. PICK t : t = Leave(rfmutex, p) OBVIOUS
<1>12. /\ t \in SemRecords(RfProcs) /\ Tight(t)
       /\ \A y : Waits(t, y) <=> Waits(rfmutex, y) /\ y # p
       /\ ~Waits(rfmutex, p) => t = rfmutex
  BY <1>9, <1>11, LeaveSem, TightKept DEF Serving
<1>13. Serving(t, RfUsers') /\ Taken(t, RfUsers') = 1
  <2>1. CASE Waits(rfmutex, p)
    <3>1. RfUsers' = RfUsers \ {p} BY <1>4, <1>6, <1>8, <2>1 DEF RfUsers
    <3>2. QED BY <1>9, <1>10, <1>11, <2>1, <3>1, TakenLeave
  <2>2. CASE ~Waits(rfmutex, p)
    <3>1. x.at = "dead" /\ rfproc[p].at = "receive" BY <1>1, <1>4, <1>6, <2>2
    <3>2. RfUsers' = RfUsers BY <1>8, <3>1 DEF RfUsers
    <3>3. QED BY <1>9, <1>12, <2>2, <3>2
  <2>3. QED BY <2>1, <2>2
<1>14. \A q \in RfProcs : Waits(t, q) => rfproc'[q].at = "enter" BY <1>8, <1>9, <1>12
<1>15. RfMutexed' BY <1>1, <1>11, <1>12, <1>13, <1>14 DEF RfMutexed
<1>16. RfTypeOK' BY <1>1, <1>2, <1>8, <1>11, <1>12 DEF RfTypeOK
<1>17. \A q \in RfTalks' : q \in RfTalks /\ rfproc'[q] = rfproc[q]
  BY <1>4, <1>6, <1>8 DEF RfTalks
<1>18. RfNumbered' BY <1>1, <1>2, <1>17, NumbersStay
<1>19. QED BY <1>1, <1>15, <1>16, <1>18 DEF RfInv

LEMMA RfServerOK == ASSUME RfInv, NEW m \in rfreq, RfServer(m) PROVE RfInv'
<1>1. PICK s : s = RfServed(m.call) OBVIOUS
<1>2. PICK r : r = [op |-> m.call.op, seq |-> m.seq, status |-> s[1], len |-> s[2]] OBVIOUS
<1>3. /\ rfreq' \subseteq rfreq /\ rfrep' = rfrep \cup {r} /\ rfexec \subseteq rfexec'
      /\ r.status = 0 \/ r.op = "size"
           => [id |-> m.id, status |-> r.status, len |-> r.len] \in rfexec'
      /\ ~rfwrong' /\ rfmutex' = rfmutex /\ rfseq' = rfseq /\ rfproc' = rfproc
      /\ rfcalls' = rfcalls
  BY <1>1, <1>2 DEF RfServer, RfInv
<1>4. RfTypeOK /\ RfMutexed /\ RfNumbered BY DEF RfInv
<1>5. RfTypeOK' /\ RfMutexed' BY <1>3, <1>4 DEF RfTypeOK, RfMutexed, RfUsers
<1>6. RfTalks' = RfTalks BY <1>3 DEF RfTalks
<1>7. m.seq \in Nat /\ m.seq < rfseq /\ \A p \in RfTalks : rfproc[p].seq = m.seq => rfproc[p].id = m.id
  BY <1>4 DEF RfNumbered
<1>8. \A p \in RfTalks : rfproc[p].seq = r.seq => RfPaid(p, r)'
  BY <1>2, <1>3, <1>7 DEF RfPaid
<1>9. \A p \in RfTalks : \A q : RfPaid(p, q) => RfPaid(p, q)' BY <1>3 DEF RfPaid
<1>10. RfNumbered'
  <2>1. r.seq = m.seq BY <1>2
  <2>2. \A q \in rfrep' : /\ q.seq \in Nat /\ q.seq < rfseq'
                          /\ \A p \in RfTalks' : rfproc'[p].seq = q.seq => RfPaid(p, q)'
    BY <1>3, <1>4, <1>6, <1>7, <1>8, <1>9, <2>1 DEF RfNumbered
  <2>3. QED BY <1>3, <1>4, <1>6, <2>2 DEF RfNumbered
<1>11. QED BY <1>3, <1>5, <1>10 DEF RfInv

LEMMA RfQuietOK ==
    ASSUME RfInv, rfreq' \subseteq rfreq, rfrep' \subseteq rfrep, ~rfwrong',
           UNCHANGED <<rfmutex, rfseq, rfproc, rfcalls, rfexec>>
    PROVE  RfInv'
<1>1. RfTypeOK /\ RfMutexed /\ RfNumbered BY DEF RfInv
<1>2. RfTypeOK' /\ RfMutexed' BY <1>1 DEF RfTypeOK, RfMutexed, RfUsers
<1>3. RfNumbered' BY <1>1, NumbersStay DEF RfTalks
<1>4. QED BY <1>2, <1>3 DEF RfInv

LEMMA RfInit == rfsinit => RfInv
<1> SUFFICES ASSUME rfsinit PROVE RfInv OBVIOUS
<1>1. /\ rfmutex = SemNew(1) /\ rfseq = 1 /\ rfproc = [p \in RfProcs |-> RfIdle]
      /\ rfreq = {} /\ rfrep = {} /\ rfcalls = 0 /\ ~rfwrong
  BY DEF rfsinit
<1>2. RfUsers = {} /\ RfTalks = {} BY <1>1 DEF RfUsers, RfTalks, RfIdle
<1>3. /\ SemNew(1) \in SemRecords(RfProcs) /\ Serving(SemNew(1), {}) /\ Taken(SemNew(1), {}) = 1
  BY TakenNew
<1>4. RfTypeOK
  <2>1. RfIdle \in Places({RfNone}) BY DEF RfIdle, Places, RfStops
  <2>2. rfproc \in [RfProcs -> Places({RfNone})] BY <1>1, <2>1
  <2>3. QED BY <1>1, <1>3, <2>2 DEF RfTypeOK
<1>5. RfMutexed
  <2>1. Tight(rfmutex) BY <1>1 DEF Tight, SemNew
  <2>2. \A p \in RfProcs : ~Waits(rfmutex, p) BY <1>1, <1>3, ServingWaits
  <2>3. QED BY <1>1, <1>2, <1>3, <2>1, <2>2 DEF RfMutexed
<1>6. RfNumbered BY <1>1, <1>2 DEF RfNumbered
<1>7. QED BY <1>1, <1>4, <1>5, <1>6 DEF RfInv

LEMMA RfNextOK == RfInv /\ [RfsNext]_rfsvars => RfInv'
<1> SUFFICES ASSUME RfInv, [RfsNext]_rfsvars PROVE RfInv' OBVIOUS
<1>1. ASSUME NEW p \in RfProcs, NEW n \in RfNames, NEW m \in RfModes, rfsopen(p, n, m)
      PROVE  RfInv'
  BY <1>1, RfCallOK DEF rfsopen
<1>2. ASSUME NEW p \in RfProcs, NEW d \in RfDevs, NEW k \in RfCounts, rflread(p, d, k)
      PROVE  RfInv'
  BY <1>2, RfCallOK DEF rflread
<1>3. ASSUME NEW p \in RfProcs, NEW d \in RfDevs, NEW k \in RfCounts, NEW b \in RfBytes,
             rflwrite(p, d, k, b)
      PROVE  RfInv'
  BY <1>3, RfCallOK DEF rflwrite
<1>4. ASSUME NEW p \in RfProcs, NEW d \in RfDevs, rflclose(p, d) \/ rflseek(p, d, 0)
      PROVE  RfInv'
  BY <1>4, RfCallOK DEF rflclose, rflseek
<1>5. ASSUME NEW p \in RfProcs, NEW n \in RfNames, NEW func \in {"delete", "trunc", "size"},
             rfscontrol(p, n, func)
      PROVE  RfInv'
  BY <1>5, RfCallOK DEF rfscontrol
<1>6. ASSUME NEW p \in RfProcs,
             rfrefuse(p) \/ RfSeeks(p) \/ rfscomm(p) \/ RfSend(p) \/ RfTimeout(p) \/ RfKill(p)
      PROVE  RfInv'
  BY <1>6, RfRefuseOK, RfSeeksOK, RfscommOK, RfSendOK, RfTimeoutOK, RfKillOK
<1>7. ASSUME NEW p \in RfProcs, NEW r \in rfrep, RfReceive(p, r) PROVE RfInv'
  BY <1>7, RfReceiveOK
<1>8. ASSUME NEW m \in rfreq, RfServer(m) PROVE RfInv' BY <1>8, RfServerOK
<1>9. CASE RfLost
  <2>1. ~rfwrong' BY <1>9 DEF RfLost, RfInv
  <2>2. QED BY <1>9, <2>1, RfQuietOK DEF RfLost
<1>10. CASE UNCHANGED rfsvars
  <2>1. ~rfwrong' BY <1>10 DEF rfsvars, RfInv
  <2>2. QED BY <1>10, <2>1, RfQuietOK DEF rfsvars
<1>11. QED
  BY <1>1, <1>2, <1>3, <1>4, <1>5, <1>6, <1>7, <1>8, <1>9, <1>10, Zenon DEF RfsNext

LEMMA RfAlways == RfsSpec => []RfInv
<1>1. RfsSpec => rfsinit /\ [][RfsNext]_rfsvars BY DEF RfsSpec
<1>2. QED BY <1>1, RfInit, RfNextOK, PTL

LEMMA RfBalanced == RfInv => RfMutexBalanced
<1> SUFFICES ASSUME RfInv PROVE RfMutexBalanced OBVIOUS
<1>1. /\ rfmutex \in SemRecords(RfProcs) /\ Serving(rfmutex, RfUsers) /\ Tight(rfmutex)
      /\ Taken(rfmutex, RfUsers) = 1
      /\ \A q \in RfProcs : Waits(rfmutex, q) => rfproc[q].at = "enter"
  BY DEF RfInv, RfTypeOK, RfMutexed
<1>2. PICK inside : inside = {p \in RfProcs : rfproc[p].at \notin {"idle", "enter"}
                                \/ (rfproc[p].at = "enter" /\ ~Waits(rfmutex, p))}
  OBVIOUS
<1>3. inside = Awake(rfmutex, RfUsers) BY <1>1, <1>2 DEF Awake, RfUsers
<1>4. IsFiniteSet(RfUsers) BY RfAssumption, FS_Subset DEF RfUsers
<1>5. Cardinality(inside) \in Nat BY <1>3, <1>4, AwakeFinite
<1>6. Cardinality(inside) + rfmutex.val = 1 BY <1>1, <1>3, <1>5 DEF Taken, SemRecords
<1>7. rfmutex.queue # << >> => rfmutex.val = 0 BY <1>1 DEF Tight
<1>8. QED BY <1>2, <1>6, <1>7 DEF RfMutexBalanced

\* rf_mutex is held by one process at most and by one exactly while it is
\* taken: every function of the device gives it back on every return, at each
\* error of rfscomm too, and a process killed in the queue takes nothing along
\* (rfscomm.c, rfsopen.c, rflread.c, rflwrite.c, rflclose.c, rflseek.c).
THEOREM MutexIsBalanced == RfsSpec => []RfMutexBalanced
<1>1. QED BY RfAlways, RfBalanced, PTL

\* A call that reports success was carried out by the server, with that very
\* result: whatever is lost, late or out of order, the number in the header
\* tells the replies to other calls from its own (rfscomm.c).
THEOREM RepliesAnswer == RfsSpec => []RfAnswered
<1>1. RfInv => RfAnswered BY DEF RfInv, RfAnswered
<1>2. QED BY <1>1, RfAlways, PTL

-----------------------------------------------------------------------------
\* Address resolution.
ArpPlaces == [at : {"idle", "write", "wait"}, slot : Int, addr : ArpAddrs \cup {"zero"},
              tries : Nat, timed : BOOLEAN]
ArpEntries == [state : {"FREE", "PENDING", "RESOLVED"}, addr : ArpAddrs \cup {"zero"},
               pid : ArpProcs \cup {"zero"}, mac : ArpMacs \cup {"zero"}]
ArpPairs == (ArpAddrs \cup {"zero"}) \X (ArpMacs \cup {"zero"})
ArpTypeOK ==
    /\ arpcache \in [ArpSlots -> ArpEntries] /\ arpproc \in [ArpProcs -> ArpPlaces]
    /\ arpmsg \in [ArpProcs -> {"none", "OK", "SYSERR", "stray"}]
    /\ arpbudget \in [packets : Nat, stray : Nat, kills : Nat]
    /\ arpgot \in [ArpProcs -> {<< >>} \cup ArpPairs]
    /\ arpfault \in [ArpProcs -> SUBSET {"evicted", "stray"}]
    /\ \A s \in ArpSlots : arpcache[s].state = "PENDING" => arpcache[s].pid \in ArpProcs
    /\ \A p \in ArpProcs : arpproc[p].at # "idle" => arpproc[p].slot \in ArpSlots

\* A caller without a message has its entry, pending, to itself, whatever has
\* happened to others; one that has been answered, and to which nothing has
\* happened since, finds it resolved.
ArpWaits(p) == arpproc[p].at # "idle" /\ arpmsg[p] = "none"
ArpPendingFor(s, p) ==
    /\ arpcache[s].state = "PENDING" /\ arpcache[s].pid = p
    /\ arpcache[s].addr = arpproc[p].addr
ArpWaiting == \A p \in ArpProcs : ArpWaits(p) => ArpPendingFor(arpproc[p].slot, p)
ArpServed(p) ==
    LET e == arpcache[arpproc[p].slot] IN
    e.addr = arpproc[p].addr /\ (arpmsg[p] = "none" \/ (arpmsg[p] = "OK" /\ e.state = "RESOLVED"))
ArpFaultless ==
    \A p \in ArpProcs : arpproc[p].at # "idle" /\ arpfault[p] = {} => ArpServed(p)

\* One entry for each host, and what it says was claimed.
ArpOnce ==
    \A s, t \in ArpSlots :
        arpcache[s].state # "FREE" /\ arpcache[t].state # "FREE"
          /\ arpcache[s].addr = arpcache[t].addr => s = t
ArpClaims ==
    \A s \in ArpSlots :
        arpcache[s].state = "RESOLVED" => <<arpcache[s].addr, arpcache[s].mac>> \in arpclaimed

\* The pending entries whose caller is gone, or will be without looking at
\* them; what the kills and messages of others have cost.
ArpLost ==
    {s \in ArpSlots : arpcache[s].state = "PENDING"
        /\ ~(ArpWaits(arpcache[s].pid) /\ arpproc[arpcache[s].pid].slot = s)}
ArpSpent == (ArpKills - arpbudget.kills) + (ArpStray - arpbudget.stray)
ArpCounted == Cardinality(ArpLost) <= ArpSpent

ArpInv ==
    /\ ArpTypeOK /\ ArpWaiting /\ ArpFaultless /\ ArpOnce /\ ArpClaims
    /\ ResolvedByOwner /\ ArpCounted

\* Counting: a part, one more, and one for another.
LEMMA OneMore ==
    ASSUME NEW A, IsFiniteSet(A), NEW x
    PROVE  /\ IsFiniteSet(A \cup {x}) /\ Cardinality(A \cup {x}) \in Nat
           /\ Cardinality(A \cup {x}) <= Cardinality(A) + 1
<1>1. PICK E : E = A \cup {x} OBVIOUS
<1>2. IsFiniteSet(E) /\ Cardinality(E) = IF x \in A THEN Cardinality(A) ELSE Cardinality(A) + 1
  BY <1>1, FS_AddElement, Zenon
<1>3. Cardinality(A) \in Nat BY FS_CardinalityType
<1>4. Cardinality(E) \in Nat /\ Cardinality(E) <= Cardinality(A) + 1 BY <1>2, <1>3
<1>5. QED BY <1>1, <1>2, <1>4

LEMMA CountSteps ==
    ASSUME NEW A, IsFiniteSet(A), NEW B, NEW n \in Int, Cardinality(A) <= n
    PROVE  /\ B \subseteq A => Cardinality(B) <= n
           /\ \A x : B \subseteq A \cup {x} => Cardinality(B) <= n + 1
           /\ \A x, y : y \in A /\ B \subseteq (A \ {y}) \cup {x} => Cardinality(B) <= n
<1>1. Cardinality(A) \in Nat BY FS_CardinalityType
<1>2. ASSUME NEW C, IsFiniteSet(C), B \subseteq C
      PROVE  Cardinality(B) <= Cardinality(C) /\ Cardinality(B) \in Nat
  BY <1>2, FS_Subset, FS_CardinalityType
<1>3. ASSUME NEW x, B \subseteq A \cup {x} PROVE Cardinality(B) <= n + 1
  <2>1. /\ IsFiniteSet(A \cup {x}) /\ Cardinality(A \cup {x}) \in Nat
        /\ Cardinality(A \cup {x}) <= Cardinality(A) + 1
    BY OneMore
  <2>2. QED BY <1>1, <1>2, <1>3, <2>1
<1>4. ASSUME NEW x, NEW y \in A, B \subseteq (A \ {y}) \cup {x} PROVE Cardinality(B) <= n
  <2>1. IsFiniteSet(A \ {y}) /\ Cardinality(A \ {y}) = Cardinality(A) - 1
    BY FS_RemoveElement
  <2>2. /\ IsFiniteSet((A \ {y}) \cup {x}) /\ Cardinality((A \ {y}) \cup {x}) \in Nat
        /\ Cardinality((A \ {y}) \cup {x}) <= Cardinality(A \ {y}) + 1
    BY <2>1, OneMore
  <2>3. QED BY <1>1, <1>2, <1>4, <2>1, <2>2
<1>5. B \subseteq A => Cardinality(B) <= n BY <1>1, <1>2
<1>6. QED BY <1>3, <1>4, <1>5

LEMMA ArpFirstIn ==
    ASSUME NEW S, S \subseteq ArpSlots, S # {}
    PROVE  ArpFirst(S) \in S
<1>1. S \subseteq Nat BY ArpAssumption DEF ArpSlots
<1>2. \E s \in S : \A t \in S : s <= t BY <1>1, LeastNat, Zenon
<1>3. QED BY <1>2, Zenon DEF ArpFirst

LEMMA ArpFound ==
    ASSUME NEW a, ArpFind(a) # {}
    PROVE  /\ ArpFirst(ArpFind(a)) \in ArpSlots
           /\ arpcache[ArpFirst(ArpFind(a))].state # "FREE"
           /\ arpcache[ArpFirst(ArpFind(a))].addr = a
<1>1. ArpFind(a) \subseteq ArpSlots BY DEF ArpFind
<1>2. ArpFirst(ArpFind(a)) \in ArpFind(a) BY <1>1, ArpFirstIn
<1>3. QED BY <1>2 DEF ArpFind

LEMMA ArpAllocated ==
    ASSUME ArpAllocable # {}
    PROVE  arp_alloc \in ArpSlots /\ arpcache[arp_alloc].state \in {"FREE", "RESOLVED"}
<1>1. PICK F : F = {s \in ArpSlots : arpcache[s].state = "FREE"} OBVIOUS
<1>2. PICK S : S = IF F # {} THEN F ELSE ArpAllocable OBVIOUS
<1>3. S # {} /\ S \subseteq ArpSlots /\ S \subseteq ArpAllocable BY <1>1, <1>2 DEF ArpAllocable
<1>4. ArpFirst(S) \in S BY <1>3, ArpFirstIn
<1>5. arp_alloc = ArpFirst(S) BY <1>1, <1>2, Zenon DEF arp_alloc
<1>6. QED BY <1>3, <1>4, <1>5 DEF ArpAllocable

\* The count goes on as long as nothing is lost, or a budget pays for it, or
\* what was lost is found.
LEMMA ArpCounts ==
    ASSUME ArpTypeOK, ArpTypeOK', ArpCounted,
           \/ ArpLost' \subseteq ArpLost /\ ArpSpent' = ArpSpent
           \/ ArpSpent' = ArpSpent + 1 /\ \E x : ArpLost' \subseteq ArpLost \cup {x}
           \/ ArpSpent' = ArpSpent /\ \E x, y : y \in ArpLost /\ ArpLost' \subseteq (ArpLost \ {y}) \cup {x}
    PROVE  ArpCounted'
<1>1. IsFiniteSet(ArpLost)
  <2>1. IsFiniteSet(ArpSlots)
    <3>1. ARP_SIZ - 1 \in Int BY ArpAssumption
    <3>2. QED BY <3>1, FS_Interval DEF ArpSlots
  <2>2. ArpLost \subseteq ArpSlots BY DEF ArpLost
  <2>3. QED BY <2>1, <2>2, FS_Subset
<1>2. ArpSpent \in Int BY ArpAssumption DEF ArpTypeOK, ArpSpent
<1>3. PICK B : B = ArpLost' OBVIOUS
<1>4. PICK A : A = ArpLost OBVIOUS
<1>5. PICK n \in Int : n = ArpSpent BY <1>2
<1>6. IsFiniteSet(A) /\ Cardinality(A) <= n BY <1>1, <1>4, <1>5 DEF ArpCounted
<1>7. Cardinality(B) <= ArpSpent' BY <1>3, <1>4, <1>5, <1>6, CountSteps
<1>8. QED BY <1>3, <1>7 DEF ArpCounted

-----------------------------------------------------------------------------
\* A caller that goes on to write or to wait.
LEMMA ArpGoesOn ==
    ASSUME ArpInv, NEW p \in ArpProcs, arpproc[p].at # "idle", NEW x \in ArpPlaces,
           x.at # "idle", x.slot = arpproc[p].slot, x.addr = arpproc[p].addr,
           arpproc' = [arpproc EXCEPT ![p] = x],
           UNCHANGED <<arpcache, arpmsg, arpbudget, arpclaimed, arpgot, arpfault>>
    PROVE  ArpInv'
<1>1. ArpTypeOK BY DEF ArpInv
<1>2. /\ arpproc' \in [ArpProcs -> ArpPlaces]
      /\ \A q \in ArpProcs : /\ arpproc'[q].at = "idle" <=> arpproc[q].at = "idle"
                             /\ arpproc'[q].slot = arpproc[q].slot
                             /\ arpproc'[q].addr = arpproc[q].addr
  BY <1>1 DEF ArpTypeOK
<1>3. ArpTypeOK' BY <1>1, <1>2 DEF ArpTypeOK, ArpSlots
<1>4. ArpWaiting' /\ ArpFaultless'
  <2>1. \A q \in ArpProcs : ArpWaits(q)' <=> ArpWaits(q) BY <1>2 DEF ArpWaits
  <2>2. ArpWaiting' BY <1>2, <2>1 DEF ArpInv, ArpWaiting, ArpPendingFor
  <2>3. ArpFaultless' BY <1>2 DEF ArpInv, ArpFaultless, ArpServed
  <2>4. QED BY <2>2, <2>3
<1>5. ArpOnce' /\ ArpClaims' /\ ResolvedByOwner'
  BY DEF ArpInv, ArpOnce, ArpClaims, ResolvedByOwner, ArpSlots
<1>6. ArpCounted'
  <2>1. ArpLost' = ArpLost BY <1>1, <1>2 DEF ArpTypeOK, ArpLost, ArpWaits, ArpSlots
  <2>2. ArpSpent' = ArpSpent BY DEF ArpSpent
  <2>3. QED BY <1>1, <1>3, <2>1, <2>2, ArpCounts DEF ArpInv
<1>7. QED BY <1>3, <1>4, <1>5, <1>6 DEF ArpInv

LEMMA ArpWriteOK == ASSUME ArpInv, NEW p \in ArpProcs, ArpWrite(p) PROVE ArpInv'
<1>1. arpproc \in [ArpProcs -> ArpPlaces] BY DEF ArpInv, ArpTypeOK
<1>2. PICK y : y = arpproc[p] OBVIOUS
<1>3. PICK x : x = [y EXCEPT !.at = "wait", !.timed = FALSE] OBVIOUS
<1>4. y \in ArpPlaces /\ y.at = "write" BY <1>1, <1>2 DEF ArpWrite
<1>5. x \in ArpPlaces /\ x.at = "wait" /\ x.slot = y.slot /\ x.addr = y.addr
  BY <1>3, <1>4 DEF ArpPlaces
<1>6. arpproc' = [arpproc EXCEPT ![p] = x] BY <1>1, <1>2, <1>3 DEF ArpWrite
<1>7. QED BY <1>2, <1>4, <1>5, <1>6, ArpGoesOn DEF ArpWrite

LEMMA ArpTimerOK == ASSUME ArpInv, NEW p \in ArpProcs, ArpTimer(p) PROVE ArpInv'
<1>1. arpproc \in [ArpProcs -> ArpPlaces] BY DEF ArpInv, ArpTypeOK
<1>2. PICK y : y = arpproc[p] OBVIOUS
<1>3. PICK x : x = [y EXCEPT !.timed = TRUE] OBVIOUS
<1>4. y \in ArpPlaces /\ y.at = "wait" BY <1>1, <1>2 DEF ArpTimer
<1>5. x \in ArpPlaces /\ x.at = "wait" /\ x.slot = y.slot /\ x.addr = y.addr
  BY <1>3, <1>4 DEF ArpPlaces
<1>6. arpproc' = [arpproc EXCEPT ![p] = x] BY <1>1, <1>2, <1>3 DEF ArpTimer
<1>7. QED BY <1>2, <1>4, <1>5, <1>6, ArpGoesOn DEF ArpTimer

LEMMA ArpIdlePlace == ArpIdle \in ArpPlaces /\ ArpIdle.at = "idle"
  BY DEF ArpIdle, ArpPlaces

\* A caller that leaves with its entry as it is: it was answered, and the
\* entry is lost if it is still pending, or it was killed, which is paid for.
LEMMA ArpLeaves ==
    ASSUME ArpInv, NEW p \in ArpProcs, arpproc[p].at # "idle",
           arpproc' = [arpproc EXCEPT ![p] = ArpIdle],
           UNCHANGED <<arpcache, arpclaimed, arpfault>>,
           arpmsg' \in [ArpProcs -> {"none", "OK", "SYSERR", "stray"}],
           \A q \in ArpProcs : q # p => arpmsg'[q] = arpmsg[q] /\ arpgot'[q] = arpgot[q],
           arpgot' \in [ArpProcs -> {<< >>} \cup ArpPairs],
           arpgot'[p] # << >> /\ arpfault[p] = {} => arpgot'[p] \in arpclaimed,
           arpbudget' \in [packets : Nat, stray : Nat, kills : Nat],
           \/ ArpSpent' = ArpSpent /\ ~ArpWaits(p)
           \/ ArpSpent' = ArpSpent + 1
    PROVE  ArpInv'
<1>1. ArpTypeOK BY DEF ArpInv
<1>2. /\ arpproc' \in [ArpProcs -> ArpPlaces] /\ arpproc'[p].at = "idle"
      /\ \A q \in ArpProcs : q # p => arpproc'[q] = arpproc[q]
  BY <1>1, ArpIdlePlace DEF ArpTypeOK
<1>3. ArpTypeOK' BY <1>1, <1>2 DEF ArpTypeOK, ArpSlots
<1>4. ArpWaiting' BY <1>2 DEF ArpInv, ArpWaiting, ArpWaits, ArpPendingFor
<1>5. ArpFaultless' BY <1>2 DEF ArpInv, ArpFaultless, ArpServed
<1>6. ResolvedByOwner' BY DEF ArpInv, ResolvedByOwner
<1>7. ArpOnce' /\ ArpClaims' BY DEF ArpInv, ArpOnce, ArpClaims, ArpSlots
<1>8. ArpCounted'
  <2>1. PICK y : y = arpproc[p].slot OBVIOUS
  <2>2. ArpLost' \subseteq ArpLost \cup {y}
    BY <1>1, <1>2, <2>1 DEF ArpTypeOK, ArpLost, ArpWaits, ArpSlots
  <2>3. ~ArpWaits(p) => ArpLost' \subseteq ArpLost
    BY <1>1, <1>2 DEF ArpTypeOK, ArpLost, ArpWaits, ArpSlots
  <2>4. QED BY <1>1, <1>3, <2>2, <2>3, ArpCounts DEF ArpInv
<1>9. QED BY <1>3, <1>4, <1>5, <1>6, <1>7, <1>8 DEF ArpInv

LEMMA ArpKillOK == ASSUME ArpInv, NEW p \in ArpProcs, ArpKill(p) PROVE ArpInv'
<1>1. ArpTypeOK BY DEF ArpInv
<1>2. PICK b : b = arpbudget OBVIOUS
<1>3. b \in [packets : Nat, stray : Nat, kills : Nat] /\ b.kills > 0
  BY <1>1, <1>2 DEF ArpTypeOK, ArpKill
<1>4. PICK n \in Nat : n = b.kills - 1 BY <1>3
<1>5. arpbudget' = [b EXCEPT !.kills = n] BY <1>2, <1>4 DEF ArpKill
<1>6. arpbudget' \in [packets : Nat, stray : Nat, kills : Nat] BY <1>3, <1>5
<1>7. ArpSpent' = ArpSpent + 1
  BY <1>2, <1>3, <1>4, <1>5, ArpAssumption DEF ArpSpent
<1>8. arpgot[p] # << >> /\ arpfault[p] = {} => arpgot[p] \in arpclaimed
  BY DEF ArpInv, ResolvedByOwner
<1>9. QED BY <1>1, <1>6, <1>7, <1>8, ArpLeaves DEF ArpKill, ArpTypeOK

LEMMA ArpAnsweredOK == ASSUME ArpInv, NEW p \in ArpProcs, ArpAnswered(p) PROVE ArpInv'
<1>1. ArpTypeOK BY DEF ArpInv
<1>2. ~ArpWaits(p) /\ arpproc[p].at # "idle" BY DEF ArpAnswered, ArpWaits
<1>3. ArpSpent' = ArpSpent /\ arpbudget' = arpbudget BY DEF ArpAnswered, ArpSpent
<1>4. PICK s : s = arpproc[p].slot OBVIOUS
<1>5. PICK g : g = <<arpproc[p].addr, arpcache[s].mac>> OBVIOUS
<1>6. s \in ArpSlots /\ g \in ArpPairs
  BY <1>1, <1>2, <1>4, <1>5 DEF ArpTypeOK, ArpPairs, ArpPlaces, ArpEntries
<1>7. arpgot' = arpgot \/ (arpmsg[p] # "SYSERR" /\ arpgot' = [arpgot EXCEPT ![p] = g])
  BY <1>4, <1>5 DEF ArpAnswered
<1>8. arpmsg[p] # "SYSERR" /\ arpfault[p] = {} => g \in arpclaimed
  <2>1. HAVE arpmsg[p] # "SYSERR" /\ arpfault[p] = {}
  <2>2. arpmsg[p] # "none" BY DEF ArpAnswered
  <2>3. arpcache[s].state = "RESOLVED" /\ arpcache[s].addr = arpproc[p].addr
    BY <1>2, <1>4, <2>1, <2>2 DEF ArpInv, ArpFaultless, ArpServed
  <2>4. QED BY <1>5, <1>6, <2>3 DEF ArpInv, ArpClaims
<1>9. /\ arpgot' \in [ArpProcs -> {<< >>} \cup ArpPairs]
      /\ \A q \in ArpProcs : q # p => arpgot'[q] = arpgot[q]
      /\ arpgot'[p] # << >> /\ arpfault[p] = {} => arpgot'[p] \in arpclaimed
  BY <1>1, <1>6, <1>7, <1>8 DEF ArpTypeOK, ArpInv, ResolvedByOwner
<1>10. /\ arpmsg' \in [ArpProcs -> {"none", "OK", "SYSERR", "stray"}]
       /\ \A q \in ArpProcs : q # p => arpmsg'[q] = arpmsg[q]
  BY <1>1 DEF ArpTypeOK, ArpAnswered
<1>11. arpbudget' \in [packets : Nat, stray : Nat, kills : Nat] BY <1>1, <1>3 DEF ArpTypeOK
<1>12. QED BY <1>2, <1>3, <1>9, <1>10, <1>11, ArpLeaves DEF ArpAnswered

\* The entry that is given up belongs to the caller alone.
LEMMA ArpTimedOutOK == ASSUME ArpInv, NEW p \in ArpProcs, ArpTimedOut(p) PROVE ArpInv'
<1>1. ArpTypeOK BY DEF ArpInv
<1>2. PICK y : y = arpproc[p] OBVIOUS
<1>3. y \in ArpPlaces /\ y.at = "wait" /\ arpmsg[p] = "none"
  BY <1>1, <1>2 DEF ArpTypeOK, ArpTimedOut
<1>4. CASE UNCHANGED arpcache /\ arpproc' = [arpproc EXCEPT ![p].at = "write", ![p].tries = @ + 1]
  <2>1. PICK n \in Nat : n = y.tries + 1 BY <1>3 DEF ArpPlaces
  <2>2. PICK x : x = [y EXCEPT !.at = "write", !.tries = n] OBVIOUS
  <2>3. x \in ArpPlaces /\ x.at = "write" /\ x.slot = y.slot /\ x.addr = y.addr
    BY <1>3, <2>2 DEF ArpPlaces
  <2>4. arpproc' = [arpproc EXCEPT ![p] = x]
    BY <1>1, <1>2, <1>4, <2>1, <2>2 DEF ArpTypeOK
  <2>5. QED BY <1>2, <1>3, <1>4, <2>3, <2>4, ArpGoesOn DEF ArpTimedOut
<1>5. CASE ArpGiveUp(p) /\ arpproc' = [arpproc EXCEPT ![p] = ArpIdle]
  <2>1. PICK s : s = arpproc[p].slot OBVIOUS
  <2>2. /\ s \in ArpSlots /\ ArpWaits(p)
        /\ arpcache[s].state = "PENDING" /\ arpcache[s].pid = p
    BY <1>1, <1>2, <1>3, <2>1 DEF ArpTypeOK, ArpWaits, ArpInv, ArpWaiting, ArpPendingFor
  <2>3. PICK e : e = [arpcache[s] EXCEPT !.state = "FREE"] OBVIOUS
  <2>4. arpcache' = [arpcache EXCEPT ![s] = e] BY <1>1, <1>5, <2>1, <2>3 DEF ArpGiveUp, ArpTypeOK
  <2>5. e \in ArpEntries /\ e.state = "FREE" BY <1>1, <2>2, <2>3 DEF ArpTypeOK, ArpEntries
  <2>6. /\ arpcache' \in [ArpSlots -> ArpEntries] /\ arpcache'[s].state = "FREE"
        /\ \A t \in ArpSlots : t # s => arpcache'[t] = arpcache[t]
    BY <1>1, <2>2, <2>4, <2>5 DEF ArpTypeOK
  <2>7. /\ arpproc' \in [ArpProcs -> ArpPlaces] /\ arpproc'[p].at = "idle"
        /\ \A q \in ArpProcs : q # p => arpproc'[q] = arpproc[q]
    BY <1>1, <1>5, ArpIdlePlace DEF ArpTypeOK
  <2>8. UNCHANGED <<arpmsg, arpbudget, arpclaimed, arpgot, arpfault>> BY DEF ArpTimedOut
  <2>9. ArpTypeOK' BY <1>1, <2>6, <2>7, <2>8 DEF ArpTypeOK, ArpSlots
  <2>10. ArpWaiting'
    <3>1. ASSUME NEW q \in ArpProcs, ArpWaits(q)' PROVE ArpPendingFor(arpproc[q].slot, q)'
      <4>1. q # p /\ ArpWaits(q) /\ arpproc'[q] = arpproc[q] BY <2>7, <2>8, <3>1 DEF ArpWaits
      <4>2. ArpPendingFor(arpproc[q].slot, q) /\ arpproc[q].slot \in ArpSlots
        BY <1>1, <4>1 DEF ArpInv, ArpWaiting, ArpWaits, ArpTypeOK
      <4>3. arpproc[q].slot # s BY <2>2, <4>1, <4>2 DEF ArpPendingFor
      <4>4. QED BY <2>6, <4>1, <4>2, <4>3 DEF ArpPendingFor
    <3>2. QED BY <3>1 DEF ArpWaiting
  <2>11. ArpFaultless'
    <3>1. ASSUME NEW q \in ArpProcs, arpproc'[q].at # "idle", arpfault'[q] = {}
          PROVE  ArpServed(q)'
      <4>1. q # p /\ arpproc'[q] = arpproc[q] BY <2>7, <3>1
      <4>2. ArpServed(q) /\ arpproc[q].slot \in ArpSlots
        BY <1>1, <2>8, <3>1, <4>1 DEF ArpInv, ArpFaultless, ArpTypeOK
      <4>3. arpmsg[q] = "none" => ArpPendingFor(arpproc[q].slot, q)
        BY <3>1, <4>1 DEF ArpInv, ArpWaiting, ArpWaits
      <4>4. arpproc[q].slot # s BY <2>2, <4>1, <4>2, <4>3 DEF ArpPendingFor, ArpServed
      <4>5. QED BY <2>6, <2>8, <4>1, <4>2, <4>4 DEF ArpServed
    <3>2. QED BY <3>1 DEF ArpFaultless
  <2>12. ArpOnce' /\ ArpClaims' BY <2>6, <2>8 DEF ArpInv, ArpOnce, ArpClaims, ArpSlots
  <2>13. ResolvedByOwner' BY <2>8 DEF ArpInv, ResolvedByOwner
  <2>14. ArpCounted'
    <3>1. ArpLost' \subseteq ArpLost
      <4>1. SUFFICES ASSUME NEW t \in ArpSlots, t \in ArpLost' PROVE t \in ArpLost
        BY DEF ArpLost, ArpSlots
      <4>2. t # s /\ arpcache'[t] = arpcache[t] /\ arpcache[t].state = "PENDING"
        BY <2>6, <4>1 DEF ArpLost
      <4>3. PICK q \in ArpProcs : q = arpcache[t].pid BY <1>1, <4>2 DEF ArpTypeOK
      <4>4. CASE q = p BY <2>1, <4>2, <4>3, <4>4 DEF ArpLost
      <4>5. CASE q # p
        <5>1. arpproc'[q] = arpproc[q] /\ (ArpWaits(q)' <=> ArpWaits(q))
          BY <2>7, <2>8, <4>5 DEF ArpWaits
        <5>2. ~(ArpWaits(q)' /\ arpproc'[q].slot = t) BY <4>1, <4>2, <4>3 DEF ArpLost, ArpWaits
        <5>3. QED BY <4>2, <4>3, <5>1, <5>2 DEF ArpLost
      <4>6. QED BY <4>4, <4>5
    <3>2. ArpSpent' = ArpSpent BY <2>8 DEF ArpSpent
    <3>3. QED BY <1>1, <2>9, <3>1, <3>2, ArpCounts DEF ArpInv
  <2>15. QED BY <2>9, <2>10, <2>11, <2>12, <2>13, <2>14 DEF ArpInv
<1>6. QED BY <1>4, <1>5 DEF ArpTimedOut

\* Another process sends a message, which is paid for.
LEMMA ArpStrayOK ==
    ASSUME ArpInv, NEW p \in ArpProcs, NEW m \in {"stray", "SYSERR"}, ArpStrayMessage(p, m)
    PROVE  ArpInv'
<1>1. ArpTypeOK BY DEF ArpInv
<1>2. PICK b : b = arpbudget OBVIOUS
<1>3. b \in [packets : Nat, stray : Nat, kills : Nat] /\ b.stray > 0
  BY <1>1, <1>2 DEF ArpTypeOK, ArpStrayMessage
<1>4. PICK n \in Nat : n = b.stray - 1 BY <1>3
<1>5. arpbudget' = [b EXCEPT !.stray = n] BY <1>2, <1>4 DEF ArpStrayMessage
<1>6. arpbudget' \in [packets : Nat, stray : Nat, kills : Nat] BY <1>3, <1>5
<1>7. ArpSpent' = ArpSpent + 1
  BY <1>2, <1>3, <1>4, <1>5, ArpAssumption DEF ArpSpent
<1>8. /\ arpmsg' \in [ArpProcs -> {"none", "OK", "SYSERR", "stray"}] /\ arpmsg'[p] # "none"
      /\ \A q \in ArpProcs : q # p => arpmsg'[q] = arpmsg[q]
  BY <1>1 DEF ArpTypeOK, ArpStrayMessage, ArpMail
<1>9. /\ arpfault' \in [ArpProcs -> SUBSET {"evicted", "stray"}] /\ arpfault'[p] # {}
      /\ \A q \in ArpProcs : q # p => arpfault'[q] = arpfault[q]
  <2>1. PICK f : f = arpfault[p] \cup {"stray"} OBVIOUS
  <2>2. arpfault' = [arpfault EXCEPT ![p] = f] BY <2>1 DEF ArpStrayMessage
  <2>3. f \in SUBSET {"evicted", "stray"} /\ f # {} BY <1>1, <2>1 DEF ArpTypeOK
  <2>4. QED BY <1>1, <2>2, <2>3 DEF ArpTypeOK
<1>10. UNCHANGED <<arpcache, arpproc, arpclaimed, arpgot>> BY DEF ArpStrayMessage
<1>11. ArpTypeOK' BY <1>1, <1>6, <1>8, <1>9, <1>10 DEF ArpTypeOK, ArpSlots
<1>12. ArpWaiting' BY <1>8, <1>10 DEF ArpInv, ArpWaiting, ArpWaits, ArpPendingFor
<1>13. ArpFaultless' BY <1>8, <1>9, <1>10 DEF ArpInv, ArpFaultless, ArpServed
<1>14. ArpOnce' /\ ArpClaims' BY <1>10 DEF ArpInv, ArpOnce, ArpClaims, ArpSlots
<1>15. ResolvedByOwner' BY <1>9, <1>10 DEF ArpInv, ResolvedByOwner
<1>16. ArpCounted'
  <2>1. PICK y : y = arpproc[p].slot OBVIOUS
  <2>2. ArpLost' \subseteq ArpLost \cup {y}
    BY <1>1, <1>8, <1>10, <2>1 DEF ArpTypeOK, ArpLost, ArpWaits, ArpSlots
  <2>3. QED BY <1>1, <1>7, <1>11, <2>2, ArpCounts DEF ArpInv
<1>17. QED BY <1>11, <1>12, <1>13, <1>14, <1>15, <1>16 DEF ArpInv

\* What a new entry in slot s does to the callers whose slot it was.
LEMMA ArpMarks ==
    ASSUME ArpTypeOK, NEW Q, NEW w \in {"evicted", "stray"}
    PROVE  /\ ArpMarked(Q, w) \in [ArpProcs -> SUBSET {"evicted", "stray"}]
           /\ \A q \in ArpProcs : /\ q \in Q => ArpMarked(Q, w)[q] # {}
                                  /\ q \notin Q => ArpMarked(Q, w)[q] = arpfault[q]
<1>1. arpfault \in [ArpProcs -> SUBSET {"evicted", "stray"}] BY DEF ArpTypeOK
<1>2. \A q \in ArpProcs : /\ arpfault[q] \cup {w} \in SUBSET {"evicted", "stray"}
                          /\ arpfault[q] \cup {w} # {}
  BY <1>1
<1>3. QED BY <1>1, <1>2 DEF ArpMarked

LEMMA ArpResolveOK ==
    ASSUME ArpInv, NEW p \in ArpProcs, NEW a \in ArpAddrs, arp_resolve(p, a)
    PROVE  ArpInv'
<1>1. ArpTypeOK /\ arpproc[p].at = "idle" /\ UNCHANGED <<arpbudget, arpclaimed>>
  BY DEF ArpInv, arp_resolve
<1>2. ASSUME ArpKnown(a),
             arpgot' = [arpgot EXCEPT ![p] = <<a, arpcache[ArpFirst(ArpFind(a))].mac>>],
             arpfault' = [arpfault EXCEPT ![p] = {}], UNCHANGED <<arpcache, arpproc, arpmsg>>
      PROVE  ArpInv'
  <2>1. PICK s : s = ArpFirst(ArpFind(a)) OBVIOUS
  <2>2. s \in ArpSlots /\ arpcache[s].state = "RESOLVED" /\ arpcache[s].addr = a
    BY <1>2, <2>1, ArpFound DEF ArpKnown
  <2>3. PICK g : g = <<a, arpcache[s].mac>> OBVIOUS
  <2>4. g \in ArpPairs /\ g \in arpclaimed
    BY <1>1, <2>2, <2>3 DEF ArpTypeOK, ArpEntries, ArpPairs, ArpInv, ArpClaims
  <2>5. arpgot' = [arpgot EXCEPT ![p] = g] BY <1>2, <2>1, <2>3
  <2>6. ArpTypeOK' BY <1>1, <1>2, <2>4, <2>5 DEF ArpTypeOK, ArpSlots
  <2>7. ArpWaiting' BY <1>2 DEF ArpInv, ArpWaiting, ArpWaits, ArpPendingFor
  <2>8. \A q \in ArpProcs : q # p => arpfault'[q] = arpfault[q] /\ arpgot'[q] = arpgot[q]
    BY <1>1, <1>2, <2>5 DEF ArpTypeOK
  <2>9. ArpFaultless' BY <1>1, <1>2, <2>8 DEF ArpInv, ArpFaultless, ArpServed
  <2>10. ArpOnce' /\ ArpClaims' BY <1>1, <1>2 DEF ArpInv, ArpOnce, ArpClaims, ArpSlots
  <2>11. ResolvedByOwner'
    <3>1. arpgot'[p] = g BY <1>1, <2>5 DEF ArpTypeOK
    <3>2. QED BY <1>1, <2>4, <2>8, <3>1 DEF ArpInv, ResolvedByOwner
  <2>12. ArpCounted' 
    <3>1. ArpLost' = ArpLost BY <1>2 DEF ArpLost, ArpWaits, ArpSlots
    <3>2. ArpSpent' = ArpSpent BY <1>1 DEF ArpSpent
    <3>3. QED BY <1>1, <2>6, <3>1, <3>2, ArpCounts DEF ArpInv
  <2>13. QED BY <2>6, <2>7, <2>9, <2>10, <2>11, <2>12 DEF ArpInv
<1>3. ASSUME ArpFind(a) = {}, ArpAllocable # {},
             arpcache' = [arpcache EXCEPT ![arp_alloc] =
                             [ArpFree EXCEPT !.state = "PENDING", !.addr = a, !.pid = p]],
             arpproc' = [arpproc EXCEPT ![p] =
                             [ArpIdle EXCEPT !.at = "write", !.slot = arp_alloc, !.addr = a]],
             arpmsg' = [arpmsg EXCEPT ![p] = "none"],
             arpfault' = [ArpMarked(ArpRobbed(arp_alloc), "evicted") EXCEPT ![p] = {}],
             arpgot' = [arpgot EXCEPT ![p] = << >>]
      PROVE  ArpInv'
  <2>1. PICK s : s = arp_alloc OBVIOUS
  <2>2. s \in ArpSlots /\ arpcache[s].state # "PENDING" BY <1>3, <2>1, ArpAllocated
  <2>3. PICK e : e = [ArpFree EXCEPT !.state = "PENDING", !.addr = a, !.pid = p] OBVIOUS
  <2>4. PICK x : x = [ArpIdle EXCEPT !.at = "write", !.slot = s, !.addr = a] OBVIOUS
  <2>5. PICK f : f = ArpMarked(ArpRobbed(s), "evicted") OBVIOUS
  <2>6. e \in ArpEntries /\ e.state = "PENDING" /\ e.addr = a /\ e.pid = p
    BY <2>3 DEF ArpFree, ArpEntries
  <2>7. x \in ArpPlaces /\ x.at = "write" /\ x.slot = s /\ x.addr = a
    <3>1. s \in Int BY <2>2, ArpAssumption DEF ArpSlots
    <3>2. QED BY <2>4, <3>1 DEF ArpIdle, ArpPlaces
  <2>8. /\ f \in [ArpProcs -> SUBSET {"evicted", "stray"}]
        /\ \A q \in ArpProcs : /\ q \in ArpRobbed(s) => f[q] # {}
                               /\ q \notin ArpRobbed(s) => f[q] = arpfault[q]
    BY <1>1, <2>5, ArpMarks
  <2>9. /\ arpcache' \in [ArpSlots -> ArpEntries] /\ arpcache'[s] = e
        /\ \A t \in ArpSlots : t # s => arpcache'[t] = arpcache[t]
    BY <1>1, <1>3, <2>1, <2>2, <2>3, <2>6 DEF ArpTypeOK
  <2>10. /\ arpproc' \in [ArpProcs -> ArpPlaces] /\ arpproc'[p] = x
         /\ \A q \in ArpProcs : q # p => arpproc'[q] = arpproc[q]
    BY <1>1, <1>3, <2>1, <2>4, <2>7 DEF ArpTypeOK
  <2>11. /\ arpmsg' \in [ArpProcs -> {"none", "OK", "SYSERR", "stray"}] /\ arpmsg'[p] = "none"
         /\ \A q \in ArpProcs : q # p => arpmsg'[q] = arpmsg[q]
    BY <1>1, <1>3 DEF ArpTypeOK
  <2>12. /\ arpfault' \in [ArpProcs -> SUBSET {"evicted", "stray"}]
         /\ \A q \in ArpProcs : q # p => arpfault'[q] = f[q]
    BY <1>3, <2>1, <2>5, <2>8
  <2>13. /\ arpgot' \in [ArpProcs -> {<< >>} \cup ArpPairs] /\ arpgot'[p] = << >>
         /\ \A q \in ArpProcs : q # p => arpgot'[q] = arpgot[q]
    BY <1>1, <1>3 DEF ArpTypeOK
  <2>14. ArpTypeOK'
    BY <1>1, <2>2, <2>6, <2>7, <2>9, <2>10, <2>11, <2>12, <2>13 DEF ArpTypeOK, ArpSlots
  <2>15. ArpWaiting'
    <3>1. ASSUME NEW q \in ArpProcs, ArpWaits(q)', q # p PROVE ArpPendingFor(arpproc[q].slot, q)'
      <4>1. ArpWaits(q) /\ arpproc'[q] = arpproc[q] BY <2>10, <2>11, <3>1 DEF ArpWaits
      <4>2. ArpPendingFor(arpproc[q].slot, q) /\ arpproc[q].slot \in ArpSlots
        BY <1>1, <4>1 DEF ArpInv, ArpWaiting, ArpWaits, ArpTypeOK
      <4>3. arpproc[q].slot # s BY <2>2, <4>2 DEF ArpPendingFor
      <4>4. QED BY <2>9, <4>1, <4>2, <4>3 DEF ArpPendingFor
    <3>2. ArpPendingFor(arpproc[p].slot, p)' BY <2>6, <2>7, <2>9, <2>10 DEF ArpPendingFor
    <3>3. QED BY <3>1, <3>2 DEF ArpWaiting
  <2>16. ArpFaultless'
    <3>1. ASSUME NEW q \in ArpProcs, arpproc'[q].at # "idle", arpfault'[q] = {}, q # p
          PROVE  ArpServed(q)'
      <4>1. arpproc'[q] = arpproc[q] /\ arpmsg'[q] = arpmsg[q] /\ f[q] = {}
        BY <2>10, <2>11, <2>12, <3>1
      <4>2. q \notin ArpRobbed(s) /\ arpfault[q] = {} BY <2>8, <4>1
      <4>3. ArpServed(q) /\ arpproc[q].slot \in ArpSlots /\ arpproc[q].slot # s
        BY <1>1, <3>1, <4>1, <4>2 DEF ArpInv, ArpFaultless, ArpTypeOK, ArpRobbed
      <4>4. QED BY <2>9, <4>1, <4>3 DEF ArpServed
    <3>2. ArpServed(p)' BY <2>6, <2>7, <2>9, <2>10, <2>11 DEF ArpServed
    <3>3. QED BY <3>1, <3>2 DEF ArpFaultless
  <2>17. ArpOnce'
    <3>1. \A t \in ArpSlots : arpcache[t].state # "FREE" => arpcache[t].addr # a
      BY <1>3 DEF ArpFind
    <3>2. QED BY <2>6, <2>9, <3>1 DEF ArpInv, ArpOnce, ArpSlots
  <2>18. ArpClaims' BY <1>1, <2>6, <2>9 DEF ArpInv, ArpClaims, ArpSlots
  <2>19. ResolvedByOwner'
    <3>1. \A q \in ArpProcs : q # p /\ arpfault'[q] = {} => arpfault[q] = {}
      BY <2>8, <2>12
    <3>2. QED BY <1>1, <2>13, <3>1 DEF ArpInv, ResolvedByOwner
  <2>20. ArpCounted'
    <3>1. ArpLost' \subseteq ArpLost
      <4>1. SUFFICES ASSUME NEW t \in ArpSlots, t \in ArpLost' PROVE t \in ArpLost
        BY DEF ArpLost, ArpSlots
      <4>2. arpmsg'[p] = "none" /\ arpproc'[p].at # "idle" /\ arpproc'[p].slot = s
        BY <2>7, <2>10, <2>11
      <4>3. t # s BY <2>6, <2>9, <4>1, <4>2 DEF ArpLost, ArpWaits
      <4>4. arpcache'[t] = arpcache[t] /\ arpcache[t].state = "PENDING"
        BY <2>9, <4>1, <4>3 DEF ArpLost
      <4>5. PICK q \in ArpProcs : q = arpcache[t].pid BY <1>1, <4>4 DEF ArpTypeOK
      <4>6. CASE q = p BY <1>1, <4>4, <4>5, <4>6 DEF ArpLost, ArpWaits
      <4>7. CASE q # p
        <5>1. arpproc'[q] = arpproc[q] /\ arpmsg'[q] = arpmsg[q] BY <2>10, <2>11, <4>7
        <5>2. ~(ArpWaits(q)' /\ arpproc'[q].slot = t)
          BY <4>1, <4>4, <4>5 DEF ArpLost, ArpWaits
        <5>3. QED BY <4>4, <4>5, <5>1, <5>2 DEF ArpLost, ArpWaits
      <4>8. QED BY <4>6, <4>7
    <3>2. ArpSpent' = ArpSpent BY <1>1 DEF ArpSpent
    <3>3. QED BY <1>1, <2>14, <3>1, <3>2, ArpCounts DEF ArpInv
  <2>21. QED BY <2>14, <2>15, <2>16, <2>17, <2>18, <2>19, <2>20 DEF ArpInv
<1>4. QED BY <1>2, <1>3 DEF arp_resolve

\* A packet about a host that has an entry.  Whoever waits for the entry is
\* told, and so is a process that once did and was killed.
LEMMA ArpFoundOK ==
    ASSUME ArpInv, NEW a \in ArpAddrs, NEW m \in ArpMacs, ArpFind(a) # {},
           NEW s, s = ArpFirst(ArpFind(a)),
           NEW R, R = IF arpcache[s].state = "PENDING" THEN {arpcache[s].pid} ELSE {},
           NEW e, e = [arpcache[s] EXCEPT !.mac = m, !.state = "RESOLVED"],
           arpcache' = [arpcache EXCEPT ![s] = e],
           arpmsg' \in [ArpProcs -> {"none", "OK", "SYSERR", "stray"}],
           \A q \in ArpProcs :
               /\ q \notin R => arpmsg'[q] = arpmsg[q]
               /\ q \in R => arpmsg'[q] = IF arpmsg[q] = "none" THEN "OK" ELSE arpmsg[q],
           arpfault' = ArpMarked(R \ ArpRobbed(s), "stray"),
           arpclaimed' = arpclaimed \cup {<<a, m>>},
           arpbudget' \in [packets : Nat, stray : Nat, kills : Nat], ArpSpent' = ArpSpent,
           UNCHANGED <<arpproc, arpgot>>
    PROVE  ArpInv'
<1>1. ArpTypeOK BY DEF ArpInv
<1>2. s \in ArpSlots /\ arpcache[s].state # "FREE" /\ arpcache[s].addr = a BY ArpFound
<1>3. PICK d : d = arpcache[s] OBVIOUS
<1>4. /\ e \in ArpEntries /\ e.state = "RESOLVED" /\ e.mac = m /\ e.addr = a
      /\ arpcache[s] \in ArpEntries
  <2>1. d \in ArpEntries BY <1>1, <1>2, <1>3 DEF ArpTypeOK
  <2>2. e = [d EXCEPT !.mac = m, !.state = "RESOLVED"] /\ d.addr = a BY <1>2, <1>3
  <2>3. e \in ArpEntries /\ e.state = "RESOLVED" /\ e.mac = m /\ e.addr = d.addr
    BY <2>1, <2>2 DEF ArpEntries
  <2>4. QED BY <1>3, <2>1, <2>2, <2>3
<1>5. /\ arpcache' \in [ArpSlots -> ArpEntries] /\ arpcache'[s] = e
      /\ \A t \in ArpSlots : t # s => arpcache'[t] = arpcache[t]
  <2>1. arpcache \in [ArpSlots -> ArpEntries] BY <1>1 DEF ArpTypeOK
  <2>2. QED BY <1>2, <1>4, <2>1
<1>6. R \subseteq ArpProcs BY <1>1, <1>2 DEF ArpTypeOK
<1>7. /\ arpfault' \in [ArpProcs -> SUBSET {"evicted", "stray"}]
      /\ \A q \in ArpProcs : /\ q \in R /\ q \notin ArpRobbed(s) => arpfault'[q] # {}
                             /\ arpfault'[q] = {} => arpfault[q] = {}
  <2>1. PICK Q : Q = R \ ArpRobbed(s) OBVIOUS
  <2>2. arpfault' = ArpMarked(Q, "stray") BY <2>1
  <2>3. ArpTypeOK BY <1>1
  <2>4. PICK g : g = arpfault' OBVIOUS
  <2>5. g \in [ArpProcs -> SUBSET {"evicted", "stray"}] BY <2>2, <2>3, <2>4, ArpMarks
  <2>6. \A q \in ArpProcs : /\ q \in Q => g[q] # {}
                            /\ q \notin Q => g[q] = arpfault[q]
    BY <2>2, <2>3, <2>4, ArpMarks
  <2>7. ASSUME NEW q \in ArpProcs
        PROVE  /\ q \in R /\ q \notin ArpRobbed(s) => g[q] # {}
               /\ g[q] = {} => arpfault[q] = {}
    <3>1. q \in Q <=> q \in R /\ q \notin ArpRobbed(s) BY <2>1
    <3>2. (q \in Q => g[q] # {}) /\ (q \notin Q => g[q] = arpfault[q]) BY <2>6
    <3>3. QED BY <3>1, <3>2
  <2>8. QED BY <2>4, <2>5, <2>7
<1>8. ArpTypeOK' BY <1>1, <1>4, <1>5, <1>7 DEF ArpTypeOK, ArpSlots
<1>9. ArpWaiting'
  <2>1. ASSUME NEW q \in ArpProcs, ArpWaits(q)' PROVE ArpPendingFor(arpproc[q].slot, q)'
    <3>1. ArpWaits(q) /\ q \notin R BY <2>1 DEF ArpWaits
    <3>2. ArpPendingFor(arpproc[q].slot, q) /\ arpproc[q].slot \in ArpSlots
      BY <1>1, <3>1 DEF ArpInv, ArpWaiting, ArpWaits, ArpTypeOK
    <3>3. arpproc[q].slot # s BY <3>1, <3>2 DEF ArpPendingFor
    <3>4. QED BY <1>5, <3>2, <3>3 DEF ArpPendingFor
  <2>2. QED BY <2>1 DEF ArpWaiting
<1>10. ArpFaultless'
  <2>1. ASSUME NEW q \in ArpProcs, arpproc'[q].at # "idle", arpfault'[q] = {}
        PROVE  ArpServed(q)'
    <3>1. /\ ArpServed(q) /\ arpproc[q].slot \in ArpSlots
          /\ q \notin R \/ q \in ArpRobbed(s)
      BY <1>1, <1>7, <2>1 DEF ArpInv, ArpFaultless, ArpTypeOK
    <3>2. CASE arpproc[q].slot = s
      <4>1. arpmsg'[q] \in {"none", "OK"} BY <3>1 DEF ArpServed
      <4>2. QED BY <1>2, <1>4, <1>5, <3>1, <3>2, <4>1 DEF ArpServed
    <3>3. CASE arpproc[q].slot # s
      <4>1. arpmsg'[q] = arpmsg[q] BY <3>1, <3>3 DEF ArpRobbed
      <4>2. QED BY <1>5, <3>1, <3>3, <4>1 DEF ArpServed
    <3>4. QED BY <3>2, <3>3
  <2>2. QED BY <2>1 DEF ArpFaultless
<1>11. ArpOnce' BY <1>2, <1>4, <1>5 DEF ArpInv, ArpOnce, ArpSlots
<1>12. ArpClaims'
  <2>1. \A t \in ArpSlots : arpcache[t].state = "RESOLVED"
                             => <<arpcache[t].addr, arpcache[t].mac>> \in arpclaimed
    BY DEF ArpInv, ArpClaims
  <2>2. \A t \in ArpSlots : arpcache'[t].state = "RESOLVED"
                             => <<arpcache'[t].addr, arpcache'[t].mac>> \in arpclaimed'
    BY <1>4, <1>5, <2>1
  <2>3. QED BY <2>2 DEF ArpClaims, ArpSlots
<1>13. ResolvedByOwner' BY <1>7 DEF ArpInv, ResolvedByOwner
<1>14. ArpCounted'
  <2>1. s \notin ArpLost' BY <1>4, <1>5 DEF ArpLost
  <2>2. ASSUME NEW t \in ArpLost'
        PROVE  t \in ArpLost \/ (t # s /\ \E r \in R : t = arpproc[r].slot /\ ArpWaits(r))
    <3>1. t \in ArpSlots /\ t # s /\ arpcache[t].state = "PENDING"
      BY <1>5, <2>1, <2>2 DEF ArpLost, ArpSlots
    <3>2. PICK q \in ArpProcs : q = arpcache[t].pid BY <1>1, <3>1 DEF ArpTypeOK
    <3>3. CASE q \notin R
      <4>1. ArpWaits(q)' <=> ArpWaits(q) BY <3>2, <3>3 DEF ArpWaits
      <4>2. ~(ArpWaits(q)' /\ arpproc[q].slot = t)
        BY <1>5, <2>2, <3>1, <3>2 DEF ArpLost, ArpWaits
      <4>3. QED BY <3>1, <3>2, <4>1, <4>2 DEF ArpLost
    <3>4. CASE q \in R BY <3>1, <3>2, <3>4 DEF ArpLost
    <3>5. QED BY <3>3, <3>4
  <2>3. CASE R = {}
    <3>1. ArpLost' \subseteq ArpLost BY <2>2, <2>3
    <3>2. QED BY <1>1, <1>8, <3>1, ArpCounts DEF ArpInv
  <2>4. CASE R # {}
    <3>1. PICK r \in R : R = {r} BY <2>4
    <3>2. arpcache[s].state = "PENDING" /\ arpcache[s].pid = r BY <3>1
    <3>3. CASE ArpWaits(r) /\ arpproc[r].slot = s
      <4>1. ArpLost' \subseteq ArpLost BY <2>2, <3>1, <3>3
      <4>2. QED BY <1>1, <1>8, <4>1, ArpCounts DEF ArpInv
    <3>4. CASE ~(ArpWaits(r) /\ arpproc[r].slot = s)
      <4>1. s \in ArpLost BY <1>2, <3>2, <3>4 DEF ArpLost
      <4>2. PICK t : t = arpproc[r].slot OBVIOUS
      <4>3. ArpLost' \subseteq (ArpLost \ {s}) \cup {t} BY <2>1, <2>2, <3>1, <4>2
      <4>4. QED BY <1>1, <1>8, <4>1, <4>3, ArpCounts DEF ArpInv
    <3>5. QED BY <3>3, <3>4
  <2>5. QED BY <2>3, <2>4
<1>15. QED BY <1>8, <1>9, <1>10, <1>11, <1>12, <1>13, <1>14 DEF ArpInv

\* A request from a host that has none: its entry takes the place of another.
LEMMA ArpEntersOK ==
    ASSUME ArpInv, NEW a \in ArpAddrs, NEW m \in ArpMacs, ArpFind(a) = {}, NEW s \in ArpSlots,
           arpcache[s].state # "PENDING",
           NEW e, e = [ArpFree EXCEPT !.state = "RESOLVED", !.addr = a, !.mac = m],
           arpcache' = [arpcache EXCEPT ![s] = e],
           arpfault' = ArpMarked(ArpRobbed(s), "evicted"),
           arpclaimed' = arpclaimed \cup {<<a, m>>},
           arpbudget' \in [packets : Nat, stray : Nat, kills : Nat], ArpSpent' = ArpSpent,
           UNCHANGED <<arpproc, arpgot, arpmsg>>
    PROVE  ArpInv'
<1>1. ArpTypeOK BY DEF ArpInv
<1>2. e \in ArpEntries /\ e.state = "RESOLVED" /\ e.addr = a /\ e.mac = m
  BY DEF ArpFree, ArpEntries
<1>3. /\ arpcache' \in [ArpSlots -> ArpEntries] /\ arpcache'[s] = e
      /\ \A t \in ArpSlots : t # s => arpcache'[t] = arpcache[t]
  <2>1. arpcache \in [ArpSlots -> ArpEntries] BY <1>1 DEF ArpTypeOK
  <2>2. QED BY <1>2, <2>1
<1>4. /\ arpfault' \in [ArpProcs -> SUBSET {"evicted", "stray"}]
      /\ \A q \in ArpProcs : /\ q \in ArpRobbed(s) => arpfault'[q] # {}
                             /\ arpfault'[q] = {} => arpfault[q] = {}
  BY <1>1, ArpMarks
<1>5. ArpTypeOK' BY <1>1, <1>2, <1>3, <1>4 DEF ArpTypeOK, ArpSlots
<1>6. ArpWaiting'
  <2>1. ASSUME NEW q \in ArpProcs, ArpWaits(q)' PROVE ArpPendingFor(arpproc[q].slot, q)'
    <3>1. ArpWaits(q) BY <2>1 DEF ArpWaits
    <3>2. ArpPendingFor(arpproc[q].slot, q) /\ arpproc[q].slot \in ArpSlots
      BY <1>1, <3>1 DEF ArpInv, ArpWaiting, ArpWaits, ArpTypeOK
    <3>3. arpproc[q].slot # s BY <3>2 DEF ArpPendingFor
    <3>4. QED BY <1>3, <3>2, <3>3 DEF ArpPendingFor
  <2>2. QED BY <2>1 DEF ArpWaiting
<1>7. ArpFaultless'
  <2>1. ASSUME NEW q \in ArpProcs, arpproc'[q].at # "idle", arpfault'[q] = {}
        PROVE  ArpServed(q)'
    <3>1. ArpServed(q) /\ arpproc[q].slot \in ArpSlots /\ arpproc[q].slot # s
      BY <1>1, <1>4, <2>1 DEF ArpInv, ArpFaultless, ArpTypeOK, ArpRobbed
    <3>2. QED BY <1>3, <3>1 DEF ArpServed
  <2>2. QED BY <2>1 DEF ArpFaultless
<1>8. ArpOnce'
  <2>1. \A t \in ArpSlots : arpcache[t].state # "FREE" => arpcache[t].addr # a
    BY DEF ArpFind
  <2>2. QED BY <1>2, <1>3, <2>1 DEF ArpInv, ArpOnce, ArpSlots
<1>9. ArpClaims'
  <2>1. \A t \in ArpSlots : arpcache[t].state = "RESOLVED"
                             => <<arpcache[t].addr, arpcache[t].mac>> \in arpclaimed
    BY DEF ArpInv, ArpClaims
  <2>2. \A t \in ArpSlots : arpcache'[t].state = "RESOLVED"
                             => <<arpcache'[t].addr, arpcache'[t].mac>> \in arpclaimed'
    BY <1>2, <1>3, <2>1
  <2>3. QED BY <2>2 DEF ArpClaims, ArpSlots
<1>10. ResolvedByOwner' BY <1>4 DEF ArpInv, ResolvedByOwner
<1>11. ArpCounted'
  <2>1. ArpLost' \subseteq ArpLost
    BY <1>1, <1>2, <1>3 DEF ArpTypeOK, ArpLost, ArpWaits, ArpSlots
  <2>2. QED BY <1>1, <1>5, <2>1, ArpCounts DEF ArpInv
<1>12. QED BY <1>5, <1>6, <1>7, <1>8, <1>9, <1>10, <1>11 DEF ArpInv

LEMMA ArpInOK ==
    ASSUME ArpInv, NEW op, NEW a \in ArpAddrs, NEW m \in ArpMacs, NEW target,
           arp_in(op, a, m, target)
    PROVE  ArpInv'
<1>1. ArpTypeOK BY DEF ArpInv
<1>2. /\ arpclaimed' = arpclaimed \cup {<<a, m>>} /\ UNCHANGED <<arpproc, arpgot>>
  BY DEF arp_in
<1>3. arpbudget' \in [packets : Nat, stray : Nat, kills : Nat] /\ ArpSpent' = ArpSpent
  <2>1. PICK b : b = arpbudget OBVIOUS
  <2>2. b \in [packets : Nat, stray : Nat, kills : Nat] /\ b.packets > 0
    BY <1>1, <2>1 DEF ArpTypeOK, arp_in
  <2>3. PICK n \in Nat : n = b.packets - 1 BY <2>2
  <2>4. arpbudget' = [b EXCEPT !.packets = n] BY <2>1, <2>3 DEF arp_in
  <2>5. QED BY <2>1, <2>2, <2>4 DEF ArpSpent
<1>4. PICK s : s = ArpFirst(ArpFind(a)) OBVIOUS
<1>5. PICK R : R = IF arpcache[s].state = "PENDING" THEN {arpcache[s].pid} ELSE {} OBVIOUS
<1>6. CASE /\ ArpFind(a) # {}
           /\ arpcache' = [arpcache EXCEPT ![s].mac = m, ![s].state = "RESOLVED"]
           /\ arpmsg' = IF arpcache[s].state = "PENDING" THEN ArpMail(arpcache[s].pid, "OK") ELSE arpmsg
           /\ arpfault' = ArpMarked(IF arpcache[s].state = "PENDING"
                                    THEN {arpcache[s].pid} \ ArpRobbed(s) ELSE {}, "stray")
  <2>1. s \in ArpSlots BY <1>4, <1>6, ArpFound
  <2>2. PICK e : e = [arpcache[s] EXCEPT !.mac = m, !.state = "RESOLVED"] OBVIOUS
  <2>3. arpcache' = [arpcache EXCEPT ![s] = e] BY <1>1, <1>6, <2>1, <2>2 DEF ArpTypeOK
  <2>4. /\ arpmsg' \in [ArpProcs -> {"none", "OK", "SYSERR", "stray"}]
        /\ \A q \in ArpProcs :
              /\ q \notin R => arpmsg'[q] = arpmsg[q]
              /\ q \in R => arpmsg'[q] = IF arpmsg[q] = "none" THEN "OK" ELSE arpmsg[q]
    <3>1. CASE arpcache[s].state = "PENDING"
      <4>1. PICK r \in ArpProcs : r = arpcache[s].pid BY <1>1, <2>1, <3>1 DEF ArpTypeOK
      <4>2. R = {r} BY <1>5, <3>1, <4>1
      <4>3. PICK w : w = IF arpmsg[r] = "none" THEN "OK" ELSE arpmsg[r] OBVIOUS
      <4>4. arpmsg' = [arpmsg EXCEPT ![r] = w] BY <1>6, <3>1, <4>1, <4>3 DEF ArpMail
      <4>5. QED BY <1>1, <4>1, <4>2, <4>3, <4>4 DEF ArpTypeOK
    <3>2. CASE arpcache[s].state # "PENDING"
      <4>1. arpmsg' = arpmsg /\ R = {} BY <1>5, <1>6, <3>2
      <4>2. QED BY <1>1, <4>1 DEF ArpTypeOK
    <3>3. QED BY <3>1, <3>2
  <2>5. arpfault' = ArpMarked(R \ ArpRobbed(s), "stray")
    <3>1. R \ ArpRobbed(s) = IF arpcache[s].state = "PENDING"
                             THEN {arpcache[s].pid} \ ArpRobbed(s) ELSE {}
      BY <1>5
    <3>2. QED BY <1>6, <3>1
  <2>6. ArpFind(a) # {} BY <1>6
  <2>7. QED BY <1>2, <1>3, <1>4, <1>5, <2>2, <2>3, <2>4, <2>5, <2>6, ArpFoundOK, ZenonT(30)
<1>7. CASE /\ ArpFind(a) = {} /\ ArpAllocable # {}
           /\ arpcache' = [arpcache EXCEPT ![arp_alloc] =
                             [ArpFree EXCEPT !.state = "RESOLVED", !.addr = a, !.mac = m]]
           /\ arpfault' = ArpMarked(ArpRobbed(arp_alloc), "evicted") /\ UNCHANGED arpmsg
  <2>1. PICK t : t = arp_alloc OBVIOUS
  <2>2. t \in ArpSlots /\ arpcache[t].state # "PENDING" BY <1>7, <2>1, ArpAllocated
  <2>3. PICK e : e = [ArpFree EXCEPT !.state = "RESOLVED", !.addr = a, !.mac = m] OBVIOUS
  <2>4. /\ arpcache' = [arpcache EXCEPT ![t] = e]
        /\ arpfault' = ArpMarked(ArpRobbed(t), "evicted") /\ arpmsg' = arpmsg
        /\ ArpFind(a) = {}
    BY <1>7, <2>1, <2>3
  <2>5. QED BY <1>2, <1>3, <2>2, <2>3, <2>4, ArpEntersOK, ZenonT(30)
<1>8. CASE UNCHANGED <<arpcache, arpmsg, arpfault>>
  <2>1. ArpTypeOK' BY <1>1, <1>2, <1>3, <1>8 DEF ArpTypeOK, ArpSlots
  <2>2. ArpWaiting' /\ ArpFaultless' /\ ArpOnce'
    BY <1>2, <1>8 DEF ArpInv, ArpWaiting, ArpWaits, ArpPendingFor, ArpFaultless, ArpServed,
                      ArpOnce, ArpSlots
  <2>3. ArpClaims' /\ ResolvedByOwner'
    BY <1>2, <1>8 DEF ArpInv, ArpClaims, ResolvedByOwner, ArpSlots
  <2>4. ArpCounted'
    <3>1. ArpLost' = ArpLost BY <1>2, <1>8 DEF ArpLost, ArpWaits, ArpSlots
    <3>2. QED BY <1>1, <1>3, <2>1, <3>1, ArpCounts DEF ArpInv
  <2>5. QED BY <2>1, <2>2, <2>3, <2>4 DEF ArpInv
<1>9. QED BY <1>4, <1>6, <1>7, <1>8, Zenon DEF arp_in

LEMMA ArpInit == arp_init => ArpInv
<1> SUFFICES ASSUME arp_init PROVE ArpInv OBVIOUS
<1>1. \A s \in ArpSlots : arpcache[s] = ArpFree BY DEF arp_init
<1>2. \A p \in ArpProcs : arpproc[p] = ArpIdle /\ arpgot[p] = << >> BY DEF arp_init
<1>3. ArpFree \in ArpEntries /\ ArpFree.state = "FREE" BY DEF ArpFree, ArpEntries
<1>4. {ArpIn, ArpStray, ArpKills} \subseteq Nat BY ArpAssumption
<1>5. ArpTypeOK
  <2>1. arpcache \in [ArpSlots -> ArpEntries] BY <1>3 DEF arp_init
  <2>2. arpproc \in [ArpProcs -> ArpPlaces] BY ArpIdlePlace DEF arp_init
  <2>3. arpbudget \in [packets : Nat, stray : Nat, kills : Nat] BY <1>4 DEF arp_init
  <2>4. /\ arpmsg \in [ArpProcs -> {"none", "OK", "SYSERR", "stray"}]
        /\ arpgot \in [ArpProcs -> {<< >>} \cup ArpPairs]
        /\ arpfault \in [ArpProcs -> SUBSET {"evicted", "stray"}]
    BY DEF arp_init
  <2>5. QED BY <1>1, <1>2, <1>3, <2>1, <2>2, <2>3, <2>4, ArpIdlePlace DEF ArpTypeOK
<1>6. /\ ArpWaiting /\ ArpFaultless /\ ArpOnce /\ ArpClaims /\ ResolvedByOwner
  BY <1>1, <1>2, <1>3, ArpIdlePlace
  DEF ArpWaiting, ArpWaits, ArpFaultless, ArpOnce, ArpClaims, ResolvedByOwner
<1>7. ArpCounted
  <2>1. ArpLost = {} BY <1>1, <1>3 DEF ArpLost
  <2>2. ArpSpent = 0 BY <1>4 DEF ArpSpent, arp_init
  <2>3. QED BY <2>1, <2>2, FS_EmptySet DEF ArpCounted
<1>8. QED BY <1>5, <1>6, <1>7 DEF ArpInv

LEMMA ArpNextOK == ArpInv /\ [ArpNext]_arpvars => ArpInv'
<1> SUFFICES ASSUME ArpInv, [ArpNext]_arpvars PROVE ArpInv' OBVIOUS
<1>1. ASSUME NEW p \in ArpProcs, NEW a \in ArpAddrs, arp_resolve(p, a) PROVE ArpInv'
  BY <1>1, ArpResolveOK
<1>2. ASSUME NEW p \in ArpProcs,
             ArpWrite(p) \/ ArpTimer(p) \/ ArpAnswered(p) \/ ArpTimedOut(p) \/ ArpKill(p)
      PROVE  ArpInv'
  BY <1>2, ArpWriteOK, ArpTimerOK, ArpAnsweredOK, ArpTimedOutOK, ArpKillOK
<1>3. ASSUME NEW p \in ArpProcs, NEW m \in {"stray", "SYSERR"}, ArpStrayMessage(p, m)
      PROVE  ArpInv'
  BY <1>3, ArpStrayOK
<1>4. ASSUME NEW op \in {"REQUEST", "REPLY"}, NEW a \in ArpAddrs, NEW m \in ArpMacs,
             NEW target \in ArpAddrs \cup {ArpMe}, arp_in(op, a, m, target)
      PROVE  ArpInv'
  BY <1>4, ArpInOK
<1>5. CASE UNCHANGED arpvars
  <2>1. UNCHANGED <<arpcache, arpproc, arpmsg, arpbudget, arpclaimed, arpgot, arpfault>>
    BY <1>5 DEF arpvars
  <2>2. ArpTypeOK' BY <2>1 DEF ArpInv, ArpTypeOK, ArpSlots
  <2>3. ArpWaiting' /\ ArpFaultless' /\ ArpOnce'
    BY <2>1 DEF ArpInv, ArpWaiting, ArpWaits, ArpPendingFor, ArpFaultless, ArpServed,
                ArpOnce, ArpSlots
  <2>4. ArpClaims' /\ ResolvedByOwner' BY <2>1 DEF ArpInv, ArpClaims, ResolvedByOwner, ArpSlots
  <2>5. ArpCounted' BY <2>1 DEF ArpInv, ArpCounted, ArpLost, ArpSpent, ArpWaits, ArpSlots
  <2>6. QED BY <2>2, <2>3, <2>4, <2>5 DEF ArpInv
<1>6. QED BY <1>1, <1>2, <1>3, <1>4, <1>5, Zenon DEF ArpNext

LEMMA ArpAlways == ArpSpec => []ArpInv
<1>1. QED BY ArpInit, ArpNextOK, PTL DEF ArpSpec

LEMMA ArpOwned == ArpInv => PendingOwned
<1> SUFFICES ASSUME ArpInv PROVE PendingOwned OBVIOUS
<1>1. ASSUME NEW a \in ArpAddrs PROVE Cardinality(ArpFind(a)) <= 1
  <2>1. \A s, t \in ArpFind(a) : s = t BY DEF ArpInv, ArpOnce, ArpFind
  <2>2. PICK A : A = ArpFind(a) OBVIOUS
  <2>3. CASE A = {} BY <2>2, <2>3, FS_EmptySet
  <2>4. CASE A # {}
    <3>1. PICK s : A = {s} BY <2>1, <2>2, <2>4
    <3>2. Cardinality(A) = 1 BY <3>1, FS_Singleton
    <3>3. QED BY <2>2, <3>2
  <2>5. QED BY <2>3, <2>4
<1>2. PICK B : B = {s \in ArpSlots :
            /\ arpcache[s].state = "PENDING"
            /\ LET p == arpcache[s].pid IN
               ~(arpproc[p].at # "idle" /\ arpproc[p].slot = s /\ arpproc[p].addr = arpcache[s].addr)}
  OBVIOUS
<1>3. B \subseteq ArpLost
  <2>1. SUFFICES ASSUME NEW s \in B PROVE s \in ArpLost OBVIOUS
  <2>2. PICK p : p = arpcache[s].pid OBVIOUS
  <2>3. /\ s \in ArpSlots /\ arpcache[s].state = "PENDING"
        /\ ~(arpproc[p].at # "idle" /\ arpproc[p].slot = s /\ arpproc[p].addr = arpcache[s].addr)
    BY <1>2, <2>2
  <2>4. p \in ArpProcs BY <2>2, <2>3 DEF ArpInv, ArpTypeOK
  <2>5. ~(ArpWaits(p) /\ arpproc[p].slot = s)
    BY <2>2, <2>3, <2>4 DEF ArpInv, ArpWaiting, ArpWaits, ArpPendingFor
  <2>6. QED BY <2>2, <2>3, <2>5 DEF ArpLost
<1>4. IsFiniteSet(ArpLost)
  <2>1. ARP_SIZ - 1 \in Int BY ArpAssumption
  <2>2. IsFiniteSet(ArpSlots) BY <2>1, FS_Interval DEF ArpSlots
  <2>3. ArpLost \subseteq ArpSlots BY DEF ArpLost
  <2>4. QED BY <2>2, <2>3, FS_Subset
<1>5. ArpSpent \in Int BY ArpAssumption DEF ArpInv, ArpTypeOK, ArpSpent
<1>6. Cardinality(B) <= ArpSpent BY <1>3, <1>4, <1>5, CountSteps DEF ArpInv, ArpCounted
<1>7. QED BY <1>1, <1>2, <1>6 DEF PendingOwned, ArpSpent

\* arp_resolve returns an address that the host itself has claimed, although
\* the entry is read after a wait: it is still the caller's, unless it was
\* evicted or the message was not from ARP (arp.c).
THEOREM ResolvedAddresses == ArpSpec => []ResolvedByOwner
<1>1. ArpInv => ResolvedByOwner BY DEF ArpInv
<1>2. QED BY <1>1, ArpAlways, PTL

\* Each host has one entry, and no pending entry stays behind without a kill
\* or a message of another process: a caller that gives up frees its own entry
\* and no other (arp.c).
THEOREM PendingEntriesOwned == ArpSpec => []PendingOwned
<1>1. QED BY ArpAlways, ArpOwned, PTL

-----------------------------------------------------------------------------
\* The IP layer.  The semaphore of the output queue: ipout alone waits for it.
IqAsleep == [val |-> 0, queue |-> <<"ipout">>]

LEMMA IqSteps ==
    /\ Waits(IqAsleep, "ipout") /\ V(IqAsleep) = SemNew(0) /\ semcount(IqAsleep) = -1
    /\ P(SemNew(0), "ipout") = IqAsleep
    /\ \A n \in Nat : /\ ~Waits(SemNew(n), "ipout") /\ semcount(SemNew(n)) = n
                      /\ V(SemNew(n)) = SemNew(n + 1)
                      /\ P(SemNew(n + 1), "ipout") = SemNew(n)
<1>1. IqAsleep.val = 0 /\ IqAsleep.queue = <<"ipout">> BY DEF IqAsleep
<1>2. /\ <<"ipout">> # << >> /\ Len(<<"ipout">>) = 1 /\ Tail(<<"ipout">>) = << >>
      /\ <<"ipout">>[1] = "ipout" /\ Len(<< >>) = 0 /\ Append(<< >>, "ipout") = <<"ipout">>
  OBVIOUS
<1>3. Waits(IqAsleep, "ipout")
  <2>1. 1 \in 1..Len(IqAsleep.queue) /\ IqAsleep.queue[1] = "ipout" BY <1>1, <1>2
  <2>2. QED BY <2>1 DEF Waits, OnQueue
<1>4. V(IqAsleep) = SemNew(0)
  <2>1. V(IqAsleep) = [IqAsleep EXCEPT !.queue = << >>] BY <1>1, <1>2 DEF V
  <2>2. QED BY <2>1 DEF IqAsleep, SemNew
<1>5. semcount(IqAsleep) = -1 BY <1>1, <1>2 DEF semcount
<1>6. P(SemNew(0), "ipout") = IqAsleep
  <2>1. SemNew(0).val = 0 /\ SemNew(0).queue = << >> BY DEF SemNew
  <2>2. P(SemNew(0), "ipout") = [SemNew(0) EXCEPT !.queue = <<"ipout">>]
    BY <1>2, <2>1 DEF P
  <2>3. QED BY <2>2 DEF IqAsleep, SemNew
<1>7. ASSUME NEW n \in Nat
      PROVE  /\ ~Waits(SemNew(n), "ipout") /\ semcount(SemNew(n)) = n
             /\ V(SemNew(n)) = SemNew(n + 1) /\ P(SemNew(n + 1), "ipout") = SemNew(n)
  <2>1. \A k \in Nat : SemNew(k).val = k /\ SemNew(k).queue = << >> BY DEF SemNew
  <2>2. ~Waits(SemNew(n), "ipout")
    <3>1. Len(SemNew(n).queue) = 0 BY <1>2, <2>1
    <3>2. QED BY <3>1 DEF Waits, OnQueue
  <2>3. semcount(SemNew(n)) = n BY <2>1 DEF semcount
  <2>4. V(SemNew(n)) = [SemNew(n) EXCEPT !.val = n + 1] BY <2>1 DEF V
  <2>5. V(SemNew(n)) = SemNew(n + 1) BY <2>4 DEF SemNew
  <2>6. n + 1 \in Nat /\ n + 1 > 0 /\ (n + 1) - 1 = n OBVIOUS
  <2>7. P(SemNew(n + 1), "ipout") = [SemNew(n + 1) EXCEPT !.val = n] BY <2>1, <2>6 DEF P
  <2>8. P(SemNew(n + 1), "ipout") = SemNew(n) BY <2>7 DEF SemNew
  <2>9. QED BY <2>2, <2>3, <2>5, <2>8
<1>8. QED BY <1>3, <1>4, <1>5, <1>6, <1>7

\* The packets on the output queue: ipout has been signalled for one of them,
\* unless it is with another.
IpWaiting == IF Waits(iqsem, "ipout") THEN 0 ELSE IpPending
IpQueued == Ring(ipoqueue.buf, IpOqsiz, ipoqueue.head, IpWaiting)
IpPlaces == {"free", "up", "queue", "ipout"} \cup IpProcs

IpTypeOK ==
    /\ netbuf \in [NetBufs -> IpPlaces]
    /\ ipoqueue \in [head : IpRing, tail : IpRing, buf : [IpRing -> Nat]]
    /\ \/ iqsem = IqAsleep /\ ipoutpc = NoBuf
       \/ \E n \in Nat : iqsem = SemNew(n)
IpQueue ==
    /\ RingSound(ipoqueue.buf, IpOqsiz, ipoqueue.head, ipoqueue.tail, IpWaiting)
    /\ IpQueued = {b \in NetBufs : netbuf[b] = "queue"}
IpWithIpout == \A b \in NetBufs : netbuf[b] = "ipout" <=> b = ipoutpc

\* The inductive invariant.
IpInv == IpTypeOK /\ IpQueue /\ IpWithIpout

\* How many packets wait, by what ipout does.
LEMMA IpWaitingIs ==
    ASSUME IpTypeOK
    PROVE  /\ iqsem = IqAsleep => IpWaiting = 0 /\ ~IpoutAwake
           /\ \A n \in Nat : iqsem = SemNew(n) =>
                 /\ ipoutpc = NoBuf => IpoutAwake /\ IpWaiting = n + 1
                 /\ ipoutpc # NoBuf => ~IpoutAwake /\ IpWaiting = n
<1>1. iqsem = IqAsleep => IpWaiting = 0 /\ ~IpoutAwake BY IqSteps DEF IpWaiting, IpoutAwake
<1>2. ASSUME NEW n \in Nat, iqsem = SemNew(n)
      PROVE  /\ ipoutpc = NoBuf => IpoutAwake /\ IpWaiting = n + 1
             /\ ipoutpc # NoBuf => ~IpoutAwake /\ IpWaiting = n
  <2>1. ~Waits(iqsem, "ipout") /\ semcount(iqsem) = n BY <1>2, IqSteps
  <2>2. IpWaiting = n + IF IpoutAwake THEN 1 ELSE 0 BY <2>1 DEF IpWaiting, IpPending
  <2>3. QED BY <2>1, <2>2 DEF IpoutAwake
<1>3. QED BY <1>1, <1>2

\* What the invariant says of the buffers is the property of the runs.
LEMMA IpKept == IpInv => NetBuffersKept
<1> SUFFICES ASSUME IpInv PROVE NetBuffersKept OBVIOUS
<1>1. PICK w : w = IpWaiting OBVIOUS
<1>2. PICK f, h, t : f = ipoqueue.buf /\ h = ipoqueue.head /\ t = ipoqueue.tail OBVIOUS
<1>3. RingSound(f, IpOqsiz, h, t, w) /\ Ring(f, IpOqsiz, h, w) = {b \in NetBufs : netbuf[b] = "queue"}
  BY <1>1, <1>2 DEF IpInv, IpQueue, IpQueued
<1>4. IpOqsiz \in Nat \ {0} BY IpAssumption
<1>5. Cardinality(Ring(f, IpOqsiz, h, w)) = w BY <1>3, <1>4, RingCount
<1>6. Ring(f, IpOqsiz, h, w) = {ipoqueue.buf[(ipoqueue.head + i) % IpOqsiz] : i \in 0..(w - 1)}
  BY <1>2 DEF Ring
<1>7. (ipoqueue.head + w) % IpOqsiz = ipoqueue.tail BY <1>2, <1>3 DEF RingSound
<1>8. \A b \in NetBufs : /\ netbuf[b] \in {"free", "up", "queue", "ipout"} \cup IpProcs
                         /\ netbuf[b] = "ipout" <=> b = ipoutpc
  BY DEF IpInv, IpTypeOK, IpPlaces, IpWithIpout
<1>9. w = IF Waits(iqsem, "ipout") THEN 0 ELSE IpPending BY <1>1 DEF IpWaiting
<1>10. QED BY <1>3, <1>5, <1>6, <1>7, <1>8, <1>9 DEF NetBuffersKept

\* Steps that leave the output queue alone.
IpOthers(m, n) ==
    \A b \in NetBufs : /\ n[b] \in IpPlaces
                       /\ n[b] = "queue" <=> m[b] = "queue"
                       /\ n[b] = "ipout" <=> m[b] = "ipout"
LEMMA IpAside ==
    ASSUME IpInv, netbuf' \in [NetBufs -> IpPlaces], IpOthers(netbuf, netbuf'),
           UNCHANGED <<ipoqueue, iqsem, ipoutpc>>
    PROVE  IpInv'
<1>1. IpTypeOK' BY DEF IpInv, IpTypeOK, IpRing
<1>2. IpWaiting' = IpWaiting BY DEF IpWaiting, IpPending, IpoutAwake
<1>3. PICK w : w = IpWaiting OBVIOUS
<1>4. /\ RingSound(ipoqueue.buf, IpOqsiz, ipoqueue.head, ipoqueue.tail, w)
      /\ Ring(ipoqueue.buf, IpOqsiz, ipoqueue.head, w) = {b \in NetBufs : netbuf[b] = "queue"}
  BY <1>3 DEF IpInv, IpQueue, IpQueued
<1>5. {b \in NetBufs : netbuf'[b] = "queue"} = {b \in NetBufs : netbuf[b] = "queue"}
  BY DEF IpOthers
<1>6. IpQueue' BY <1>2, <1>3, <1>4, <1>5 DEF IpQueue, IpQueued
<1>7. IpWithIpout' BY DEF IpInv, IpWithIpout, IpOthers
<1>8. QED BY <1>1, <1>6, <1>7 DEF IpInv

\* One buffer changes hands, outside of the queue and of ipout.
LEMMA IpMoves ==
    ASSUME IpInv, NEW b \in NetBufs, netbuf[b] \notin {"queue", "ipout"},
           NEW to \in {"free", "up"} \cup IpProcs, netbuf' = [netbuf EXCEPT ![b] = to],
           UNCHANGED <<ipoqueue, iqsem, ipoutpc>>
    PROVE  IpInv'
<1>1. to \in IpPlaces /\ to # "queue" /\ to # "ipout" BY IpAssumption DEF IpPlaces
<1>2. netbuf \in [NetBufs -> IpPlaces] BY DEF IpInv, IpTypeOK
<1>3. netbuf' \in [NetBufs -> IpPlaces] BY <1>1, <1>2
<1>4. \A c \in NetBufs : netbuf'[c] = IF c = b THEN to ELSE netbuf[c] BY <1>2
<1>5. IpOthers(netbuf, netbuf') BY <1>1, <1>2, <1>4 DEF IpOthers
<1>6. QED BY <1>3, <1>5, IpAside

\* A packet is put on the output queue, which has room for it.
LEMMA IpEnters ==
    ASSUME IpInv, ~IpoutAwake, ~OqFull, NEW b \in NetBufs,
           NEW bufs \in [NetBufs -> IpPlaces], IpOthers(netbuf, bufs),
           netbuf[b] \notin {"queue", "ipout"},
           netbuf' = [bufs EXCEPT ![b] = "queue"],
           ipoqueue' = [ipoqueue EXCEPT !.buf[ipoqueue.tail] = b, !.tail = (@ + 1) % IpOqsiz],
           iqsem' = V(iqsem), ipoutpc' = ipoutpc
    PROVE  IpInv'
<1>1. IpOqsiz \in Nat \ {0} /\ b \in Nat BY IpAssumption
<1>2. PICK w : w = IpWaiting OBVIOUS
<1>3. PICK q : q = ipoqueue OBVIOUS
<1>4. q \in [head : IpRing, tail : IpRing, buf : [IpRing -> Nat]]
  BY <1>3 DEF IpInv, IpTypeOK
<1>5. /\ RingSound(q.buf, IpOqsiz, q.head, q.tail, w)
      /\ Ring(q.buf, IpOqsiz, q.head, w) = {c \in NetBufs : netbuf[c] = "queue"}
  BY <1>2, <1>3 DEF IpInv, IpQueue, IpQueued
<1>6. /\ w \in Nat /\ w < IpOqsiz
      /\ \E n \in Nat : iqsem' = SemNew(n) /\ w + 1 = IF ipoutpc = NoBuf THEN n + 1 ELSE n
  <2>1. IpTypeOK BY DEF IpInv
  <2>2. CASE iqsem = IqAsleep /\ ipoutpc = NoBuf
    <3>1. w = 0 BY <1>2, <2>1, <2>2, IpWaitingIs
    <3>2. iqsem' = SemNew(0) BY <2>2, IqSteps
    <3>3. 0 \in Nat /\ 0 < IpOqsiz /\ 0 + 1 = 1 BY <1>1
    <3>4. QED BY <2>2, <3>1, <3>2, <3>3
  <2>3. CASE \E n \in Nat : iqsem = SemNew(n)
    <3>1. PICK n \in Nat : iqsem = SemNew(n) BY <2>3
    <3>2. ipoutpc # NoBuf /\ w = n BY <1>2, <2>1, <3>1, IpWaitingIs
    <3>3. iqsem' = SemNew(n + 1) /\ semcount(iqsem) = n BY <3>1, IqSteps
    <3>4. n < IpOqsiz BY <1>1, <3>3 DEF OqFull
    <3>5. n + 1 \in Nat OBVIOUS
    <3>6. QED BY <3>2, <3>3, <3>4, <3>5
  <2>4. QED BY <2>1, <2>2, <2>3 DEF IpTypeOK
<1>7. PICK n \in Nat : iqsem' = SemNew(n) /\ w + 1 = IF ipoutpc = NoBuf THEN n + 1 ELSE n
  BY <1>6
<1>8. PICK g, t : g = [q.buf EXCEPT ![q.tail] = b] /\ t = (q.tail + 1) % IpOqsiz OBVIOUS
<1>9. ipoqueue' = [q EXCEPT !.buf = g, !.tail = t] BY <1>3, <1>8
<1>10. t \in IpRing
  <2>1. q.tail + 1 \in Nat /\ q.tail + 1 < 2 * IpOqsiz BY <1>1, <1>4 DEF IpRing
  <2>2. QED BY <1>1, <1>8, <2>1, RingWrap DEF IpRing
<1>11. g \in [IpRing -> Nat] /\ g[q.tail] = b /\ \A k \in IpRing : k # q.tail => g[k] = q.buf[k]
  BY <1>1, <1>4, <1>8
<1>12. /\ ipoqueue' \in [head : IpRing, tail : IpRing, buf : [IpRing -> Nat]]
       /\ ipoqueue'.head = q.head /\ ipoqueue'.tail = t /\ ipoqueue'.buf = g
  BY <1>4, <1>9, <1>10, <1>11
<1>13. netbuf' \in [NetBufs -> IpPlaces]
       /\ \A c \in NetBufs : netbuf'[c] = IF c = b THEN "queue" ELSE bufs[c]
  BY DEF IpPlaces
<1>14. IpTypeOK' BY <1>7, <1>12, <1>13 DEF IpTypeOK, IpRing
<1>15. IpWaiting' = w + 1
  <2>1. PICK s, d : s = iqsem' /\ d = ipoutpc' OBVIOUS
  <2>2. ~Waits(SemNew(n), "ipout") /\ semcount(SemNew(n)) = n BY IqSteps
  <2>3. IpWaiting' = n + IF ipoutpc = NoBuf THEN 1 ELSE 0
    BY <1>7, <2>2 DEF IpWaiting, IpPending, IpoutAwake
  <2>4. QED BY <1>6, <1>7, <2>3
<1>16. /\ RingSound(g, IpOqsiz, q.head, t, w + 1)
       /\ Ring(g, IpOqsiz, q.head, w + 1) = {c \in NetBufs : netbuf[c] = "queue"} \cup {b}
  <2>1. PICK f, h, d : f = q.buf /\ h = q.head /\ d = q.tail OBVIOUS
  <2>2. b \notin Ring(f, IpOqsiz, h, w) BY <1>5, <2>1
  <2>3. \A k \in 0..(IpOqsiz - 1) : k # d => g[k] = f[k] BY <1>11, <2>1 DEF IpRing
  <2>4. RingSound(f, IpOqsiz, h, d, w) BY <1>5, <2>1
  <2>5. g[d] = b BY <1>11, <2>1
  <2>6. /\ RingSound(g, IpOqsiz, h, (d + 1) % IpOqsiz, w + 1)
        /\ Ring(g, IpOqsiz, h, w + 1) = Ring(f, IpOqsiz, h, w) \cup {b}
    <3>1. w < IpOqsiz BY <1>6
    <3>2. IpOqsiz \in Nat \ {0} BY <1>1
    <3>3. QED BY <2>2, <2>3, <2>4, <2>5, <3>1, <3>2, RingPut
  <2>7. QED BY <1>5, <1>8, <2>1, <2>6
<1>17. {c \in NetBufs : netbuf'[c] = "queue"} = {c \in NetBufs : netbuf[c] = "queue"} \cup {b}
  BY <1>13 DEF IpOthers
<1>18. IpQueue' BY <1>12, <1>15, <1>16, <1>17 DEF IpQueue, IpQueued
<1>19. IpWithIpout'
  BY <1>13 DEF IpInv, IpWithIpout, IpOthers
<1>20. QED BY <1>14, <1>18, <1>19 DEF IpInv

LEMMA IpSmallest == \A S : S \subseteq NetBufs /\ S # {} => Min(S) \in S
<1> SUFFICES ASSUME NEW S, S \subseteq NetBufs, S # {} PROVE Min(S) \in S OBVIOUS
<1>1. S \subseteq Nat BY IpAssumption
<1>2. \E x \in S : \A y \in S : x <= y BY <1>1, LeastNat
<1>3. QED BY <1>2 DEF Min

\* A packet for this machine.
LEMMA IpLocalOK ==
    ASSUME IpInv, ~IpoutAwake, NEW b \in NetBufs, netbuf[b] = "free", NEW k, ip_local(b, k),
           ipoutpc' = ipoutpc
    PROVE  IpInv'
<1>1. netbuf \in [NetBufs -> IpPlaces] BY DEF IpInv, IpTypeOK
<1>2. ASSUME NEW to \in {"up", "free"}, netbuf' = [netbuf EXCEPT ![b] = to],
             UNCHANGED <<ipoqueue, iqsem>>
      PROVE  IpInv'
  BY <1>2, IpMoves
<1>3. ASSUME NEW reply, reply = Min(NetFree \ {b}), NetFree \ {b} # {},
             ip_enqueue(reply, [netbuf EXCEPT ![b] = "free"])
      PROVE  IpInv'
  <2>1. reply \in NetFree
    <3>1. NetFree \ {b} \subseteq NetBufs BY DEF NetFree
    <3>2. QED BY <1>3, <3>1, IpSmallest
  <2>2. reply \in NetBufs /\ netbuf[reply] = "free" BY <2>1 DEF NetFree
  <2>3. PICK bufs : bufs = [netbuf EXCEPT ![b] = "free"] OBVIOUS
  <2>4. bufs = netbuf BY <1>1, <2>3
  <2>5. CASE OqFull /\ netbuf' = [bufs EXCEPT ![reply] = "free"] /\ UNCHANGED <<ipoqueue, iqsem>>
    <3>1. netbuf' = [netbuf EXCEPT ![reply] = "free"] BY <2>4, <2>5
    <3>2. QED BY <2>2, <2>5, <3>1, IpMoves
  <2>6. CASE /\ ~OqFull /\ netbuf' = [bufs EXCEPT ![reply] = "queue"]
             /\ ipoqueue' = [ipoqueue EXCEPT !.buf[ipoqueue.tail] = reply,
                                             !.tail = (@ + 1) % IpOqsiz]
             /\ iqsem' = V(iqsem)
    <3>1. bufs \in [NetBufs -> IpPlaces] /\ IpOthers(netbuf, bufs) BY <1>1, <2>4 DEF IpOthers
    <3>2. netbuf[reply] \notin {"queue", "ipout"} BY <2>2
    <3>3. netbuf' = [bufs EXCEPT ![reply] = "queue"] /\ iqsem' = V(iqsem) BY <2>6
    <3>4. ipoqueue' = [ipoqueue EXCEPT !.buf[ipoqueue.tail] = reply, !.tail = (@ + 1) % IpOqsiz]
      BY <2>6
    <3>5. QED BY <2>2, <2>6, <3>1, <3>2, <3>3, <3>4, IpEnters, ZenonT(30)
  <2>7. QED BY <1>3, <2>3, <2>5, <2>6 DEF ip_enqueue
<1>4. \/ \E to \in {"up", "free"} : netbuf' = [netbuf EXCEPT ![b] = to] /\ UNCHANGED <<ipoqueue, iqsem>>
      \/ NetFree \ {b} # {} /\ ip_enqueue(Min(NetFree \ {b}), [netbuf EXCEPT ![b] = "free"])
  BY Zenon DEF ip_local
<1>5. QED BY <1>2, <1>3, <1>4, Zenon

LEMMA IpNothing ==
    ASSUME IpInv, UNCHANGED <<netbuf, ipoqueue, iqsem, ipoutpc>>
    PROVE  IpInv'
<1>1. netbuf \in [NetBufs -> IpPlaces] BY DEF IpInv, IpTypeOK
<1>2. IpOthers(netbuf, netbuf') BY <1>1 DEF IpOthers
<1>3. QED BY <1>1, <1>2, IpAside

LEMMA IpNetinOK ==
    ASSUME IpInv, NEW k, NEW good, netin(k, good)
    PROVE  IpInv'
<1>1. PICK b : b = Min(NetFree) OBVIOUS
<1>2. b \in NetBufs /\ netbuf[b] = "free"
  <2>1. NetFree \subseteq NetBufs BY DEF NetFree
  <2>2. QED BY <1>1, <2>1, IpSmallest DEF netin, NetFree
<1>3. ~IpoutAwake /\ ip_in(b, k, good) /\ ipoutpc' = ipoutpc BY <1>1 DEF netin
<1>4. ip_local(b, k) \/ UNCHANGED <<netbuf, ipoqueue, iqsem>> BY <1>3 DEF ip_in
<1>5. QED BY <1>2, <1>3, <1>4, IpLocalOK, IpNothing

LEMMA IpSendOK ==
    ASSUME IpInv, NEW p \in IpProcs, NEW k, ip_send(p, k)
    PROVE  IpInv'
<1>1. PICK b : b = Min(NetFree) OBVIOUS
<1>2. b \in NetBufs /\ netbuf[b] = "free"
  <2>1. NetFree \subseteq NetBufs BY DEF NetFree
  <2>2. QED BY <1>1, <2>1, IpSmallest DEF ip_send, NetFree
<1>3. ~IpoutAwake /\ ipoutpc' = ipoutpc BY DEF ip_send
<1>4. \/ ip_local(b, k)
      \/ netbuf' = [netbuf EXCEPT ![b] = p] /\ UNCHANGED <<ipoqueue, iqsem>>
      \/ UNCHANGED <<netbuf, ipoqueue, iqsem>>
  BY <1>1 DEF ip_send
<1>5. QED BY <1>2, <1>3, <1>4, IpLocalOK, IpMoves, IpNothing

LEMMA IpFreesOK ==
    ASSUME IpInv, (\E b \in NetBufs : IpConsumed(b)) \/ \E p \in IpProcs : ip_sendRest(p)
    PROVE  IpInv'
<1>1. ASSUME NEW b \in NetBufs, IpConsumed(b) PROVE IpInv'
  <2>1. netbuf[b] \notin {"queue", "ipout"} BY <1>1 DEF IpConsumed
  <2>2. QED BY <1>1, <2>1, IpMoves DEF IpConsumed
<1>2. ASSUME NEW p \in IpProcs, ip_sendRest(p) PROVE IpInv'
  <2>1. PICK b \in NetHeld(p), r \in ArpOutcome : netbuf' = [netbuf EXCEPT ![b] = AfterArp(r)]
    BY <1>2 DEF ip_sendRest
  <2>2. b \in NetBufs /\ netbuf[b] = p BY <2>1 DEF NetHeld
  <2>3. netbuf[b] \notin {"queue", "ipout"} BY <2>2, IpAssumption
  <2>4. AfterArp(r) = "free" BY DEF AfterArp, ip_out
  <2>5. UNCHANGED <<ipoqueue, iqsem, ipoutpc>> BY <1>2 DEF ip_sendRest
  <2>6. netbuf' = [netbuf EXCEPT ![b] = "free"] BY <2>1, <2>4
  <2>7. QED BY <2>2, <2>3, <2>5, <2>6, IpMoves
<1>3. QED BY <1>1, <1>2

LEMMA IpWaitingNext ==
    /\ iqsem' = IqAsleep => IpWaiting' = 0
    /\ \A n \in Nat : iqsem' = SemNew(n) =>
          IpWaiting' = IF ipoutpc' = NoBuf THEN n + 1 ELSE n
<1>1. iqsem' = IqAsleep => IpWaiting' = 0 BY IqSteps DEF IpWaiting
<1>2. ASSUME NEW n \in Nat, iqsem' = SemNew(n)
      PROVE  IpWaiting' = IF ipoutpc' = NoBuf THEN n + 1 ELSE n
  <2>1. ~Waits(SemNew(n), "ipout") /\ semcount(SemNew(n)) = n BY IqSteps
  <2>2. IpWaiting' = n + IF ipoutpc' = NoBuf THEN 1 ELSE 0
    BY <1>2, <2>1 DEF IpWaiting, IpPending, IpoutAwake
  <2>3. QED BY <2>2
<1>3. QED BY <1>1, <1>2

\* After its packet ipout waits: for the next one, or asleep.
LEMMA IpSleeps ==
    ASSUME NEW n \in Nat, iqsem = SemNew(n), IpoutWaits, ipoutpc' = NoBuf
    PROVE  /\ IpWaiting' = n
           /\ \/ iqsem' = IqAsleep
              \/ \E m \in Nat : iqsem' = SemNew(m)
<1>1. CASE n = 0
  <2>1. iqsem' = IqAsleep BY <1>1, IqSteps DEF IpoutWaits
  <2>2. QED BY <1>1, <2>1, IpWaitingNext
<1>2. CASE n # 0
  <2>1. PICK m \in Nat : n = m + 1
    <3>1. n - 1 \in Nat /\ n = (n - 1) + 1 BY <1>2
    <3>2. QED BY <3>1
  <2>2. iqsem' = SemNew(m) BY <2>1, IqSteps DEF IpoutWaits
  <2>3. IpWaiting' = m + 1 BY <2>2, IpWaitingNext
  <2>4. QED BY <2>1, <2>2, <2>3
<1>3. QED BY <1>1, <1>2

\* The packet at the head leaves the queue.
LEMMA IpoutOK ==
    ASSUME IpInv, ipout
    PROVE  IpInv'
<1>1. IpOqsiz \in Nat \ {0} /\ NetBufs \subseteq Nat \ {0} BY IpAssumption
<1>2. IpTypeOK /\ IpoutAwake BY DEF IpInv, ipout
<1>3. PICK n \in Nat : iqsem = SemNew(n) BY <1>2, IpWaitingIs DEF IpTypeOK
<1>4. ipoutpc = NoBuf BY <1>2 DEF IpoutAwake
<1>5. PICK w : w = IpWaiting OBVIOUS
<1>6. w = n + 1 BY <1>2, <1>3, <1>4, <1>5, IpWaitingIs
<1>7. PICK q : q = ipoqueue OBVIOUS
<1>8. q \in [head : IpRing, tail : IpRing, buf : [IpRing -> Nat]] BY <1>2, <1>7 DEF IpTypeOK
<1>9. PICK f, h, t, b : f = q.buf /\ h = q.head /\ t = q.tail /\ b = q.buf[q.head] OBVIOUS
<1>10. /\ RingSound(f, IpOqsiz, h, t, w)
       /\ Ring(f, IpOqsiz, h, w) = {c \in NetBufs : netbuf[c] = "queue"}
  BY <1>5, <1>7, <1>9 DEF IpInv, IpQueue, IpQueued
<1>11. PICK k : k = (h + 1) % IpOqsiz OBVIOUS
<1>12. w > 0 /\ w - 1 = n BY <1>6
<1>13. /\ RingSound(f, IpOqsiz, k, t, n)
       /\ Ring(f, IpOqsiz, k, n) = {c \in NetBufs : netbuf[c] = "queue"} \ {b}
       /\ b \in NetBufs /\ netbuf[b] = "queue"
  <2>1. /\ RingSound(f, IpOqsiz, k, t, w - 1)
        /\ Ring(f, IpOqsiz, k, w - 1) = Ring(f, IpOqsiz, h, w) \ {f[h]}
        /\ f[h] \in Ring(f, IpOqsiz, h, w)
    BY <1>1, <1>10, <1>11, <1>12, RingTake
  <2>2. f[h] = b BY <1>9
  <2>3. QED BY <1>10, <1>12, <2>1, <2>2
<1>14. PICK to \in {"free", "up", "ipout"} :
          /\ netbuf' = [netbuf EXCEPT ![b] = to]
          /\ to # "ipout" => IpoutWaits /\ ipoutpc' = NoBuf
          /\ to = "ipout" => iqsem' = iqsem /\ ipoutpc' = b
  BY <1>4, <1>7, <1>9 DEF ipout
<1>15. ipoqueue' = [q EXCEPT !.head = k] BY <1>7, <1>9, <1>11 DEF ipout
<1>16. k \in IpRing
  <2>1. h \in 0..(IpOqsiz - 1) BY <1>8, <1>9 DEF IpRing
  <2>2. h + 1 \in Nat /\ h + 1 < 2 * IpOqsiz BY <1>1, <2>1
  <2>3. QED BY <1>1, <1>11, <2>2, RingWrap DEF IpRing
<1>17. /\ ipoqueue' \in [head : IpRing, tail : IpRing, buf : [IpRing -> Nat]]
       /\ ipoqueue'.head = k /\ ipoqueue'.tail = t /\ ipoqueue'.buf = f
  BY <1>8, <1>9, <1>15, <1>16
<1>18. netbuf \in [NetBufs -> IpPlaces] BY <1>2 DEF IpTypeOK
<1>19. netbuf' \in [NetBufs -> IpPlaces] BY <1>14, <1>18 DEF IpPlaces
<1>20. \A c \in NetBufs : netbuf'[c] = IF c = b THEN to ELSE netbuf[c] BY <1>14, <1>18
<1>21. IpWaiting' = n /\ (\/ iqsem' = IqAsleep /\ ipoutpc' = NoBuf
                          \/ \E m \in Nat : iqsem' = SemNew(m))
  <2>1. CASE to # "ipout" BY <1>3, <1>14, <2>1, IpSleeps
  <2>2. CASE to = "ipout"
    <3>1. iqsem' = SemNew(n) /\ ipoutpc' = b /\ b # NoBuf BY <1>1, <1>3, <1>13, <1>14, <2>2 DEF NoBuf
    <3>2. IpWaiting' = n BY <3>1, IpWaitingNext
    <3>3. QED BY <3>1, <3>2
  <2>3. QED BY <2>1, <2>2
<1>22. IpTypeOK' BY <1>17, <1>19, <1>21 DEF IpTypeOK, IpRing
<1>23. {c \in NetBufs : netbuf'[c] = "queue"} = {c \in NetBufs : netbuf[c] = "queue"} \ {b}
  BY <1>14, <1>20
<1>24. IpQueue' BY <1>13, <1>17, <1>21, <1>23 DEF IpQueue, IpQueued
<1>25. IpWithIpout'
  <2>1. \A c \in NetBufs : netbuf[c] # "ipout" BY <1>1, <1>4 DEF IpInv, IpWithIpout, NoBuf
  <2>2. \A c \in NetBufs : c # NoBuf BY <1>1 DEF NoBuf
  <2>3. QED BY <1>14, <1>20, <2>1, <2>2 DEF IpWithIpout
<1>26. QED BY <1>22, <1>24, <1>25 DEF IpInv

\* ip_out frees the packet of ipout, sent or not.
LEMMA IpoutRestOK ==
    ASSUME IpInv, ipoutRest
    PROVE  IpInv'
<1>1. NetBufs \subseteq Nat \ {0} BY IpAssumption
<1>2. IpTypeOK /\ ipoutpc # NoBuf BY DEF IpInv, ipoutRest
<1>3. PICK n \in Nat : iqsem = SemNew(n) BY <1>2 DEF IpTypeOK
<1>4. IpWaiting = n BY <1>2, <1>3, IpWaitingIs
<1>5. IpoutWaits /\ ipoutpc' = NoBuf /\ ipoqueue' = ipoqueue BY DEF ipoutRest
<1>6. IpWaiting' = n /\ (\/ iqsem' = IqAsleep
                         \/ \E m \in Nat : iqsem' = SemNew(m))
  BY <1>3, <1>5, IpSleeps
<1>7. PICK d : d = ipoutpc OBVIOUS
<1>8. netbuf' = [netbuf EXCEPT ![d] = "free"]
  BY <1>7 DEF ipoutRest, AfterArp, ip_out, ArpOutcome
<1>9. netbuf \in [NetBufs -> IpPlaces] BY <1>2 DEF IpTypeOK
<1>10. netbuf' \in [NetBufs -> IpPlaces] BY <1>8, <1>9 DEF IpPlaces
<1>11. \A c \in NetBufs : netbuf'[c] = IF c = d THEN "free" ELSE netbuf[c] BY <1>8, <1>9
<1>12. \A c \in NetBufs : netbuf[c] = "ipout" <=> c = d BY <1>7 DEF IpInv, IpWithIpout
<1>13. IpTypeOK' BY <1>2, <1>5, <1>6, <1>10 DEF IpTypeOK, IpRing
<1>14. {c \in NetBufs : netbuf'[c] = "queue"} = {c \in NetBufs : netbuf[c] = "queue"}
  BY <1>11, <1>12
<1>15. IpQueue' BY <1>4, <1>5, <1>6, <1>14 DEF IpInv, IpQueue, IpQueued
<1>16. IpWithIpout'
  <2>1. \A c \in NetBufs : netbuf'[c] # "ipout" /\ c # NoBuf BY <1>1, <1>11, <1>12 DEF NoBuf
  <2>2. QED BY <1>5, <2>1 DEF IpWithIpout
<1>17. QED BY <1>13, <1>15, <1>16 DEF IpInv

LEMMA IpInit == net_init => IpInv
<1> SUFFICES ASSUME net_init PROVE IpInv OBVIOUS
<1>1. IpOqsiz \in Nat \ {0} /\ NetBufs \subseteq Nat \ {0} BY IpAssumption
<1>2. iqsem = IqAsleep /\ ipoutpc = NoBuf BY IqSteps DEF net_init
<1>3. /\ ipoqueue = [head |-> 0, tail |-> 0, buf |-> [i \in IpRing |-> NoBuf]]
      /\ \A b \in NetBufs : netbuf[b] = "free"
  BY DEF net_init
<1>4. 0 \in 0..(IpOqsiz - 1) BY <1>1
<1>5. IpTypeOK
  <2>1. netbuf \in [NetBufs -> IpPlaces] BY DEF net_init, IpPlaces
  <2>2. ipoqueue \in [head : IpRing, tail : IpRing, buf : [IpRing -> Nat]]
    BY <1>3, <1>4 DEF IpRing, NoBuf
  <2>3. QED BY <1>2, <2>1, <2>2 DEF IpTypeOK
<1>6. IpWaiting = 0 BY <1>2, <1>5, IpWaitingIs
<1>7. IpQueue
  <2>1. PICK f : f = ipoqueue.buf OBVIOUS
  <2>2. RingSound(f, IpOqsiz, 0, 0, 0) /\ Ring(f, IpOqsiz, 0, 0) = {} BY <1>1, <1>4, RingEmpty
  <2>3. ipoqueue.head = 0 /\ ipoqueue.tail = 0 BY <1>3
  <2>4. {b \in NetBufs : netbuf[b] = "queue"} = {} BY <1>3
  <2>5. QED BY <1>6, <2>1, <2>2, <2>3, <2>4 DEF IpQueue, IpQueued
<1>8. IpWithIpout BY <1>1, <1>2, <1>3 DEF IpWithIpout, NoBuf
<1>9. QED BY <1>5, <1>7, <1>8 DEF IpInv

LEMMA IpNextOK == IpInv /\ [IpNext]_ipvars => IpInv'
<1> SUFFICES ASSUME IpInv, [IpNext]_ipvars PROVE IpInv' OBVIOUS
<1>1. ASSUME NEW k, NEW good, netin(k, good) PROVE IpInv' BY <1>1, IpNetinOK
<1>2. ASSUME NEW p \in IpProcs, NEW k, ip_send(p, k) PROVE IpInv' BY <1>2, IpSendOK
<1>3. CASE (\E b \in NetBufs : IpConsumed(b)) \/ \E p \in IpProcs : ip_sendRest(p)
  BY <1>3, IpFreesOK
<1>4. CASE ipout BY <1>4, IpoutOK
<1>5. CASE ipoutRest BY <1>5, IpoutRestOK
<1>6. CASE IpConfigured BY <1>6, IpNothing DEF IpConfigured
<1>7. CASE UNCHANGED ipvars BY <1>7, IpNothing DEF ipvars
<1>8. QED BY <1>1, <1>2, <1>3, <1>4, <1>5, <1>6, <1>7, Zenon DEF IpNext

\* Each packet on the output queue has its own place in the circle, its buffer
\* is there and nowhere else, and no path through ip_in, ip_send and ipout
\* loses a buffer or frees it twice (ip.c:453).
THEOREM BuffersAreKept == IpSpec => []NetBuffersKept
<1>1. IpSpec => []IpInv BY IpInit, IpNextOK, PTL DEF IpSpec
<1>2. QED BY <1>1, IpKept, PTL

-----------------------------------------------------------------------------
\* The UDP endpoints.  What a slot can hold.
UdpPlaces == 0..(UDP_QSIZ - 1)
UdpFaults == {"stolen", "released", "stray"}
UdpAny ==
    UdpBufs \cup UdpProcs \cup {UdpNil, 0} \cup {r.remip : r \in UdpRegs}
        \cup {r.remport : r \in UdpRegs} \cup {r.locport : r \in UdpRegs}
UdpEntries == [state : {"FREE", "USED", "RECV"}, remip : UdpAny, remport : UdpAny,
               locport : UdpAny, head : UdpPlaces, tail : UdpPlaces, count : 0..UDP_QSIZ,
               pid : UdpAny, queue : [UdpPlaces -> UdpAny]]

\* An entry is a sound ring, empty if the slot is free.
UdpRing(e) ==
    /\ RingSound(e.queue, UDP_QSIZ, e.head, e.tail, e.count)
    /\ e.state = "FREE" => e.count = 0
UdpTypeOK ==
    /\ udptab \in [UdpSlots -> UdpEntries]
    /\ \A s \in UdpSlots : UdpRing(udptab[s])
    /\ udpproc \in [UdpProcs -> [slot : UdpSlots \cup {NoSlot}, timed : BOOLEAN]]
    /\ udpmsg \in [UdpProcs -> {UdpNil, "OK", "other"}]
    /\ \E C : udpheld \in [UdpBufs -> C]

\* A buffer is free or in one queue, and holds a packet for that slot.
UdpContents ==
    /\ udpfree \subseteq UdpBufs
    /\ \A s \in UdpSlots : UdpQueued(udptab[s]) \subseteq UdpBufs \ udpfree
    /\ \A s, t \in UdpSlots : s # t => UdpQueued(udptab[s]) \cap UdpQueued(udptab[t]) = {}
    /\ \A b \in UdpBufs : b \in udpfree \/ \E s \in UdpSlots : b \in UdpQueued(udptab[s])
    /\ \A s \in UdpSlots : \A b \in UdpQueued(udptab[s]) : UdpMatches(udptab[s], udpheld[b])

\* A slot in state RECV is empty and its receiver is inside udp_recv; there is
\* one receiver for a slot; and it waits in that state, or was told of a packet
\* that is still there.
UdpReceiver(s) ==
    udptab[s].state = "RECV" =>
        /\ udptab[s].count = 0 /\ udptab[s].pid \in UdpProcs
        /\ udpproc[udptab[s].pid].slot = s
UdpServed(p) ==
    LET e == udptab[udpproc[p].slot] IN
    udpproc[p].slot \in UdpSlots =>
        /\ e.state # "FREE"
        /\ udpmsg[p] = UdpNil => e.state = "RECV" /\ e.pid = p
        /\ udpmsg[p] = "OK" => e.state = "USED" /\ e.count > 0
UdpWaiters ==
    /\ \A s \in UdpSlots : UdpReceiver(s)
    /\ \A p, q \in UdpProcs :
          udpproc[p].slot \in UdpSlots /\ udpproc[p].slot = udpproc[q].slot => p = q
    /\ \A p \in UdpProcs : UdpServed(p)

\* The inductive invariant: until a slot has gone wrong.
UdpGood == UdpTypeOK /\ UdpContents /\ UdpWaiters
UdpInv == udpfault \in [UdpSlots -> SUBSET UdpFaults] /\ (UdpSound => UdpGood)

LEMMA UdpQueuedRing ==
    \A e : UdpQueued(e) = Ring(e.queue, UDP_QSIZ, e.head, e.count)
  BY DEF UdpQueued, Ring

LEMMA UdpAnyHas ==
    /\ UdpBufs \subseteq UdpAny /\ UdpProcs \subseteq UdpAny /\ UdpNil \in UdpAny /\ 0 \in UdpAny
    /\ \A r \in UdpRegs : r.remip \in UdpAny /\ r.remport \in UdpAny /\ r.locport \in UdpAny
  BY DEF UdpAny

LEMMA UdpFirstIn == \A S : S \subseteq UdpSlots /\ S # {} => UdpFirst(S) \in S
<1> SUFFICES ASSUME NEW S, S \subseteq UdpSlots, S # {} PROVE UdpFirst(S) \in S OBVIOUS
<1>1. S \subseteq Nat BY UdpAssumption DEF UdpSlots
<1>2. \E x \in S : \A y \in S : x <= y BY <1>1, LeastNat
<1>3. QED BY <1>2 DEF UdpFirst

\* What the invariant says is the property of the runs.
LEMMA UdpQueuesFrom == UdpInv => UdpQueuesSound
<1> SUFFICES ASSUME UdpGood PROVE UdpQueuesSound BY DEF UdpInv, UdpQueuesSound
<1>1. UDP_QSIZ \in Nat \ {0} BY UdpAssumption
<1>2. ASSUME NEW s \in UdpSlots
      PROVE  LET e == udptab[s] IN
             /\ e.count \in 0..UDP_QSIZ /\ (e.head + e.count) % UDP_QSIZ = e.tail
             /\ Cardinality(UdpQueued(e)) = e.count
             /\ \A b \in UdpQueued(e) : b \in UdpBufs \ udpfree /\ UdpMatches(e, udpheld[b])
             /\ \A t \in UdpSlots \ {s} : UdpQueued(e) \cap UdpQueued(udptab[t]) = {}
  <2>1. PICK e : e = udptab[s] OBVIOUS
  <2>2. RingSound(e.queue, UDP_QSIZ, e.head, e.tail, e.count)
    BY <2>1 DEF UdpGood, UdpTypeOK, UdpRing
  <2>3. e.count \in 0..UDP_QSIZ /\ (e.head + e.count) % UDP_QSIZ = e.tail
    BY <2>2 DEF RingSound
  <2>4. Cardinality(UdpQueued(e)) = e.count
    <3>1. PICK f, h, t, c : f = e.queue /\ h = e.head /\ t = e.tail /\ c = e.count OBVIOUS
    <3>2. Cardinality(Ring(f, UDP_QSIZ, h, c)) = c BY <1>1, <2>2, <3>1, RingCount
    <3>3. QED BY <3>1, <3>2, UdpQueuedRing
  <2>5. /\ \A b \in UdpQueued(e) : b \in UdpBufs \ udpfree /\ UdpMatches(e, udpheld[b])
        /\ \A t \in UdpSlots \ {s} : UdpQueued(e) \cap UdpQueued(udptab[t]) = {}
    BY <2>1 DEF UdpGood, UdpContents
  <2>6. QED BY <2>1, <2>3, <2>4, <2>5
<1>3. udpfree \cup UNION {UdpQueued(udptab[s]) : s \in UdpSlots} = UdpBufs
  BY DEF UdpGood, UdpContents
<1>4. ASSUME NEW p \in UdpProcs, ~UdpIdleProc(p), udpmsg[p] = UdpNil
      PROVE  LET e == udptab[udpproc[p].slot] IN e.state = "RECV" /\ e.pid = p /\ e.count = 0
  <2>1. udpproc[p].slot \in UdpSlots BY <1>4 DEF UdpGood, UdpTypeOK, UdpIdleProc
  <2>2. UdpServed(p) /\ UdpReceiver(udpproc[p].slot) BY <2>1 DEF UdpGood, UdpWaiters
  <2>3. QED BY <1>4, <2>1, <2>2 DEF UdpServed, UdpReceiver
<1>5. QED BY <1>2, <1>3, <1>4 DEF UdpQueuesSound

\* A step on one slot, whose entry becomes x.
UdpBecomes(s, x) ==
    /\ udptab'[s] = x
    /\ \A t \in UdpSlots : t # s => udptab'[t] = udptab[t]
LEMMA UdpSlotStep ==
    ASSUME UdpTypeOK, NEW s \in UdpSlots, NEW x \in UdpEntries, UdpRing(x),
           udptab' = [udptab EXCEPT ![s] = x]
    PROVE  /\ udptab' \in [UdpSlots -> UdpEntries] /\ UdpBecomes(s, x)
           /\ \A t \in UdpSlots : UdpRing(udptab'[t])
<1>1. udptab \in [UdpSlots -> UdpEntries] /\ \A t \in UdpSlots : UdpRing(udptab[t])
  BY DEF UdpTypeOK
<1>2. udptab' \in [UdpSlots -> UdpEntries] /\ UdpBecomes(s, x) BY <1>1 DEF UdpBecomes
<1>3. QED BY <1>1, <1>2 DEF UdpBecomes

\* Its queue takes buffer b, which was free.
LEMMA UdpContentsPut ==
    ASSUME UdpContents, NEW s \in UdpSlots, NEW x, UdpBecomes(s, x), NEW b \in udpfree,
           UdpQueued(x) = UdpQueued(udptab[s]) \cup {b}, udpfree' = udpfree \ {b},
           \A c \in UdpBufs : c # b => udpheld'[c] = udpheld[c],
           UdpMatches(x, udpheld'[b]),
           \A k : UdpMatches(udptab[s], k) => UdpMatches(x, k)
    PROVE  UdpContents'
<1>1. udpfree' \subseteq UdpBufs BY DEF UdpContents
<1>2. \A t \in UdpSlots : UdpQueued(udptab'[t]) = UdpQueued(udptab[t]) \cup (IF t = s THEN {b} ELSE {})
  BY DEF UdpBecomes
<1>3. \A t \in UdpSlots : UdpQueued(udptab[t]) \subseteq UdpBufs \ udpfree BY DEF UdpContents
<1>4. \A t \in UdpSlots : UdpQueued(udptab'[t]) \subseteq UdpBufs \ udpfree'
  BY <1>2, <1>3 DEF UdpContents
<1>5. \A u, t \in UdpSlots : u # t => UdpQueued(udptab'[u]) \cap UdpQueued(udptab'[t]) = {}
  BY <1>2, <1>3 DEF UdpContents
<1>6. \A c \in UdpBufs : c \in udpfree' \/ \E t \in UdpSlots : c \in UdpQueued(udptab'[t])
  BY <1>2 DEF UdpContents
<1>7. ASSUME NEW t \in UdpSlots, NEW c \in UdpQueued(udptab'[t])
      PROVE  UdpMatches(udptab'[t], udpheld'[c])
  <2>1. CASE t = s /\ c = b BY <2>1 DEF UdpBecomes
  <2>2. CASE t # s \/ c # b
    <3>1. c \in UdpQueued(udptab[t]) /\ c # b /\ c \in UdpBufs BY <1>2, <1>3, <1>7, <2>2
    <3>2. UdpMatches(udptab[t], udpheld[c]) /\ udpheld'[c] = udpheld[c]
      BY <3>1 DEF UdpContents
    <3>3. QED BY <3>2 DEF UdpBecomes
  <2>3. QED BY <2>1, <2>2
<1>8. QED BY <1>1, <1>4, <1>5, <1>6, <1>7 DEF UdpContents, UdpSlots

\* The buffers X leave its queue and are free; if any are left, packets that
\* matched the slot still do.
LEMMA UdpContentsTake ==
    ASSUME UdpContents, NEW s \in UdpSlots, NEW x, UdpBecomes(s, x),
           NEW X, X \subseteq UdpQueued(udptab[s]),
           UdpQueued(x) = UdpQueued(udptab[s]) \ X, udpfree' = udpfree \cup X,
           udpheld' = udpheld,
           UdpQueued(x) # {} => \A k : UdpMatches(udptab[s], k) => UdpMatches(x, k)
    PROVE  UdpContents'
<1>1. \A t \in UdpSlots : UdpQueued(udptab[t]) \subseteq UdpBufs \ udpfree BY DEF UdpContents
<1>2. udpfree' \subseteq UdpBufs BY <1>1 DEF UdpContents
<1>3. \A t \in UdpSlots : UdpQueued(udptab'[t]) = UdpQueued(udptab[t]) \ X
  BY DEF UdpBecomes, UdpContents
<1>4. \A t \in UdpSlots : UdpQueued(udptab'[t]) \subseteq UdpBufs \ udpfree'
  BY <1>1, <1>3
<1>5. \A u, t \in UdpSlots : u # t => UdpQueued(udptab'[u]) \cap UdpQueued(udptab'[t]) = {}
  BY <1>3 DEF UdpContents
<1>6. \A c \in UdpBufs : c \in udpfree' \/ \E t \in UdpSlots : c \in UdpQueued(udptab'[t])
  BY <1>3 DEF UdpContents
<1>7. ASSUME NEW t \in UdpSlots, NEW c \in UdpQueued(udptab'[t])
      PROVE  UdpMatches(udptab'[t], udpheld'[c])
  <2>1. c \in UdpQueued(udptab[t]) BY <1>3, <1>7
  <2>2. UdpMatches(udptab[t], udpheld[c]) BY <2>1 DEF UdpContents
  <2>3. CASE t = s
    <3>1. udptab'[t] = x /\ UdpQueued(x) # {} BY <1>7, <2>3 DEF UdpBecomes
    <3>2. QED BY <2>2, <2>3, <3>1
  <2>4. CASE t # s BY <2>2, <2>4 DEF UdpBecomes
  <2>5. QED BY <2>3, <2>4
<1>8. QED BY <1>2, <1>4, <1>5, <1>6, <1>7 DEF UdpContents, UdpSlots

\* A packet in a queue: udp_in.
LEMMA UdpInOK ==
    ASSUME UdpGood, NEW b \in udpfree, NEW k, udp_in(b, k), udpproc' = udpproc
    PROVE  UdpGood'
<1>1. UdpTypeOK /\ UdpContents /\ UdpWaiters BY DEF UdpGood
<1>2. CASE UNCHANGED <<udptab, udpmsg, udpfree, udpheld>>
  <2>1. UdpTypeOK' BY <1>1, <1>2 DEF UdpTypeOK, UdpSlots
  <2>2. UdpContents' BY <1>1, <1>2 DEF UdpContents, UdpSlots
  <2>3. UdpWaiters' BY <1>1, <1>2 DEF UdpWaiters, UdpReceiver, UdpServed, UdpSlots
  <2>4. QED BY <2>1, <2>2, <2>3 DEF UdpGood
<1>3. ASSUME NEW s, s = UdpFirst(UdpTakers(k)), UdpTakers(k) # {},
             udptab' = [udptab EXCEPT ![s] = UdpPut(@, b)],
             udpmsg' = UdpTold(udptab[s]),
             udpfree' = udpfree \ {b}, udpheld' = [udpheld EXCEPT ![b] = k]
      PROVE  UdpGood'
  <2>1. s \in UdpSlots /\ UdpMatches(udptab[s], k) /\ udptab[s].count < UDP_QSIZ
    <3>1. UdpTakers(k) \subseteq UdpSlots BY DEF UdpTakers
    <3>2. s \in UdpTakers(k) BY <1>3, <3>1, UdpFirstIn
    <3>3. QED BY <3>2 DEF UdpTakers
  <2>2. PICK e \in UdpEntries : e = udptab[s] BY <1>1, <2>1 DEF UdpTypeOK
  <2>3. b \in UdpBufs BY <1>1 DEF UdpContents
  <2>4. UDP_QSIZ \in Nat \ {0} BY UdpAssumption
  <2>5. RingSound(e.queue, UDP_QSIZ, e.head, e.tail, e.count) BY <1>1, <2>1, <2>2 DEF UdpTypeOK, UdpRing
  <2>6. PICK f, h, d, c : f = e.queue /\ h = e.head /\ d = e.tail /\ c = e.count OBVIOUS
  <2>7. /\ f \in [UdpPlaces -> UdpAny] /\ h \in UdpPlaces /\ d \in UdpPlaces /\ c \in 0..UDP_QSIZ
        /\ c < UDP_QSIZ
    BY <2>1, <2>2, <2>6 DEF UdpEntries
  <2>8. PICK g : g = [f EXCEPT ![d] = b] OBVIOUS
  <2>9. /\ g \in [UdpPlaces -> UdpAny] /\ g[d] = b
        /\ \A i \in UdpPlaces : i # d => g[i] = f[i]
    BY <2>3, <2>7, <2>8, UdpAnyHas
  <2>10. PICK t : t = (d + 1) % UDP_QSIZ OBVIOUS
  <2>11. t \in UdpPlaces
    <3>1. d + 1 \in Nat /\ d + 1 < 2 * UDP_QSIZ BY <2>4, <2>7 DEF UdpPlaces
    <3>2. QED BY <2>4, <2>10, <3>1, RingWrap DEF UdpPlaces
  <2>12. PICK st, n : st = (IF e.state = "RECV" THEN "USED" ELSE e.state) /\ n = c + 1 OBVIOUS
  <2>13. n \in 0..UDP_QSIZ /\ n > 0 BY <2>4, <2>7, <2>12
  <2>14. PICK x : x = [e EXCEPT !.count = n, !.queue = g, !.tail = t, !.state = st] OBVIOUS
  <2>15. /\ x \in UdpEntries /\ x.state = st /\ x.remip = e.remip /\ x.remport = e.remport
         /\ x.locport = e.locport /\ x.head = h /\ x.tail = t /\ x.count = n
         /\ x.pid = e.pid /\ x.queue = g
    BY <2>2, <2>6, <2>9, <2>11, <2>12, <2>13, <2>14 DEF UdpEntries
  <2>16. e.state # "FREE" /\ st = "USED" BY <2>1, <2>2, <2>12 DEF UdpMatches, UdpEntries
  <2>17. UdpPut(e, b) = x BY <2>6, <2>8, <2>10, <2>12, <2>14 DEF UdpPut
  <2>18. udptab' = [udptab EXCEPT ![s] = x] BY <1>3, <2>2, <2>17
  <2>19. b \notin Ring(f, UDP_QSIZ, h, c)
    <3>1. b \notin UdpQueued(e) BY <1>1, <2>1, <2>2 DEF UdpContents
    <3>2. QED BY <2>6, <3>1, UdpQueuedRing
  <2>20. /\ RingSound(g, UDP_QSIZ, h, t, n)
         /\ Ring(g, UDP_QSIZ, h, n) = Ring(f, UDP_QSIZ, h, c) \cup {b}
    <3>1. RingSound(f, UDP_QSIZ, h, d, c) BY <2>5, <2>6
    <3>2. \A i \in 0..(UDP_QSIZ - 1) : i # d => g[i] = f[i] BY <2>9 DEF UdpPlaces
    <3>3. g[d] = b /\ c < UDP_QSIZ BY <2>7, <2>9
    <3>4. /\ RingSound(g, UDP_QSIZ, h, (d + 1) % UDP_QSIZ, c + 1)
          /\ Ring(g, UDP_QSIZ, h, c + 1) = Ring(f, UDP_QSIZ, h, c) \cup {b}
      BY <2>4, <2>19, <3>1, <3>2, <3>3, RingPut
    <3>5. QED BY <2>10, <2>12, <3>4
  <2>21. UdpRing(x) BY <2>15, <2>16, <2>20 DEF UdpRing
  <2>22. UdpQueued(x) = UdpQueued(udptab[s]) \cup {b} BY <2>2, <2>6, <2>15, <2>20, UdpQueuedRing
  <2>23. /\ udptab' \in [UdpSlots -> UdpEntries] /\ UdpBecomes(s, x)
         /\ \A u \in UdpSlots : UdpRing(udptab'[u])
    BY <1>1, <2>1, <2>15, <2>18, <2>21, UdpSlotStep
  <2>24. /\ udpmsg' \in [UdpProcs -> {UdpNil, "OK", "other"}]
         /\ \A p \in UdpProcs :
               udpmsg'[p] # udpmsg[p] => e.state = "RECV" /\ p = e.pid /\ udpmsg'[p] = "OK"
         /\ e.state = "RECV" /\ e.pid \in UdpProcs => udpmsg'[e.pid] # UdpNil
    BY <1>1, <1>3, <2>2, Zenon DEF UdpTypeOK, UdpTold, UdpNil
  <2>25. UdpTypeOK'
    <3>1. PICK C : udpheld \in [UdpBufs -> C] BY <1>1 DEF UdpTypeOK
    <3>2. udpheld' \in [UdpBufs -> C \cup {k}] BY <1>3, <3>1
    <3>3. QED BY <1>1, <2>23, <2>24, <3>2 DEF UdpTypeOK, UdpSlots
  <2>26. UdpContents'
    <3>1. \A u : UdpMatches(udptab[s], u) => UdpMatches(x, u) BY <2>2, <2>15, <2>16 DEF UdpMatches
    <3>2. PICK C : udpheld \in [UdpBufs -> C] BY <1>1 DEF UdpTypeOK
    <3>3. udpheld'[b] = k /\ \A u \in UdpBufs : u # b => udpheld'[u] = udpheld[u]
      BY <1>3, <2>3, <3>2
    <3>4. UdpMatches(x, udpheld'[b]) BY <2>1, <3>1, <3>3
    <3>5. QED BY <1>1, <1>3, <2>1, <2>22, <2>23, <3>1, <3>3, <3>4, UdpContentsPut
  <2>27. UdpWaiters'
    <3>1. ASSUME NEW u \in UdpSlots PROVE UdpReceiver(u)'
      <4>1. UdpReceiver(u) BY <1>1 DEF UdpWaiters
      <4>2. udptab'[u].state = "RECV" => udptab'[u] = udptab[u]
        BY <2>15, <2>16, <2>23 DEF UdpBecomes
      <4>3. QED BY <4>1, <4>2 DEF UdpReceiver
    <3>2. ASSUME NEW p \in UdpProcs, udpproc[p].slot \in UdpSlots PROVE UdpServed(p)'
      <4>1. UdpServed(p) BY <1>1 DEF UdpWaiters
      <4>2. CASE udpproc[p].slot = s
        <5>1. udptab'[udpproc'[p].slot] = x BY <2>23, <4>2 DEF UdpBecomes
        <5>2. udpmsg'[p] # UdpNil
          <6>1. CASE udpmsg[p] = UdpNil
            <7>1. e.state = "RECV" /\ e.pid = p BY <2>2, <3>2, <4>1, <4>2, <6>1 DEF UdpServed
            <7>2. QED BY <2>24, <7>1
          <6>2. CASE udpmsg[p] # UdpNil BY <2>24, <6>2 DEF UdpNil
          <6>3. QED BY <6>1, <6>2
        <5>3. QED BY <2>13, <2>15, <2>16, <5>1, <5>2 DEF UdpServed
      <4>3. CASE udpproc[p].slot # s
        <5>1. udptab'[udpproc'[p].slot] = udptab[udpproc[p].slot] BY <2>23, <3>2, <4>3 DEF UdpBecomes
        <5>2. udpmsg'[p] = udpmsg[p]
          <6>1. CASE udpmsg'[p] # udpmsg[p]
            <7>1. UdpReceiver(s) /\ p = e.pid /\ e.state = "RECV" BY <1>1, <2>1, <2>24, <6>1 DEF UdpWaiters
            <7>2. QED BY <2>2, <4>3, <7>1 DEF UdpReceiver
          <6>2. QED BY <6>1
        <5>3. QED BY <4>1, <5>1, <5>2 DEF UdpServed
      <4>4. QED BY <4>2, <4>3
    <3>3. ASSUME NEW p \in UdpProcs, udpproc[p].slot \notin UdpSlots PROVE UdpServed(p)'
      BY <3>3 DEF UdpServed, UdpSlots
    <3>4. QED BY <1>1, <3>1, <3>2, <3>3 DEF UdpWaiters, UdpSlots
  <2>28. QED BY <2>25, <2>26, <2>27 DEF UdpGood
<1>4. QED BY <1>2, <1>3 DEF udp_in

\* The packet at the head is taken; the slot is in use from then on.
LEMMA UdpTakeOK ==
    ASSUME UdpTypeOK, UdpContents, NEW s \in UdpSlots, NEW e, e = udptab[s],
           e.state # "FREE", e.count > 0,
           NEW u, u = [e EXCEPT !.state = "USED"], UdpTake(s, u), udpheld' = udpheld
    PROVE  \E x : /\ udptab' \in [UdpSlots -> UdpEntries] /\ UdpBecomes(s, x)
                  /\ \A t \in UdpSlots : UdpRing(udptab'[t])
                  /\ x.state = "USED" /\ UdpContents'
<1>1. UDP_QSIZ \in Nat \ {0} BY UdpAssumption
<1>2. e \in UdpEntries BY DEF UdpTypeOK
<1>3. PICK f, h, d, c : f = e.queue /\ h = e.head /\ d = e.tail /\ c = e.count OBVIOUS
<1>4. RingSound(f, UDP_QSIZ, h, d, c) BY <1>3 DEF UdpTypeOK, UdpRing
<1>5. h \in 0..(UDP_QSIZ - 1) /\ c \in 0..UDP_QSIZ /\ c > 0 BY <1>2, <1>3 DEF UdpEntries, UdpPlaces
<1>6. PICK k, n : k = (h + 1) % UDP_QSIZ /\ n = c - 1 OBVIOUS
<1>7. k \in UdpPlaces /\ n \in 0..UDP_QSIZ
  <2>1. h + 1 \in Nat /\ h + 1 < 2 * UDP_QSIZ BY <1>1, <1>5
  <2>2. k \in UdpPlaces BY <1>1, <1>6, <2>1, RingWrap DEF UdpPlaces
  <2>3. n \in 0..UDP_QSIZ BY <1>1, <1>5, <1>6
  <2>4. QED BY <2>2, <2>3
<1>8. /\ u \in UdpEntries /\ u.state = "USED" /\ u.queue = f /\ u.head = h /\ u.tail = d
      /\ u.count = c /\ u.remip = e.remip /\ u.remport = e.remport /\ u.locport = e.locport
  BY <1>2, <1>3 DEF UdpEntries
<1>9. PICK x : x = [u EXCEPT !.head = k, !.count = n] OBVIOUS
<1>10. /\ x \in UdpEntries /\ x.state = "USED" /\ x.queue = f /\ x.head = k /\ x.tail = d
       /\ x.count = n /\ x.remip = e.remip /\ x.remport = e.remport /\ x.locport = e.locport
  BY <1>7, <1>8, <1>9 DEF UdpEntries
<1>11. UdpTaken(u) = x BY <1>6, <1>8, <1>9 DEF UdpTaken
<1>12. udptab' = [udptab EXCEPT ![s] = x] BY <1>11 DEF UdpTake
<1>13. /\ RingSound(f, UDP_QSIZ, k, d, n)
       /\ Ring(f, UDP_QSIZ, k, n) = Ring(f, UDP_QSIZ, h, c) \ {f[h]}
       /\ f[h] \in Ring(f, UDP_QSIZ, h, c)
  BY <1>1, <1>4, <1>5, <1>6, RingTake
<1>14. UdpRing(x) BY <1>10, <1>13 DEF UdpRing
<1>15. /\ udptab' \in [UdpSlots -> UdpEntries] /\ UdpBecomes(s, x)
       /\ \A t \in UdpSlots : UdpRing(udptab'[t])
  BY <1>10, <1>12, <1>14, UdpSlotStep
<1>16. UdpQueued(udptab[s]) = Ring(f, UDP_QSIZ, h, c) BY <1>3, UdpQueuedRing
<1>17. UdpQueued(x) = UdpQueued(udptab[s]) \ {f[h]} BY <1>10, <1>13, <1>16, UdpQueuedRing
<1>18. f[h] \in UdpBufs /\ f[h] # UdpNil
  BY <1>13, <1>16, UdpAssumption DEF UdpContents, UdpNil
<1>19. udpfree' = udpfree \cup {f[h]} BY <1>8, <1>18 DEF UdpTake
<1>20. \A m : UdpMatches(udptab[s], m) => UdpMatches(x, m) BY <1>10 DEF UdpMatches
<1>21. {f[h]} \subseteq UdpQueued(udptab[s]) BY <1>13, <1>16
<1>22. UdpContents' BY <1>15, <1>17, <1>19, <1>20, <1>21, UdpContentsTake
<1>23. QED BY <1>10, <1>15, <1>22

\* The slot changes its state or its receiver, and keeps its queue.
UdpSets(s, st, p) ==
    /\ udptab[s].state # "FREE"
    /\ udptab' = [udptab EXCEPT ![s] = [udptab[s] EXCEPT !.state = st, !.pid = p]]
    /\ UNCHANGED <<udpfree, udpheld>>
LEMMA UdpSetOK ==
    ASSUME UdpTypeOK, UdpContents, NEW s \in UdpSlots, NEW st \in {"USED", "RECV"},
           NEW p \in UdpAny, UdpSets(s, st, p)
    PROVE  \E x : /\ udptab' \in [UdpSlots -> UdpEntries] /\ UdpBecomes(s, x)
                  /\ \A t \in UdpSlots : UdpRing(udptab'[t])
                  /\ x.state = st /\ x.pid = p /\ x.count = udptab[s].count /\ UdpContents'
<1>1. PICK e : e = udptab[s] OBVIOUS
<1>2. PICK x : e = udptab[s] /\ x = [e EXCEPT !.state = st, !.pid = p] BY <1>1
<1>3. /\ e \in UdpEntries /\ e.state # "FREE"
      /\ udptab' = [udptab EXCEPT ![s] = x] /\ udpfree' = udpfree /\ udpheld' = udpheld
  BY <1>2 DEF UdpTypeOK, UdpSets
<1>4. /\ x \in UdpEntries /\ x.state = st /\ x.pid = p /\ x.queue = e.queue /\ x.head = e.head
      /\ x.tail = e.tail /\ x.count = e.count /\ x.remip = e.remip /\ x.remport = e.remport
      /\ x.locport = e.locport
  BY <1>2, <1>3 DEF UdpEntries
<1>5. UdpRing(x) BY <1>2, <1>3, <1>4 DEF UdpTypeOK, UdpRing
<1>6. /\ udptab' \in [UdpSlots -> UdpEntries] /\ UdpBecomes(s, x)
      /\ \A t \in UdpSlots : UdpRing(udptab'[t])
  BY <1>3, <1>4, <1>5, UdpSlotStep
<1>7. UdpQueued(x) = UdpQueued(udptab[s]) \ {} BY <1>2, <1>4, UdpQueuedRing
<1>8. \A m : UdpMatches(udptab[s], m) => UdpMatches(x, m) BY <1>2, <1>4 DEF UdpMatches
<1>9. UdpContents'
  <2>1. udpfree' = udpfree \cup {} /\ {} \subseteq UdpQueued(udptab[s]) BY <1>3
  <2>2. QED BY <1>3, <1>6, <1>7, <1>8, <2>1, UdpContentsTake
<1>10. QED BY <1>2, <1>4, <1>6, <1>9

\* Nobody is inside the slot: the others do not see its step.
LEMMA UdpWaitersAside ==
    ASSUME UdpWaiters, NEW s \in UdpSlots, NEW x, UdpBecomes(s, x), UdpInside(s) = {},
           x.state # "RECV", UNCHANGED <<udpproc, udpmsg>>
    PROVE  UdpWaiters'
<1>1. \A p \in UdpProcs : udpproc[p].slot # s BY DEF UdpInside
<1>2. ASSUME NEW t \in UdpSlots PROVE UdpReceiver(t)'
  <2>1. UdpReceiver(t) BY DEF UdpWaiters
  <2>2. CASE t = s BY <2>2 DEF UdpBecomes, UdpReceiver
  <2>3. CASE t # s BY <2>1, <2>3 DEF UdpBecomes, UdpReceiver
  <2>4. QED BY <2>2, <2>3
<1>3. ASSUME NEW p \in UdpProcs PROVE UdpServed(p)'
  <2>1. UdpServed(p) BY DEF UdpWaiters
  <2>2. CASE udpproc[p].slot \in UdpSlots
    <3>1. udptab'[udpproc[p].slot] = udptab[udpproc[p].slot] BY <1>1, <2>2 DEF UdpBecomes
    <3>2. QED BY <2>1, <2>2, <3>1 DEF UdpServed
  <2>3. CASE udpproc[p].slot \notin UdpSlots BY <2>3 DEF UdpServed, UdpSlots
  <2>4. QED BY <2>2, <2>3
<1>4. QED BY <1>2, <1>3 DEF UdpWaiters, UdpSlots

\* A process that leaves udp_recv leaves its slot in use.
LEMMA UdpWaitersLeave ==
    ASSUME UdpTypeOK, UdpWaiters, NEW p \in UdpProcs, NEW s \in UdpSlots, udpproc[p].slot = s,
           NEW x, UdpBecomes(s, x), x.state = "USED",
           udpproc' = [udpproc EXCEPT ![p] = UdpIdle], udpmsg' = [udpmsg EXCEPT ![p] = UdpNil]
    PROVE  UdpWaiters'
<1>1. /\ UdpIdle.slot = NoSlot /\ NoSlot \notin UdpSlots BY DEF UdpIdle, NoSlot, UdpSlots
<1>2. /\ udpproc'[p].slot \notin UdpSlots
      /\ \A q \in UdpProcs : q # p => udpproc'[q] = udpproc[q] /\ udpmsg'[q] = udpmsg[q]
  BY <1>1 DEF UdpTypeOK
<1>3. \A q \in UdpProcs : q # p => udpproc[q].slot # s BY DEF UdpWaiters
<1>4. ASSUME NEW t \in UdpSlots PROVE UdpReceiver(t)'
  <2>1. UdpReceiver(t) BY DEF UdpWaiters
  <2>2. CASE t = s BY <2>2 DEF UdpBecomes, UdpReceiver
  <2>3. CASE t # s
    <3>1. udptab'[t] = udptab[t] BY <2>3 DEF UdpBecomes
    <3>2. udptab[t].state = "RECV" => udptab[t].pid # p BY <2>1, <2>3 DEF UdpReceiver
    <3>3. QED BY <1>2, <2>1, <3>1, <3>2 DEF UdpReceiver
  <2>4. QED BY <2>2, <2>3
<1>5. ASSUME NEW q \in UdpProcs PROVE UdpServed(q)'
  <2>1. UdpServed(q) BY DEF UdpWaiters
  <2>2. CASE q # p /\ udpproc[q].slot \in UdpSlots
    <3>1. udptab'[udpproc[q].slot] = udptab[udpproc[q].slot] BY <1>3, <2>2 DEF UdpBecomes
    <3>2. QED BY <1>2, <2>1, <2>2, <3>1 DEF UdpServed
  <2>3. CASE q = p \/ udpproc[q].slot \notin UdpSlots BY <1>2, <2>3 DEF UdpServed, UdpSlots
  <2>4. QED BY <2>2, <2>3
<1>6. \A q, r \in UdpProcs :
         udpproc'[q].slot \in UdpSlots /\ udpproc'[q].slot = udpproc'[r].slot => q = r
  BY <1>2 DEF UdpWaiters
<1>7. QED BY <1>4, <1>5, <1>6 DEF UdpWaiters, UdpSlots

\* What has happened to the slots only grows.
LEMMA UdpFaulted ==
    ASSUME udpfault \in [UdpSlots -> SUBSET UdpFaults], NEW s, NEW F, F \subseteq UdpFaults,
           udpfault' = [udpfault EXCEPT ![s] = @ \cup F]
    PROVE  /\ udpfault' \in [UdpSlots -> SUBSET UdpFaults]
           /\ UdpSound' => UdpSound /\ (s \in UdpSlots => F = {})
<1>1. udpfault' \in [UdpSlots -> SUBSET UdpFaults] OBVIOUS
<1>2. \A t \in UdpSlots : udpfault'[t] = udpfault[t] \cup (IF t = s THEN F ELSE {}) OBVIOUS
<1>3. ASSUME UdpSound' PROVE UdpSound /\ (s \in UdpSlots => F = {})
  <2>1. \A t \in UdpSlots : udpfault'[t] = {} BY <1>3 DEF UdpSound, UdpSlots
  <2>2. QED BY <1>2, <2>1 DEF UdpSound
<1>4. QED BY <1>1, <1>3

LEMMA UdpRecvOK ==
    ASSUME UdpInv, NEW p \in UdpProcs, NEW s \in UdpSlots, udp_recv(p, s)
    PROVE  UdpInv'
<1>1. PICK F : F = IF UdpInside(s) # {} THEN {"stolen"} ELSE {} OBVIOUS
<1>2. udpfault' = [udpfault EXCEPT ![s] = @ \cup F] BY <1>1 DEF udp_recv
<1>3. F \subseteq UdpFaults BY <1>1 DEF UdpFaults
<1>4. udpfault \in [UdpSlots -> SUBSET UdpFaults] BY DEF UdpInv
<1>5. /\ udpfault' \in [UdpSlots -> SUBSET UdpFaults]
      /\ UdpSound' => UdpSound /\ F = {}
  BY <1>2, <1>3, <1>4, UdpFaulted
<1>6. ASSUME UdpSound' PROVE UdpGood'
  <2>1. UdpTypeOK /\ UdpContents /\ UdpWaiters BY <1>5, <1>6 DEF UdpInv, UdpGood
  <2>2. UdpInside(s) = {} BY <1>1, <1>5, <1>6
  <2>3. UdpIdleProc(p) /\ udptab[s].state = "USED" /\ udpheld' = udpheld BY DEF udp_recv
  <2>4. PICK e \in UdpEntries : e = udptab[s] BY <2>1 DEF UdpTypeOK
  <2>5. e.count \in Nat BY <2>4 DEF UdpEntries
  <2>6. CASE e.count # 0 /\ UdpTake(s, udptab[s]) /\ UNCHANGED <<udpproc, udpmsg>>
    <3>1. PICK u : u = [e EXCEPT !.state = "USED"] OBVIOUS
    <3>2. u = e BY <2>3, <2>4, <3>1 DEF UdpEntries
    <3>3. UdpTake(s, u) /\ e.state # "FREE" /\ e.count > 0 BY <2>3, <2>4, <2>5, <2>6, <3>2
    <3>4. PICK x : /\ udptab' \in [UdpSlots -> UdpEntries] /\ UdpBecomes(s, x)
                   /\ \A t \in UdpSlots : UdpRing(udptab'[t])
                   /\ x.state = "USED" /\ UdpContents'
      BY <2>1, <2>3, <2>4, <3>1, <3>3, UdpTakeOK
    <3>5. UdpTypeOK' BY <2>1, <2>3, <2>6, <3>4 DEF UdpTypeOK, UdpSlots
    <3>6. UdpWaiters' BY <2>1, <2>2, <2>6, <3>4, UdpWaitersAside
    <3>7. QED BY <3>4, <3>5, <3>6 DEF UdpGood
  <2>7. CASE /\ e.count = 0
             /\ udptab' = [udptab EXCEPT ![s].state = "RECV", ![s].pid = p]
             /\ udpmsg' = [udpmsg EXCEPT ![p] = UdpNil]
             /\ udpproc' = [udpproc EXCEPT ![p] = [slot |-> s, timed |-> FALSE]]
             /\ udpfree' = udpfree
    <3>1. PICK st \in {"USED", "RECV"}, d \in UdpAny : st = "RECV" /\ d = p BY UdpAnyHas
    <3>2. UdpSets(s, st, d)
      <4>1. udptab' = [udptab EXCEPT ![s] = [udptab[s] EXCEPT !.state = st, !.pid = d]]
        BY <2>1, <2>7, <3>1 DEF UdpTypeOK
      <4>2. QED BY <2>3, <2>7, <4>1 DEF UdpSets
    <3>3. PICK x : /\ udptab' \in [UdpSlots -> UdpEntries] /\ UdpBecomes(s, x)
                   /\ \A t \in UdpSlots : UdpRing(udptab'[t])
                   /\ x.state = st /\ x.pid = d /\ x.count = udptab[s].count /\ UdpContents'
      BY <2>1, <3>2, UdpSetOK
    <3>4. /\ udptab' \in [UdpSlots -> UdpEntries] /\ UdpBecomes(s, x)
          /\ \A t \in UdpSlots : UdpRing(udptab'[t])
          /\ x.state = "RECV" /\ x.pid = p /\ x.count = e.count /\ UdpContents'
      BY <2>4, <3>1, <3>3
    <3>5. /\ udpproc'[p].slot = s /\ udpmsg'[p] = UdpNil
          /\ \A q \in UdpProcs : q # p => udpproc'[q] = udpproc[q] /\ udpmsg'[q] = udpmsg[q]
          /\ udpproc' \in [UdpProcs -> [slot : UdpSlots \cup {NoSlot}, timed : BOOLEAN]]
          /\ udpmsg' \in [UdpProcs -> {UdpNil, "OK", "other"}]
      BY <2>1, <2>7 DEF UdpTypeOK
    <3>6. UdpTypeOK' BY <2>1, <2>3, <3>4, <3>5 DEF UdpTypeOK, UdpSlots
    <3>7. \A q \in UdpProcs : udpproc[q].slot # s BY <2>2 DEF UdpInside
    <3>8. udpproc[p].slot \notin UdpSlots BY <2>3 DEF UdpIdleProc, NoSlot, UdpSlots
    <3>9. UdpWaiters'
      <4>1. ASSUME NEW t \in UdpSlots PROVE UdpReceiver(t)'
        <5>1. UdpReceiver(t) BY <2>1 DEF UdpWaiters
        <5>2. CASE t = s BY <2>7, <3>4, <3>5, <5>2 DEF UdpBecomes, UdpReceiver
        <5>3. CASE t # s
          <6>1. udptab'[t] = udptab[t] BY <3>4, <5>3 DEF UdpBecomes
          <6>2. udptab[t].state = "RECV" => udptab[t].pid # p BY <3>8, <5>1 DEF UdpReceiver
          <6>3. QED BY <3>5, <5>1, <6>1, <6>2 DEF UdpReceiver
        <5>4. QED BY <5>2, <5>3
      <4>2. ASSUME NEW q \in UdpProcs PROVE UdpServed(q)'
        <5>1. UdpServed(q) BY <2>1 DEF UdpWaiters
        <5>2. CASE q = p
          <6>1. udptab'[udpproc'[q].slot] = x /\ udpmsg'[q] = UdpNil BY <3>4, <3>5, <5>2 DEF UdpBecomes
          <6>2. QED BY <3>4, <5>2, <6>1 DEF UdpServed, UdpNil
        <5>3. CASE q # p /\ udpproc[q].slot \in UdpSlots
          <6>1. udptab'[udpproc[q].slot] = udptab[udpproc[q].slot] BY <3>4, <3>7, <5>3 DEF UdpBecomes
          <6>2. QED BY <3>5, <5>1, <5>3, <6>1 DEF UdpServed
        <5>4. CASE q # p /\ udpproc[q].slot \notin UdpSlots BY <3>5, <5>4 DEF UdpServed, UdpSlots
        <5>5. QED BY <5>2, <5>3, <5>4
      <4>3. \A q, r \in UdpProcs :
               udpproc'[q].slot \in UdpSlots /\ udpproc'[q].slot = udpproc'[r].slot => q = r
        BY <2>1, <3>5, <3>7 DEF UdpWaiters
      <4>4. QED BY <4>1, <4>2, <4>3 DEF UdpWaiters, UdpSlots
    <3>10. QED BY <3>4, <3>6, <3>9 DEF UdpGood
  <2>8. QED BY <2>4, <2>6, <2>7 DEF udp_recv
<1>7. QED BY <1>5, <1>6 DEF UdpInv, UdpSlots

LEMMA UdpRecvRestOK ==
    ASSUME UdpInv, NEW p \in UdpProcs, udp_recvRest(p)
    PROVE  UdpInv'
<1>1. udpfault' = udpfault BY DEF udp_recvRest
<1>2. UdpSound' = UdpSound BY <1>1 DEF UdpSound, UdpSlots
<1>3. ASSUME UdpSound PROVE UdpGood'
  <2>1. UdpTypeOK /\ UdpContents /\ UdpWaiters BY <1>3 DEF UdpInv, UdpGood
  <2>2. PICK s \in UdpSlots : s = udpproc[p].slot
    BY <2>1 DEF UdpTypeOK, udp_recvRest, UdpIdleProc
  <2>3. PICK e \in UdpEntries : e = udptab[s] BY <2>1 DEF UdpTypeOK
  <2>4. PICK u : u = [e EXCEPT !.state = "USED"] OBVIOUS
  <2>5. /\ udpproc' = [udpproc EXCEPT ![p] = UdpIdle]
        /\ udpmsg' = [udpmsg EXCEPT ![p] = UdpNil] /\ udpheld' = udpheld
    BY DEF udp_recvRest
  <2>6. \/ udpmsg[p] = "OK" /\ UdpTake(s, u)
        \/ udptab' = [udptab EXCEPT ![s] = u] /\ udpfree' = udpfree
    BY <2>2, <2>3, <2>4 DEF udp_recvRest
  <2>7. e.state # "FREE" /\ (udpmsg[p] = "OK" => e.count > 0)
    BY <2>1, <2>2, <2>3 DEF UdpWaiters, UdpServed
  <2>8. \E x : /\ udptab' \in [UdpSlots -> UdpEntries] /\ UdpBecomes(s, x)
               /\ \A t \in UdpSlots : UdpRing(udptab'[t])
               /\ x.state = "USED" /\ UdpContents'
    <3>1. CASE udpmsg[p] = "OK" /\ UdpTake(s, u)
      BY <2>1, <2>3, <2>4, <2>5, <2>7, <3>1, UdpTakeOK
    <3>2. CASE udptab' = [udptab EXCEPT ![s] = u] /\ udpfree' = udpfree
      <4>1. PICK d \in UdpAny : d = e.pid BY <2>3 DEF UdpEntries
      <4>2. PICK st \in {"USED", "RECV"} : st = "USED" OBVIOUS
      <4>3. u = [e EXCEPT !.state = st, !.pid = d] BY <2>3, <2>4, <4>1, <4>2 DEF UdpEntries
      <4>4. UdpSets(s, st, d) BY <2>3, <2>5, <2>7, <3>2, <4>3 DEF UdpSets
      <4>5. QED BY <2>1, <4>2, <4>4, UdpSetOK
    <3>3. QED BY <2>6, <3>1, <3>2
  <2>9. PICK x : /\ udptab' \in [UdpSlots -> UdpEntries] /\ UdpBecomes(s, x)
                 /\ \A t \in UdpSlots : UdpRing(udptab'[t])
                 /\ x.state = "USED" /\ UdpContents'
    BY <2>8
  <2>10. /\ udpproc' \in [UdpProcs -> [slot : UdpSlots \cup {NoSlot}, timed : BOOLEAN]]
         /\ udpmsg' \in [UdpProcs -> {UdpNil, "OK", "other"}]
    BY <2>1, <2>5 DEF UdpTypeOK, UdpIdle
  <2>11. UdpTypeOK' BY <2>1, <2>5, <2>9, <2>10 DEF UdpTypeOK, UdpSlots
  <2>12. UdpWaiters' BY <2>1, <2>2, <2>5, <2>9, UdpWaitersLeave
  <2>13. QED BY <2>9, <2>11, <2>12 DEF UdpGood
<1>4. QED BY <1>1, <1>2, <1>3 DEF UdpInv, UdpSlots

LEMMA UdpReleaseOK ==
    ASSUME UdpInv, NEW p \in UdpProcs, NEW s \in UdpSlots, udp_release(p, s)
    PROVE  UdpInv'
<1>1. PICK F : F = IF UdpInside(s) # {} THEN {"released"} ELSE {} OBVIOUS
<1>2. udpfault' = [udpfault EXCEPT ![s] = @ \cup F] BY <1>1 DEF udp_release
<1>3. F \subseteq UdpFaults BY <1>1 DEF UdpFaults
<1>4. udpfault \in [UdpSlots -> SUBSET UdpFaults] BY DEF UdpInv
<1>5. /\ udpfault' \in [UdpSlots -> SUBSET UdpFaults]
      /\ UdpSound' => UdpSound /\ F = {}
  BY <1>2, <1>3, <1>4, UdpFaulted
<1>6. ASSUME UdpSound' PROVE UdpGood'
  <2>1. UdpTypeOK /\ UdpContents /\ UdpWaiters BY <1>5, <1>6 DEF UdpInv, UdpGood
  <2>2. UdpInside(s) = {} BY <1>1, <1>5, <1>6
  <2>3. PICK e \in UdpEntries : e = udptab[s] BY <2>1 DEF UdpTypeOK
  <2>4. UDP_QSIZ \in Nat \ {0} BY UdpAssumption
  <2>5. PICK h, c, d : h = e.head /\ c = e.count /\ d = e.tail OBVIOUS
  <2>6. d \in UdpPlaces /\ d = (h + c) % UDP_QSIZ
    BY <2>1, <2>3, <2>5 DEF UdpTypeOK, UdpRing, RingSound, UdpEntries
  <2>7. PICK x : x = [e EXCEPT !.state = "FREE", !.count = 0, !.head = d] OBVIOUS
  <2>8. 0 \in 0..UDP_QSIZ BY <2>4
  <2>9. /\ x \in UdpEntries /\ x.state = "FREE" /\ x.count = 0 /\ x.head = d /\ x.tail = d
        /\ x.queue = e.queue
    BY <2>3, <2>5, <2>6, <2>7, <2>8 DEF UdpEntries
  <2>10. udptab' = [udptab EXCEPT ![s] = x]
    <3>1. udptab' = [udptab EXCEPT ![s] = [e EXCEPT !.state = "FREE", !.count = 0,
                                             !.head = (h + c) % UDP_QSIZ]]
      BY <2>1, <2>3, <2>5 DEF udp_release, UdpTypeOK, UdpEntries
    <3>2. QED BY <2>6, <2>7, <3>1
  <2>11. UdpRing(x) /\ UdpQueued(x) = {}
    <3>1. PICK f : f = e.queue OBVIOUS
    <3>2. RingSound(f, UDP_QSIZ, d, d, 0) /\ Ring(f, UDP_QSIZ, d, 0) = {}
      BY <2>4, <2>6, RingEmpty DEF UdpPlaces
    <3>3. QED BY <2>9, <3>1, <3>2, UdpQueuedRing DEF UdpRing
  <2>12. /\ udptab' \in [UdpSlots -> UdpEntries] /\ UdpBecomes(s, x)
         /\ \A t \in UdpSlots : UdpRing(udptab'[t])
    BY <2>1, <2>9, <2>10, <2>11, UdpSlotStep
  <2>13. UdpContents'
    <3>1. PICK X : X = UdpQueued(udptab[s]) OBVIOUS
    <3>2. UdpNil \notin X BY <2>1, <3>1, UdpAssumption DEF UdpContents, UdpNil
    <3>3. udpfree' = udpfree \cup X BY <3>1, <3>2 DEF udp_release, UdpFlush
    <3>4. udpheld' = udpheld /\ X \subseteq UdpQueued(udptab[s])
          /\ UdpQueued(x) = UdpQueued(udptab[s]) \ X
      BY <2>11, <3>1 DEF udp_release
    <3>5. QED BY <2>1, <2>11, <2>12, <3>3, <3>4, UdpContentsTake
  <2>14. udpheld' = udpheld /\ udpproc' = udpproc /\ udpmsg' = udpmsg BY DEF udp_release
  <2>15. UdpWaiters' BY <2>1, <2>2, <2>9, <2>12, <2>14, UdpWaitersAside
  <2>16. UdpTypeOK' BY <2>1, <2>12, <2>14 DEF UdpTypeOK, UdpSlots
  <2>17. QED BY <2>13, <2>15, <2>16 DEF UdpGood
<1>7. QED BY <1>5, <1>6 DEF UdpInv, UdpSlots

LEMMA UdpRegisterOK ==
    ASSUME UdpGood, NEW p \in UdpProcs, NEW r \in UdpRegs, udp_register(p, r)
    PROVE  UdpGood'
<1>1. UdpTypeOK /\ UdpContents /\ UdpWaiters BY DEF UdpGood
<1>2. PICK S : S = {s \in UdpSlots : udptab[s].state = "FREE"} OBVIOUS
<1>3. PICK s : s = UdpFirst(S) OBVIOUS
<1>4. s \in UdpSlots /\ udptab[s].state = "FREE"
  <2>1. S # {} /\ S \subseteq UdpSlots BY <1>2 DEF udp_register
  <2>2. s \in S BY <1>3, <2>1, UdpFirstIn
  <2>3. QED BY <1>2, <2>2
<1>5. PICK e \in UdpEntries : e = udptab[s] BY <1>1, <1>4 DEF UdpTypeOK
<1>6. UDP_QSIZ \in Nat \ {0} BY UdpAssumption
<1>7. e.count = 0 /\ e.state = "FREE" BY <1>1, <1>4, <1>5 DEF UdpTypeOK, UdpRing
<1>8. PICK x : x = [e EXCEPT !.remip = r.remip, !.remport = r.remport, !.locport = r.locport,
                             !.count = 0, !.head = 0, !.tail = 0, !.pid = UdpNil, !.state = "USED"]
  OBVIOUS
<1>9. 0 \in 0..UDP_QSIZ /\ 0 \in UdpPlaces BY <1>6 DEF UdpPlaces
<1>10. /\ x \in UdpEntries /\ x.state = "USED" /\ x.count = 0 /\ x.head = 0 /\ x.tail = 0
       /\ x.queue = e.queue
  <2>1. PICK y : y = [e EXCEPT !.remip = r.remip, !.remport = r.remport, !.locport = r.locport]
    OBVIOUS
  <2>2. PICK z : z = [y EXCEPT !.count = 0, !.head = 0] OBVIOUS
  <2>3. x = [z EXCEPT !.tail = 0, !.pid = UdpNil, !.state = "USED"] BY <1>8, <2>1, <2>2
  <2>4. y \in UdpEntries /\ y.queue = e.queue BY <1>5, <2>1, UdpAnyHas DEF UdpEntries
  <2>5. z \in UdpEntries /\ z.queue = e.queue /\ z.count = 0 /\ z.head = 0
    BY <1>9, <2>2, <2>4 DEF UdpEntries
  <2>6. QED BY <1>9, <2>3, <2>5, UdpAnyHas DEF UdpEntries
<1>11. udptab' = [udptab EXCEPT ![s] = x] BY <1>2, <1>3, <1>5, <1>8 DEF udp_register
<1>12. /\ UdpRing(x) /\ UdpQueued(x) = {} /\ UdpQueued(udptab[s]) = {}
  <2>1. PICK f, h : f = e.queue /\ h = e.head OBVIOUS
  <2>2. h \in 0..(UDP_QSIZ - 1) /\ 0 \in 0..(UDP_QSIZ - 1)
    BY <1>5, <1>9, <2>1 DEF UdpEntries, UdpPlaces
  <2>3. RingSound(f, UDP_QSIZ, 0, 0, 0) /\ Ring(f, UDP_QSIZ, 0, 0) = {} BY <1>6, <2>2, RingEmpty
  <2>4. Ring(f, UDP_QSIZ, h, 0) = {} BY <1>6, <2>2, RingEmpty
  <2>5. QED BY <1>5, <1>7, <1>10, <2>1, <2>3, <2>4, UdpQueuedRing DEF UdpRing
<1>13. /\ udptab' \in [UdpSlots -> UdpEntries] /\ UdpBecomes(s, x)
       /\ \A t \in UdpSlots : UdpRing(udptab'[t])
  BY <1>1, <1>4, <1>10, <1>11, <1>12, UdpSlotStep
<1>14. udpheld' = udpheld /\ udpproc' = udpproc /\ udpmsg' = udpmsg /\ udpfree' = udpfree
  BY DEF udp_register
<1>15. UdpContents'
  <2>1. {} \subseteq UdpQueued(udptab[s]) /\ UdpQueued(x) = UdpQueued(udptab[s]) \ {}
        /\ udpfree' = udpfree \cup {}
    BY <1>12, <1>14
  <2>2. QED BY <1>1, <1>4, <1>12, <1>13, <1>14, <2>1, UdpContentsTake
<1>16. UdpInside(s) = {}
  <2>1. \A q \in UdpProcs : udpproc[q].slot # s
    BY <1>1, <1>4 DEF UdpWaiters, UdpServed
  <2>2. QED BY <2>1 DEF UdpInside
<1>17. UdpWaiters' BY <1>1, <1>4, <1>10, <1>13, <1>14, <1>16, UdpWaitersAside
<1>18. UdpTypeOK' BY <1>1, <1>13, <1>14 DEF UdpTypeOK, UdpSlots
<1>19. QED BY <1>15, <1>17, <1>18 DEF UdpGood

LEMMA UdpTimerOK ==
    ASSUME UdpGood, NEW p \in UdpProcs, UdpTimer(p)
    PROVE  UdpGood'
<1>1. UdpTypeOK /\ UdpContents /\ UdpWaiters BY DEF UdpGood
<1>2. /\ udpproc' = [udpproc EXCEPT ![p].timed = TRUE]
      /\ UNCHANGED <<udptab, udpfree, udpheld, udpmsg>>
  BY DEF UdpTimer
<1>3. /\ udpproc' \in [UdpProcs -> [slot : UdpSlots \cup {NoSlot}, timed : BOOLEAN]]
      /\ \A q \in UdpProcs : udpproc'[q].slot = udpproc[q].slot
  BY <1>1, <1>2 DEF UdpTypeOK
<1>4. UdpTypeOK' BY <1>1, <1>2, <1>3 DEF UdpTypeOK, UdpSlots
<1>5. UdpContents' BY <1>1, <1>2 DEF UdpContents, UdpSlots
<1>6. UdpWaiters' BY <1>1, <1>2, <1>3 DEF UdpWaiters, UdpReceiver, UdpServed, UdpSlots
<1>7. QED BY <1>4, <1>5, <1>6 DEF UdpGood

LEMMA UdpStrayOK ==
    ASSUME UdpInv, NEW p \in UdpProcs, UdpStrayMessage(p)
    PROVE  UdpInv'
<1>1. PICK m \in {"OK", "other"} :
         /\ udpmsg' = [udpmsg EXCEPT ![p] = m]
         /\ udpfault' = [udpfault EXCEPT ![udpproc[p].slot] =
                            @ \cup (IF m = "OK" THEN {"stray"} ELSE {})]
  BY DEF UdpStrayMessage
<1>2. PICK s, F : s = udpproc[p].slot /\ F = IF m = "OK" THEN {"stray"} ELSE {} OBVIOUS
<1>3. udpfault' = [udpfault EXCEPT ![s] = @ \cup F] /\ F \subseteq UdpFaults
  BY <1>1, <1>2 DEF UdpFaults
<1>4. udpfault \in [UdpSlots -> SUBSET UdpFaults] BY DEF UdpInv
<1>5. /\ udpfault' \in [UdpSlots -> SUBSET UdpFaults]
      /\ UdpSound' => UdpSound /\ (s \in UdpSlots => F = {})
  BY <1>3, <1>4, UdpFaulted
<1>6. ASSUME UdpSound' PROVE UdpGood'
  <2>1. UdpTypeOK /\ UdpContents /\ UdpWaiters BY <1>5, <1>6 DEF UdpInv, UdpGood
  <2>2. s \in UdpSlots BY <1>2, <2>1 DEF UdpTypeOK, UdpStrayMessage, UdpIdleProc
  <2>3. m = "other" BY <1>2, <1>5, <1>6, <2>2
  <2>4. UNCHANGED <<udptab, udpfree, udpheld, udpproc>> BY DEF UdpStrayMessage
  <2>5. /\ udpmsg' \in [UdpProcs -> {UdpNil, "OK", "other"}] /\ udpmsg'[p] = "other"
        /\ \A q \in UdpProcs : q # p => udpmsg'[q] = udpmsg[q]
    BY <1>1, <2>1, <2>3 DEF UdpTypeOK
  <2>6. UdpTypeOK' BY <2>1, <2>4, <2>5 DEF UdpTypeOK, UdpSlots
  <2>7. UdpContents' BY <2>1, <2>4 DEF UdpContents, UdpSlots
  <2>8. ASSUME NEW q \in UdpProcs PROVE UdpServed(q)'
    <3>1. UdpServed(q) BY <2>1 DEF UdpWaiters
    <3>2. CASE q = p BY <2>4, <2>5, <3>1, <3>2 DEF UdpServed, UdpNil, UdpSlots
    <3>3. CASE q # p BY <2>4, <2>5, <3>1, <3>3 DEF UdpServed, UdpSlots
    <3>4. QED BY <3>2, <3>3
  <2>9. UdpWaiters' BY <2>1, <2>4, <2>8 DEF UdpWaiters, UdpReceiver, UdpSlots
  <2>10. QED BY <2>6, <2>7, <2>9 DEF UdpGood
<1>7. QED BY <1>5, <1>6 DEF UdpInv, UdpSlots

LEMMA UdpInit == udp_init => UdpInv
<1> SUFFICES ASSUME udp_init PROVE UdpInv OBVIOUS
<1>1. UDP_QSIZ \in Nat \ {0} BY UdpAssumption
<1>2. 0 \in 0..UDP_QSIZ /\ 0 \in UdpPlaces BY <1>1 DEF UdpPlaces
<1>3. UdpFree \in UdpEntries BY <1>2, UdpAnyHas DEF UdpFree, UdpEntries, UdpPlaces
<1>4. \A s \in UdpSlots : udptab[s] = UdpFree BY DEF udp_init
<1>5. UdpRing(UdpFree) /\ UdpQueued(UdpFree) = {} /\ UdpFree.state = "FREE"
  <2>1. UdpFree.head = 0 /\ UdpFree.tail = 0 /\ UdpFree.count = 0 /\ UdpFree.state = "FREE"
    BY DEF UdpFree
  <2>2. PICK f : f = UdpFree.queue OBVIOUS
  <2>3. RingSound(f, UDP_QSIZ, 0, 0, 0) /\ Ring(f, UDP_QSIZ, 0, 0) = {}
    BY <1>1, <1>2, RingEmpty DEF UdpPlaces
  <2>4. QED BY <2>1, <2>2, <2>3, UdpQueuedRing DEF UdpRing
<1>6. UdpIdle.slot = NoSlot /\ UdpIdle.timed = FALSE /\ NoSlot \notin UdpSlots
  BY DEF UdpIdle, NoSlot, UdpSlots
<1>7. UdpTypeOK
  <2>1. udptab \in [UdpSlots -> UdpEntries] /\ \A s \in UdpSlots : UdpRing(udptab[s])
    BY <1>3, <1>4, <1>5 DEF udp_init
  <2>2. /\ udpproc \in [UdpProcs -> [slot : UdpSlots \cup {NoSlot}, timed : BOOLEAN]]
        /\ udpmsg \in [UdpProcs -> {UdpNil, "OK", "other"}]
    BY DEF udp_init, UdpIdle
  <2>3. udpheld \in [UdpBufs -> {UdpNoPacket}] BY DEF udp_init
  <2>4. QED BY <2>1, <2>2, <2>3 DEF UdpTypeOK
<1>8. UdpContents BY <1>4, <1>5 DEF UdpContents, udp_init
<1>9. UdpWaiters
  <2>1. \A p \in UdpProcs : udpproc[p].slot \notin UdpSlots BY <1>6 DEF udp_init
  <2>2. QED BY <1>4, <1>5, <2>1 DEF UdpWaiters, UdpReceiver, UdpServed
<1>10. udpfault \in [UdpSlots -> SUBSET UdpFaults] BY DEF udp_init
<1>11. QED BY <1>7, <1>8, <1>9, <1>10 DEF UdpInv, UdpGood

LEMMA UdpNextOK == UdpInv /\ [UdpNext]_udpvars => UdpInv'
<1> SUFFICES ASSUME UdpInv, [UdpNext]_udpvars PROVE UdpInv' OBVIOUS
<1>1. ASSUME udpfault' = udpfault, UdpGood => UdpGood' PROVE UdpInv'
  BY <1>1 DEF UdpInv, UdpSound, UdpSlots
<1>2. ASSUME NEW k, UdpArrives(k) PROVE UdpInv'
  <2>1. UdpGood => UdpGood' BY <1>2, UdpInOK DEF UdpArrives
  <2>2. QED BY <1>1, <1>2, <2>1 DEF UdpArrives
<1>3. ASSUME NEW ip, NEW port, NEW loc, UdpLoops(ip, port, loc) PROVE UdpInv'
  <2>1. UdpGood => UdpGood' BY <1>3, UdpInOK DEF UdpLoops
  <2>2. QED BY <1>1, <1>3, <2>1 DEF UdpLoops
<1>4. ASSUME NEW p \in UdpProcs, NEW r \in UdpRegs, udp_register(p, r) PROVE UdpInv'
  <2>1. udpfault' = udpfault BY <1>4 DEF udp_register
  <2>2. QED BY <1>1, <1>4, <2>1, UdpRegisterOK
<1>5. ASSUME NEW p \in UdpProcs, NEW s \in UdpSlots,
             udp_recv(p, s) \/ udp_recvaddr(p, s) \/ udp_send(p, s) \/ udp_release(p, s)
      PROVE  UdpInv'
  <2>1. udp_recvaddr(p, s) => udp_recv(p, s) BY DEF udp_recvaddr
  <2>2. udp_send(p, s) => UdpInv' BY <1>3 DEF udp_send
  <2>3. QED BY <1>5, <2>1, <2>2, UdpRecvOK, UdpReleaseOK
<1>6. ASSUME NEW p, NEW s, NEW ip, NEW port, udp_sendto(p, s, ip, port) PROVE UdpInv'
  BY <1>3, <1>6 DEF udp_sendto
<1>7. ASSUME NEW p \in UdpProcs, UdpTimer(p) PROVE UdpInv'
  <2>1. udpfault' = udpfault BY <1>7 DEF UdpTimer
  <2>2. QED BY <1>1, <1>7, <2>1, UdpTimerOK
<1>8. ASSUME NEW p \in UdpProcs, udp_recvRest(p) \/ UdpStrayMessage(p) PROVE UdpInv'
  BY <1>8, UdpRecvRestOK, UdpStrayOK
<1>9. CASE UNCHANGED udpvars
  <2>1. UNCHANGED <<udptab, udpfree, udpheld, udpproc, udpmsg, udpfault>> BY <1>9 DEF udpvars
  <2>2. UdpTypeOK => UdpTypeOK' BY <2>1 DEF UdpTypeOK, UdpSlots
  <2>3. UdpContents => UdpContents' BY <2>1 DEF UdpContents, UdpSlots
  <2>4. UdpWaiters => UdpWaiters' BY <2>1 DEF UdpWaiters, UdpReceiver, UdpServed, UdpSlots
  <2>5. QED BY <1>1, <2>1, <2>2, <2>3, <2>4 DEF UdpGood
<1>10. QED BY <1>2, <1>4, <1>5, <1>6, <1>7, <1>8, <1>9, Zenon DEF UdpNext

\* Until a slot was released or shared while somebody received from it, or the
\* receiver was sent OK by somebody else (udp.c:190): the count of a queue is
\* the number of its buffers, each in one place; no buffer is lost; and whoever
\* waits is told of the next packet.
THEOREM QueuesAreSound == UdpSpec => []UdpQueuesSound
<1>1. UdpSpec => []UdpInv BY UdpInit, UdpNextOK, PTL DEF UdpSpec
<1>2. QED BY <1>1, UdpQueuesFrom, PTL


-----------------------------------------------------------------------------
\* Obtaining an address.  What is on its way comes from a server; what is set
\* was given in an ack; and the slot is kept only as the property says.
DhLocals(c) == c = [at |-> c.at, i |-> c.i, j |-> c.j, snd |-> c.snd, opts |-> c.opts,
                    ret |-> c.ret]
DhFrom(m, s) == m.opt \in {s.offer, DhNak} \/ m = DhMessage(s, TRUE, s.ack)
DhGiven == \A k \in DhSettings : NetData.set[k] \in {0} \cup {t.gives[k] : t \in DhAcked}
DhInv ==
    /\ DhLocals(dhcli)
    /\ \A m \in dhnet : m.own => \E s \in DhServers : DhFrom(m, s)
    /\ DhGiven /\ DhFromOneAck

LEMMA DhInit == dhinit => DhInv
<1> SUFFICES ASSUME dhinit PROVE DhInv OBVIOUS
<1>1. DhLocals(dhcli) BY DEF dhinit, DhLocals
<1>2. DhGiven BY DEF dhinit, DhGiven
<1>3. DhFromOneAck BY DEF dhinit, DhFromOneAck
<1>4. QED BY <1>1, <1>2, <1>3 DEF dhinit, DhInv

\* What servers answer comes from them.
LEMMA DhRepliesFrom ==
    ASSUME NEW snd, NEW m \in DhReplies(snd), m.own
    PROVE  \E s \in DhServers : DhFrom(m, s)
BY DEF DhReplies, DhMessage, DhFrom

LEMMA DhNone ==
    \E new : dhnet = dhnet \cup new /\ \A m \in new : m.own => \E s \in DhServers : DhFrom(m, s)
<1>1. PICK new : new = {} OBVIOUS
<1>2. dhnet = dhnet \cup new /\ \A m \in new : FALSE BY <1>1
<1>3. QED BY <1>2

\* More messages lose nothing.
LEMMA DhMore ==
    ASSUME DhInv, NEW new, dhnet' = dhnet \cup new, NetData' = NetData,
           \A m \in new : m.own => \E s \in DhServers : DhFrom(m, s),
           DhLocals(dhcli'),
           dhcli'.at = "idle" /\ dhslot' => dhcli'.ret \in {"noserver", "SYSERR"}
    PROVE  DhInv'
<1>1. \A s \in DhAcked : s \in DhAcked' BY DEF DhAcked
<1>2. DhGiven' BY <1>1 DEF DhInv, DhGiven
<1>3. DhFromOneAck'
  <2>1. ASSUME NetData.ipvalid, NEW s \in DhAcked, NetData.ipucast = s.yip,
               \A k \in DhSettings :
                    \/ s.gives[k] # 0 /\ NetData.set[k] = s.gives[k]
                    \/ s.gives[k] = 0 /\ NetData.set[k] \in {0} \cup {t.gives[k] : t \in DhAcked}
        PROVE  \A k \in DhSettings :
                    \/ s.gives[k] # 0 /\ NetData'.set[k] = s.gives[k]
                    \/ s.gives[k] = 0 /\ NetData'.set[k] \in {0} \cup {t.gives[k] : t \in DhAcked'}
    BY <1>1, <2>1
  <2>2. QED BY <1>1, <2>1 DEF DhInv, DhFromOneAck
<1>4. \A m \in dhnet' : m.own => \E s \in DhServers : DhFrom(m, s) BY DEF DhInv
<1>5. QED BY <1>2, <1>3, <1>4 DEF DhInv

\* What follows a message or a timeout, c being what the client has by then.
LEMMA DhAgainOK ==
    ASSUME DhInv, NEW c, DhLocals(c), c.at = "recv",
           NEW new, DhAgain(c, dhnet \cup new), NetData' = NetData,
           \A m \in new : m.own => \E s \in DhServers : DhFrom(m, s)
    PROVE  DhInv'
<1>1. CASE dhcli' = [c EXCEPT !.j = @ + 1] /\ dhnet' = dhnet \cup new
  <2>1. DhLocals(dhcli') BY <1>1 DEF DhLocals
  <2>2. dhcli'.at # "idle" BY <1>1
  <2>3. QED BY <1>1, <2>1, <2>2, DhMore
<1>2. CASE dhcli' = [c EXCEPT !.i = @ + 1, !.j = 0] /\ dhnet' = (dhnet \cup new) \cup DhReplies(c.snd)
  <2>1. DhLocals(dhcli') BY <1>2 DEF DhLocals
  <2>2. dhcli'.at # "idle" BY <1>2
  <2>3. dhnet' = dhnet \cup (new \cup DhReplies(c.snd)) BY <1>2
  <2>4. \A m \in new \cup DhReplies(c.snd) : m.own => \E s \in DhServers : DhFrom(m, s)
    BY DhRepliesFrom
  <2>5. QED BY <2>1, <2>2, <2>3, <2>4, DhMore
<1>3. CASE dhcli' = [c EXCEPT !.at = "idle", !.ret = "timeout"] /\ dhnet' = dhnet \cup new /\ ~dhslot'
  <2>1. DhLocals(dhcli') BY <1>3 DEF DhLocals
  <2>2. QED BY <1>3, <2>1, DhMore
<1>4. QED BY <1>1, <1>2, <1>3 DEF DhAgain, DhRelease

\* An offer does not set anything.
LEMMA DhOfferOK == ASSUME DhInv, NEW m \in dhnet, DhOffer(m) PROVE DhInv'
<1> DEFINE c == [dhcli EXCEPT !.opts = DhParse(dhcli.opts, m.opt)]
           req == dhcp_bld_req(m)
<1>1. DhLocals(dhcli) BY DEF DhInv
<1>2. DhLocals(c) BY <1>1 DEF DhLocals
<1>3. c.at = "recv" /\ NetData' = NetData BY <1>1 DEF DhOffer
<1>4. CASE dhcli' = [c EXCEPT !.at = "idle", !.ret = "noserver"] /\ dhnet' = dhnet
  <2>1. DhLocals(dhcli') BY <1>2, <1>4 DEF DhLocals
  <2>2. dhcli'.ret = "noserver" BY <1>2, <1>4 DEF DhLocals
  <2>3. PICK new : /\ dhnet = dhnet \cup new
                   /\ \A r \in new : r.own => \E s \in DhServers : DhFrom(r, s)
    BY DhNone
  <2>4. dhnet' = dhnet \cup new BY <1>4, <2>3
  <2>5. QED BY <1>3, <2>1, <2>2, <2>3, <2>4, DhMore
<1>5. CASE DhAgain([c EXCEPT !.snd = req], dhnet \cup DhReplies(req))
  <2>1. PICK d : d = [c EXCEPT !.snd = req] OBVIOUS
  <2>2. DhLocals(d) BY <1>2, <2>1 DEF DhLocals
  <2>3. d.at = "recv" BY <1>2, <1>3, <2>1
  <2>4. \A r \in DhReplies(req) : r.own => \E s \in DhServers : DhFrom(r, s) BY DhRepliesFrom
  <2>5. DhAgain(d, dhnet \cup DhReplies(req)) BY <1>5, <2>1
  <2> HIDE DEF c, req
  <2>6. QED BY <1>3, <2>2, <2>3, <2>4, <2>5, DhAgainOK
<1>6. QED BY <1>4, <1>5 DEF DhOffer

\* What sets the address is the ack of a server, which gives what it says.
LEMMA DhIsTheAck ==
    ASSUME DhInv, NEW m \in dhnet, m.own,
           DhParse(dhcli.opts, m.opt)[DHCP_MESSAGE_TYPE] # 2, m.opt[3] = 5
    PROVE  \E s \in DhAcked : /\ m.yip = s.yip
                              /\ \A k \in DhSettings : DhParse(dhcli.opts, m.opt)[k] = s.gives[k]
<1>1. PICK s \in DhServers : DhFrom(m, s) BY DEF DhInv
<1>2. DhParse(dhcli.opts, m.opt) = DhParse(DhZero, m.opt) BY DEF DhParse, DhReset
<1>3. m.opt # s.offer BY <1>2, DhAssumption
<1>4. m.opt # DhNak BY DEF DhNak
<1>5. m = DhMessage(s, TRUE, s.ack) BY <1>1, <1>3, <1>4 DEF DhFrom
<1>6. s \in DhAcked BY <1>5 DEF DhAcked
<1>7. m.yip = s.yip /\ m.opt = s.ack BY <1>5 DEF DhMessage
<1>8. QED BY <1>2, <1>6, <1>7, DhAssumption

LEMMA DhAckOK == ASSUME DhInv, NEW m \in dhnet, DhAck(m) PROVE DhInv'
<1> DEFINE p == DhParse(dhcli.opts, m.opt)
           c == [dhcli EXCEPT !.opts = p]
<1>1. DhLocals(dhcli) BY DEF DhInv
<1>2. DhLocals(c) /\ c.opts = p
  BY <1>1 DEF DhLocals
<1>3. CASE DhAgain(c, dhnet) /\ NetData' = NetData
  <2>1. c.at = "recv" BY <1>1 DEF DhAck
  <2>2. PICK new : /\ dhnet = dhnet \cup new
                   /\ \A r \in new : r.own => \E s \in DhServers : DhFrom(r, s)
    BY DhNone
  <2> HIDE DEF c, p
  <2>3. DhAgain(c, dhnet \cup new) BY <1>3, <2>2
  <2>4. QED BY <1>2, <1>3, <2>1, <2>2, <2>3, DhAgainOK
<1>4. CASE /\ DhIsAck(c, m) /\ dhcli' = [c EXCEPT !.at = "idle", !.ret = "OK"] /\ ~dhslot'
           /\ NetData' = [ipvalid |-> TRUE, ipucast |-> m.yip,
                          bootserver |-> DhBoot(m, c.snd.len),
                          set |-> [k \in DhSettings |->
                                      IF c.opts[k] # 0 THEN c.opts[k] ELSE NetData.set[k]]]
           /\ dhnet' = dhnet
  <2>1. p[DHCP_MESSAGE_TYPE] # 2 /\ m.opt[3] = 5 /\ m.own
    <3> HIDE DEF p
    <3>1. QED BY <1>2, <1>4 DEF DhIsAck, DhAck
  <2>2. PICK s \in DhAcked : m.yip = s.yip /\ \A k \in DhSettings : p[k] = s.gives[k]
    BY <2>1, DhIsTheAck
  <2> HIDE DEF p
  <2>3. PICK set : set = [k \in DhSettings |-> IF s.gives[k] # 0 THEN s.gives[k] ELSE NetData.set[k]]
    OBVIOUS
  <2>4. PICK b : b = DhBoot(m, c.snd.len) OBVIOUS
  <2>5. [k \in DhSettings |-> IF c.opts[k] # 0 THEN c.opts[k] ELSE NetData.set[k]] = set
    BY <1>2, <2>2, <2>3
  <2>6. NetData' = [ipvalid |-> TRUE, ipucast |-> m.yip, bootserver |-> b, set |-> set]
    BY <1>4, <2>4, <2>5
  <2>7. DhAcked' = DhAcked BY <1>4 DEF DhAcked
  <2>8. \A k \in DhSettings :
           \/ s.gives[k] # 0 /\ NetData'.set[k] = s.gives[k]
           \/ s.gives[k] = 0 /\ NetData'.set[k] \in {0} \cup {t.gives[k] : t \in DhAcked}
    BY <2>3, <2>6 DEF DhInv, DhGiven
  <2>9. DhGiven' BY <2>7, <2>8 DEF DhGiven
  <2>10. NetData'.ipucast = s.yip BY <2>2, <2>6
  <2>11. DhFromOneAck' BY <1>4, <2>7, <2>8, <2>10 DEF DhFromOneAck
  <2>13. DhLocals(dhcli')
    <3> HIDE DEF c
    <3>1. QED BY <1>2, <1>4 DEF DhLocals
  <2>14. QED BY <1>4, <2>9, <2>11, <2>13 DEF DhInv
<1>5. QED BY <1>3, <1>4 DEF DhAck, DhRelease

LEMMA DhNextOK == DhInv /\ [DhNext]_dhvars => DhInv'
<1> SUFFICES ASSUME DhInv, [DhNext]_dhvars PROVE DhInv' OBVIOUS
<1>1. DhLocals(dhcli) BY DEF DhInv
<1>2. CASE getlocalip
  <2>1. DhLocals(dhcli') BY <1>1, <1>2 DEF getlocalip, DhLocals
  <2>2. dhnet' = dhnet \cup DhReplies(dhcp_bld_disc) /\ NetData' = NetData
    BY <1>2 DEF getlocalip, DhSend
  <2>3. \A m \in DhReplies(dhcp_bld_disc) : m.own => \E s \in DhServers : DhFrom(m, s)
    BY DhRepliesFrom
  <2>4. dhcli'.at # "idle" BY <1>1, <1>2 DEF getlocalip, DhLocals
  <2>5. QED BY <2>1, <2>2, <2>3, <2>4, DhMore
<1>3. ASSUME dhcli.at = "recv", DhAgain(dhcli, dhnet), NetData' = NetData PROVE DhInv'
  <2>1. PICK new : /\ dhnet = dhnet \cup new
                   /\ \A r \in new : r.own => \E s \in DhServers : DhFrom(r, s)
    BY DhNone
  <2>2. DhAgain(dhcli, dhnet \cup new) BY <1>3, <2>1
  <2>3. QED BY <1>1, <1>3, <2>1, <2>2, DhAgainOK
<1>4. CASE DhTimeout BY <1>3, <1>4 DEF DhTimeout
<1>5. CASE DhStray
  <2>1. dhcli' = [dhcli EXCEPT !.at = "idle", !.ret = "SYSERR"] /\ dhnet' = dhnet /\ NetData' = NetData
    BY <1>5 DEF DhStray
  <2>2. DhLocals(dhcli') /\ dhcli'.ret = "SYSERR" BY <1>1, <2>1 DEF DhLocals
  <2>3. PICK new : /\ dhnet = dhnet \cup new
                   /\ \A r \in new : r.own => \E s \in DhServers : DhFrom(r, s)
    BY DhNone
  <2>4. dhnet' = dhnet \cup new BY <2>1, <2>3
  <2>5. QED BY <2>1, <2>2, <2>3, <2>4, DhMore
<1>6. ASSUME NEW m \in dhnet, DhOther(m) PROVE DhInv' BY <1>3, <1>6 DEF DhOther
<1>7. CASE UNCHANGED dhvars
  <2>1. UNCHANGED <<dhslot, dhcli, dhnet, NetData>> BY <1>7 DEF dhvars
  <2>2. QED BY <2>1 DEF DhInv, DhGiven, DhFromOneAck, DhAcked
<1>8. QED BY <1>2, <1>4, <1>5, <1>6, <1>7, DhOfferOK, DhAckOK DEF DhNext

\* An address and what came with it are from one ack, other settings from an
\* ack as well; nothing comes from an offer, though offers are parsed into the
\* same variables (dhcp.c:198); and the slot stays registered only after an
\* offer without a server id (dhcp.c:234) or a message of another process
\* (dhcp.c:186).
THEOREM SettingsFromAcks == DhSpec => []DhFromOneAck
<1>1. DhInv => DhFromOneAck BY DEF DhInv
<1>2. QED BY <1>1, DhInit, DhNextOK, PTL DEF DhSpec

-----------------------------------------------------------------------------
\* Ping.  What a slot can hold.
IcmpPlaces == 0..(ICMP_QSIZ - 1)
IcmpFaults == {"overrun", "past", "stolen", "released", "stray"}
IcmpMsgs == {IcmpNil, "OK", "other"}
IcmpAny == IcmpBufs \cup IcmpProcs \cup IcmpHosts \cup {IcmpNil}
IcmpEntries == [state : {"FREE", "USED", "RECV"}, remip : IcmpAny, head : 0..ICMP_QSIZ,
                tail : IcmpPlaces, count : 0..ICMP_QSIZ, pid : IcmpAny,
                queue : [IcmpPlaces -> IcmpAny]]

\* An entry in use is a sound ring, for a head that may be one too far.
IcmpHead(e) == e.head % ICMP_QSIZ
IcmpRing(e) ==
    IF e.state = "FREE" THEN e.count = 0
    ELSE RingSound(e.queue, ICMP_QSIZ, IcmpHead(e), e.tail, e.count)
IcmpTypeOK ==
    /\ icmptab \in [IcmpSlots -> IcmpEntries]
    /\ \A s \in IcmpSlots : IcmpRing(icmptab[s])
    /\ icmpproc \in [IcmpProcs -> [slot : IcmpSlots \cup {-1}, timed : BOOLEAN]]
    /\ icmpmsg \in [IcmpProcs -> IcmpMsgs]

\* A buffer is in one place: of F, of O, or in one queue of the table.
IcmpParted(F, O, tab) ==
    /\ F \subseteq IcmpBufs /\ O \subseteq IcmpBufs \ F
    /\ \A s \in IcmpSlots : IcmpQueued(tab[s]) \subseteq IcmpBufs \ (F \cup O)
    /\ \A s, t \in IcmpSlots : s # t => IcmpQueued(tab[s]) \cap IcmpQueued(tab[t]) = {}
    /\ \A b \in IcmpBufs : b \in F \cup O \/ \E s \in IcmpSlots : b \in IcmpQueued(tab[s])
\* O is what is on the output queue q or in the hands of a process.
IcmpAway(q, held) == ToSet(q) \cup {held[c] : c \in {d \in IcmpHolders : held[d] # IcmpNil}}
IcmpHands(q, held) ==
    /\ q \in Seq(IcmpBufs) /\ NoDup(q)
    /\ held \in [IcmpHolders -> IcmpBufs \cup {IcmpNil}]
    /\ \A c, d \in IcmpHolders : held[c] = held[d] /\ held[c] # IcmpNil => c = d
    /\ \A c \in IcmpHolders : ~OnQueue(q, held[c])
IcmpPlaced(F, q, held, tab) == IcmpHands(q, held) /\ IcmpParted(F, IcmpAway(q, held), tab)
IcmpContents == IcmpPlaced(icmpfree, icmpout, icmpheld, icmptab)

\* Receivers as in UDP.
IcmpReceiver(s) ==
    icmptab[s].state = "RECV" =>
        /\ icmptab[s].count = 0 /\ icmptab[s].pid \in IcmpProcs
        /\ icmpproc[icmptab[s].pid].slot = s
IcmpServed(p) ==
    LET e == icmptab[icmpproc[p].slot] IN
    icmpproc[p].slot \in IcmpSlots =>
        /\ e.state # "FREE"
        /\ icmpmsg[p] = IcmpNil => e.state = "RECV" /\ e.pid = p
        /\ icmpmsg[p] = "OK" => e.state = "USED" /\ e.count > 0
IcmpWaiters ==
    /\ \A s \in IcmpSlots : IcmpReceiver(s)
    /\ \A p, q \in IcmpProcs :
          icmpproc[p].slot \in IcmpSlots /\ icmpproc[p].slot = icmpproc[q].slot => p = q
    /\ \A p \in IcmpProcs : IcmpServed(p)

IcmpGood == IcmpTypeOK /\ IcmpContents /\ IcmpWaiters
IcmpInv == icmpfault \in [IcmpSlots -> SUBSET IcmpFaults] /\ (IcmpSound => IcmpGood)

LEMMA IcmpNumbers ==
    /\ ICMP_QSIZ \in Nat \ {0} /\ ICMP_SLOTS \in Nat /\ ICMP_QSIZ <= ICMP_SLOTS
    /\ \A s \in IcmpSlots : s \in Nat
  BY IcmpAssumption DEF IcmpSlots

LEMMA IcmpAnyHas ==
    IcmpBufs \subseteq IcmpAny /\ IcmpProcs \subseteq IcmpAny /\ IcmpHosts \subseteq IcmpAny
    /\ IcmpNil \in IcmpAny /\ IcmpNil \notin IcmpBufs
  BY IcmpAssumption DEF IcmpAny, IcmpNil

LEMMA IcmpFirstIn == \A S : S \subseteq IcmpSlots /\ S # {} => IcmpFirst(S) \in S
<1> SUFFICES ASSUME NEW S, S \subseteq IcmpSlots, S # {} PROVE IcmpFirst(S) \in S OBVIOUS
<1>1. S \subseteq Nat BY IcmpNumbers
<1>2. \E x \in S : \A y \in S : x <= y BY <1>1, LeastNat
<1>3. QED BY <1>2 DEF IcmpFirst

\* The head is counted modulo the size of the queue, though it wraps later.
LEMMA IcmpHeads ==
    /\ \A h \in 0..ICMP_QSIZ : h % ICMP_QSIZ \in IcmpPlaces
    /\ \A h \in IcmpPlaces : h % ICMP_QSIZ = h
    /\ \A h \in IcmpPlaces : /\ IcmpNextHead(h) \in 0..ICMP_QSIZ
                             /\ IcmpNextHead(h) % ICMP_QSIZ = (h + 1) % ICMP_QSIZ
    /\ \A t \in IcmpPlaces : /\ IcmpNextTail(t) \in IcmpPlaces
                             /\ IcmpNextTail(t) = (t + 1) % ICMP_QSIZ
<1>1. PICK N, M \in Nat : N = ICMP_QSIZ /\ M = ICMP_SLOTS /\ N # 0 /\ N <= M BY IcmpNumbers
<1>2. \A x \in Nat : x < 2 * N => x % N = (IF x < N THEN x ELSE x - N) /\ x % N \in 0..(N - 1)
  BY <1>1, RingWrap
<1>3. \A x \in 0..N : x < 2 * N /\ x \in Nat BY <1>1
<1>4. \A h \in 0..N : h % N \in 0..(N - 1) BY <1>2, <1>3
<1>5. \A h \in 0..(N - 1) : h % N = h
  <2> TAKE h \in 0..(N - 1)
  <2>1. h \in Nat /\ h < 2 * N /\ h < N BY <1>1
  <2>2. QED BY <1>2, <2>1
<1>6. ASSUME NEW h \in 0..(N - 1)
      PROVE  /\ IcmpNextHead(h) \in 0..N /\ IcmpNextHead(h) % N = (h + 1) % N
             /\ IcmpNextTail(h) \in 0..(N - 1) /\ IcmpNextTail(h) = (h + 1) % N
  <2>1. h + 1 \in Nat /\ h + 1 < 2 * N BY <1>1
  <2>2. (h + 1) % N = IF h + 1 < N THEN h + 1 ELSE (h + 1) - N BY <1>2, <2>1
  <2>3. 0 % N = 0 BY <1>1, <1>5
  <2>4. h + 1 >= M => h + 1 = N BY <1>1
  <2>5. h + 1 = N => (h + 1) % N = 0 BY <1>1, <2>2
  <2>6. IcmpNextHead(h) = (IF h + 1 >= M THEN 0 ELSE h + 1) /\ IcmpNextTail(h) = IF h + 1 >= N THEN 0 ELSE h + 1
    BY <1>1 DEF IcmpNextHead, IcmpNextTail
  <2>7. IcmpNextHead(h) % N = (h + 1) % N
    <3>1. CASE h + 1 >= M BY <2>3, <2>4, <2>5, <2>6, <3>1
    <3>2. CASE ~(h + 1 >= M) BY <2>6, <3>2
    <3>3. QED BY <3>1, <3>2
  <2>8. IcmpNextHead(h) \in 0..N BY <1>1, <2>6
  <2>9. IcmpNextTail(h) = (h + 1) % N
    <3>1. h + 1 >= N => h + 1 = N BY <1>1
    <3>2. h + 1 < N => ~(h + 1 >= N) BY <1>1
    <3>3. h + 1 < N \/ h + 1 >= N BY <1>1
    <3>4. QED BY <2>2, <2>5, <2>6, <3>1, <3>2, <3>3
  <2>10. (h + 1) % N \in 0..(N - 1) BY <1>2, <2>1
  <2>11. QED BY <2>7, <2>8, <2>9, <2>10
<1>7. QED BY <1>1, <1>4, <1>5, <1>6 DEF IcmpPlaces

LEMMA IcmpQueuedRing ==
    \A e : e.head \in 0..ICMP_QSIZ /\ e.count \in 0..ICMP_QSIZ
             => IcmpQueued(e) = Ring(e.queue, ICMP_QSIZ, IcmpHead(e), e.count)
<1> SUFFICES ASSUME NEW e, e.head \in 0..ICMP_QSIZ, e.count \in 0..ICMP_QSIZ
             PROVE  IcmpQueued(e) = Ring(e.queue, ICMP_QSIZ, IcmpHead(e), e.count)
  OBVIOUS
<1>1. PICK N \in Nat : N = ICMP_QSIZ /\ N # 0 BY IcmpNumbers
<1>2. PICK h \in 0..N, c \in 0..N : h = e.head /\ c = e.count BY <1>1
<1>3. PICK k : k = h % N OBVIOUS
<1>4. \A x \in Nat : x < 2 * N => x % N = (IF x < N THEN x ELSE x - N) /\ x % N \in 0..(N - 1)
  BY <1>1, RingWrap
<1>5. ASSUME NEW i \in 0..(c - 1) PROVE (h + i) % N = (k + i) % N
  <2>1. h \in Nat /\ h < 2 * N /\ h + i \in Nat /\ h + i < 2 * N /\ i \in Nat /\ i < N BY <1>1, <1>2
  <2>2. k = IF h < N THEN h ELSE h - N BY <1>3, <1>4, <2>1
  <2>3. CASE h < N BY <2>2, <2>3
  <2>4. CASE ~(h < N)
    <3>1. h = N /\ k = 0 BY <1>1, <2>2, <2>4
    <3>2. (h + i) % N = (h + i) - N
      <4>1. ~(h + i < N) BY <2>1, <3>1
      <4>2. QED BY <1>4, <2>1, <4>1
    <3>3. k + i = i /\ (h + i) - N = i BY <2>1, <3>1
    <3>4. i < 2 * N BY <2>1
    <3>5. i % N = i BY <1>4, <2>1, <3>4
    <3>6. QED BY <3>2, <3>3, <3>5
  <2>5. QED BY <2>3, <2>4
<1>6. QED BY <1>1, <1>2, <1>3, <1>5 DEF IcmpQueued, Ring, IcmpHead

\* Buffers move: into a queue, out of it, onto the output queue, from there.
LEMMA IcmpPutParted ==
    ASSUME NEW F, NEW q, NEW held, NEW tab, NEW new, NEW s \in IcmpSlots, NEW b \in F,
           IcmpPlaced(F, q, held, tab),
           IcmpQueued(new[s]) = IcmpQueued(tab[s]) \cup {b},
           \A t \in IcmpSlots : t # s => new[t] = tab[t]
    PROVE  IcmpPlaced(F \ {b}, q, held, new)
<1>1. \A t \in IcmpSlots : IcmpQueued(new[t]) = IcmpQueued(tab[t]) \cup (IF t = s THEN {b} ELSE {})
  OBVIOUS
<1>2. QED BY <1>1 DEF IcmpPlaced, IcmpParted

LEMMA IcmpTakeParted ==
    ASSUME NEW F, NEW q, NEW held, NEW tab, NEW new, NEW s \in IcmpSlots, NEW X,
           IcmpPlaced(F, q, held, tab),
           X \subseteq IcmpQueued(tab[s]), IcmpQueued(new[s]) = IcmpQueued(tab[s]) \ X,
           \A t \in IcmpSlots : t # s => new[t] = tab[t]
    PROVE  IcmpPlaced(F \cup X, q, held, new)
<1>1. \A t \in IcmpSlots : t # s => IcmpQueued(new[t]) = IcmpQueued(tab[t]) OBVIOUS
<1>2. \A t \in IcmpSlots : IcmpQueued(new[t]) = IcmpQueued(tab[t]) \ X BY <1>1 DEF IcmpPlaced, IcmpParted
<1>3. QED BY <1>2 DEF IcmpPlaced, IcmpParted

LEMMA IcmpOutParted ==
    ASSUME NEW F, NEW O, NEW Q, NEW tab, NEW b \in F, IcmpParted(F, O, tab),
           \A x : x \in Q <=> x \in O \/ x = b
    PROVE  IcmpParted(F \ {b}, Q, tab)
<1>1. Q = O \cup {b} OBVIOUS
<1>2. IcmpParted(F \ {b}, O \cup {b}, tab) BY DEF IcmpParted
<1>3. QED BY <1>1, <1>2

LEMMA IcmpSentParted ==
    ASSUME NEW F, NEW O, NEW Q, NEW tab, NEW b \in O, IcmpParted(F, O, tab),
           \A x : x \in Q <=> x \in O /\ x # b
    PROVE  IcmpParted(F \cup {b}, Q, tab)
<1>1. Q = O \ {b} OBVIOUS
<1>2. IcmpParted(F \cup {b}, O \ {b}, tab) BY DEF IcmpParted
<1>3. QED BY <1>1, <1>2

\* The output queue as a set, and what is away.
LEMMA IcmpOutIs ==
    ASSUME NEW S, NEW q \in Seq(S)
    PROVE  \A x : x \in ToSet(q) <=> OnQueue(q, x)
<1>1. DOMAIN q = 1..Len(q) OBVIOUS
<1>2. QED BY <1>1 DEF ToSet, OnQueue

LEMMA IcmpAwayIs ==
    ASSUME NEW q \in Seq(IcmpBufs), NEW held
    PROVE  \A x : x \in IcmpAway(q, held) <=>
                     OnQueue(q, x) \/ \E c \in IcmpHolders : held[c] = x /\ x # IcmpNil
<1>1. \A x : x \in ToSet(q) <=> OnQueue(q, x) BY IcmpOutIs
<1>2. QED BY <1>1 DEF IcmpAway

\* A process takes a free buffer in its hands; one is queued; one is freed; and
\* ipout takes the first of the queue.
LEMMA IcmpGrab ==
    ASSUME NEW F, NEW q, NEW held, NEW tab, IcmpPlaced(F, q, held, tab),
           NEW b \in F, NEW c \in IcmpHolders, held[c] = IcmpNil
    PROVE  IcmpPlaced(F \ {b}, q, [held EXCEPT ![c] = b], tab)
<1>1. IcmpHands(q, held) /\ IcmpParted(F, IcmpAway(q, held), tab) BY DEF IcmpPlaced
<1>2. PICK new : new = [held EXCEPT ![c] = b] OBVIOUS
<1>3. q \in Seq(IcmpBufs) /\ held \in [IcmpHolders -> IcmpBufs \cup {IcmpNil}]
  BY <1>1 DEF IcmpHands
<1>4. b \in IcmpBufs /\ b # IcmpNil /\ b \notin IcmpAway(q, held)
  BY <1>1, IcmpAnyHas DEF IcmpPlaced, IcmpParted
<1>5. \A x : x \in IcmpAway(q, held) <=>
                OnQueue(q, x) \/ \E d \in IcmpHolders : held[d] = x /\ x # IcmpNil
  BY <1>3, IcmpAwayIs
<1>6. ~OnQueue(q, b) /\ \A d \in IcmpHolders : held[d] # b BY <1>4, <1>5
<1>7. new[c] = b /\ \A d \in IcmpHolders : d # c => new[d] = held[d] BY <1>2, <1>3
<1>8. new \in [IcmpHolders -> IcmpBufs \cup {IcmpNil}] BY <1>2, <1>3, <1>4
<1>9. IcmpHands(q, new) BY <1>1, <1>6, <1>7, <1>8 DEF IcmpHands
<1>10. \A x : x \in IcmpAway(q, new) <=>
                 OnQueue(q, x) \/ \E d \in IcmpHolders : new[d] = x /\ x # IcmpNil
  BY <1>3, IcmpAwayIs
<1>11. \A x : x \in IcmpAway(q, new) <=> x \in IcmpAway(q, held) \/ x = b
  BY <1>4, <1>5, <1>7, <1>10
<1>12. IcmpParted(F \ {b}, IcmpAway(q, new), tab) BY <1>1, <1>11, IcmpOutParted
<1>13. QED BY <1>2, <1>9, <1>12 DEF IcmpPlaced

LEMMA IcmpQueue ==
    ASSUME NEW F, NEW q, NEW held, NEW tab, IcmpPlaced(F, q, held, tab), NEW b \in F
    PROVE  IcmpPlaced(F \ {b}, Append(q, b), held, tab)
<1>1. IcmpHands(q, held) /\ IcmpParted(F, IcmpAway(q, held), tab) BY DEF IcmpPlaced
<1>2. PICK new : new = Append(q, b) OBVIOUS
<1>3. q \in Seq(IcmpBufs) /\ NoDup(q) BY <1>1 DEF IcmpHands
<1>4. b \in IcmpBufs /\ b # IcmpNil /\ b \notin IcmpAway(q, held)
  BY <1>1, IcmpAnyHas DEF IcmpPlaced, IcmpParted
<1>5. \A x : x \in IcmpAway(q, held) <=>
                OnQueue(q, x) \/ \E d \in IcmpHolders : held[d] = x /\ x # IcmpNil
  BY <1>3, IcmpAwayIs
<1>6. ~OnQueue(q, b) /\ \A d \in IcmpHolders : held[d] # b BY <1>4, <1>5
<1>7. new = enqueue(b, q) BY <1>2 DEF enqueue
<1>8. /\ new \in Seq(IcmpBufs) /\ NoDup(new)
      /\ \A x : OnQueue(new, x) <=> OnQueue(q, x) \/ x = b
  BY <1>3, <1>4, <1>6, <1>7, EnqueueQueue
<1>9. IcmpHands(new, held) BY <1>1, <1>6, <1>8 DEF IcmpHands
<1>10. \A x : x \in IcmpAway(new, held) <=>
                 OnQueue(new, x) \/ \E d \in IcmpHolders : held[d] = x /\ x # IcmpNil
  BY <1>8, IcmpAwayIs
<1>11. \A x : x \in IcmpAway(new, held) <=> x \in IcmpAway(q, held) \/ x = b
  BY <1>5, <1>8, <1>10
<1>12. IcmpParted(F \ {b}, IcmpAway(new, held), tab) BY <1>1, <1>11, IcmpOutParted
<1>13. QED BY <1>2, <1>9, <1>12 DEF IcmpPlaced

LEMMA IcmpGive ==
    ASSUME NEW F, NEW q, NEW held, NEW tab, IcmpPlaced(F, q, held, tab),
           NEW c \in IcmpHolders, held[c] # IcmpNil
    PROVE  IcmpPlaced(F \cup {held[c]}, q, [held EXCEPT ![c] = IcmpNil], tab)
<1>1. IcmpHands(q, held) /\ IcmpParted(F, IcmpAway(q, held), tab) BY DEF IcmpPlaced
<1>2. PICK new, b : new = [held EXCEPT ![c] = IcmpNil] /\ b = held[c] OBVIOUS
<1>3. /\ q \in Seq(IcmpBufs) /\ held \in [IcmpHolders -> IcmpBufs \cup {IcmpNil}]
      /\ ~OnQueue(q, b) /\ \A d \in IcmpHolders : held[d] = b => d = c
  BY <1>1, <1>2 DEF IcmpHands
<1>4. \A x : x \in IcmpAway(q, held) <=>
                OnQueue(q, x) \/ \E d \in IcmpHolders : held[d] = x /\ x # IcmpNil
  BY <1>3, IcmpAwayIs
<1>5. new[c] = IcmpNil /\ \A d \in IcmpHolders : d # c => new[d] = held[d] BY <1>2, <1>3
<1>6. new \in [IcmpHolders -> IcmpBufs \cup {IcmpNil}] BY <1>2, <1>3
<1>7. IcmpHands(q, new)
  <2>1. ~OnQueue(q, IcmpNil) BY <1>3, IcmpAnyHas DEF OnQueue
  <2>2. QED BY <1>1, <1>5, <1>6, <2>1 DEF IcmpHands
<1>8. \A x : x \in IcmpAway(q, new) <=>
                OnQueue(q, x) \/ \E d \in IcmpHolders : new[d] = x /\ x # IcmpNil
  BY <1>3, IcmpAwayIs
<1>9. \A x : x \in IcmpAway(q, new) <=> x \in IcmpAway(q, held) /\ x # b
  <2>1. ASSUME NEW x, x \in IcmpAway(q, new) PROVE x \in IcmpAway(q, held) /\ x # b
    <3>1. CASE OnQueue(q, x) BY <1>3, <1>4, <3>1
    <3>2. CASE \E d \in IcmpHolders : new[d] = x /\ x # IcmpNil
      <4>1. PICK d \in IcmpHolders : new[d] = x /\ x # IcmpNil BY <3>2
      <4>2. d # c /\ held[d] = x BY <1>5, <4>1
      <4>3. QED BY <1>3, <1>4, <4>1, <4>2
    <3>3. QED BY <1>8, <2>1, <3>1, <3>2
  <2>2. ASSUME NEW x, x \in IcmpAway(q, held), x # b PROVE x \in IcmpAway(q, new)
    <3>1. CASE OnQueue(q, x) BY <1>8, <3>1
    <3>2. CASE \E d \in IcmpHolders : held[d] = x /\ x # IcmpNil
      <4>1. PICK d \in IcmpHolders : held[d] = x /\ x # IcmpNil BY <3>2
      <4>2. d # c BY <1>2, <2>2, <4>1
      <4>3. new[d] = x BY <1>5, <4>1, <4>2
      <4>4. QED BY <1>8, <4>1, <4>3
    <3>3. QED BY <1>4, <2>2, <3>1, <3>2
  <2>3. QED BY <2>1, <2>2
<1>10. b \in IcmpAway(q, held) BY <1>2, <1>4
<1>11. IcmpParted(F \cup {b}, IcmpAway(q, new), tab) BY <1>1, <1>9, <1>10, IcmpSentParted
<1>12. QED BY <1>2, <1>7, <1>11 DEF IcmpPlaced

LEMMA IcmpPull ==
    ASSUME NEW F, NEW q, NEW held, NEW tab, IcmpPlaced(F, q, held, tab),
           NEW c \in IcmpHolders, held[c] = IcmpNil, q # << >>
    PROVE  IcmpPlaced(F, Tail(q), [held EXCEPT ![c] = Head(q)], tab)
<1>1. IcmpHands(q, held) /\ IcmpParted(F, IcmpAway(q, held), tab) BY DEF IcmpPlaced
<1>2. PICK new, p, b : new = [held EXCEPT ![c] = b] /\ p = Tail(q) /\ b = Head(q) OBVIOUS
<1>3. /\ q \in Seq(IcmpBufs) /\ NoDup(q) /\ held \in [IcmpHolders -> IcmpBufs \cup {IcmpNil}]
      /\ \A d \in IcmpHolders : ~OnQueue(q, held[d])
  BY <1>1 DEF IcmpHands
<1>4. /\ p \in Seq(IcmpBufs) /\ NoDup(p) /\ OnQueue(q, b)
      /\ \A x : OnQueue(p, x) <=> OnQueue(q, x) /\ x # b
  BY <1>2, <1>3, DequeueQueue, Zenon
<1>5. b \in IcmpBufs /\ b # IcmpNil BY <1>3, <1>4, IcmpAnyHas DEF OnQueue
<1>6. new[c] = b /\ \A d \in IcmpHolders : d # c => new[d] = held[d] BY <1>2, <1>3
<1>7. new \in [IcmpHolders -> IcmpBufs \cup {IcmpNil}] BY <1>2, <1>3, <1>5
<1>8. \A d \in IcmpHolders : held[d] # b BY <1>3, <1>4
<1>9. IcmpHands(p, new) BY <1>1, <1>4, <1>6, <1>7, <1>8 DEF IcmpHands
<1>10. /\ \A x : x \in IcmpAway(q, held) <=>
                    OnQueue(q, x) \/ \E d \in IcmpHolders : held[d] = x /\ x # IcmpNil
       /\ \A x : x \in IcmpAway(p, new) <=>
                    OnQueue(p, x) \/ \E d \in IcmpHolders : new[d] = x /\ x # IcmpNil
  BY <1>3, <1>4, IcmpAwayIs
<1>11. \A x : x \in IcmpAway(p, new) <=> x \in IcmpAway(q, held) BY <1>4, <1>5, <1>6, <1>10
<1>12. IcmpAway(p, new) = IcmpAway(q, held) BY <1>11
<1>13. QED BY <1>1, <1>2, <1>9, <1>12 DEF IcmpPlaced

\* A step on one slot, whose entry becomes x.
IcmpBecomes(s, x) ==
    /\ icmptab'[s] = x
    /\ \A t \in IcmpSlots : t # s => icmptab'[t] = icmptab[t]
LEMMA IcmpSlotStep ==
    ASSUME IcmpTypeOK, NEW s \in IcmpSlots, NEW x \in IcmpEntries, IcmpRing(x),
           icmptab' = [icmptab EXCEPT ![s] = x]
    PROVE  /\ icmptab' \in [IcmpSlots -> IcmpEntries] /\ IcmpBecomes(s, x)
           /\ \A t \in IcmpSlots : IcmpRing(icmptab'[t])
<1>1. icmptab \in [IcmpSlots -> IcmpEntries] /\ \A t \in IcmpSlots : IcmpRing(icmptab[t])
  BY DEF IcmpTypeOK
<1>2. icmptab' \in [IcmpSlots -> IcmpEntries] /\ IcmpBecomes(s, x) BY <1>1 DEF IcmpBecomes
<1>3. QED BY <1>1, <1>2 DEF IcmpBecomes

\* An echo reply in a queue that has a place.
LEMMA IcmpInOK ==
    ASSUME IcmpGood, NEW s \in IcmpSlots, NEW b \in icmpfree,
           NEW e, e = icmptab[s], e.state # "FREE", e.count < ICMP_QSIZ,
           icmptab' = [icmptab EXCEPT ![s] =
               [e EXCEPT !.count = @ + 1, !.queue[e.tail] = b, !.tail = IcmpNextTail(@),
                         !.state = IF @ = "RECV" THEN "USED" ELSE @]],
           icmpmsg' = IcmpTold(e),
           icmpfree' = icmpfree \ {b}, UNCHANGED <<icmpout, icmpheld, icmpproc>>
    PROVE  IcmpGood'
<1>1. IcmpTypeOK /\ IcmpContents /\ IcmpWaiters BY DEF IcmpGood
<1>2. e \in IcmpEntries BY <1>1 DEF IcmpTypeOK
<1>3. b \in IcmpBufs BY <1>1 DEF IcmpContents, IcmpPlaced, IcmpParted
<1>4. ICMP_QSIZ \in Nat \ {0} BY IcmpNumbers
<1>5. PICK f, h, d, c : f = e.queue /\ h = IcmpHead(e) /\ d = e.tail /\ c = e.count OBVIOUS
<1>6. RingSound(f, ICMP_QSIZ, h, d, c) BY <1>1, <1>5 DEF IcmpTypeOK, IcmpRing
<1>7. /\ f \in [IcmpPlaces -> IcmpAny] /\ d \in IcmpPlaces /\ c \in 0..ICMP_QSIZ
      /\ c < ICMP_QSIZ /\ h \in IcmpPlaces
  BY <1>2, <1>5, <1>6 DEF IcmpEntries, RingSound, IcmpPlaces
<1>8. PICK g : g = [f EXCEPT ![d] = b] OBVIOUS
<1>9. /\ g \in [IcmpPlaces -> IcmpAny] /\ g[d] = b
      /\ \A i \in IcmpPlaces : i # d => g[i] = f[i]
  BY <1>3, <1>7, <1>8, IcmpAnyHas
<1>10. PICK t : t = IcmpNextTail(d) OBVIOUS
<1>11. t \in IcmpPlaces /\ t = (d + 1) % ICMP_QSIZ BY <1>7, <1>10, IcmpHeads
<1>12. PICK st, n : st = (IF e.state = "RECV" THEN "USED" ELSE e.state) /\ n = c + 1 OBVIOUS
<1>13. n \in 0..ICMP_QSIZ /\ n > 0 BY <1>4, <1>7, <1>12
<1>14. st = "USED" BY <1>2, <1>12 DEF IcmpEntries
<1>15. PICK x : x = [e EXCEPT !.count = n, !.queue = g, !.tail = t, !.state = st] OBVIOUS
<1>16. /\ x \in IcmpEntries /\ x.state = st /\ x.head = e.head /\ x.tail = t /\ x.count = n
       /\ x.pid = e.pid /\ x.queue = g
  BY <1>2, <1>9, <1>11, <1>13, <1>14, <1>15 DEF IcmpEntries
<1>17. icmptab' = [icmptab EXCEPT ![s] = x] BY <1>5, <1>8, <1>10, <1>12, <1>15
<1>18. IcmpQueued(e) = Ring(f, ICMP_QSIZ, h, c) BY <1>2, <1>5, IcmpQueuedRing DEF IcmpEntries
<1>19. b \notin Ring(f, ICMP_QSIZ, h, c) BY <1>1, <1>18 DEF IcmpContents, IcmpPlaced, IcmpParted
<1>20. /\ RingSound(g, ICMP_QSIZ, h, t, n)
       /\ Ring(g, ICMP_QSIZ, h, n) = Ring(f, ICMP_QSIZ, h, c) \cup {b}
  <2>1. \A i \in 0..(ICMP_QSIZ - 1) : i # d => g[i] = f[i] BY <1>9 DEF IcmpPlaces
  <2>2. g[d] = b /\ c < ICMP_QSIZ BY <1>7, <1>9
  <2>3. /\ RingSound(g, ICMP_QSIZ, h, (d + 1) % ICMP_QSIZ, c + 1)
        /\ Ring(g, ICMP_QSIZ, h, c + 1) = Ring(f, ICMP_QSIZ, h, c) \cup {b}
    BY <1>4, <1>6, <1>19, <2>1, <2>2, RingPut
  <2>4. QED BY <1>11, <1>12, <2>3
<1>21. IcmpHead(x) = h BY <1>5, <1>16 DEF IcmpHead
<1>22. IcmpRing(x) BY <1>14, <1>16, <1>20, <1>21 DEF IcmpRing
<1>23. IcmpQueued(x) = IcmpQueued(icmptab[s]) \cup {b}
  <2>1. IcmpQueued(x) = Ring(g, ICMP_QSIZ, h, n)
    BY <1>16, <1>21, IcmpQueuedRing DEF IcmpEntries
  <2>2. QED BY <1>18, <1>20, <2>1
<1>24. /\ icmptab' \in [IcmpSlots -> IcmpEntries] /\ IcmpBecomes(s, x)
       /\ \A u \in IcmpSlots : IcmpRing(icmptab'[u])
  BY <1>1, <1>16, <1>17, <1>22, IcmpSlotStep
<1>25. /\ icmpmsg' \in [IcmpProcs -> IcmpMsgs]
       /\ \A p \in IcmpProcs :
             icmpmsg'[p] # icmpmsg[p] => e.state = "RECV" /\ p = e.pid /\ icmpmsg'[p] = "OK"
       /\ e.state = "RECV" /\ e.pid \in IcmpProcs => icmpmsg'[e.pid] # IcmpNil
  <2>1. icmpmsg \in [IcmpProcs -> IcmpMsgs] /\ "OK" \in IcmpMsgs /\ "OK" # IcmpNil
    BY <1>1 DEF IcmpTypeOK, IcmpMsgs, IcmpNil
  <2>2. CASE e.state = "RECV" /\ icmpmsg[e.pid] = IcmpNil
    <3>1. icmpmsg' = [icmpmsg EXCEPT ![e.pid] = "OK"] BY <2>2 DEF IcmpTold
    <3>2. QED BY <2>1, <2>2, <3>1
  <2>3. CASE ~(e.state = "RECV" /\ icmpmsg[e.pid] = IcmpNil)
    <3>1. icmpmsg' = icmpmsg BY <2>3 DEF IcmpTold
    <3>2. QED BY <2>1, <2>3, <3>1
  <2>4. QED BY <2>2, <2>3
<1>26. IcmpTypeOK' BY <1>1, <1>24, <1>25 DEF IcmpTypeOK, IcmpSlots
<1>27. IcmpContents'
  <2>1. IcmpPlaced(icmpfree, icmpout, icmpheld, icmptab) BY <1>1 DEF IcmpContents
  <2>2. PICK new : new = icmptab' OBVIOUS
  <2>3. IcmpQueued(new[s]) = IcmpQueued(icmptab[s]) \cup {b}
        /\ \A u \in IcmpSlots : u # s => new[u] = icmptab[u]
    BY <1>23, <1>24, <2>2 DEF IcmpBecomes
  <2>4. IcmpPlaced(icmpfree \ {b}, icmpout, icmpheld, new) BY <2>1, <2>3, IcmpPutParted
  <2>5. QED BY <2>2, <2>4 DEF IcmpContents
<1>28. IcmpWaiters'
  <2>1. ASSUME NEW u \in IcmpSlots PROVE IcmpReceiver(u)'
    <3>1. IcmpReceiver(u) BY <1>1 DEF IcmpWaiters
    <3>2. icmptab'[u].state = "RECV" => icmptab'[u] = icmptab[u]
      BY <1>14, <1>16, <1>24 DEF IcmpBecomes
    <3>3. QED BY <3>1, <3>2 DEF IcmpReceiver
  <2>2. ASSUME NEW p \in IcmpProcs, icmpproc[p].slot \in IcmpSlots PROVE IcmpServed(p)'
    <3>1. IcmpServed(p) BY <1>1 DEF IcmpWaiters
    <3>2. CASE icmpproc[p].slot = s
      <4>1. icmptab'[icmpproc'[p].slot] = x BY <1>24, <3>2 DEF IcmpBecomes
      <4>2. icmpmsg'[p] # IcmpNil
        <5>1. CASE icmpmsg[p] = IcmpNil
          <6>1. e.state = "RECV" /\ e.pid = p BY <2>2, <3>1, <3>2, <5>1 DEF IcmpServed
          <6>2. QED BY <1>25, <6>1
        <5>2. CASE icmpmsg[p] # IcmpNil BY <1>25, <5>2 DEF IcmpNil
        <5>3. QED BY <5>1, <5>2
      <4>3. QED BY <1>13, <1>14, <1>16, <4>1, <4>2 DEF IcmpServed
    <3>3. CASE icmpproc[p].slot # s
      <4>1. icmptab'[icmpproc'[p].slot] = icmptab[icmpproc[p].slot] BY <1>24, <2>2, <3>3 DEF IcmpBecomes
      <4>2. icmpmsg'[p] = icmpmsg[p]
        <5>1. CASE icmpmsg'[p] # icmpmsg[p]
          <6>1. IcmpReceiver(s) /\ p = e.pid /\ e.state = "RECV" BY <1>1, <1>25, <5>1 DEF IcmpWaiters
          <6>2. QED BY <3>3, <6>1 DEF IcmpReceiver
        <5>2. QED BY <5>1
      <4>3. QED BY <3>1, <4>1, <4>2 DEF IcmpServed
    <3>4. QED BY <3>2, <3>3
  <2>3. ASSUME NEW p \in IcmpProcs, icmpproc[p].slot \notin IcmpSlots PROVE IcmpServed(p)'
    BY <2>3 DEF IcmpServed, IcmpSlots
  <2>4. QED BY <1>1, <2>1, <2>2, <2>3 DEF IcmpWaiters, IcmpSlots
<1>29. QED BY <1>26, <1>27, <1>28 DEF IcmpGood

\* The reply at the head is taken; the slot is in use from then on.
LEMMA IcmpTakeOK ==
    ASSUME IcmpTypeOK, IcmpContents, NEW s \in IcmpSlots, NEW e, e = icmptab[s],
           e.state # "FREE", e.count > 0, e.head < ICMP_QSIZ,
           NEW u, u = [e EXCEPT !.state = "USED"], IcmpTake(s, u),
           UNCHANGED <<icmpout, icmpheld>>
    PROVE  \E x : /\ icmptab' \in [IcmpSlots -> IcmpEntries] /\ IcmpBecomes(s, x)
                  /\ \A t \in IcmpSlots : IcmpRing(icmptab'[t])
                  /\ x.state = "USED" /\ IcmpContents'
<1>1. ICMP_QSIZ \in Nat \ {0} BY IcmpNumbers
<1>2. e \in IcmpEntries BY DEF IcmpTypeOK
<1>3. PICK f, h, d, c : f = e.queue /\ h = e.head /\ d = e.tail /\ c = e.count OBVIOUS
<1>4. h \in 0..ICMP_QSIZ /\ h \in IcmpPlaces /\ c \in 0..ICMP_QSIZ /\ c > 0
  BY <1>1, <1>2, <1>3 DEF IcmpEntries, IcmpPlaces
<1>5. h % ICMP_QSIZ = h BY <1>4, IcmpHeads
<1>6. RingSound(f, ICMP_QSIZ, h, d, c) BY <1>3, <1>5 DEF IcmpTypeOK, IcmpRing, IcmpHead
<1>7. PICK k, n : k = IcmpNextHead(h) /\ n = c - 1 OBVIOUS
<1>8. k \in 0..ICMP_QSIZ /\ k % ICMP_QSIZ = (h + 1) % ICMP_QSIZ BY <1>4, <1>7, IcmpHeads
<1>9. n \in 0..ICMP_QSIZ BY <1>1, <1>4, <1>7
<1>10. /\ u \in IcmpEntries /\ u.state = "USED" /\ u.queue = f /\ u.head = h /\ u.tail = d
       /\ u.count = c
  BY <1>2, <1>3 DEF IcmpEntries
<1>11. PICK x : x = [u EXCEPT !.head = k, !.count = n] OBVIOUS
<1>12. /\ x \in IcmpEntries /\ x.state = "USED" /\ x.queue = f /\ x.head = k /\ x.tail = d
       /\ x.count = n
  BY <1>8, <1>9, <1>10, <1>11 DEF IcmpEntries
<1>13. icmptab' = [icmptab EXCEPT ![s] = x] BY <1>7, <1>10, <1>11 DEF IcmpTake
<1>14. PICK m : m = (h + 1) % ICMP_QSIZ OBVIOUS
<1>15. /\ RingSound(f, ICMP_QSIZ, m, d, n)
       /\ Ring(f, ICMP_QSIZ, m, n) = Ring(f, ICMP_QSIZ, h, c) \ {f[h]}
       /\ f[h] \in Ring(f, ICMP_QSIZ, h, c)
  BY <1>1, <1>4, <1>6, <1>7, <1>14, RingTake
<1>16. IcmpHead(x) = m BY <1>8, <1>12, <1>14 DEF IcmpHead
<1>17. IcmpRing(x) BY <1>12, <1>15, <1>16 DEF IcmpRing
<1>18. /\ icmptab' \in [IcmpSlots -> IcmpEntries] /\ IcmpBecomes(s, x)
       /\ \A t \in IcmpSlots : IcmpRing(icmptab'[t])
  BY <1>12, <1>13, <1>17, IcmpSlotStep
<1>19. IcmpQueued(icmptab[s]) = Ring(f, ICMP_QSIZ, h, c)
  BY <1>2, <1>3, <1>5, IcmpQueuedRing DEF IcmpEntries, IcmpHead
<1>20. IcmpQueued(x) = IcmpQueued(icmptab[s]) \ {f[h]}
  <2>1. IcmpQueued(x) = Ring(f, ICMP_QSIZ, m, n)
    BY <1>12, <1>16, IcmpQueuedRing DEF IcmpEntries
  <2>2. QED BY <1>15, <1>19, <2>1
<1>21. f[h] \in IcmpBufs /\ f[h] # IcmpNil
  BY <1>15, <1>19, IcmpAnyHas DEF IcmpContents, IcmpPlaced, IcmpParted
<1>22. IcmpAtHead(u) = {f[h]} BY <1>4, <1>10, <1>21 DEF IcmpAtHead
<1>23. icmpfree' = icmpfree \cup {f[h]} BY <1>22 DEF IcmpTake, IcmpFreed
<1>24. IcmpContents'
  <2>1. IcmpPlaced(icmpfree, icmpout, icmpheld, icmptab) BY DEF IcmpContents
  <2>2. PICK new : new = icmptab' OBVIOUS
  <2>3. \A t \in IcmpSlots : t # s => new[t] = icmptab[t] BY <1>18, <2>2 DEF IcmpBecomes
  <2>4. PICK X : X = {f[h]} OBVIOUS
  <2>5. X \subseteq IcmpQueued(icmptab[s]) /\ IcmpQueued(new[s]) = IcmpQueued(icmptab[s]) \ X
    BY <1>15, <1>18, <1>19, <1>20, <2>2, <2>4 DEF IcmpBecomes
  <2>6. IcmpPlaced(icmpfree \cup X, icmpout, icmpheld, new) BY <2>1, <2>3, <2>5, IcmpTakeParted
  <2>7. QED BY <1>23, <2>2, <2>4, <2>6 DEF IcmpContents
<1>25. QED BY <1>12, <1>18, <1>24

\* The slot changes its state or its receiver, and keeps its queue.
IcmpSets(s, st, p) ==
    /\ icmptab[s].state # "FREE"
    /\ icmptab' = [icmptab EXCEPT ![s] = [icmptab[s] EXCEPT !.state = st, !.pid = p]]
    /\ UNCHANGED <<icmpfree, icmpout, icmpheld>>
LEMMA IcmpSetOK ==
    ASSUME IcmpTypeOK, IcmpContents, NEW s \in IcmpSlots, NEW st \in {"USED", "RECV"},
           NEW p \in IcmpAny, IcmpSets(s, st, p)
    PROVE  \E x : /\ icmptab' \in [IcmpSlots -> IcmpEntries] /\ IcmpBecomes(s, x)
                  /\ \A t \in IcmpSlots : IcmpRing(icmptab'[t])
                  /\ x.state = st /\ x.pid = p /\ x.count = icmptab[s].count /\ IcmpContents'
<1>1. PICK e : e = icmptab[s] OBVIOUS
<1>2. PICK x : e = icmptab[s] /\ x = [e EXCEPT !.state = st, !.pid = p] BY <1>1
<1>3. /\ e \in IcmpEntries /\ e.state # "FREE"
      /\ icmptab' = [icmptab EXCEPT ![s] = x] /\ UNCHANGED <<icmpfree, icmpout, icmpheld>>
  BY <1>2 DEF IcmpTypeOK, IcmpSets
<1>4. /\ x \in IcmpEntries /\ x.state = st /\ x.pid = p /\ x.queue = e.queue /\ x.head = e.head
      /\ x.tail = e.tail /\ x.count = e.count
  BY <1>2, <1>3 DEF IcmpEntries
<1>5. IcmpRing(x) BY <1>2, <1>3, <1>4 DEF IcmpTypeOK, IcmpRing, IcmpHead
<1>6. /\ icmptab' \in [IcmpSlots -> IcmpEntries] /\ IcmpBecomes(s, x)
      /\ \A t \in IcmpSlots : IcmpRing(icmptab'[t])
  BY <1>3, <1>4, <1>5, IcmpSlotStep
<1>7. IcmpQueued(x) = IcmpQueued(icmptab[s]) BY <1>2, <1>4 DEF IcmpQueued
<1>8. IcmpContents'
  <2>1. IcmpPlaced(icmpfree, icmpout, icmpheld, icmptab) BY DEF IcmpContents
  <2>2. PICK new : new = icmptab' OBVIOUS
  <2>3. \A t \in IcmpSlots : IcmpQueued(new[t]) = IcmpQueued(icmptab[t])
    BY <1>6, <1>7, <2>2 DEF IcmpBecomes
  <2>4. IcmpPlaced(icmpfree, icmpout, icmpheld, new) BY <2>1, <2>3 DEF IcmpPlaced, IcmpParted
  <2>5. QED BY <1>3, <2>2, <2>4 DEF IcmpContents
<1>9. QED BY <1>2, <1>4, <1>6, <1>8

\* Nobody is inside the slot: the others do not see its step.
LEMMA IcmpWaitersAside ==
    ASSUME IcmpWaiters, NEW s \in IcmpSlots, NEW x, IcmpBecomes(s, x), IcmpInside(s) = {},
           x.state # "RECV", UNCHANGED <<icmpproc, icmpmsg>>
    PROVE  IcmpWaiters'
<1>1. \A p \in IcmpProcs : icmpproc[p].slot # s BY DEF IcmpInside
<1>2. ASSUME NEW t \in IcmpSlots PROVE IcmpReceiver(t)'
  <2>1. IcmpReceiver(t) BY DEF IcmpWaiters
  <2>2. CASE t = s BY <2>2 DEF IcmpBecomes, IcmpReceiver
  <2>3. CASE t # s BY <2>1, <2>3 DEF IcmpBecomes, IcmpReceiver
  <2>4. QED BY <2>2, <2>3
<1>3. ASSUME NEW p \in IcmpProcs PROVE IcmpServed(p)'
  <2>1. IcmpServed(p) BY DEF IcmpWaiters
  <2>2. CASE icmpproc[p].slot \in IcmpSlots
    <3>1. icmptab'[icmpproc[p].slot] = icmptab[icmpproc[p].slot] BY <1>1, <2>2 DEF IcmpBecomes
    <3>2. QED BY <2>1, <2>2, <3>1 DEF IcmpServed
  <2>3. CASE icmpproc[p].slot \notin IcmpSlots BY <2>3 DEF IcmpServed, IcmpSlots
  <2>4. QED BY <2>2, <2>3
<1>4. QED BY <1>2, <1>3 DEF IcmpWaiters, IcmpSlots

\* A process that leaves icmp_recv leaves its slot in use.
LEMMA IcmpWaitersLeave ==
    ASSUME IcmpTypeOK, IcmpWaiters, NEW p \in IcmpProcs, NEW s \in IcmpSlots,
           icmpproc[p].slot = s, NEW x, IcmpBecomes(s, x), x.state = "USED",
           icmpproc' = [icmpproc EXCEPT ![p] = IcmpIdle],
           icmpmsg' = [icmpmsg EXCEPT ![p] = IcmpNil]
    PROVE  IcmpWaiters'
<1>1. /\ IcmpIdle.slot = -1 /\ -1 \notin IcmpSlots BY DEF IcmpIdle, IcmpSlots
<1>2. /\ icmpproc'[p].slot \notin IcmpSlots
      /\ \A q \in IcmpProcs : q # p => icmpproc'[q] = icmpproc[q] /\ icmpmsg'[q] = icmpmsg[q]
  BY <1>1 DEF IcmpTypeOK
<1>3. \A q \in IcmpProcs : q # p => icmpproc[q].slot # s BY DEF IcmpWaiters
<1>4. ASSUME NEW t \in IcmpSlots PROVE IcmpReceiver(t)'
  <2>1. IcmpReceiver(t) BY DEF IcmpWaiters
  <2>2. CASE t = s BY <2>2 DEF IcmpBecomes, IcmpReceiver
  <2>3. CASE t # s
    <3>1. icmptab'[t] = icmptab[t] BY <2>3 DEF IcmpBecomes
    <3>2. icmptab[t].state = "RECV" => icmptab[t].pid # p BY <2>1, <2>3 DEF IcmpReceiver
    <3>3. QED BY <1>2, <2>1, <3>1, <3>2 DEF IcmpReceiver
  <2>4. QED BY <2>2, <2>3
<1>5. ASSUME NEW q \in IcmpProcs PROVE IcmpServed(q)'
  <2>1. IcmpServed(q) BY DEF IcmpWaiters
  <2>2. CASE q # p /\ icmpproc[q].slot \in IcmpSlots
    <3>1. icmptab'[icmpproc[q].slot] = icmptab[icmpproc[q].slot] BY <1>3, <2>2 DEF IcmpBecomes
    <3>2. QED BY <1>2, <2>1, <2>2, <3>1 DEF IcmpServed
  <2>3. CASE q = p \/ icmpproc[q].slot \notin IcmpSlots BY <1>2, <2>3 DEF IcmpServed, IcmpSlots
  <2>4. QED BY <2>2, <2>3
<1>6. \A q, r \in IcmpProcs :
         icmpproc'[q].slot \in IcmpSlots /\ icmpproc'[q].slot = icmpproc'[r].slot => q = r
  BY <1>2 DEF IcmpWaiters
<1>7. QED BY <1>4, <1>5, <1>6 DEF IcmpWaiters, IcmpSlots

\* What has happened to the slots only grows.
LEMMA IcmpFaulted ==
    ASSUME icmpfault \in [IcmpSlots -> SUBSET IcmpFaults], NEW s \in IcmpSlots, NEW F,
           F \subseteq IcmpFaults, IcmpFails(s, F)
    PROVE  /\ icmpfault' \in [IcmpSlots -> SUBSET IcmpFaults]
           /\ IcmpSound' => IcmpSound /\ F = {}
<1>1. icmpfault' = [icmpfault EXCEPT ![s] = @ \cup F] BY DEF IcmpFails
<1>2. icmpfault' \in [IcmpSlots -> SUBSET IcmpFaults] BY <1>1
<1>3. \A t \in IcmpSlots : icmpfault'[t] = icmpfault[t] \cup (IF t = s THEN F ELSE {}) BY <1>1
<1>4. ASSUME IcmpSound' PROVE IcmpSound /\ F = {}
  <2>1. \A t \in IcmpSlots : icmpfault'[t] = {} BY <1>4 DEF IcmpSound, IcmpSlots
  <2>2. QED BY <1>3, <2>1 DEF IcmpSound
<1>5. QED BY <1>2, <1>4

\* A call that finds the slot in use and nobody inside.
LEMMA IcmpRecvOK ==
    ASSUME IcmpInv, NEW p \in IcmpProcs, NEW s \in IcmpSlots, icmp_recv(p, s)
    PROVE  IcmpInv'
<1>1. PICK e : e = icmptab[s] OBVIOUS
<1>2. PICK F : F = IcmpWhen(IcmpInside(s) # {}, "stolen") OBVIOUS
<1>3. icmpfault \in [IcmpSlots -> SUBSET IcmpFaults] BY DEF IcmpInv
<1>4. icmpproc[p].slot = -1 /\ e.state = "USED" /\ UNCHANGED <<icmpout, icmpheld>>
  BY <1>1 DEF icmp_recv, IcmpIdleProc
<1>5. CASE /\ e.count # 0 /\ IcmpTake(s, e) /\ UNCHANGED <<icmpproc, icmpmsg>>
           /\ IcmpFails(s, IcmpPast(e) \cup F)
  <2>1. PICK G : G = IcmpPast(e) \cup F OBVIOUS
  <2>2. G \subseteq IcmpFaults BY <1>2, <2>1 DEF IcmpFaults, IcmpPast, IcmpWhen
  <2>3. IcmpFails(s, G) BY <1>5, <2>1
  <2>4. /\ icmpfault' \in [IcmpSlots -> SUBSET IcmpFaults]
        /\ IcmpSound' => IcmpSound /\ G = {}
    BY <1>3, <2>2, <2>3, IcmpFaulted
  <2>5. ASSUME IcmpSound' PROVE IcmpGood'
    <3>1. IcmpTypeOK /\ IcmpContents /\ IcmpWaiters BY <2>4, <2>5 DEF IcmpInv, IcmpGood
    <3>2. e \in IcmpEntries BY <1>1, <3>1 DEF IcmpTypeOK
    <3>3. IcmpInside(s) = {} /\ ~(e.head >= ICMP_QSIZ)
      BY <1>2, <2>1, <2>4, <2>5 DEF IcmpPast, IcmpWhen
    <3>4. e.count > 0 /\ e.head < ICMP_QSIZ
      BY <1>5, <3>2, <3>3, IcmpNumbers DEF IcmpEntries
    <3>5. PICK u : u = [e EXCEPT !.state = "USED"] OBVIOUS
    <3>6. u = e BY <1>4, <3>2, <3>5 DEF IcmpEntries
    <3>7. IcmpTake(s, u) /\ e.state # "FREE" BY <1>4, <1>5, <3>6
    <3>8. PICK x : /\ icmptab' \in [IcmpSlots -> IcmpEntries] /\ IcmpBecomes(s, x)
                   /\ \A t \in IcmpSlots : IcmpRing(icmptab'[t])
                   /\ x.state = "USED" /\ IcmpContents'
      BY <1>1, <1>4, <3>1, <3>4, <3>5, <3>7, IcmpTakeOK
    <3>9. IcmpTypeOK' BY <1>4, <1>5, <3>1, <3>8 DEF IcmpTypeOK, IcmpSlots
    <3>10. x.state # "RECV" /\ UNCHANGED <<icmpproc, icmpmsg>> BY <1>5, <3>8
    <3>11. IcmpWaiters' BY <3>1, <3>3, <3>8, <3>10, IcmpWaitersAside
    <3>12. QED BY <3>8, <3>9, <3>11 DEF IcmpGood
  <2>6. QED BY <2>4, <2>5 DEF IcmpInv, IcmpSlots
<1>6. CASE /\ e.count = 0
           /\ icmptab' = [icmptab EXCEPT ![s].state = "RECV", ![s].pid = p]
           /\ icmpmsg' = [icmpmsg EXCEPT ![p] = IcmpNil]
           /\ icmpproc' = [icmpproc EXCEPT ![p] = [slot |-> s, timed |-> FALSE]]
           /\ IcmpFails(s, F) /\ icmpfree' = icmpfree
  <2>1. F \subseteq IcmpFaults BY <1>2 DEF IcmpFaults, IcmpWhen
  <2>2. /\ icmpfault' \in [IcmpSlots -> SUBSET IcmpFaults]
        /\ IcmpSound' => IcmpSound /\ F = {}
    BY <1>3, <1>6, <2>1, IcmpFaulted
  <2>3. ASSUME IcmpSound' PROVE IcmpGood'
    <3>1. IcmpTypeOK /\ IcmpContents /\ IcmpWaiters BY <2>2, <2>3 DEF IcmpInv, IcmpGood
    <3>2. \A q \in IcmpProcs : icmpproc[q].slot # s
      BY <1>2, <2>2, <2>3 DEF IcmpWhen, IcmpInside
    <3>3. PICK st \in {"USED", "RECV"}, d \in IcmpAny : st = "RECV" /\ d = p BY IcmpAnyHas
    <3>4. IcmpSets(s, st, d)
      <4>1. icmptab' = [icmptab EXCEPT ![s] = [icmptab[s] EXCEPT !.state = st, !.pid = d]]
        BY <1>6, <3>1, <3>3 DEF IcmpTypeOK
      <4>2. QED BY <1>1, <1>4, <1>6, <4>1 DEF IcmpSets
    <3>5. PICK x : /\ icmptab' \in [IcmpSlots -> IcmpEntries] /\ IcmpBecomes(s, x)
                   /\ \A t \in IcmpSlots : IcmpRing(icmptab'[t])
                   /\ x.state = st /\ x.pid = d /\ x.count = icmptab[s].count /\ IcmpContents'
      BY <3>1, <3>4, IcmpSetOK
    <3>6. /\ icmptab' \in [IcmpSlots -> IcmpEntries] /\ IcmpBecomes(s, x)
          /\ \A t \in IcmpSlots : IcmpRing(icmptab'[t])
          /\ x.state = "RECV" /\ x.pid = p /\ x.count = e.count /\ IcmpContents'
      BY <1>1, <3>3, <3>5
    <3>7. /\ icmpproc'[p].slot = s /\ icmpmsg'[p] = IcmpNil
          /\ \A q \in IcmpProcs : q # p => icmpproc'[q] = icmpproc[q] /\ icmpmsg'[q] = icmpmsg[q]
          /\ icmpproc' \in [IcmpProcs -> [slot : IcmpSlots \cup {-1}, timed : BOOLEAN]]
          /\ icmpmsg' \in [IcmpProcs -> IcmpMsgs]
      BY <1>6, <3>1 DEF IcmpTypeOK, IcmpMsgs
    <3>8. IcmpTypeOK' BY <1>4, <3>1, <3>6, <3>7 DEF IcmpTypeOK, IcmpSlots
    <3>9. icmpproc[p].slot \notin IcmpSlots BY <1>4 DEF IcmpSlots
    <3>10. ASSUME NEW t \in IcmpSlots PROVE IcmpReceiver(t)'
      <4>1. IcmpReceiver(t) BY <3>1 DEF IcmpWaiters
      <4>2. CASE t = s BY <1>6, <3>6, <3>7, <4>2 DEF IcmpBecomes, IcmpReceiver
      <4>3. CASE t # s
        <5>1. icmptab'[t] = icmptab[t] BY <3>6, <4>3 DEF IcmpBecomes
        <5>2. icmptab[t].state = "RECV" => icmptab[t].pid # p BY <3>9, <4>1 DEF IcmpReceiver
        <5>3. QED BY <3>7, <4>1, <5>1, <5>2 DEF IcmpReceiver
      <4>4. QED BY <4>2, <4>3
    <3>11. ASSUME NEW q \in IcmpProcs PROVE IcmpServed(q)'
      <4>1. IcmpServed(q) BY <3>1 DEF IcmpWaiters
      <4>2. CASE q = p
        <5>1. icmptab'[icmpproc'[q].slot] = x /\ icmpmsg'[q] = IcmpNil
          BY <3>6, <3>7, <4>2 DEF IcmpBecomes
        <5>2. QED BY <3>6, <4>2, <5>1 DEF IcmpServed, IcmpNil
      <4>3. CASE q # p /\ icmpproc[q].slot \in IcmpSlots
        <5>1. icmptab'[icmpproc[q].slot] = icmptab[icmpproc[q].slot]
          BY <3>2, <3>6, <4>3 DEF IcmpBecomes
        <5>2. QED BY <3>7, <4>1, <4>3, <5>1 DEF IcmpServed
      <4>4. CASE q # p /\ icmpproc[q].slot \notin IcmpSlots
        BY <3>7, <4>4 DEF IcmpServed, IcmpSlots
      <4>5. QED BY <4>2, <4>3, <4>4
    <3>12. \A q, r \in IcmpProcs :
              icmpproc'[q].slot \in IcmpSlots /\ icmpproc'[q].slot = icmpproc'[r].slot => q = r
      BY <3>1, <3>2, <3>7 DEF IcmpWaiters
    <3>13. IcmpWaiters' BY <3>10, <3>11, <3>12 DEF IcmpWaiters, IcmpSlots
    <3>14. QED BY <3>6, <3>8, <3>13 DEF IcmpGood
  <2>4. QED BY <2>2, <2>3 DEF IcmpInv, IcmpSlots
<1>7. QED BY <1>1, <1>2, <1>5, <1>6 DEF icmp_recv

LEMMA IcmpRecvRestOK ==
    ASSUME IcmpInv, NEW p \in IcmpProcs, icmp_recvRest(p)
    PROVE  IcmpInv'
<1>1. icmpfault \in [IcmpSlots -> SUBSET IcmpFaults] BY DEF IcmpInv
<1>2. PICK s : s = icmpproc[p].slot OBVIOUS
<1>3. PICK e : e = icmptab[s] OBVIOUS
<1>4. PICK u : u = [e EXCEPT !.state = "USED"] OBVIOUS
<1>5. /\ icmpproc' = [icmpproc EXCEPT ![p] = IcmpIdle]
      /\ icmpmsg' = [icmpmsg EXCEPT ![p] = IcmpNil] /\ UNCHANGED <<icmpout, icmpheld>> /\ s # -1
  BY <1>2 DEF icmp_recvRest
<1>6. ASSUME IcmpSound
      PROVE  /\ IcmpTypeOK /\ IcmpContents /\ IcmpWaiters
             /\ s \in IcmpSlots /\ e \in IcmpEntries /\ e.state # "FREE"
             /\ icmpmsg[p] = "OK" => e.count > 0
  <2>1. IcmpTypeOK /\ IcmpContents /\ IcmpWaiters BY <1>6 DEF IcmpInv, IcmpGood
  <2>2. s \in IcmpSlots BY <1>2, <1>5, <2>1 DEF IcmpTypeOK
  <2>3. e \in IcmpEntries BY <1>3, <2>1, <2>2 DEF IcmpTypeOK
  <2>4. QED BY <1>2, <1>3, <2>1, <2>2, <2>3 DEF IcmpWaiters, IcmpServed
<1>7. ASSUME s \in IcmpSlots, IcmpTypeOK, IcmpWaiters,
             \E x : /\ icmptab' \in [IcmpSlots -> IcmpEntries] /\ IcmpBecomes(s, x)
                    /\ \A t \in IcmpSlots : IcmpRing(icmptab'[t])
                    /\ x.state = "USED" /\ IcmpContents'
      PROVE  IcmpGood'
  <2>1. PICK x : /\ icmptab' \in [IcmpSlots -> IcmpEntries] /\ IcmpBecomes(s, x)
                 /\ \A t \in IcmpSlots : IcmpRing(icmptab'[t])
                 /\ x.state = "USED" /\ IcmpContents'
    BY <1>7
  <2>2. /\ icmpproc' \in [IcmpProcs -> [slot : IcmpSlots \cup {-1}, timed : BOOLEAN]]
        /\ icmpmsg' \in [IcmpProcs -> IcmpMsgs]
    BY <1>5, <1>7 DEF IcmpTypeOK, IcmpIdle, IcmpMsgs
  <2>3. IcmpTypeOK' BY <1>5, <1>7, <2>1, <2>2 DEF IcmpTypeOK, IcmpSlots
  <2>4. IcmpWaiters' BY <1>2, <1>5, <1>7, <2>1, IcmpWaitersLeave
  <2>5. QED BY <2>1, <2>3, <2>4 DEF IcmpGood
<1>8. CASE icmpmsg[p] = "OK" /\ IcmpTake(s, u) /\ IcmpFails(s, IcmpPast(u))
  <2>1. PICK F : F = IcmpPast(u) OBVIOUS
  <2>2. F \subseteq IcmpFaults BY <2>1 DEF IcmpFaults, IcmpPast, IcmpWhen
  <2>3. IcmpFails(s, F) BY <1>8, <2>1
  <2>4. CASE s \in IcmpSlots
    <3>1. /\ icmpfault' \in [IcmpSlots -> SUBSET IcmpFaults]
          /\ IcmpSound' => IcmpSound /\ F = {}
      BY <1>1, <2>2, <2>3, <2>4, IcmpFaulted
    <3>2. ASSUME IcmpSound' PROVE IcmpGood'
      <4>1. e \in IcmpEntries /\ e.state # "FREE" /\ e.count > 0
            /\ IcmpTypeOK /\ IcmpContents /\ IcmpWaiters
        BY <1>6, <1>8, <3>1, <3>2
      <4>2. u.head = e.head BY <1>4, <4>1 DEF IcmpEntries
      <4>3. ~(e.head >= ICMP_QSIZ) BY <2>1, <3>1, <3>2, <4>2 DEF IcmpPast, IcmpWhen
      <4>4. e.head < ICMP_QSIZ BY <4>1, <4>3, IcmpNumbers DEF IcmpEntries
      <4>5. \E x : /\ icmptab' \in [IcmpSlots -> IcmpEntries] /\ IcmpBecomes(s, x)
                   /\ \A t \in IcmpSlots : IcmpRing(icmptab'[t])
                   /\ x.state = "USED" /\ IcmpContents'
        BY <1>3, <1>4, <1>5, <1>8, <2>4, <4>1, <4>4, IcmpTakeOK
      <4>6. QED BY <1>7, <2>4, <4>1, <4>5
    <3>3. QED BY <3>1, <3>2 DEF IcmpInv, IcmpSlots
  <2>5. CASE s \notin IcmpSlots
    <3>1. ~IcmpSound BY <1>6, <2>5
    <3>2. icmpfault' = icmpfault BY <1>1, <2>3, <2>5 DEF IcmpFails
    <3>3. QED BY <1>1, <3>1, <3>2 DEF IcmpInv, IcmpSound, IcmpSlots
  <2>6. QED BY <2>4, <2>5
<1>9. CASE icmptab' = [icmptab EXCEPT ![s] = u] /\ UNCHANGED <<icmpfree, icmpfault>>
  <2>1. ASSUME IcmpSound PROVE IcmpGood'
    <3>1. /\ IcmpTypeOK /\ IcmpContents /\ IcmpWaiters
          /\ s \in IcmpSlots /\ e \in IcmpEntries /\ e.state # "FREE"
      BY <1>6, <2>1
    <3>2. PICK d \in IcmpAny : d = e.pid BY <3>1 DEF IcmpEntries
    <3>3. PICK st \in {"USED", "RECV"} : st = "USED" OBVIOUS
    <3>4. u = [e EXCEPT !.state = st, !.pid = d] BY <1>4, <3>1, <3>2, <3>3 DEF IcmpEntries
    <3>5. IcmpSets(s, st, d) BY <1>3, <1>5, <1>9, <3>1, <3>4 DEF IcmpSets
    <3>6. PICK x : /\ icmptab' \in [IcmpSlots -> IcmpEntries] /\ IcmpBecomes(s, x)
                   /\ \A t \in IcmpSlots : IcmpRing(icmptab'[t])
                   /\ x.state = st /\ x.pid = d /\ x.count = icmptab[s].count /\ IcmpContents'
      BY <3>1, <3>5, IcmpSetOK
    <3>7. QED BY <1>7, <3>1, <3>3, <3>6
  <2>2. QED BY <1>1, <1>9, <2>1 DEF IcmpInv, IcmpSound, IcmpSlots
<1>10. QED BY <1>2, <1>3, <1>4, <1>8, <1>9 DEF icmp_recvRest

\* A reply that finds its slot; what finds none is dropped with its buffer.
IcmpKeeps(s, e, b) ==
    /\ icmptab' = [icmptab EXCEPT ![s] =
          [e EXCEPT !.count = @ + 1, !.queue[e.tail] = b, !.tail = IcmpNextTail(@),
                    !.state = IF @ = "RECV" THEN "USED" ELSE @]]
    /\ icmpmsg' = IcmpTold(e)
    /\ icmpfree' = icmpfree \ {b}
LEMMA IcmpInputOK ==
    ASSUME IcmpInv, NEW s, NEW src, icmp_in(s, src)
    PROVE  IcmpInv'
<1>1. icmpfault \in [IcmpSlots -> SUBSET IcmpFaults] BY DEF IcmpInv
<1>2. PICK b \in icmpfree :
         \/ /\ s \in IcmpSlots /\ icmptab[s].state # "FREE" /\ IcmpKeeps(s, icmptab[s], b)
            /\ IcmpFails(s, IcmpWhen(icmptab[s].count >= ICMP_QSIZ, "overrun"))
         \/ UNCHANGED <<icmptab, icmpmsg, icmpfree, icmpfault>>
  BY Zenon DEF icmp_in, IcmpKeeps
<1>3. PICK e : e = icmptab[s] OBVIOUS
<1>4. UNCHANGED <<icmpout, icmpheld, icmpproc>> BY DEF icmp_in
<1>5. CASE UNCHANGED <<icmptab, icmpmsg, icmpfree, icmpfault>>
  BY <1>1, <1>4, <1>5 DEF IcmpInv, IcmpSound, IcmpGood, IcmpTypeOK, IcmpContents, IcmpWaiters,
     IcmpReceiver, IcmpServed, IcmpSlots
<1>6. CASE /\ s \in IcmpSlots /\ e.state # "FREE" /\ IcmpKeeps(s, e, b)
           /\ IcmpFails(s, IcmpWhen(e.count >= ICMP_QSIZ, "overrun"))
  <2>1. PICK F : F = IcmpWhen(e.count >= ICMP_QSIZ, "overrun") OBVIOUS
  <2>2. F \subseteq IcmpFaults BY <2>1 DEF IcmpFaults, IcmpWhen
  <2>3. s \in IcmpSlots /\ IcmpFails(s, F) BY <1>6, <2>1
  <2>4. /\ icmpfault' \in [IcmpSlots -> SUBSET IcmpFaults]
        /\ IcmpSound' => IcmpSound /\ F = {}
    BY <1>1, <2>2, <2>3, IcmpFaulted
  <2>5. ASSUME IcmpSound' PROVE IcmpGood'
    <3>1. IcmpGood BY <2>4, <2>5 DEF IcmpInv
    <3>2. e \in IcmpEntries BY <1>3, <2>3, <3>1 DEF IcmpGood, IcmpTypeOK
    <3>3. ~(e.count >= ICMP_QSIZ) BY <2>1, <2>4, <2>5 DEF IcmpWhen
    <3>4. e.count < ICMP_QSIZ BY <3>2, <3>3, IcmpNumbers DEF IcmpEntries
    <3>5. e.state # "FREE" /\ IcmpKeeps(s, e, b) BY <1>6
    <3>6. QED BY <1>3, <1>4, <2>3, <3>1, <3>4, <3>5, IcmpInOK, Zenon DEF IcmpKeeps
  <2>6. QED BY <2>4, <2>5 DEF IcmpInv, IcmpSlots
<1>7. QED BY <1>2, <1>3, <1>5, <1>6

LEMMA IcmpEmpty ==
    ASSUME NEW e \in IcmpEntries, e.count = 0
    PROVE  /\ IcmpQueued(e) = {}
           /\ e.tail = IcmpHead(e) => RingSound(e.queue, ICMP_QSIZ, IcmpHead(e), e.tail, 0)
<1>1. PICK f, h : f = e.queue /\ h = IcmpHead(e) OBVIOUS
<1>2. h \in 0..(ICMP_QSIZ - 1) BY <1>1, IcmpHeads DEF IcmpEntries, IcmpHead, IcmpPlaces
<1>3. RingSound(f, ICMP_QSIZ, h, h, 0) /\ Ring(f, ICMP_QSIZ, h, 0) = {}
  BY <1>2, IcmpNumbers, RingEmpty
<1>4. IcmpQueued(e) = Ring(f, ICMP_QSIZ, h, 0) BY <1>1, IcmpQueuedRing DEF IcmpEntries
<1>5. QED BY <1>1, <1>3, <1>4

\* A slot released with nobody inside gives back what its queue held.
LEMMA IcmpReleaseOK ==
    ASSUME IcmpInv, NEW p \in IcmpProcs, NEW s \in IcmpSlots, icmp_release(p, s)
    PROVE  IcmpInv'
<1>1. PICK e : e = icmptab[s] OBVIOUS
<1>2. PICK F : F = IcmpWhen(e.count > 0 /\ e.head + e.count > ICMP_QSIZ, "past")
                     \cup IcmpWhen(IcmpInside(s) # {}, "released")
  OBVIOUS
<1>3. IcmpFails(s, F) /\ UNCHANGED <<icmpout, icmpheld, icmpproc, icmpmsg>>
  BY <1>1, <1>2 DEF icmp_release
<1>4. icmpfault \in [IcmpSlots -> SUBSET IcmpFaults] BY DEF IcmpInv
<1>5. F \subseteq IcmpFaults BY <1>2 DEF IcmpFaults, IcmpWhen
<1>6. /\ icmpfault' \in [IcmpSlots -> SUBSET IcmpFaults]
      /\ IcmpSound' => IcmpSound /\ F = {}
  BY <1>3, <1>4, <1>5, IcmpFaulted
<1>7. ASSUME IcmpSound' PROVE IcmpGood'
  <2>1. IcmpTypeOK /\ IcmpContents /\ IcmpWaiters BY <1>6, <1>7 DEF IcmpInv, IcmpGood
  <2>2. IcmpInside(s) = {} BY <1>2, <1>6, <1>7 DEF IcmpWhen
  <2>3. e \in IcmpEntries BY <1>1, <2>1 DEF IcmpTypeOK
  <2>4. PICK x : x = [e EXCEPT !.state = "FREE", !.count = 0] OBVIOUS
  <2>5. 0 \in 0..ICMP_QSIZ BY IcmpNumbers
  <2>6. x \in IcmpEntries /\ x.state = "FREE" /\ x.count = 0 BY <2>3, <2>4, <2>5 DEF IcmpEntries
  <2>7. icmptab' = [icmptab EXCEPT ![s] = x]
    BY <1>1, <2>1, <2>3, <2>4 DEF icmp_release, IcmpTypeOK, IcmpEntries
  <2>8. IcmpRing(x) BY <2>6 DEF IcmpRing
  <2>9. /\ icmptab' \in [IcmpSlots -> IcmpEntries] /\ IcmpBecomes(s, x)
        /\ \A t \in IcmpSlots : IcmpRing(icmptab'[t])
    BY <2>1, <2>6, <2>7, <2>8, IcmpSlotStep
  <2>10. IcmpQueued(x) = {} BY <2>6, IcmpEmpty
  <2>11. IcmpContents'
    <3>1. IcmpPlaced(icmpfree, icmpout, icmpheld, icmptab) BY <2>1 DEF IcmpContents
    <3>2. PICK new, X : new = icmptab' /\ X = IcmpQueued(icmptab[s]) OBVIOUS
    <3>3. IcmpNil \notin X BY <3>1, <3>2, IcmpAnyHas DEF IcmpPlaced, IcmpParted
    <3>4. icmpfree' = icmpfree \cup X BY <3>2, <3>3 DEF icmp_release
    <3>5. /\ X \subseteq IcmpQueued(icmptab[s]) /\ IcmpQueued(new[s]) = IcmpQueued(icmptab[s]) \ X
          /\ \A t \in IcmpSlots : t # s => new[t] = icmptab[t]
      BY <2>9, <2>10, <3>2 DEF IcmpBecomes
    <3>6. IcmpPlaced(icmpfree \cup X, icmpout, icmpheld, new) BY <3>1, <3>5, IcmpTakeParted
    <3>7. QED BY <1>3, <3>2, <3>4, <3>6 DEF IcmpContents
  <2>12. x.state # "RECV" /\ UNCHANGED <<icmpproc, icmpmsg>> BY <1>3, <2>6
  <2>13. IcmpWaiters' BY <2>1, <2>2, <2>9, <2>12, IcmpWaitersAside
  <2>14. IcmpTypeOK' BY <1>3, <2>1, <2>9 DEF IcmpTypeOK, IcmpSlots
  <2>15. QED BY <2>11, <2>13, <2>14 DEF IcmpGood
<1>8. QED BY <1>6, <1>7 DEF IcmpInv, IcmpSlots

LEMMA IcmpRegisterOK ==
    ASSUME IcmpGood, NEW p \in IcmpProcs, NEW r \in IcmpHosts, icmp_register(p, r)
    PROVE  IcmpGood'
<1>1. IcmpTypeOK /\ IcmpContents /\ IcmpWaiters BY DEF IcmpGood
<1>2. PICK S : S = {s \in IcmpSlots : icmptab[s].state = "FREE"} OBVIOUS
<1>3. PICK s : s = IcmpFirst(S) OBVIOUS
<1>4. s \in IcmpSlots /\ icmptab[s].state = "FREE"
  <2>1. S # {} /\ S \subseteq IcmpSlots BY <1>2 DEF icmp_register
  <2>2. s \in S BY <1>3, <2>1, IcmpFirstIn
  <2>3. QED BY <1>2, <2>2
<1>5. PICK e \in IcmpEntries : e = icmptab[s] BY <1>1, <1>4 DEF IcmpTypeOK
<1>6. e.count = 0 BY <1>1, <1>4, <1>5 DEF IcmpTypeOK, IcmpRing
<1>7. PICK x : x = [e EXCEPT !.state = "USED", !.remip = r, !.count = 0, !.head = 0,
                             !.tail = 0, !.pid = IcmpNil]
  OBVIOUS
<1>8. 0 \in 0..ICMP_QSIZ /\ 0 \in IcmpPlaces BY IcmpNumbers DEF IcmpPlaces
<1>9. x \in IcmpEntries /\ x.state = "USED" /\ x.count = 0 /\ x.head = 0 /\ x.tail = 0
  <2>1. PICK y : y = [e EXCEPT !.state = "USED", !.remip = r, !.count = 0] OBVIOUS
  <2>2. x = [y EXCEPT !.head = 0, !.tail = 0, !.pid = IcmpNil] BY <1>7, <2>1
  <2>3. y \in IcmpEntries /\ y.state = "USED" /\ y.count = 0
    BY <1>5, <1>8, <2>1, IcmpAnyHas DEF IcmpEntries
  <2>4. QED BY <1>8, <2>2, <2>3, IcmpAnyHas DEF IcmpEntries
<1>10. icmptab' = [icmptab EXCEPT ![s] = x] BY <1>2, <1>3, <1>5, <1>7 DEF icmp_register
<1>11. IcmpQueued(x) = {} /\ IcmpQueued(icmptab[s]) = {} BY <1>5, <1>6, <1>9, IcmpEmpty
<1>12. IcmpRing(x)
  <2>1. IcmpHead(x) = 0 BY <1>8, <1>9, IcmpHeads DEF IcmpHead
  <2>2. QED BY <1>9, <2>1, IcmpEmpty DEF IcmpRing
<1>13. /\ icmptab' \in [IcmpSlots -> IcmpEntries] /\ IcmpBecomes(s, x)
       /\ \A t \in IcmpSlots : IcmpRing(icmptab'[t])
  BY <1>1, <1>4, <1>9, <1>10, <1>12, IcmpSlotStep
<1>14. UNCHANGED <<icmpout, icmpheld, icmpproc, icmpmsg, icmpfree>> BY DEF icmp_register
<1>15. IcmpContents'
  <2>1. IcmpPlaced(icmpfree, icmpout, icmpheld, icmptab) BY <1>1 DEF IcmpContents
  <2>2. PICK new : new = icmptab' OBVIOUS
  <2>3. \A t \in IcmpSlots : IcmpQueued(new[t]) = IcmpQueued(icmptab[t])
    BY <1>11, <1>13, <2>2 DEF IcmpBecomes
  <2>4. IcmpPlaced(icmpfree, icmpout, icmpheld, new) BY <2>1, <2>3 DEF IcmpPlaced, IcmpParted
  <2>5. QED BY <1>14, <2>2, <2>4 DEF IcmpContents
<1>16. IcmpInside(s) = {}
  <2>1. \A q \in IcmpProcs : icmpproc[q].slot # s
    BY <1>1, <1>4 DEF IcmpWaiters, IcmpServed
  <2>2. QED BY <2>1 DEF IcmpInside
<1>17. x.state # "RECV" /\ UNCHANGED <<icmpproc, icmpmsg>> BY <1>9, <1>14
<1>18. IcmpWaiters' BY <1>1, <1>4, <1>13, <1>16, <1>17, IcmpWaitersAside
<1>19. IcmpTypeOK' BY <1>1, <1>13, <1>14 DEF IcmpTypeOK, IcmpSlots
<1>20. QED BY <1>15, <1>18, <1>19 DEF IcmpGood

LEMMA IcmpTimerOK ==
    ASSUME IcmpGood, NEW p \in IcmpProcs, IcmpTimer(p)
    PROVE  IcmpGood'
<1>1. IcmpTypeOK /\ IcmpContents /\ IcmpWaiters BY DEF IcmpGood
<1>2. /\ icmpproc' = [icmpproc EXCEPT ![p].timed = TRUE]
      /\ UNCHANGED <<icmptab, icmpfree, icmpout, icmpheld, icmpmsg>>
  BY DEF IcmpTimer
<1>3. /\ icmpproc' \in [IcmpProcs -> [slot : IcmpSlots \cup {-1}, timed : BOOLEAN]]
      /\ \A q \in IcmpProcs : icmpproc'[q].slot = icmpproc[q].slot
  BY <1>1, <1>2 DEF IcmpTypeOK
<1>4. IcmpTypeOK' BY <1>1, <1>2, <1>3 DEF IcmpTypeOK, IcmpSlots
<1>5. IcmpContents' BY <1>1, <1>2 DEF IcmpContents, IcmpSlots
<1>6. IcmpWaiters' BY <1>1, <1>2, <1>3 DEF IcmpWaiters, IcmpReceiver, IcmpServed, IcmpSlots
<1>7. QED BY <1>4, <1>5, <1>6 DEF IcmpGood

\* A step that moves buffers between hands, output queue and free list only.
LEMMA IcmpMovedOK ==
    ASSUME IcmpGood, IcmpPlaced(icmpfree', icmpout', icmpheld', icmptab),
           UNCHANGED <<icmptab, icmpproc, icmpmsg>>
    PROVE  IcmpGood'
<1>1. IcmpTypeOK /\ IcmpWaiters BY DEF IcmpGood
<1>2. IcmpWaiters' BY <1>1 DEF IcmpWaiters, IcmpReceiver, IcmpServed, IcmpSlots
<1>3. IcmpTypeOK' BY <1>1 DEF IcmpTypeOK, IcmpSlots
<1>4. IcmpContents' BY DEF IcmpContents
<1>5. QED BY <1>2, <1>3, <1>4 DEF IcmpGood

\* The reply that is made from a free buffer, whatever the caller holds.
LEMMA IcmpRepliedOK ==
    ASSUME NEW F, NEW held, IcmpPlaced(F, icmpout, held, icmptab), IcmpReplied(F)
    PROVE  IcmpPlaced(icmpfree', icmpout', held, icmptab)
<1>1. PICK b \in F : \/ icmpout' = Append(icmpout, b) /\ icmpfree' = F \ {b}
                     \/ icmpout' = icmpout /\ icmpfree' = F
  BY DEF IcmpReplied
<1>2. PICK q, G : q = icmpout' /\ G = icmpfree' OBVIOUS
<1>3. CASE q = Append(icmpout, b) /\ G = F \ {b}
  <2>1. IcmpPlaced(F \ {b}, Append(icmpout, b), held, icmptab) BY <1>1, IcmpQueue
  <2>2. QED BY <1>2, <1>3, <2>1
<1>4. CASE q = icmpout /\ G = F BY <1>2, <1>4
<1>5. QED BY <1>1, <1>2, <1>3, <1>4

LEMMA IcmpRequestOK ==
    ASSUME IcmpGood, NEW c \in IcmpHolders, IcmpRequest(c)
    PROVE  IcmpGood'
<1>1. IcmpPlaced(icmpfree, icmpout, icmpheld, icmptab) /\ icmpheld[c] = IcmpNil
  BY DEF IcmpGood, IcmpContents, IcmpRequest, IcmpIdleProc
<1>2. PICK b \in icmpfree :
         /\ icmpheld' = [icmpheld EXCEPT ![c] = b]
         /\ \/ IcmpReplied(icmpfree \ {b})
            \/ icmpfree' = icmpfree \ {b} /\ icmpout' = icmpout
  BY DEF IcmpRequest
<1>3. PICK F, held : F = icmpfree \ {b} /\ held = icmpheld' OBVIOUS
<1>4. IcmpPlaced(F, icmpout, held, icmptab) BY <1>1, <1>2, <1>3, IcmpGrab
<1>5. IcmpReplied(F) \/ (icmpfree' = F /\ icmpout' = icmpout) BY <1>2, <1>3
<1>6. IcmpPlaced(icmpfree', icmpout', held, icmptab) BY <1>4, <1>5, IcmpRepliedOK
<1>7. UNCHANGED <<icmptab, icmpproc, icmpmsg>> BY DEF IcmpRequest
<1>8. QED BY <1>3, <1>6, <1>7, IcmpMovedOK

LEMMA IcmpRequestRestOK ==
    ASSUME IcmpGood, NEW c \in IcmpHolders, IcmpRequestRest(c)
    PROVE  IcmpGood'
<1>1. PICK F, held : F = icmpfree /\ held = icmpheld OBVIOUS
<1>2. IcmpPlaced(F, icmpout, held, icmptab) /\ IcmpReplied(F) /\ icmpheld' = held
  BY <1>1 DEF IcmpGood, IcmpContents, IcmpRequestRest
<1>3. IcmpPlaced(icmpfree', icmpout', held, icmptab) BY <1>2, IcmpRepliedOK
<1>4. UNCHANGED <<icmptab, icmpproc, icmpmsg>> BY DEF IcmpRequestRest
<1>5. QED BY <1>2, <1>3, <1>4, IcmpMovedOK

LEMMA IcmpHandsOK ==
    ASSUME IcmpGood, \/ IcmpSent
                     \/ \E c \in IcmpHolders : IcmpDone(c)
                     \/ \E p \in IcmpProcs : IcmpIdleProc(p) /\ IcmpLeaves(p)
    PROVE  IcmpGood'
<1>1. IcmpPlaced(icmpfree, icmpout, icmpheld, icmptab) BY DEF IcmpGood, IcmpContents
<1>2. CASE IcmpSent
  <2>1. "ipout" \in IcmpHolders BY DEF IcmpHolders
  <2>2. /\ icmpout # << >> /\ icmpheld["ipout"] = IcmpNil /\ icmpout' = Tail(icmpout)
        /\ icmpheld' = [icmpheld EXCEPT !["ipout"] = Head(icmpout)] /\ icmpfree' = icmpfree
        /\ UNCHANGED <<icmptab, icmpproc, icmpmsg>>
    BY <1>2 DEF IcmpSent
  <2>3. IcmpPlaced(icmpfree', icmpout', icmpheld', icmptab) BY <1>1, <2>1, <2>2, IcmpPull
  <2>4. QED BY <2>2, <2>3, IcmpMovedOK
<1>3. ASSUME NEW c \in IcmpHolders, IcmpDone(c) PROVE IcmpGood'
  <2>1. /\ icmpheld[c] # IcmpNil /\ icmpfree' = icmpfree \cup {icmpheld[c]} /\ icmpout' = icmpout
        /\ icmpheld' = [icmpheld EXCEPT ![c] = IcmpNil] /\ UNCHANGED <<icmptab, icmpproc, icmpmsg>>
    BY <1>3 DEF IcmpDone
  <2>2. IcmpPlaced(icmpfree', icmpout', icmpheld', icmptab) BY <1>1, <2>1, IcmpGive
  <2>3. QED BY <2>1, <2>2, IcmpMovedOK
<1>4. ASSUME NEW p \in IcmpProcs, IcmpIdleProc(p), IcmpLeaves(p) PROVE IcmpGood'
  <2>1. p \in IcmpHolders /\ icmpheld[p] = IcmpNil BY <1>4 DEF IcmpHolders, IcmpIdleProc
  <2>2. PICK b \in icmpfree : icmpfree' = icmpfree \ {b} /\ icmpheld' = [icmpheld EXCEPT ![p] = b]
    BY <1>4 DEF IcmpLeaves
  <2>3. icmpout' = icmpout /\ UNCHANGED <<icmptab, icmpproc, icmpmsg>> BY <1>4 DEF IcmpLeaves
  <2>4. IcmpPlaced(icmpfree', icmpout', icmpheld', icmptab) BY <1>1, <2>1, <2>2, <2>3, IcmpGrab
  <2>5. QED BY <2>3, <2>4, IcmpMovedOK
<1>5. QED BY <1>2, <1>3, <1>4

\* A message of somebody else: the wait ends, and what is OK is recorded.
LEMMA IcmpStrayOK ==
    ASSUME IcmpInv, NEW p \in IcmpProcs, IcmpStrayMessage(p)
    PROVE  IcmpInv'
<1>1. PICK m \in {"OK", "other"} :
         /\ icmpmsg' = [icmpmsg EXCEPT ![p] = m]
         /\ IcmpFails(icmpproc[p].slot, IcmpWhen(m = "OK", "stray"))
  BY DEF IcmpStrayMessage
<1>2. PICK s, F : s = icmpproc[p].slot /\ F = IcmpWhen(m = "OK", "stray") OBVIOUS
<1>3. F \subseteq IcmpFaults /\ (F = {} => m = "other") BY <1>2 DEF IcmpWhen, IcmpFaults
<1>4. icmpfault \in [IcmpSlots -> SUBSET IcmpFaults] /\ IcmpFails(s, F) BY <1>1, <1>2 DEF IcmpInv
<1>5. UNCHANGED <<icmptab, icmpfree, icmpout, icmpheld, icmpproc>> BY DEF IcmpStrayMessage
<1>6. CASE s \in IcmpSlots
  <2>1. /\ icmpfault' \in [IcmpSlots -> SUBSET IcmpFaults]
        /\ IcmpSound' => IcmpSound /\ F = {}
    BY <1>3, <1>4, <1>6, IcmpFaulted
  <2>2. ASSUME IcmpSound' PROVE IcmpGood'
    <3>1. IcmpGood /\ icmpmsg' = [icmpmsg EXCEPT ![p] = "other"] BY <1>1, <1>3, <2>1, <2>2 DEF IcmpInv
    <3>2. /\ icmpmsg' \in [IcmpProcs -> IcmpMsgs]
          /\ \A q \in IcmpProcs : icmpmsg'[q] = icmpmsg[q] \/ icmpmsg'[q] = "other"
      BY <3>1 DEF IcmpGood, IcmpTypeOK, IcmpMsgs
    <3>3. IcmpTypeOK' BY <1>5, <3>1, <3>2 DEF IcmpGood, IcmpTypeOK, IcmpSlots
    <3>4. IcmpContents' BY <1>5, <3>1 DEF IcmpGood, IcmpContents
    <3>5. IcmpWaiters'
      <4>1. IcmpWaiters BY <3>1 DEF IcmpGood
      <4>2. \A t \in IcmpSlots : IcmpReceiver(t)' BY <1>5, <4>1 DEF IcmpWaiters, IcmpReceiver
      <4>3. \A q \in IcmpProcs : IcmpServed(q)'
        BY <1>5, <3>2, <4>1 DEF IcmpWaiters, IcmpServed, IcmpNil, IcmpSlots
      <4>4. QED BY <1>5, <4>1, <4>2, <4>3 DEF IcmpWaiters, IcmpSlots
    <3>6. QED BY <3>3, <3>4, <3>5 DEF IcmpGood
  <2>3. QED BY <2>1, <2>2 DEF IcmpInv, IcmpSlots
<1>7. CASE s \notin IcmpSlots
  <2>1. ~IcmpSound
    <3>1. IcmpSound => s \in IcmpSlots \cup {-1} BY <1>2 DEF IcmpInv, IcmpGood, IcmpTypeOK
    <3>2. QED BY <1>2, <1>7, <3>1 DEF IcmpStrayMessage
  <2>2. icmpfault' = icmpfault BY <1>4, <1>7 DEF IcmpFails
  <2>3. QED BY <1>4, <2>1, <2>2 DEF IcmpInv, IcmpSound, IcmpSlots
<1>8. QED BY <1>6, <1>7

LEMMA IcmpInit == icmp_init => IcmpInv
<1> SUFFICES ASSUME icmp_init PROVE IcmpInv OBVIOUS
<1>1. PICK e : e = IcmpFreeSlot OBVIOUS
<1>2. /\ icmptab = [s \in IcmpSlots |-> e] /\ icmpfree = IcmpBufs /\ icmpout = << >>
      /\ icmpheld = [c \in IcmpHolders |-> IcmpNil]
      /\ icmpproc = [p \in IcmpProcs |-> IcmpIdle] /\ icmpmsg = [p \in IcmpProcs |-> IcmpNil]
      /\ icmpfault = [s \in IcmpSlots |-> {}]
  BY <1>1 DEF icmp_init
<1>3. e \in IcmpEntries /\ e.state = "FREE" /\ e.count = 0
  <2>1. 0 \in 0..ICMP_QSIZ /\ 0 \in IcmpPlaces BY IcmpNumbers DEF IcmpPlaces
  <2>2. QED BY <1>1, <2>1, IcmpAnyHas DEF IcmpFreeSlot, IcmpEntries, IcmpPlaces
<1>4. IcmpIdle \in [slot : IcmpSlots \cup {-1}, timed : BOOLEAN] /\ IcmpIdle.slot = -1
      /\ -1 \notin IcmpSlots
  BY DEF IcmpIdle, IcmpSlots
<1>5. IcmpTypeOK
  <2>1. icmpmsg \in [IcmpProcs -> IcmpMsgs] BY <1>2 DEF IcmpMsgs
  <2>2. icmpproc \in [IcmpProcs -> [slot : IcmpSlots \cup {-1}, timed : BOOLEAN]]
    BY <1>2, <1>4
  <2>3. icmptab \in [IcmpSlots -> IcmpEntries] /\ \A s \in IcmpSlots : IcmpRing(icmptab[s])
    BY <1>2, <1>3 DEF IcmpRing
  <2>4. QED BY <2>1, <2>2, <2>3 DEF IcmpTypeOK
<1>6. IcmpContents
  <2>1. icmpout \in Seq(IcmpBufs) /\ NoDup(icmpout) /\ \A x : ~OnQueue(icmpout, x)
    BY <1>2 DEF NoDup, OnQueue
  <2>2. \A x : x \notin IcmpAway(icmpout, icmpheld) BY <1>2, <2>1, IcmpAwayIs
  <2>3. IcmpHands(icmpout, icmpheld) BY <1>2, <2>1 DEF IcmpHands
  <2>4. \A s \in IcmpSlots : IcmpQueued(icmptab[s]) = {} BY <1>2, <1>3, IcmpEmpty
  <2>5. IcmpParted(icmpfree, IcmpAway(icmpout, icmpheld), icmptab)
    BY <1>2, <2>2, <2>4 DEF IcmpParted
  <2>6. QED BY <2>3, <2>5 DEF IcmpContents, IcmpPlaced
<1>7. IcmpWaiters BY <1>2, <1>3, <1>4 DEF IcmpWaiters, IcmpReceiver, IcmpServed
<1>8. QED BY <1>2, <1>5, <1>6, <1>7 DEF IcmpInv, IcmpGood

LEMMA IcmpNextOK == IcmpInv /\ [IcmpNext]_icmpvars => IcmpInv'
<1> SUFFICES ASSUME IcmpInv, [IcmpNext]_icmpvars PROVE IcmpInv' OBVIOUS
<1>1. ASSUME icmpfault' = icmpfault, IcmpGood => IcmpGood' PROVE IcmpInv'
  BY <1>1 DEF IcmpInv, IcmpSound, IcmpSlots
<1>2. ASSUME NEW c \in IcmpHolders, IcmpRequest(c) \/ IcmpRequestRest(c) PROVE IcmpInv'
  <2>1. icmpfault' = icmpfault BY <1>2 DEF IcmpRequest, IcmpRequestRest
  <2>2. QED BY <1>1, <1>2, <2>1, IcmpRequestOK, IcmpRequestRestOK
<1>3. ASSUME \/ IcmpSent
             \/ \E c \in IcmpHolders : IcmpDone(c)
             \/ \E p \in IcmpProcs : IcmpIdleProc(p) /\ IcmpLeaves(p)
      PROVE  IcmpInv'
  <2>1. icmpfault' = icmpfault BY <1>3 DEF IcmpSent, IcmpDone, IcmpLeaves
  <2>2. QED BY <1>1, <1>3, <2>1, IcmpHandsOK
<1>4. ASSUME NEW s, NEW src, icmp_in(s, src) PROVE IcmpInv' BY <1>4, IcmpInputOK
<1>5. ASSUME NEW p \in IcmpProcs, NEW h \in IcmpHosts, icmp_register(p, h) PROVE IcmpInv'
  <2>1. icmpfault' = icmpfault BY <1>5 DEF icmp_register
  <2>2. QED BY <1>1, <1>5, <2>1, IcmpRegisterOK
<1>6. ASSUME NEW p \in IcmpProcs, NEW s \in IcmpSlots, icmp_recv(p, s) PROVE IcmpInv'
  BY <1>6, IcmpRecvOK
<1>7. ASSUME NEW p \in IcmpProcs, NEW s \in IcmpSlots, icmp_release(p, s) PROVE IcmpInv'
  BY <1>7, IcmpReleaseOK
<1>8. ASSUME NEW p \in IcmpProcs, IcmpTimer(p) PROVE IcmpInv'
  <2>1. icmpfault' = icmpfault BY <1>8 DEF IcmpTimer
  <2>2. QED BY <1>1, <1>8, <2>1, IcmpTimerOK
<1>9. ASSUME NEW p \in IcmpProcs, icmp_recvRest(p) PROVE IcmpInv' BY <1>9, IcmpRecvRestOK
<1>10. ASSUME NEW p \in IcmpProcs, icmp_send(p) \/ IcmpStrayMessage(p) PROVE IcmpInv'
  <2>1. p \in IcmpHolders BY DEF IcmpHolders
  <2>2. QED BY <1>2, <1>3, <1>10, <2>1, IcmpStrayOK, Zenon DEF icmp_send
<1>11. CASE UNCHANGED icmpvars
  <2>1. UNCHANGED <<icmptab, icmpfree, icmpout, icmpheld, icmpproc, icmpmsg, icmpfault>>
    BY <1>11 DEF icmpvars
  <2>2. QED BY <2>1 DEF IcmpInv, IcmpSound, IcmpGood, IcmpTypeOK, IcmpContents, IcmpWaiters,
       IcmpReceiver, IcmpServed, IcmpSlots
<1>12. "netin" \in IcmpHolders BY DEF IcmpHolders
<1>13. QED BY <1>2, <1>3, <1>4, <1>5, <1>6, <1>7, <1>8, <1>9, <1>10, <1>11, <1>12,
   Zenon DEF IcmpNext

\* Counting: the output queue by its places, the queues by slot and place.
LEMMA IcmpOutCount ==
    ASSUME NEW S, NEW q \in Seq(S), NoDup(q)
    PROVE  IsFiniteSet(ToSet(q)) /\ Cardinality(ToSet(q)) = Len(q)
<1>1. PICK n \in Nat : n = Len(q) OBVIOUS
<1> DEFINE m == [i \in 1..n |-> q[i]]
<1>2. \A x : x \in ToSet(q) <=> \E i \in 1..n : q[i] = x BY <1>1, IcmpOutIs DEF OnQueue
<1>3. m \in Bijection(1..n, ToSet(q))
  <2>1. m \in [1..n -> ToSet(q)] BY <1>2
  <2>2. IsInjective(m) BY <1>1 DEF IsInjective, NoDup
  <2>3. \A x \in ToSet(q) : \E i \in 1..n : m[i] = x BY <1>2
  <2>4. QED BY <2>1, <2>2, <2>3 DEF Bijection, Injection, Surjection
<1>4. ExistsBijection(1..n, ToSet(q)) BY <1>3 DEF ExistsBijection
<1>5. IsFiniteSet(1..n) /\ Cardinality(1..n) = n
  <2>1. IsFiniteSet(1..n) /\ Cardinality(1..n) = IF 1 > n THEN 0 ELSE n - 1 + 1 BY FS_Interval
  <2>2. (IF 1 > n THEN 0 ELSE n - 1 + 1) = n OBVIOUS
  <2>3. QED BY <2>1, <2>2
<1>6. QED BY <1>1, <1>4, <1>5, FS_Bijection, Zenon

IcmpStored == UNION {IcmpQueued(icmptab[s]) : s \in IcmpSlots}
IcmpFilled == {x \in IcmpSlots \X (1..ICMP_QSIZ) : x[2] <= icmptab[x[1]].count}
IcmpAt(x) == icmptab[x[1]].queue[(IcmpHead(icmptab[x[1]]) + (x[2] - 1)) % ICMP_QSIZ]
LEMMA IcmpStoredCount ==
    ASSUME IcmpGood, IsFiniteSet(IcmpStored)
    PROVE  Cardinality(IcmpStored) = Cardinality(IcmpFilled)
<1>1. IcmpTypeOK /\ IcmpContents BY DEF IcmpGood
<1>2. \A b : b \in IcmpStored <=> \E s \in IcmpSlots : b \in IcmpQueued(icmptab[s]) BY DEF IcmpStored
<1>3. ASSUME NEW s \in IcmpSlots
      PROVE  /\ icmptab[s].count \in Nat /\ icmptab[s].count <= ICMP_QSIZ
             /\ \A b : b \in IcmpQueued(icmptab[s]) <=>
                   \E j \in 1..icmptab[s].count : b = IcmpAt(<<s, j>>)
             /\ \A j, k \in 1..icmptab[s].count : IcmpAt(<<s, j>>) = IcmpAt(<<s, k>>) => j = k
  <2>1. PICK e : e = icmptab[s] OBVIOUS
  <2>2. PICK f, h, c : f = e.queue /\ h = IcmpHead(e) /\ c = e.count OBVIOUS
  <2>3. e \in IcmpEntries /\ IcmpRing(e) BY <1>1, <2>1 DEF IcmpTypeOK
  <2>4. PICK N \in Nat : N = ICMP_QSIZ BY IcmpNumbers
  <2>5. c \in 0..N BY <2>2, <2>3, <2>4 DEF IcmpEntries
  <2>6. IcmpQueued(e) = Ring(f, N, h, c) BY <2>2, <2>3, <2>4, IcmpQueuedRing DEF IcmpEntries
  <2>7. \A j : IcmpAt(<<s, j>>) = f[(h + (j - 1)) % N] BY <2>1, <2>2, <2>4 DEF IcmpAt
  <2>8. \A b : b \in Ring(f, N, h, c) <=> \E i \in 0..(c - 1) : b = f[(h + i) % N] BY DEF Ring
  <2>9. \A i \in 0..(c - 1) : i + 1 \in 1..c /\ (i + 1) - 1 = i BY <2>5
  <2>10. \A j \in 1..c : j - 1 \in 0..(c - 1) BY <2>5
  <2>11. ASSUME NEW b
         PROVE  b \in Ring(f, N, h, c) <=> \E j \in 1..c : b = IcmpAt(<<s, j>>)
    <3>1. ASSUME NEW i \in 0..(c - 1), b = f[(h + i) % N]
          PROVE  \E j \in 1..c : b = IcmpAt(<<s, j>>)
      <4>1. PICK j \in 1..c : j = i + 1 /\ j - 1 = i BY <2>9
      <4>2. b = IcmpAt(<<s, j>>) BY <2>7, <3>1, <4>1
      <4>3. QED BY <4>2
    <3>2. ASSUME NEW j \in 1..c, b = IcmpAt(<<s, j>>)
          PROVE  \E i \in 0..(c - 1) : b = f[(h + i) % N]
      BY <2>7, <2>10, <3>2, Zenon
    <3>3. QED BY <2>8, <3>1, <3>2
  <2>12. \A i, k \in 0..(c - 1) : f[(h + i) % N] = f[(h + k) % N] => i = k
    BY <2>2, <2>3, <2>4, <2>5 DEF IcmpRing, RingSound
  <2>13. \A j, k \in 1..c : IcmpAt(<<s, j>>) = IcmpAt(<<s, k>>) => j = k
    <3> SUFFICES ASSUME NEW j \in 1..c, NEW k \in 1..c, IcmpAt(<<s, j>>) = IcmpAt(<<s, k>>)
                 PROVE  j = k
      OBVIOUS
    <3>1. j - 1 = k - 1 BY <2>7, <2>10, <2>12
    <3>2. QED BY <2>5, <3>1
  <2>14. QED BY <2>1, <2>2, <2>4, <2>5, <2>6, <2>11, <2>13
<1>4. \A x \in IcmpFilled : /\ x[1] \in IcmpSlots /\ x[2] \in 1..icmptab[x[1]].count
                            /\ x = <<x[1], x[2]>>
  BY <1>3 DEF IcmpFilled
<1>5. ASSUME NEW s \in IcmpSlots, NEW j \in 1..icmptab[s].count PROVE <<s, j>> \in IcmpFilled
  <2>1. j \in 1..ICMP_QSIZ /\ j <= icmptab[s].count BY <1>3, IcmpNumbers
  <2>2. QED BY <2>1 DEF IcmpFilled
<1> DEFINE m == [x \in IcmpFilled |-> IcmpAt(x)]
<1>6. \A x \in IcmpFilled : IcmpAt(x) \in IcmpQueued(icmptab[x[1]])
  <2> TAKE x \in IcmpFilled
  <2>1. PICK s, j : s = x[1] /\ j = x[2] OBVIOUS
  <2>2. x = <<s, j>> /\ s \in IcmpSlots /\ j \in 1..icmptab[s].count BY <1>4, <2>1
  <2>3. IcmpAt(<<s, j>>) \in IcmpQueued(icmptab[s]) BY <1>3, <2>2
  <2>4. QED BY <2>1, <2>2, <2>3
<1>7. ASSUME NEW x \in IcmpFilled, NEW y \in IcmpFilled, IcmpAt(x) = IcmpAt(y) PROVE x = y
  <2>1. x[1] = y[1]
    BY <1>1, <1>4, <1>6, <1>7 DEF IcmpContents, IcmpPlaced, IcmpParted
  <2>2. PICK s, j, k : s = x[1] /\ j = x[2] /\ k = y[2] OBVIOUS
  <2>3. /\ x = <<s, j>> /\ y = <<s, k>> /\ s \in IcmpSlots
        /\ j \in 1..icmptab[s].count /\ k \in 1..icmptab[s].count
    BY <1>4, <2>1, <2>2
  <2>4. j = k BY <1>3, <1>7, <2>3
  <2>5. QED BY <2>3, <2>4
<1>8. m \in Bijection(IcmpFilled, IcmpStored)
  <2>1. m \in [IcmpFilled -> IcmpStored] BY <1>2, <1>4, <1>6
  <2>2. IsInjective(m) BY <1>7 DEF IsInjective
  <2>3. ASSUME NEW b \in IcmpStored PROVE \E x \in IcmpFilled : m[x] = b
    <3>1. PICK s \in IcmpSlots : b \in IcmpQueued(icmptab[s]) BY <1>2
    <3>2. PICK j \in 1..icmptab[s].count : b = IcmpAt(<<s, j>>) BY <1>3, <3>1
    <3>3. PICK x \in IcmpFilled : x = <<s, j>> BY <1>5
    <3>4. QED BY <3>2, <3>3
  <2>4. QED BY <2>1, <2>2, <2>3 DEF Bijection, Injection, Surjection
<1>9. ExistsBijection(IcmpStored, IcmpFilled)
  <2>1. ExistsBijection(IcmpFilled, IcmpStored) BY <1>8 DEF ExistsBijection
  <2>2. QED BY <2>1, Fun_ExistsBijSymmetric, Zenon
<1>10. QED BY <1>9, FS_Bijection, Zenon

\* One buffer for each process that holds one.
IcmpInHands == {icmpheld[c] : c \in IcmpHolding}
LEMMA IcmpHandsCount ==
    ASSUME IcmpHands(icmpout, icmpheld)
    PROVE  IsFiniteSet(IcmpInHands) /\ Cardinality(IcmpInHands) = Cardinality(IcmpHolding)
<1> DEFINE m == [c \in IcmpHolding |-> icmpheld[c]]
<1>1. m \in Bijection(IcmpHolding, IcmpInHands)
  <2>1. m \in [IcmpHolding -> IcmpInHands] BY DEF IcmpInHands
  <2>2. IsInjective(m) BY DEF IsInjective, IcmpHands, IcmpHolding
  <2>3. \A x \in IcmpInHands : \E c \in IcmpHolding : m[c] = x BY DEF IcmpInHands
  <2>4. QED BY <2>1, <2>2, <2>3 DEF Bijection, Injection, Surjection
<1>2. ExistsBijection(IcmpHolding, IcmpInHands) BY <1>1 DEF ExistsBijection
<1>3. IsFiniteSet(IcmpHolding)
  <2>1. IsFiniteSet({"netin"}) /\ IsFiniteSet({"ipout"}) BY FS_Singleton
  <2>2. IsFiniteSet({"netin"} \cup {"ipout"}) BY <2>1, FS_Union
  <2>3. {"netin"} \cup {"ipout"} = {"netin", "ipout"} OBVIOUS
  <2>4. IsFiniteSet(IcmpProcs \cup {"netin", "ipout"}) BY <2>2, <2>3, IcmpAssumption, FS_Union
  <2>5. IcmpHolding \subseteq IcmpProcs \cup {"netin", "ipout"} BY DEF IcmpHolding, IcmpHolders
  <2>6. QED BY <2>4, <2>5, FS_Subset
<1>4. QED BY <1>2, <1>3, FS_Bijection, Zenon

LEMMA IcmpTwo ==
    ASSUME NEW A, NEW B, IsFiniteSet(A), IsFiniteSet(B), A \cap B = {}
    PROVE  /\ IsFiniteSet(A \cup B)
           /\ Cardinality(A \cup B) = Cardinality(A) + Cardinality(B)
           /\ Cardinality(A) \in Nat /\ Cardinality(B) \in Nat
<1>1. Cardinality(A \cup B) = Cardinality(A) + Cardinality(B) - Cardinality(A \cap B)
  BY FS_Union
<1>2. Cardinality(A \cap B) = 0 BY FS_EmptySet
<1>3. Cardinality(A) \in Nat /\ Cardinality(B) \in Nat BY FS_CardinalityType
<1>4. IsFiniteSet(A \cup B) BY FS_Union
<1>5. QED BY <1>1, <1>2, <1>3, <1>4

LEMMA IcmpSoundness == IcmpInv => IcmpQueuesSound
<1> SUFFICES ASSUME IcmpInv, IcmpSound PROVE IcmpQueuesSound BY DEF IcmpQueuesSound
<1>1. IcmpGood /\ IcmpTypeOK /\ IcmpContents /\ IcmpWaiters BY DEF IcmpInv, IcmpGood
<1>2. PICK F, O, H, Q : F = icmpfree /\ O = ToSet(icmpout) /\ H = IcmpInHands /\ Q = IcmpStored
  OBVIOUS
<1>3. \A b : b \in Q <=> \E s \in IcmpSlots : b \in IcmpQueued(icmptab[s]) BY <1>2 DEF IcmpStored
<1>4. IcmpHands(icmpout, icmpheld) /\ IcmpParted(icmpfree, IcmpAway(icmpout, icmpheld), icmptab)
  BY <1>1 DEF IcmpContents, IcmpPlaced
<1>5. IcmpAway(icmpout, icmpheld) = O \cup H BY <1>2 DEF IcmpAway, IcmpInHands, IcmpHolding
<1>6. /\ F \subseteq IcmpBufs /\ O \subseteq IcmpBufs /\ H \subseteq IcmpBufs /\ Q \subseteq IcmpBufs
      /\ F \cap O = {} /\ (F \cup O) \cap H = {} /\ ((F \cup O) \cup H) \cap Q = {}
      /\ ((F \cup O) \cup H) \cup Q = IcmpBufs
  <2>1. IcmpParted(F, O \cup H, icmptab) BY <1>2, <1>4, <1>5
  <2>2. O \cap H = {}
    <3>1. \A x : x \in O <=> OnQueue(icmpout, x) BY <1>2, <1>4, IcmpOutIs DEF IcmpHands
    <3>2. QED BY <1>2, <1>4, <3>1 DEF IcmpHands, IcmpInHands, IcmpHolding
  <2>3. QED BY <1>3, <2>1, <2>2 DEF IcmpParted
<1>7. IsFiniteSet(F) /\ IsFiniteSet(O) /\ IsFiniteSet(H) /\ IsFiniteSet(Q)
  BY <1>6, IcmpAssumption, FS_Subset
<1>8. Cardinality(IcmpBufs) = Cardinality(F) + Cardinality(O) + Cardinality(H) + Cardinality(Q)
  <2>1. PICK A, B : A = F \cup O /\ B = A \cup H OBVIOUS
  <2>2. /\ IsFiniteSet(A) /\ Cardinality(A) = Cardinality(F) + Cardinality(O)
        /\ Cardinality(F) \in Nat /\ Cardinality(O) \in Nat
    BY <1>6, <1>7, <2>1, IcmpTwo
  <2>3. IsFiniteSet(B) /\ Cardinality(B) = Cardinality(A) + Cardinality(H) /\ Cardinality(H) \in Nat
    BY <1>6, <1>7, <2>1, <2>2, IcmpTwo
  <2>4. Cardinality(B \cup Q) = Cardinality(B) + Cardinality(Q) /\ Cardinality(Q) \in Nat
    BY <1>6, <1>7, <2>1, <2>3, IcmpTwo
  <2>5. B \cup Q = IcmpBufs BY <1>6, <2>1
  <2>6. QED BY <2>2, <2>3, <2>4, <2>5
<1>9. Cardinality(O) = Len(icmpout)
  <2>1. icmpout \in Seq(IcmpBufs) /\ NoDup(icmpout) BY <1>4 DEF IcmpHands
  <2>2. QED BY <1>2, <2>1, IcmpOutCount
<1>10. Cardinality(Q) = Cardinality(IcmpFilled) /\ Cardinality(H) = Cardinality(IcmpHolding)
  BY <1>1, <1>2, <1>4, <1>7, IcmpStoredCount, IcmpHandsCount
<1>11. Cardinality(icmpfree) + Len(icmpout) + Cardinality(IcmpHolding) + Cardinality(IcmpFilled)
          = Cardinality(IcmpBufs)
  BY <1>2, <1>8, <1>9, <1>10
<1>12. UNION ({icmpfree, ToSet(icmpout), {icmpheld[c] : c \in IcmpHolding}}
                  \cup {IcmpQueued(icmptab[s]) : s \in IcmpSlots}) = IcmpBufs
  BY <1>2, <1>3, <1>6 DEF IcmpInHands
<1>13. ASSUME NEW p \in IcmpProcs, icmpproc[p].slot # -1, icmpmsg[p] = IcmpNil
       PROVE  LET e == icmptab[icmpproc[p].slot] IN
              e.state = "RECV" /\ e.pid = p /\ e.count = 0
  <2>1. PICK s \in IcmpSlots : s = icmpproc[p].slot BY <1>1, <1>13 DEF IcmpTypeOK
  <2>2. IcmpServed(p) /\ IcmpReceiver(s) BY <1>1 DEF IcmpWaiters
  <2>3. QED BY <1>13, <2>1, <2>2 DEF IcmpServed, IcmpReceiver
<1>14. QED BY <1>11, <1>12, <1>13, Zenon DEF IcmpQueuesSound, IcmpFilled

\* As long as no slot has overrun its queue, been read past its end, shared or
\* released under a receiver, and no receiver was sent OK by somebody else,
\* every buffer is free, on the output queue, in one process's hands or in one
\* queue, as often as the counts say, and a process that waits is the one its
\* slot would wake (icmp.c:96, icmp.c:202, icmp.c:210): for any number of slots,
\* of buffers and of processes, through requests whose sender blocks in getbuf
\* and messages that end a wait.
THEOREM PingQueuesSound == IcmpSpec => []IcmpQueuesSound
<1>1. QED BY IcmpSoundness, IcmpInit, IcmpNextOK, PTL DEF IcmpSpec
-----------------------------------------------------------------------------
\* The namespace.  Sequences of characters.
Names == Seq(NmChars)
NmEntries == [prefix : Names, repl : {r \in Names : Len(r) < NM_REPLLEN}, dev : NmDevs]

LEMMA NmNumbers ==
    /\ NM_PRELEN \in Nat \ {0} /\ NM_REPLLEN \in Nat \ {0} /\ NM_MAXLEN \in Nat \ {0}
    /\ NmCharBit \in Nat \ {0} /\ NM_REPLLEN <= NM_MAXLEN /\ NM_MAXLEN <= 2 * NmCharBit
    /\ NmSYSERR = -1 /\ NmSYSERR \notin NmDevs /\ NNAMES \in Nat
    /\ NAMESPACE \in NmDevs /\ NULLDEV \in NmDevs /\ RFILESYS \in NmDevs /\ LFILESYS \in NmDevs
    /\ NAMESPACE # NmSYSERR /\ NAMESPACE # NULLDEV /\ NAMESPACE # RFILESYS /\ NAMESPACE # LFILESYS
  BY NamAssumption DEF NmSYSERR, NmDevs

\* A sequence that begins with p is p and what is left, which ends it still
\* when another sequence stands before it.
LEMMA NmRestOf ==
    ASSUME NEW S, NEW s \in Seq(S), NEW k \in 0..Len(s)
    PROVE  /\ SubSeq(s, k + 1, Len(s)) \in Seq(S) /\ Len(SubSeq(s, k + 1, Len(s))) = Len(s) - k
  OBVIOUS

LEMMA NmSuffixOf ==
    ASSUME NEW S, NEW a \in Seq(S), NEW r \in Seq(S)
    PROVE  IsSuffix(r, a \o r)
<1>1. PICK t : t = a \o r OBVIOUS
<1>2. PICK m, n \in Nat : m = Len(a) /\ n = Len(r) OBVIOUS
<1>3. /\ t \in Seq(S) /\ Len(t) = m + n /\ \A i \in 1..n : t[m + i] = r[i] BY <1>1, <1>2
<1>4. PICK x, y : x = Reverse(r) /\ y = Reverse(t) OBVIOUS
<1>5. x = [i \in 1..n |-> r[(n - i) + 1]] /\ y = [i \in 1..(m + n) |-> t[((m + n) - i) + 1]]
  BY <1>2, <1>3, <1>4 DEF Reverse
<1>6. x \in Seq(S) /\ y \in Seq(S) /\ Len(x) = n /\ Len(y) = m + n
  <2>1. \A i \in 1..n : r[(n - i) + 1] \in S BY <1>2
  <2>2. \A i \in 1..(m + n) : t[((m + n) - i) + 1] \in S BY <1>3
  <2>3. QED BY <1>5, <2>1, <2>2
<1>7. \A i \in 1..n : x[i] = y[i]
  <2> TAKE i \in 1..n
  <2>1. i \in 1..(m + n) /\ (n - i) + 1 \in 1..n /\ ((m + n) - i) + 1 = m + ((n - i) + 1) OBVIOUS
  <2>2. x[i] = r[(n - i) + 1] BY <1>5
  <2>3. y[i] = t[m + ((n - i) + 1)] BY <1>5, <2>1
  <2>4. QED BY <1>3, <2>1, <2>2, <2>3
<1>8. SubSeq(x, 1, n) = SubSeq(y, 1, n)
  <2>1. SubSeq(x, 1, n) = [i \in 1..n |-> x[i]] BY <1>6
  <2>2. SubSeq(y, 1, n) = [i \in 1..n |-> y[i]] BY <1>6
  <2>3. QED BY <1>7, <2>1, <2>2
<1>9. n <= m + n BY <1>2
<1>10. QED BY <1>1, <1>4, <1>6, <1>8, <1>9 DEF IsSuffix, IsPrefix

\* The length of a name in a char: right up to the width of a char, and
\* otherwise not positive.
LEMMA NmCharOf ==
    ASSUME NEW n \in Nat, n <= NM_MAXLEN
    PROVE  /\ NmChar(n) \in Int
           /\ n < NmCharBit => NmChar(n) = n
           /\ ~(n < NmCharBit) => NmChar(n) <= 0
<1>1. PICK c \in Nat : c = NmCharBit /\ c # 0 /\ n <= 2 * c BY NmNumbers
<1>2. n + c \in Nat /\ 2 * c \in Nat \ {0} BY <1>1
<1>3. n < c => (n + c) % (2 * c) = n + c BY <1>1, <1>2
<1>4. ~(n < c) => (n + c) % (2 * c) = (n + c) - 2 * c BY <1>1, <1>2
<1>5. NmChar(n) = ((n + c) % (2 * c)) - c BY <1>1 DEF NmChar
<1>6. QED BY <1>1, <1>3, <1>4, <1>5

\* The table: prefixes and replacements fit, and there is an entry that every
\* name matches, up to which the namespace's prefixes are only cut off.
NmLast(tab, d) ==
    /\ tab[d].prefix = << >>
    /\ \A i \in 1..d : tab[i].dev = NAMESPACE => tab[i].repl = << >>
NmTableOK == nametab \in Seq(NmEntries) /\ \E d \in 1..Len(nametab) : NmLast(nametab, d)

LEMMA NmMatch ==
    ASSUME NmTableOK, NEW name \in Names
    PROVE  LET i == NmFirst(NmMatches(name)) IN
           /\ NmMatches(name) # {} /\ i \in 1..Len(nametab) /\ nametab[i] \in NmEntries
           /\ \A j \in NmMatches(name) : i <= j
           /\ IsPrefix(nametab[i].prefix, name)
           /\ nametab[i].dev = NAMESPACE => nametab[i].repl = << >>
<1>1. nametab \in Seq(NmEntries) BY DEF NmTableOK
<1>2. PICK d \in 1..Len(nametab) : NmLast(nametab, d) BY DEF NmTableOK
<1>3. PICK T : T = NmMatches(name) OBVIOUS
<1>4. d \in T
  <2>1. IsPrefix(<< >>, name)
    <3>1. Len(<< >>) = 0 /\ Len(name) \in Nat OBVIOUS
    <3>2. SubSeq(<< >>, 1, 0) = << >> /\ SubSeq(name, 1, 0) = << >> OBVIOUS
    <3>3. QED BY <3>1, <3>2 DEF IsPrefix
  <2>2. DOMAIN nametab = 1..Len(nametab) BY <1>1
  <2>3. QED BY <1>2, <1>3, <2>1, <2>2 DEF NmMatches, NmLast
<1>5. T \subseteq 1..Len(nametab) /\ T \subseteq Nat BY <1>1, <1>3 DEF NmMatches
<1>6. \E i \in T : \A j \in T : i <= j BY <1>4, <1>5, LeastNat
<1>7. PICK i : i = NmFirst(T) OBVIOUS
<1>8. i \in T /\ \A j \in T : i <= j BY <1>6, <1>7 DEF NmFirst
<1>9. i \in 1..d BY <1>4, <1>5, <1>8
<1>10. IsPrefix(nametab[i].prefix, name) BY <1>3, <1>8 DEF NmMatches
<1>11. nametab[i] \in NmEntries BY <1>1, <1>5, <1>8
<1>12. QED BY <1>2, <1>3, <1>5, <1>7, <1>8, <1>9, <1>10, <1>11 DEF NmLast

\* One substitution.
NmSubstituted(name, r) ==
    /\ r.new \in Names /\ Len(r.new) + 1 <= NM_MAXLEN /\ r.ended \in BOOLEAN
    /\ r.dev \in NmDevs \cup {NmSYSERR}
    /\ Len(name) + 1 < NmCharBit => r.ended /\ (r.dev = NAMESPACE => Len(r.new) <= Len(name))
LEMMA NmReplOK ==
    ASSUME NmTableOK, NEW name \in Names, Len(name) + 1 <= NM_MAXLEN
    PROVE  LET e == nametab[NmFirst(NmMatches(name))]
               r == namrepl(name) IN
           /\ NmSubstituted(name, r) /\ r.dev \in {e.dev, NmSYSERR}
           /\ r.dev # NmSYSERR /\ r.ended => IsSuffix(SubSeq(name, Len(e.prefix) + 1, Len(name)), r.new)
<1>1. PICK e : e = nametab[NmFirst(NmMatches(name))] OBVIOUS
<1>2. /\ NmMatches(name) # {} /\ e \in NmEntries /\ IsPrefix(e.prefix, name)
      /\ e.dev = NAMESPACE => e.repl = << >>
  BY <1>1, NmMatch
<1>3. PICK p, x, r : p = e.prefix /\ x = e.repl /\ r = namrepl(name) OBVIOUS
<1>4. /\ p \in Names /\ x \in Names /\ Len(x) < NM_REPLLEN /\ e.dev \in NmDevs
      /\ e.dev = NAMESPACE => x = << >>
  BY <1>2, <1>3 DEF NmEntries
<1>5. PICK n \in Nat, l \in Nat, q \in Nat : n = Len(name) /\ l = Len(p) /\ q = Len(x)
  BY <1>4 DEF Names
<1>6. l <= n BY <1>2, <1>3, <1>5 DEF IsPrefix
<1>7. PICK M \in Nat, c \in Nat : M = NM_MAXLEN /\ c = NmCharBit BY NmNumbers
<1>8. q < M /\ n + 1 <= M BY <1>4, <1>5, <1>7, NmNumbers
<1>9. namlen(x, NM_MAXLEN) - 1 = q /\ namlen(name, NM_MAXLEN) = n + 1
  <2>1. namlen(x, NM_MAXLEN) = q + 1 BY <1>5, <1>7, <1>8 DEF namlen
  <2>2. namlen(name, NM_MAXLEN) = n + 1
    <3>1. n < M BY <1>8
    <3>2. QED BY <1>5, <1>7, <3>1 DEF namlen
  <2>3. QED BY <1>5, <2>1, <2>2
<1>10. PICK m \in Int : m = NmChar(n + 1) - l BY <1>5, <1>7, <1>8, NmCharOf
<1>11. r = IF ~NmFits(q, m) THEN NmFailed
           ELSE [dev |-> e.dev, new |-> x \o NmRest(name, l, m), ended |-> m > 0]
  BY <1>1, <1>2, <1>3, <1>5, <1>9, <1>10, Zenon DEF namrepl
<1>12. NmSubstituted(name, NmFailed) /\ NmFailed.dev = NmSYSERR
  <2>1. << >> \in Names /\ Len(<< >>) = 0 BY DEF Names
  <2>2. NmFailed.dev = NmSYSERR /\ NmFailed.new = << >> /\ NmFailed.ended = TRUE BY DEF NmFailed
  <2>3. 0 + 1 <= NM_MAXLEN BY NmNumbers
  <2>4. QED BY <2>1, <2>2, <2>3, NmNumbers DEF NmSubstituted
<1>13. CASE ~NmFits(q, m) BY <1>1, <1>3, <1>11, <1>12, <1>13
<1>14. CASE NmFits(q, m)
  <2>1. q + m <= M BY <1>7, <1>14 DEF NmFits
  <2>2. PICK y : y = NmRest(name, l, m) OBVIOUS
  <2>3. r.dev = e.dev /\ r.new = x \o y /\ r.ended = (m > 0) BY <1>11, <1>14, <2>2
  <2>4. CASE n + 1 < c
    <3>1. m = (n + 1) - l
      <4>1. n + 1 \in Nat /\ n + 1 <= NM_MAXLEN /\ n + 1 < NmCharBit BY <1>7, <1>8, <2>4
      <4>2. NmChar(n + 1) = n + 1 BY <4>1, NmCharOf
      <4>3. QED BY <1>10, <4>2
    <3>2. m > 0 /\ l + m - 1 = n BY <1>6, <3>1
    <3>3. y = SubSeq(name, l + 1, n) BY <2>2, <3>2 DEF NmRest
    <3>4. l \in 0..n BY <1>6
    <3>5. y \in Names /\ Len(y) = n - l BY <1>5, <3>3, <3>4, NmRestOf DEF Names
    <3>6. x \o y \in Names /\ Len(x \o y) = q + (n - l)
      <4>1. x \in Seq(NmChars) /\ y \in Seq(NmChars) BY <1>4, <3>5 DEF Names
      <4>2. x \o y \in Seq(NmChars) /\ Len(x \o y) = Len(x) + Len(y) BY <4>1
      <4>3. QED BY <1>5, <3>5, <4>2 DEF Names
    <3>7. Len(r.new) + 1 <= M BY <2>1, <2>3, <3>1, <3>6
    <3>8. e.dev = NAMESPACE => Len(r.new) <= n
      <4>1. x = << >> => q = 0 BY <1>5
      <4>2. q = 0 => Len(r.new) <= n BY <2>3, <3>4, <3>6
      <4>3. QED BY <1>4, <4>1, <4>2
    <3>9. IsSuffix(y, x \o y) BY <1>4, <3>5, NmSuffixOf DEF Names
    <3>10. NmSubstituted(name, r)
      BY <1>4, <1>5, <1>7, <2>3, <3>2, <3>6, <3>7, <3>8 DEF NmSubstituted
    <3>11. QED BY <1>1, <1>3, <1>5, <2>3, <3>3, <3>9, <3>10
  <2>5. CASE ~(n + 1 < c)
    <3>1. NmChar(n + 1) <= 0 BY <1>5, <1>7, <1>8, <2>5, NmCharOf
    <3>2. NmChar(n + 1) \in Int BY <1>5, <1>7, <1>8, NmCharOf
    <3>3. m <= 0 BY <1>10, <3>1, <3>2
    <3>4. y = << >>
      <4>1. y = SubSeq(name, l + 1, l + m - 1) BY <2>2 DEF NmRest
      <4>2. PICK a, b \in Int : a = l + 1 /\ b = l + m - 1 OBVIOUS
      <4>3. b < a BY <3>3, <4>2
      <4>4. SubSeq(name, a, b) = << >> BY <4>2, <4>3 DEF Names
      <4>5. QED BY <4>1, <4>2, <4>4
    <3>5. x \o y = x BY <1>4, <3>4 DEF Names
    <3>6. ~(m > 0) BY <3>3
    <3>7. q + 1 <= M BY <1>8
    <3>8. NmSubstituted(name, r)
      BY <1>4, <1>5, <1>7, <2>3, <2>5, <3>5, <3>6, <3>7 DEF NmSubstituted
    <3>9. QED BY <1>1, <1>3, <2>3, <3>6, <3>8
  <2>6. QED BY <2>4, <2>5
<1>15. QED BY <1>13, <1>14

\* The substitutions are a function that is what its definition says: it is
\* defined up to any number of them, for otherwise there would be a least one
\* up to which it is not.
NmRuns(f, n, b) == f = [k \in 0..n |-> IF k = 0 THEN b ELSE NmSubst(f[k - 1])]
LEMMA NmRunsTo ==
    ASSUME NEW b, NEW n \in Nat
    PROVE  \E f : NmRuns(f, n, b)
<1> DEFINE T == {k \in Nat : ~\E f : NmRuns(f, k, b)}
<1>1. SUFFICES ASSUME T # {} PROVE FALSE OBVIOUS
<1>2. PICK m \in T : \A k \in T : m <= k
  <2>1. T \subseteq Nat OBVIOUS
  <2> HIDE DEF T
  <2>2. QED BY <1>1, <2>1, LeastNat, Zenon
<1>3. m \in Nat /\ ~\E f : NmRuns(f, m, b) OBVIOUS
<1>4. m # 0
  <2>1. PICK g : g = [k \in 0..0 |-> b] OBVIOUS
  <2>2. g = [k \in 0..0 |-> IF k = 0 THEN b ELSE NmSubst(g[k - 1])] BY <2>1
  <2>3. NmRuns(g, 0, b) BY <2>2 DEF NmRuns
  <2>4. QED BY <1>3, <2>3
<1>5. PICK j \in Nat : m = j + 1
  <2>1. m - 1 \in Nat /\ m = (m - 1) + 1 BY <1>3, <1>4
  <2>2. QED BY <2>1
<1>6. j \notin T
  <2>1. ~(m <= j) BY <1>5
  <2> HIDE DEF T
  <2>2. QED BY <1>2, <2>1
<1>7. PICK f : NmRuns(f, j, b) BY <1>6
<1>8. f = [k \in 0..j |-> IF k = 0 THEN b ELSE NmSubst(f[k - 1])] BY <1>7 DEF NmRuns
<1>9. PICK g : g = [k \in 0..m |-> IF k = m THEN NmSubst(f[j]) ELSE f[k]] OBVIOUS
<1>10. \A k \in 0..m : g[k] = IF k = 0 THEN b ELSE NmSubst(g[k - 1])
  <2> TAKE k \in 0..m
  <2>1. CASE k = m
    <3>1. k # 0 /\ k - 1 = j /\ j \in 0..m /\ j # m BY <1>4, <1>5, <2>1
    <3>2. g[k] = NmSubst(f[j]) /\ g[j] = f[j] BY <1>9, <2>1, <3>1
    <3>3. QED BY <3>1, <3>2
  <2>2. CASE k # m
    <3>1. k \in 0..j /\ g[k] = f[k] BY <1>5, <1>9, <2>2
    <3>2. f[k] = IF k = 0 THEN b ELSE NmSubst(f[k - 1]) BY <1>8, <3>1
    <3>3. k # 0 => k - 1 \in 0..m /\ k - 1 # m BY <1>5, <3>1
    <3>4. k # 0 => g[k - 1] = f[k - 1] BY <1>9, <3>3
    <3>5. QED BY <3>1, <3>2, <3>4
  <2>3. QED BY <2>1, <2>2
<1>11. g = [k \in 0..m |-> IF k = 0 THEN b ELSE NmSubst(g[k - 1])] BY <1>9, <1>10
<1>12. NmRuns(g, m, b) BY <1>11 DEF NmRuns
<1>13. QED BY <1>3, <1>12

NmStart(name) == [dev |-> NAMESPACE, new |-> name, ended |-> TRUE]
LEMMA NmMapIs ==
    ASSUME NmTableOK, NEW name
    PROVE  \A k \in 0..Len(nametab) :
              NmMap(name)[k] = IF k = 0 THEN NmStart(name) ELSE NmSubst(NmMap(name)[k - 1])
<1>1. Len(nametab) \in Nat BY DEF NmTableOK
<1>2. PICK n \in Nat : n = Len(nametab) BY <1>1
<1>3. \E f : NmRuns(f, n, NmStart(name)) BY NmRunsTo
<1>4. NmMap(name) = CHOOSE f : NmRuns(f, n, NmStart(name))
  BY <1>2 DEF NmMap, NmRuns, NmStart
<1>5. PICK h : h = NmMap(name) OBVIOUS
<1>6. NmRuns(h, n, NmStart(name)) BY <1>3, <1>4, <1>5
<1>7. h = [k \in 0..n |-> IF k = 0 THEN NmStart(name) ELSE NmSubst(h[k - 1])] BY <1>6 DEF NmRuns
<1>8. \A k \in 0..n : h[k] = IF k = 0 THEN NmStart(name) ELSE NmSubst(h[k - 1]) BY <1>7
<1>9. QED BY <1>2, <1>5, <1>8

\* Every name on the way fits, and stays as short as the one opened when that
\* fits a char.
NmOnWay(name, m) ==
    /\ m.new \in Names /\ Len(m.new) + 1 <= NM_MAXLEN /\ m.ended \in BOOLEAN
    /\ m.dev \in NmDevs \cup {NmSYSERR}
    /\ Len(name) + 1 < NmCharBit => m.ended /\ (m.dev = NAMESPACE => Len(m.new) <= Len(name))
LEMMA NmWay ==
    ASSUME NmTableOK, NEW name \in Names, Len(name) + 1 <= NM_MAXLEN
    PROVE  \A k \in 0..Len(nametab) : NmOnWay(name, NmMap(name)[k])
<1> DEFINE T == {k \in 0..Len(nametab) : ~NmOnWay(name, NmMap(name)[k])}
<1>1. SUFFICES ASSUME T # {} PROVE FALSE OBVIOUS
<1>2. PICK n \in Nat : n = Len(nametab) BY DEF NmTableOK
<1>3. PICK m \in T : \A k \in T : m <= k
  <2>1. T \subseteq Nat BY <1>2
  <2> HIDE DEF T
  <2>2. QED BY <1>1, <2>1, LeastNat, Zenon
<1>4. m \in 0..n /\ ~NmOnWay(name, NmMap(name)[m]) BY <1>2
<1>5. NmMap(name)[m] = IF m = 0 THEN NmStart(name) ELSE NmSubst(NmMap(name)[m - 1])
  BY <1>2, <1>4, NmMapIs
<1>6. NmOnWay(name, NmStart(name))
  <2>1. NmStart(name).new = name /\ NmStart(name).dev = NAMESPACE /\ NmStart(name).ended = TRUE
    BY DEF NmStart
  <2>2. Len(name) \in Nat BY DEF Names
  <2>3. Len(name) <= Len(name) BY <2>2
  <2>4. PICK u : u = NmStart(name) OBVIOUS
  <2>5. u.new = name /\ u.dev = NAMESPACE /\ u.ended = TRUE BY <2>1, <2>4
  <2>6. NmOnWay(name, u)
    <3>1. u.new \in Names /\ Len(u.new) + 1 <= NM_MAXLEN BY <2>5
    <3>2. u.dev \in NmDevs \cup {NmSYSERR} BY <2>5, NmNumbers
    <3>3. Len(u.new) <= Len(name) BY <2>3, <2>5
    <3>4. u.ended \in BOOLEAN /\ u.ended BY <2>5
    <3>5. QED BY <3>1, <3>2, <3>3, <3>4, Zenon DEF NmOnWay
  <2>7. QED BY <2>4, <2>6
<1>7. m # 0 BY <1>4, <1>5, <1>6
<1>8. PICK u : u = NmMap(name)[m - 1] OBVIOUS
<1>9. m - 1 \in 0..Len(nametab) /\ ~(m <= m - 1) BY <1>2, <1>4, <1>7
<1>10. NmOnWay(name, u)
  <2>1. m - 1 \notin T
    <3> HIDE DEF T
    <3>1. QED BY <1>3, <1>9
  <2>2. QED BY <1>8, <1>9, <2>1
<1>11. NmOnWay(name, NmSubst(u))
  <2>1. CASE u.dev = NAMESPACE /\ u.ended
    <3>1. NmSubst(u) = namrepl(u.new) BY <2>1 DEF NmSubst
    <3>2. PICK r : r = namrepl(u.new) OBVIOUS
    <3>3. u.new \in Names /\ Len(u.new) + 1 <= NM_MAXLEN BY <1>10 DEF NmOnWay
    <3>4. NmSubstituted(u.new, r) BY <3>2, <3>3, NmReplOK
    <3>5. ASSUME Len(name) + 1 < NmCharBit
          PROVE  r.ended /\ (r.dev = NAMESPACE => Len(r.new) <= Len(name))
      <4>1. Len(u.new) <= Len(name) BY <1>10, <2>1, <3>5 DEF NmOnWay
      <4>2. Len(u.new) \in Nat /\ Len(name) \in Nat /\ Len(r.new) \in Nat
        <5>1. r.new \in Seq(NmChars) BY <3>4 DEF NmSubstituted, Names
        <5>2. u.new \in Seq(NmChars) /\ name \in Seq(NmChars) BY <3>3 DEF Names
        <5>3. QED BY <5>1, <5>2
      <4>3. Len(u.new) + 1 < NmCharBit BY <3>5, <4>1, <4>2, NmNumbers
      <4>4. r.ended /\ (r.dev = NAMESPACE => Len(r.new) <= Len(u.new))
        BY <3>4, <4>3 DEF NmSubstituted
      <4>5. QED BY <4>1, <4>2, <4>4
    <3>6. QED BY <3>1, <3>2, <3>4, <3>5 DEF NmOnWay, NmSubstituted
  <2>2. CASE ~(u.dev = NAMESPACE /\ u.ended)
    <3>1. NmSubst(u) = u BY <2>2 DEF NmSubst
    <3>2. QED BY <1>10, <3>1
  <2>3. QED BY <2>1, <2>2
<1>12. QED BY <1>4, <1>5, <1>7, <1>8, <1>11

\* When the first substitution leads out of the namespace, it is the only one.
LEMMA NmOnce ==
    ASSUME NmTableOK, NEW name, namrepl(name).dev # NAMESPACE
    PROVE  \A k \in 1..Len(nametab) : NmMap(name)[k] = namrepl(name)
<1> DEFINE T == {k \in 1..Len(nametab) : NmMap(name)[k] # namrepl(name)}
<1>1. SUFFICES ASSUME T # {} PROVE FALSE OBVIOUS
<1>2. PICK n \in Nat : n = Len(nametab) BY DEF NmTableOK
<1>3. PICK m \in T : \A k \in T : m <= k
  <2>1. T \subseteq Nat BY <1>2
  <2> HIDE DEF T
  <2>2. QED BY <1>1, <2>1, LeastNat, Zenon
<1>4. m \in 1..n /\ NmMap(name)[m] # namrepl(name) BY <1>2
<1>5. m \in 0..Len(nametab) /\ m # 0 /\ m - 1 \in 0..Len(nametab) BY <1>2, <1>4
<1>6. NmMap(name)[m] = NmSubst(NmMap(name)[m - 1]) BY <1>5, NmMapIs
<1>7. CASE m = 1
  <2>1. NmMap(name)[0] = NmStart(name) /\ m - 1 = 0 BY <1>5, <1>7, NmMapIs
  <2>2. NmSubst(NmStart(name)) = namrepl(name) BY DEF NmSubst, NmStart
  <2>3. QED BY <1>4, <1>6, <2>1, <2>2
<1>8. CASE m # 1
  <2>1. m - 1 \in 1..Len(nametab) /\ ~(m <= m - 1) BY <1>2, <1>4, <1>8
  <2>2. m - 1 \notin T
    <3> HIDE DEF T
    <3>1. QED BY <1>3, <2>1
  <2>3. NmMap(name)[m - 1] = namrepl(name) BY <2>1, <2>2
  <2>4. NmSubst(namrepl(name)) = namrepl(name) BY DEF NmSubst
  <2>5. QED BY <1>4, <1>6, <2>3, <2>4
<1>9. QED BY <1>7, <1>8
-----------------------------------------------------------------------------
\* The table of naminit, after each of its calls of mount.
LEMMA NmTuples ==
    ASSUME NEW S, NEW a \in S, NEW b \in S, NEW c \in S
    PROVE  << >> \in Seq(S) /\ <<a>> \in Seq(S) /\ <<a, b>> \in Seq(S) /\ <<a, b, c>> \in Seq(S)
  OBVIOUS
LEMMA NmEight ==
    ASSUME NEW S, NEW o, o \in Seq(S), NEW p \in Seq(S)
    PROVE  /\ p \o o \in Seq(S) /\ Len(p \o o) = Len(p) + Len(o)
           /\ \A i \in 1..(Len(p) + Len(o)) : (p \o o)[i] = IF i <= Len(p) THEN p[i] ELSE o[i - Len(p)]
  OBVIOUS
LEMMA NmAllOK ==
    /\ NmAll \in Seq([prefix : Names, repl : Names, dev : NmDevs \cup {NmSYSERR}])
    /\ Len(NmAll) = Len(NmDevices) + 8
    /\ \A i \in 1..(Len(NmAll)) : NmAll[i].dev = NAMESPACE => NmAll[i].repl = << >>
    /\ NmAll[Len(NmAll)] = [prefix |-> << >>, repl |-> << >>, dev |-> LFILESYS]
<1> DEFINE E == [prefix : Names, repl : Names, dev : NmDevs \cup {NmSYSERR}]
<1>1. PICK n \in Nat : n = Len(NmDevices) BY NamAssumption
<1>2. PICK a : a = [i \in DOMAIN NmDevices |-> [prefix |-> NmDev \o NmDevices[i], repl |-> << >>, dev |-> i - 1]]
  OBVIOUS
<1>3. DOMAIN NmDevices = 1..n /\ \A i \in 1..n : NmDevices[i] \in Names BY <1>1, NamAssumption DEF Names
<1>4. NmDev \in Names /\ << >> \in Names
  <2>1. "/" \in NmChars /\ "dev" \in NmChars BY NamAssumption
  <2>2. NmDev = <<"/", "dev", "/">> BY DEF NmDev
  <2>3. <<"/", "dev", "/">> \in Seq(NmChars) /\ << >> \in Seq(NmChars) BY <2>1, NmTuples
  <2>4. QED BY <2>2, <2>3 DEF Names
<1>5. \A i \in 1..n : a[i] \in E /\ a[i].repl = << >>
  <2> TAKE i \in 1..n
  <2>1. a[i] = [prefix |-> NmDev \o NmDevices[i], repl |-> << >>, dev |-> i - 1] BY <1>2, <1>3
  <2>2. NmDev \o NmDevices[i] \in Names BY <1>3, <1>4 DEF Names
  <2>3. i - 1 \in NmDevs BY <1>1 DEF NmDevs
  <2>4. QED BY <1>4, <2>1, <2>2, <2>3
<1>6. a \in Seq(E) /\ Len(a) = n
  <2>1. a = [i \in 1..n |-> a[i]] BY <1>2, <1>3
  <2> HIDE DEF E
  <2>2. QED BY <1>1, <1>5, <2>1
<1>7. PICK o : o = NmOthers OBVIOUS
<1>8. Len(o) = 8 BY <1>7 DEF NmOthers
<1>9. o[1].dev = NULLDEV /\ o[2].dev = RFILESYS /\ o[3].dev = LFILESYS /\ o[4].dev = LFILESYS
  BY <1>7 DEF NmOthers
<1>10. o[5].dev = NmSYSERR /\ o[6].dev = RFILESYS /\ o[7].dev = RFILESYS /\ o[8].dev = LFILESYS
  BY <1>7 DEF NmOthers
<1>11. o[8] = [prefix |-> << >>, repl |-> << >>, dev |-> LFILESYS] BY <1>7 DEF NmOthers
<1>12. o \in Seq(E)
  <2>1. NmDev \o <<"null">> \in Names /\ <<"/", "remote", "/">> \in Names
    <3>1. "null" \in NmChars /\ "/" \in NmChars /\ "remote" \in NmChars BY NamAssumption
    <3>2. <<"null">> \in Seq(NmChars) /\ <<"/", "remote", "/">> \in Seq(NmChars) BY <3>1, NmTuples
    <3>3. QED BY <1>4, <3>2, NmEight DEF Names
  <2>2. <<"/", "local", "/">> \in Names /\ <<"/", "tmp", "/">> \in Names
    <3>1. "local" \in NmChars /\ "/" \in NmChars /\ "tmp" \in NmChars BY NamAssumption
    <3>2. QED BY <3>1, NmTuples DEF Names
  <2>3. <<"tmp-">> \in Names /\ <<"~", "/">> \in Names /\ <<"/">> \in Names /\ <<"root:">> \in Names
    <3>1. "tmp-" \in NmChars /\ "/" \in NmChars /\ "~" \in NmChars /\ "root:" \in NmChars
      BY NamAssumption
    <3>2. QED BY <3>1, NmTuples DEF Names
  <2>4. o[1] \in E /\ o[2] \in E BY <1>4, <1>7, <2>1, NmNumbers DEF NmOthers
  <2>5. o[3] \in E /\ o[4] \in E BY <1>4, <1>7, <2>2, <2>3, NmNumbers DEF NmOthers
  <2>6. o[5] \in E /\ o[6] \in E BY <1>4, <1>7, <2>3, NmNumbers DEF NmOthers
  <2>7. o[7] \in E /\ o[8] \in E BY <1>4, <1>7, <2>3, NmNumbers DEF NmOthers
  <2>8. o = <<o[1], o[2], o[3], o[4], o[5], o[6], o[7], o[8]>> BY <1>7 DEF NmOthers
  <2> HIDE DEF E
  <2>9. <<o[1], o[2], o[3], o[4], o[5], o[6], o[7], o[8]>> \in Seq(E)
    BY <2>4, <2>5, <2>6, <2>7
  <2>10. QED BY <2>8, <2>9
<1>13. \A i \in 1..8 : o[i].dev # NAMESPACE BY <1>9, <1>10, NmNumbers
<1>14. PICK t : t = a \o o OBVIOUS
<1>15. NmAll = t BY <1>2, <1>7, <1>14 DEF NmAll
<1>16. t \in Seq(E) /\ Len(t) = n + 8
  <2> HIDE DEF E
  <2>1. a \o o \in Seq(E) /\ Len(a \o o) = Len(a) + Len(o) BY <1>6, <1>12, NmEight
  <2>2. QED BY <1>6, <1>8, <1>14, <2>1
<1>17. \A i \in 1..(n + 8) : t[i] = IF i <= n THEN a[i] ELSE o[i - n]
  <2> HIDE DEF E
  <2>1. \A i \in 1..(Len(a) + Len(o)) : (a \o o)[i] = IF i <= Len(a) THEN a[i] ELSE o[i - Len(a)]
    BY <1>6, <1>12, NmEight
  <2>2. QED BY <1>6, <1>8, <1>14, <2>1
<1>18. \A i \in 1..(n + 8) : t[i].dev = NAMESPACE => t[i].repl = << >>
  <2> TAKE i \in 1..(n + 8)
  <2>1. CASE i <= n
    <3>1. i \in 1..n /\ t[i] = a[i] BY <1>17, <2>1
    <3>2. QED BY <1>5, <3>1
  <2>2. CASE ~(i <= n)
    <3>1. i - n \in 1..8 /\ t[i] = o[i - n] BY <1>17, <2>2
    <3>2. QED BY <1>13, <3>1
  <2>3. QED BY <2>1, <2>2
<1>19. t[n + 8] = o[8] BY <1>17
<1>20. QED BY <1>1, <1>11, <1>15, <1>16, <1>18, <1>19

NmBuilt(f, n) ==
    f = [k \in 0..n |-> IF k = 0 THEN << >>
                        ELSE Mounted(f[k - 1], NmAll[k].prefix, NmAll[k].repl, NmAll[k].dev)]
LEMMA NmBuiltTo == ASSUME NEW n \in Nat PROVE \E f : NmBuilt(f, n)
<1> DEFINE T == {k \in Nat : ~\E f : NmBuilt(f, k)}
<1>1. SUFFICES ASSUME T # {} PROVE FALSE OBVIOUS
<1>2. PICK m \in T : \A k \in T : m <= k
  <2>1. T \subseteq Nat OBVIOUS
  <2> HIDE DEF T
  <2>2. QED BY <1>1, <2>1, LeastNat, Zenon
<1>3. m \in Nat /\ ~\E f : NmBuilt(f, m) OBVIOUS
<1>4. m # 0
  <2>1. PICK g : g = [k \in 0..0 |-> << >>] OBVIOUS
  <2>2. g = [k \in 0..0 |-> IF k = 0 THEN << >>
                            ELSE Mounted(g[k - 1], NmAll[k].prefix, NmAll[k].repl, NmAll[k].dev)]
    BY <2>1
  <2>3. NmBuilt(g, 0) BY <2>2 DEF NmBuilt
  <2>4. QED BY <1>3, <2>3
<1>5. PICK j \in Nat : m = j + 1
  <2>1. m - 1 \in Nat /\ m = (m - 1) + 1 BY <1>3, <1>4
  <2>2. QED BY <2>1
<1>6. j \notin T
  <2>1. ~(m <= j) BY <1>5
  <2> HIDE DEF T
  <2>2. QED BY <1>2, <2>1
<1>7. PICK f : NmBuilt(f, j) BY <1>6
<1>8. f = [k \in 0..j |-> IF k = 0 THEN << >>
                          ELSE Mounted(f[k - 1], NmAll[k].prefix, NmAll[k].repl, NmAll[k].dev)]
  BY <1>7 DEF NmBuilt
<1>9. PICK y : y = Mounted(f[j], NmAll[m].prefix, NmAll[m].repl, NmAll[m].dev) OBVIOUS
<1>10. PICK g : g = [k \in 0..m |-> IF k = m THEN y ELSE f[k]] OBVIOUS
<1>11. \A k \in 0..m : g[k] = IF k = 0 THEN << >>
                              ELSE Mounted(g[k - 1], NmAll[k].prefix, NmAll[k].repl, NmAll[k].dev)
  <2> TAKE k \in 0..m
  <2>1. CASE k = m
    <3>1. k # 0 /\ k - 1 = j /\ j \in 0..m /\ j # m BY <1>4, <1>5, <2>1
    <3>2. g[k] = y /\ g[j] = f[j] BY <1>10, <2>1, <3>1
    <3>3. QED BY <1>9, <2>1, <3>1, <3>2
  <2>2. CASE k # m
    <3>1. k \in 0..j /\ g[k] = f[k] BY <1>5, <1>10, <2>2
    <3>2. f[k] = IF k = 0 THEN << >>
                 ELSE Mounted(f[k - 1], NmAll[k].prefix, NmAll[k].repl, NmAll[k].dev)
      BY <1>8, <3>1
    <3>3. k # 0 => k - 1 \in 0..m /\ k - 1 # m BY <1>5, <3>1
    <3>4. k # 0 => g[k - 1] = f[k - 1] BY <1>10, <3>3
    <3>5. QED BY <3>1, <3>2, <3>4
  <2>3. QED BY <2>1, <2>2
<1>12. g = [k \in 0..m |-> IF k = 0 THEN << >>
                           ELSE Mounted(g[k - 1], NmAll[k].prefix, NmAll[k].repl, NmAll[k].dev)]
  BY <1>10, <1>11
<1>13. NmBuilt(g, m) BY <1>12 DEF NmBuilt
<1>14. QED BY <1>3, <1>13

LEMMA NmTableIs ==
    \A k \in 0..Len(NmAll) :
       NmTable[k] = IF k = 0 THEN << >>
                    ELSE Mounted(NmTable[k - 1], NmAll[k].prefix, NmAll[k].repl, NmAll[k].dev)
<1>1. Len(NmAll) \in Nat BY NmAllOK
<1>2. PICK n \in Nat : n = Len(NmAll) BY <1>1
<1>3. \E f : NmBuilt(f, n) BY NmBuiltTo
<1>4. NmTable = CHOOSE f : NmBuilt(f, n) BY <1>2 DEF NmTable, NmBuilt
<1>5. PICK h : h = NmTable OBVIOUS
<1>6. NmBuilt(h, n) BY <1>3, <1>4, <1>5
<1>7. h = [k \in 0..n |-> IF k = 0 THEN << >>
                          ELSE Mounted(h[k - 1], NmAll[k].prefix, NmAll[k].repl, NmAll[k].dev)]
  BY <1>6 DEF NmBuilt
<1>8. \A k \in 0..n : h[k] = IF k = 0 THEN << >>
                             ELSE Mounted(h[k - 1], NmAll[k].prefix, NmAll[k].repl, NmAll[k].dev)
  BY <1>7
<1>9. QED BY <1>2, <1>5, <1>8
NmGrown(tab, prefix, repl, dev, new) ==
    /\ new \in Seq(NmEntries) /\ Len(tab) <= Len(new) /\ Len(new) <= Len(tab) + 1
    /\ \A i \in 1..Len(tab) : new[i] = tab[i]
    /\ \A i \in 1..Len(new) : i \in 1..Len(tab) \/ new[i] = [prefix |-> prefix, repl |-> repl, dev |-> dev]
    /\ Len(tab) < NNAMES /\ prefix = << >> /\ repl = << >> /\ dev \in NmDevs
          => Len(new) = Len(tab) + 1 /\ new[Len(new)].prefix = << >>
LEMMA NmMounts ==
    ASSUME NEW tab \in Seq(NmEntries), NEW prefix \in Names, NEW repl \in Names,
           NEW dev \in NmDevs \cup {NmSYSERR}, NEW new, new = Mounted(tab, prefix, repl, dev)
    PROVE  NmGrown(tab, prefix, repl, dev, new)
<1>1. PICK e : e = [prefix |-> prefix, repl |-> repl, dev |-> dev] OBVIOUS
<1>2. PICK n \in Nat : n = Len(tab) OBVIOUS
<1>3. \/ new = tab
      \/ new = Append(tab, e) /\ namlen(repl, NM_REPLLEN) # NmSYSERR /\ ~isbaddev(dev)
  BY <1>1 DEF Mounted
<1>4. CASE new = tab
  <2>1. Len(tab) < NNAMES /\ prefix = << >> /\ repl = << >> /\ dev \in NmDevs => FALSE
    <3> SUFFICES ASSUME Len(tab) < NNAMES, prefix = << >>, repl = << >>, dev \in NmDevs PROVE FALSE
      OBVIOUS
    <3>1. namlen(prefix, NM_PRELEN) # NmSYSERR /\ namlen(repl, NM_REPLLEN) # NmSYSERR
      <4>1. Len(<< >>) = 0 /\ 0 < NM_PRELEN /\ 0 < NM_REPLLEN BY NmNumbers
      <4>2. namlen(<< >>, NM_PRELEN) = 0 + 1 /\ namlen(<< >>, NM_REPLLEN) = 0 + 1 BY <4>1 DEF namlen
      <4>3. QED BY <4>2 DEF NmSYSERR
    <3>2. ~(Len(tab) >= NNAMES) BY <1>2, NmNumbers
    <3>3. ~isbaddev(dev) BY DEF isbaddev
    <3>4. new = Append(tab, e) BY <1>1, <3>1, <3>2, <3>3 DEF Mounted
    <3>5. Len(Append(tab, e)) = n + 1 BY <1>2
    <3>6. QED BY <1>2, <1>4, <3>4, <3>5
  <2>2. QED BY <1>2, <1>4, <2>1 DEF NmGrown
<1>5. CASE new = Append(tab, e) /\ namlen(repl, NM_REPLLEN) # NmSYSERR /\ ~isbaddev(dev)
  <2>1. dev \in NmDevs BY <1>5 DEF isbaddev
  <2>2. Len(repl) < NM_REPLLEN BY <1>5 DEF namlen
  <2>3. e \in NmEntries BY <1>1, <2>1, <2>2 DEF NmEntries
  <2>4. Append(tab, e) \in Seq(NmEntries) /\ Len(Append(tab, e)) = n + 1 BY <1>2, <2>3
  <2>5. \A i \in 1..n : Append(tab, e)[i] = tab[i] BY <1>2
  <2>6. Append(tab, e)[n + 1] = e BY <1>2
  <2>7. \A i \in 1..(n + 1) : i \in 1..n \/ i = n + 1 BY <1>2
  <2>8. e.prefix = prefix BY <1>1
  <2>9. new \in Seq(NmEntries) /\ Len(new) = n + 1 /\ new[n + 1] = e BY <1>5, <2>4, <2>6
  <2>10. \A i \in 1..n : new[i] = tab[i] BY <1>5, <2>5
  <2>11. n <= n + 1 BY <1>2
  <2>12. QED BY <1>1, <1>2, <2>7, <2>8, <2>9, <2>10, <2>11 DEF NmGrown
<1>6. QED BY <1>3, <1>4, <1>5

NmPlain(tab) == \A i \in 1..Len(tab) : tab[i].dev = NAMESPACE => tab[i].repl = << >>
NmTableUpTo(k, tab) == tab \in Seq(NmEntries) /\ Len(tab) <= k /\ NmPlain(tab)
LEMMA NmTables == \A k \in 0..Len(NmAll) : NmTableUpTo(k, NmTable[k])
<1> DEFINE T == {k \in 0..Len(NmAll) : ~NmTableUpTo(k, NmTable[k])}
<1>1. SUFFICES ASSUME T # {} PROVE FALSE OBVIOUS
<1>2. PICK n \in Nat : n = Len(NmAll) BY NmAllOK
<1>3. PICK m \in T : \A k \in T : m <= k
  <2>1. T \subseteq Nat BY <1>2
  <2> HIDE DEF T
  <2>2. QED BY <1>1, <2>1, LeastNat, Zenon
<1>4. m \in 0..n /\ ~NmTableUpTo(m, NmTable[m]) BY <1>2
<1>5. NmTable[m] = IF m = 0 THEN << >>
                   ELSE Mounted(NmTable[m - 1], NmAll[m].prefix, NmAll[m].repl, NmAll[m].dev)
  BY <1>2, <1>4, NmTableIs
<1>6. m # 0
  <2>1. << >> \in Seq(NmEntries) /\ Len(<< >>) = 0 /\ 0 <= 0 OBVIOUS
  <2>2. NmPlain(<< >>) BY <2>1 DEF NmPlain
  <2>3. NmTableUpTo(0, << >>) BY <2>1, <2>2 DEF NmTableUpTo
  <2>4. QED BY <1>4, <1>5, <2>3
<1>7. m - 1 \in 0..Len(NmAll) /\ ~(m <= m - 1) /\ m \in 1..n BY <1>2, <1>4, <1>6
<1>8. PICK tab : tab = NmTable[m - 1] OBVIOUS
<1>9. NmTableUpTo(m - 1, tab)
  <2>1. m - 1 \notin T
    <3> HIDE DEF T
    <3>1. QED BY <1>3, <1>7
  <2>2. QED BY <1>7, <1>8, <2>1
<1>10. PICK a : a = NmAll[m] OBVIOUS
<1>11. /\ a \in [prefix : Names, repl : Names, dev : NmDevs \cup {NmSYSERR}]
       /\ a.dev = NAMESPACE => a.repl = << >>
  <2>1. PICK s : s = NmAll OBVIOUS
  <2>2. s \in Seq([prefix : Names, repl : Names, dev : NmDevs \cup {NmSYSERR}]) BY <2>1, NmAllOK
  <2>3. m \in 1..Len(s) BY <1>2, <1>7, <2>1
  <2>4. \A i \in 1..Len(s) : s[i].dev = NAMESPACE => s[i].repl = << >> BY <2>1, NmAllOK
  <2>5. a = s[m] BY <1>10, <2>1
  <2>6. a.dev = NAMESPACE => a.repl = << >> BY <2>3, <2>4, <2>5
  <2>7. PICK E : E = [prefix : Names, repl : Names, dev : NmDevs \cup {NmSYSERR}] OBVIOUS
  <2>8. s \in Seq(E) BY <2>2, <2>7
  <2>9. a \in E BY <2>3, <2>5, <2>8
  <2>10. QED BY <2>6, <2>7, <2>9
<1>12. PICK new : new = Mounted(tab, a.prefix, a.repl, a.dev) OBVIOUS
<1>13. tab \in Seq(NmEntries) /\ Len(tab) <= m - 1 /\ NmPlain(tab) BY <1>9 DEF NmTableUpTo
<1>14. a.prefix \in Names /\ a.repl \in Names /\ a.dev \in NmDevs \cup {NmSYSERR} BY <1>11
<1>15. PICK p, r, d : p = a.prefix /\ r = a.repl /\ d = a.dev OBVIOUS
<1>16. /\ new \in Seq(NmEntries) /\ Len(new) <= Len(tab) + 1
       /\ \A i \in 1..Len(tab) : new[i] = tab[i]
       /\ \A i \in 1..Len(new) : i \in 1..Len(tab) \/ new[i] = [prefix |-> p, repl |-> r, dev |-> d]
  <2>1. p \in Names /\ r \in Names /\ d \in NmDevs \cup {NmSYSERR} BY <1>14, <1>15
  <2>2. new = Mounted(tab, p, r, d) BY <1>12, <1>15
  <2>3. NmGrown(tab, p, r, d, new) BY <1>13, <2>1, <2>2, NmMounts
  <2>4. QED BY <2>3 DEF NmGrown
<1>17. NmPlain(new)
  <2> SUFFICES ASSUME NEW i \in 1..Len(new), new[i].dev = NAMESPACE PROVE new[i].repl = << >>
    BY DEF NmPlain
  <2>1. CASE i \in 1..Len(tab) BY <1>13, <1>16, <2>1 DEF NmPlain
  <2>2. CASE new[i] = [prefix |-> p, repl |-> r, dev |-> d] BY <1>11, <1>15, <2>2
  <2>3. QED BY <1>16, <2>1, <2>2
<1>18. Len(new) <= m
  <2>1. Len(new) \in Nat /\ Len(tab) \in Nat BY <1>13, <1>16
  <2>2. QED BY <1>7, <1>13, <1>16, <2>1
<1>19. NmTableUpTo(m, new) BY <1>16, <1>17, <1>18 DEF NmTableUpTo
<1>20. NmTable[m] = new BY <1>5, <1>6, <1>8, <1>10, <1>12
<1>21. QED BY <1>4, <1>19, <1>20

LEMMA NmTableInit == naminit => NmTableOK
<1> SUFFICES ASSUME naminit PROVE NmTableOK OBVIOUS
<1>1. PICK n \in Nat : n = Len(NmAll) BY NmAllOK
<1>2. n >= 8 /\ n <= NNAMES
  <2>1. Len(NmDevices) \in Nat /\ Len(NmDevices) + 8 <= NNAMES BY NamAssumption
  <2>2. QED BY <1>1, <2>1, NmAllOK
<1>3. n \in 0..Len(NmAll) /\ n - 1 \in 0..Len(NmAll) /\ n # 0 BY <1>1, <1>2
<1>4. PICK new, tab : new = NmTable[n] /\ tab = NmTable[n - 1] OBVIOUS
<1>5. NmTableUpTo(n, new) /\ NmTableUpTo(n - 1, tab) BY <1>3, <1>4, NmTables
<1>6. NmAll[n] = [prefix |-> << >>, repl |-> << >>, dev |-> LFILESYS] BY <1>1, NmAllOK
<1>7. new = Mounted(tab, << >>, << >>, LFILESYS) BY <1>3, <1>4, <1>6, NmTableIs
<1>8. tab \in Seq(NmEntries) /\ Len(tab) <= n - 1 BY <1>5 DEF NmTableUpTo
<1>9. Len(tab) \in Nat /\ NNAMES \in Nat BY <1>8, NmNumbers
<1>10. Len(tab) < NNAMES BY <1>2, <1>8, <1>9
<1>11. << >> \in Names BY DEF Names
<1>12. PICK p, x : p = << >> /\ x = << >> OBVIOUS
<1>13. p \in Names /\ x \in Names /\ LFILESYS \in NmDevs BY <1>11, <1>12, NmNumbers
<1>14. Len(new) = Len(tab) + 1 /\ new[Len(new)].prefix = << >>
  <2>1. PICK d \in NmDevs \cup {NmSYSERR} : d = LFILESYS BY NmNumbers
  <2>2. new = Mounted(tab, p, x, d) BY <1>7, <1>12, <2>1
  <2>3. d \in NmDevs BY <2>1, NmNumbers
  <2>4. tab \in Seq(NmEntries) /\ Len(tab) < NNAMES BY <1>8, <1>10
  <2>5. p \in Names /\ x \in Names /\ p = << >> /\ x = << >> BY <1>12, <1>13
  <2>6. Len(tab) < NNAMES /\ p = << >> /\ x = << >> /\ d \in NmDevs
        => Len(new) = Len(tab) + 1 /\ new[Len(new)].prefix = << >>
    <3>1. NmGrown(tab, p, x, d, new) BY <2>2, <2>4, <2>5, NmMounts
    <3>2. QED BY <3>1 DEF NmGrown
  <2>7. QED BY <2>3, <2>4, <2>5, <2>6
<1>15. nametab = new BY <1>1, <1>4 DEF naminit
<1>16. new \in Seq(NmEntries) /\ NmPlain(new) BY <1>5 DEF NmTableUpTo
<1>17. Len(new) \in 1..Len(new) BY <1>9, <1>14
<1>18. NmLast(new, Len(new)) BY <1>14, <1>16 DEF NmLast, NmPlain
<1>19. QED BY <1>15, <1>16, <1>17, <1>18 DEF NmTableOK

\* What the property says of one table and one opened name; a table that has
\* grown maps the name to what it was mapped to.
NmMatchesIn(tab, name) == {i \in DOMAIN tab : IsPrefix(tab[i].prefix, name)}
NmMapsIn(tab, o) ==
    /\ Len(o.new) + 1 <= NM_MAXLEN
    /\ o.dev # NmSYSERR /\ o.ended /\ tab[NmFirst(NmMatchesIn(tab, o.name))].dev # NAMESPACE
          => IsSuffix(SubSeq(o.name, Len(o.first) + 1, Len(o.name)), o.new)
    /\ Len(o.name) + 1 < NmCharBit => o.ended
LEMMA NmKeepsFirst ==
    ASSUME NEW tab \in Seq(NmEntries), NEW new \in Seq(NmEntries), Len(tab) <= Len(new),
           \A i \in 1..Len(tab) : new[i] = tab[i],
           NEW d \in 1..Len(tab), NmLast(tab, d), NEW name \in Names
    PROVE  /\ d \in 1..Len(new) /\ NmLast(new, d)
           /\ new[NmFirst(NmMatchesIn(new, name))] = tab[NmFirst(NmMatchesIn(tab, name))]
<1>1. PICK m \in Nat, n \in Nat : m = Len(tab) /\ n = Len(new) OBVIOUS
<1>2. m <= n /\ d \in 1..m BY <1>1
<1>3. \A i \in 1..m : i \in 1..n /\ new[i] = tab[i] BY <1>1, <1>2
<1>4. NmLast(new, d)
  <2>1. tab[d].prefix = << >> /\ \A i \in 1..d : tab[i].dev = NAMESPACE => tab[i].repl = << >>
    BY DEF NmLast
  <2>2. \A i \in 1..d : i \in 1..m BY <1>2
  <2>3. d \in 1..d BY <1>2
  <2>4. QED BY <1>3, <2>1, <2>2, <2>3 DEF NmLast
<1>5. PICK S, T : S = NmMatchesIn(tab, name) /\ T = NmMatchesIn(new, name) OBVIOUS
<1>6. DOMAIN tab = 1..m /\ DOMAIN new = 1..n BY <1>1
<1>7. S = {i \in 1..m : IsPrefix(tab[i].prefix, name)} BY <1>5, <1>6 DEF NmMatchesIn
<1>8. T = {i \in 1..n : IsPrefix(new[i].prefix, name)} BY <1>5, <1>6 DEF NmMatchesIn
<1>9. d \in S
  <2>1. IsPrefix(<< >>, name)
    <3>1. Len(<< >>) = 0 /\ Len(name) \in Nat BY DEF Names
    <3>2. SubSeq(<< >>, 1, 0) = << >> /\ SubSeq(name, 1, 0) = << >> BY DEF Names
    <3>3. QED BY <3>1, <3>2 DEF IsPrefix
  <2>2. tab[d].prefix = << >> BY DEF NmLast
  <2>3. QED BY <1>2, <1>7, <2>1, <2>2
<1>10. S \subseteq Nat /\ S # {} BY <1>7, <1>9
<1>11. PICK i \in S : \A j \in S : i <= j BY <1>10, LeastNat
<1>12. NmFirst(S) = i
  <2>1. \A a, b \in S : a <= b /\ b <= a => a = b BY <1>10
  <2>2. QED BY <1>11, <2>1 DEF NmFirst
<1>13. i \in T /\ i \in 1..m BY <1>3, <1>7, <1>8, <1>11
<1>14. \A j \in T : i <= j
  <2> TAKE j \in T
  <2>1. CASE j \in 1..m BY <1>3, <1>7, <1>8, <1>11, <2>1
  <2>2. CASE j \notin 1..m BY <1>8, <1>13, <2>2
  <2>3. QED BY <2>1, <2>2
<1>15. NmFirst(T) = i
  <2>1. T \subseteq Nat BY <1>8
  <2>2. \A a, b \in T : a <= b /\ b <= a => a = b BY <2>1
  <2>3. QED BY <1>13, <1>14, <2>2 DEF NmFirst
<1>16. QED BY <1>1, <1>2, <1>3, <1>4, <1>5, <1>12, <1>13, <1>15

NamInv == NmTableOK /\ namopened.name \in Names /\ NamMapsRest
LEMMA NamInitially == naminit => NamInv
<1> SUFFICES ASSUME naminit PROVE NamInv OBVIOUS
<1>1. NmTableOK BY NmTableInit
<1>2. namopened.name = << >> /\ namopened.new = << >> /\ namopened.dev = NmSYSERR /\ namopened.ended = TRUE
  BY DEF naminit
<1>3. << >> \in Names /\ Len(<< >>) = 0 /\ 0 + 1 <= NM_MAXLEN BY NmNumbers DEF Names
<1>4. NamMapsRest BY <1>2, <1>3 DEF NamMapsRest
<1>5. QED BY <1>1, <1>2, <1>3, <1>4 DEF NamInv

LEMMA NamStep == NamInv /\ [NamNext]_namvars => NamInv'
<1> SUFFICES ASSUME NamInv, [NamNext]_namvars PROVE NamInv' OBVIOUS
<1>1. NmTableOK /\ namopened.name \in Names /\ NamMapsRest BY DEF NamInv
<1>2. nametab \in Seq(NmEntries) BY <1>1 DEF NmTableOK
<1>3. PICK d \in 1..Len(nametab) : NmLast(nametab, d) BY <1>1 DEF NmTableOK
<1>4. ASSUME NEW prefix \in NmPrefixes, NEW repl \in NmRepls, NEW dev \in NmDevs, mount(prefix, repl, dev)
      PROVE  NamInv'
  <2>1. PICK tab, new, o : tab = nametab /\ new = nametab' /\ o = namopened OBVIOUS
  <2>2. prefix \in Names /\ repl \in Names /\ dev \in NmDevs \cup {NmSYSERR}
    BY NamAssumption DEF Names
  <2>3. new = Mounted(tab, prefix, repl, dev) /\ namopened' = o BY <1>4, <2>1 DEF mount
  <2>4. tab \in Seq(NmEntries) BY <1>2, <2>1
  <2>5. /\ new \in Seq(NmEntries) /\ Len(tab) <= Len(new) /\ \A i \in 1..Len(tab) : new[i] = tab[i]
    <3>1. PICK v \in NmDevs \cup {NmSYSERR} : v = dev BY <2>2
    <3>2. PICK p \in Names, x \in Names : p = prefix /\ x = repl BY <2>2
    <3>3. new = Mounted(tab, p, x, v) BY <2>3, <3>1, <3>2
    <3>4. NmGrown(tab, p, x, v, new) BY <2>4, <3>3, NmMounts
    <3>5. QED BY <3>4 DEF NmGrown
  <2>6. d \in 1..Len(tab) /\ NmLast(tab, d) /\ o.name \in Names BY <1>1, <1>3, <2>1
  <2>7. /\ d \in 1..Len(new) /\ NmLast(new, d)
        /\ new[NmFirst(NmMatchesIn(new, o.name))] = tab[NmFirst(NmMatchesIn(tab, o.name))]
    <3>1. PICK name : name = o.name OBVIOUS
    <3>2. name \in Names BY <2>6, <3>1
    <3>3. /\ d \in 1..Len(new) /\ NmLast(new, d)
          /\ new[NmFirst(NmMatchesIn(new, name))] = tab[NmFirst(NmMatchesIn(tab, name))]
      BY <2>4, <2>5, <2>6, <3>2, NmKeepsFirst
    <3>4. QED BY <3>1, <3>3
  <2>8. NmMapsIn(tab, o) BY <1>1, <2>1 DEF NamMapsRest, NmMapsIn, NmMatches, NmMatchesIn
  <2>9. NmMapsIn(new, o) BY <2>7, <2>8 DEF NmMapsIn
  <2>10. NamMapsRest' BY <2>1, <2>3, <2>9 DEF NamMapsRest, NmMapsIn, NmMatches, NmMatchesIn
  <2>11. NmTableOK' BY <2>1, <2>5, <2>7 DEF NmTableOK, NmLast
  <2>12. QED BY <2>3, <2>6, <2>10, <2>11 DEF NamInv
<1>5. ASSUME NEW name \in NmNames, namopen(name) PROVE NamInv'
  <2>1. name \in Names BY NamAssumption DEF Names
  <2>2. PICK m, e : m = nammap(name) /\ e = nametab[NmFirst(NmMatches(name))] OBVIOUS
  <2>3. NmMatches(name) # {} BY <1>1, <2>1, NmMatch
  <2>4. namopened' = [name |-> name, dev |-> m.dev, new |-> m.new, ended |-> m.ended, first |-> e.prefix]
    BY <1>5, <2>2, <2>3 DEF namopen
  <2>5. nametab' = nametab BY <1>5 DEF namopen
  <2>6. PICK o : o = namopened' OBVIOUS
  <2>7. o.name = name /\ o.dev = m.dev /\ o.new = m.new /\ o.ended = m.ended /\ o.first = e.prefix
    BY <2>4, <2>6
  <2>8. Len(name) \in Nat BY <2>1 DEF Names
  <2>9. /\ Len(m.new) + 1 <= NM_MAXLEN
        /\ m.dev # NmSYSERR /\ m.ended /\ e.dev # NAMESPACE
              => IsSuffix(SubSeq(name, Len(e.prefix) + 1, Len(name)), m.new)
        /\ Len(name) + 1 < NmCharBit => m.ended
    <3>1. CASE Len(name) >= NM_MAXLEN \/ NmMap(name)[Len(nametab)].dev = NAMESPACE
      <4>1. m = NmFailed BY <2>2, <3>1 DEF nammap
      <4>2. m.dev = NmSYSERR /\ m.new = << >> /\ m.ended = TRUE BY <4>1 DEF NmFailed
      <4>3. Len(<< >>) = 0 /\ 0 + 1 <= NM_MAXLEN BY NmNumbers
      <4>4. QED BY <4>2, <4>3
    <3>2. CASE ~(Len(name) >= NM_MAXLEN \/ NmMap(name)[Len(nametab)].dev = NAMESPACE)
      <4>1. PICK n \in Nat : n = Len(nametab) BY <1>2
      <4>2. m = NmMap(name)[n] BY <2>2, <3>2, <4>1 DEF nammap
      <4>3. Len(name) + 1 <= NM_MAXLEN BY <2>8, <3>2, NmNumbers
      <4>4. n \in 1..n /\ n \in 0..n BY <1>3, <4>1
      <4>5. NmOnWay(name, m) BY <1>1, <2>1, <4>1, <4>2, <4>3, <4>4, NmWay
      <4>6. ASSUME m.dev # NmSYSERR, m.ended, e.dev # NAMESPACE
            PROVE  IsSuffix(SubSeq(name, Len(e.prefix) + 1, Len(name)), m.new)
        <5>1. PICK r : r = namrepl(name) OBVIOUS
        <5>2. /\ r.dev \in {e.dev, NmSYSERR}
              /\ r.dev # NmSYSERR /\ r.ended => IsSuffix(SubSeq(name, Len(e.prefix) + 1, Len(name)), r.new)
          BY <1>1, <2>1, <2>2, <4>3, <5>1, NmReplOK
        <5>3. r.dev # NAMESPACE BY <4>6, <5>2, NmNumbers
        <5>4. m = r BY <1>1, <4>1, <4>2, <4>4, <5>1, <5>3, NmOnce
        <5>5. QED BY <4>6, <5>2, <5>4
      <4>7. QED BY <4>5, <4>6 DEF NmOnWay
    <3>3. QED BY <3>1, <3>2
  <2>10. NmMapsIn(nametab, o)
    <3>1. NmMatchesIn(nametab, name) = NmMatches(name) BY DEF NmMatchesIn, NmMatches
    <3>2. QED BY <2>2, <2>7, <2>9, <3>1 DEF NmMapsIn
  <2>11. NamMapsRest' BY <2>5, <2>6, <2>10 DEF NamMapsRest, NmMapsIn, NmMatches, NmMatchesIn
  <2>12. NmTableOK' BY <1>1, <2>5 DEF NmTableOK, NmLast
  <2>13. QED BY <2>1, <2>6, <2>7, <2>11, <2>12 DEF NamInv
<1>6. CASE UNCHANGED namvars
  <2>1. nametab' = nametab /\ namopened' = namopened BY <1>6 DEF namvars
  <2>2. QED BY <1>1, <2>1 DEF NamInv, NmTableOK, NmLast, NamMapsRest, NmMatches
<1>7. QED BY <1>4, <1>5, <1>6 DEF NamNext

\* A name that reaches a device fits its buffer with its NULLCH and ends with
\* what followed the first prefix that matched it, for every table that mounts
\* can build on that of naminit (nammap.c:33, nammap.c:98).
THEOREM NamesKeepTheirRest == NamSpec => []NamMapsRest
<1>1. NamInv => NamMapsRest BY DEF NamInv
<1>2. QED BY NamInitially, NamStep, <1>1, PTL DEF NamSpec
==============================================================================
