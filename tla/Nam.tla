--------------------------------- MODULE Nam ---------------------------------
(***************************************************************************)
(* The namespace (device/nam): a table of prefixes, each with a string to  *)
(* put in its place and a device, by which namopen maps a name until it    *)
(* reaches a device other than the namespace.  A name is a sequence, its   *)
(* characters as coarse as the prefixes need; NULLCH is left out of it and *)
(* counted where the code counts it.                                       *)
(***************************************************************************)
EXTENDS Integers, Sequences, SequencesExt

CONSTANTS NmChars,             \* what names are made of
          NmDevices,           \* the names of the devices in devtab, in order
          NAMESPACE,           \* the number of the namespace device
          NULLDEV, RFILESYS, LFILESYS,
          NM_PRELEN, NM_REPLLEN, NM_MAXLEN, NNAMES,
          NmCharBit,           \* a char holds -NmCharBit .. NmCharBit - 1
          NmPrefixes, NmRepls, \* what mount is called with later on
          NmNames              \* the names that are opened

\* A replacement fits a name, a name is not twice as long as a char can count,
\* and there is room for the prefixes of naminit (96, 256 and 128 in name.h).
ASSUME NamAssumption ==
    /\ {NM_PRELEN, NM_REPLLEN, NM_MAXLEN, NmCharBit} \subseteq Nat \ {0}
    /\ NM_REPLLEN <= NM_MAXLEN /\ NM_MAXLEN <= 2 * NmCharBit
    /\ NmDevices \in Seq(Seq(NmChars)) /\ Len(NmDevices) + 8 <= NNAMES /\ NNAMES \in Nat
    /\ NAMESPACE \notin {NULLDEV, RFILESYS, LFILESYS}
    /\ {NAMESPACE, NULLDEV, RFILESYS, LFILESYS} \subseteq 0..(Len(NmDevices) - 1)
    /\ {"/", "dev", "null", "remote", "local", "tmp", "tmp-", "~", "root:"} \subseteq NmChars
    /\ NmPrefixes \cup NmRepls \cup NmNames \subseteq Seq(NmChars)

VARIABLES nametab,             \* [prefix, repl, dev]; nnames is its length
          namopened            \* the last name mapped, and to what
namvars == <<nametab, namopened>>

NmSYSERR == -1
NmDevs == 0..(Len(NmDevices) - 1)
isbaddev(d) == d \notin NmDevs

\* namlen counts the NULLCH, and stops at max.
namlen(s, max) == IF Len(s) < max THEN Len(s) + 1 ELSE NmSYSERR

\* mount: what the table holds after the call.
Mounted(tab, prefix, repl, dev) ==
    IF \/ Len(tab) >= NNAMES
       \/ namlen(prefix, NM_PRELEN) = NmSYSERR \/ namlen(repl, NM_REPLLEN) = NmSYSERR \/ isbaddev(dev)
    THEN tab ELSE Append(tab, [prefix |-> prefix, repl |-> repl, dev |-> dev])

\* naminit: every device below /dev/, then the other prefixes.  The one that
\* was to refuse the rest of /dev/ has no device, so mount refuses it.
NmDev == <<"/", "dev", "/">>
NmOthers == <<
    [prefix |-> NmDev \o <<"null">>, repl |-> << >>, dev |-> NULLDEV],
    [prefix |-> <<"/", "remote", "/">>, repl |-> << >>, dev |-> RFILESYS],
    [prefix |-> <<"/", "local", "/">>, repl |-> << >>, dev |-> LFILESYS],
    [prefix |-> <<"/", "tmp", "/">>, repl |-> <<"tmp-">>, dev |-> LFILESYS],
    [prefix |-> NmDev, repl |-> << >>, dev |-> NmSYSERR],
    [prefix |-> <<"~", "/">>, repl |-> << >>, dev |-> RFILESYS],
    [prefix |-> <<"/">>, repl |-> <<"root:">>, dev |-> RFILESYS],
    [prefix |-> << >>, repl |-> << >>, dev |-> LFILESYS]>>
NmAll == [i \in DOMAIN NmDevices |-> [prefix |-> NmDev \o NmDevices[i], repl |-> << >>, dev |-> i - 1]] \o NmOthers
NmTable[k \in 0..Len(NmAll)] ==         \* after k calls of mount
    IF k = 0 THEN << >>
    ELSE Mounted(NmTable[k - 1], NmAll[k].prefix, NmAll[k].repl, NmAll[k].dev)
naminit ==
    /\ nametab = NmTable[Len(NmAll)]
    /\ namopened = [name |-> << >>, first |-> << >>, dev |-> NmSYSERR, new |-> << >>, ended |-> TRUE]
-----------------------------------------------------------------------------
\* namrepl: the first prefix that matches.  The length of the name is kept in
\* a char; a result without its NULLCH is not ended.
NmChar(n) == ((n + NmCharBit) % (2 * NmCharBit)) - NmCharBit
NmMatches(name) == {i \in DOMAIN nametab : IsPrefix(nametab[i].prefix, name)}
NmFirst(S) == CHOOSE i \in S : \A j \in S : i <= j
NmFits(rlen, remain) == rlen + remain <= NM_MAXLEN
BugSkipsOne(name, plen, remain) == SubSeq(name, plen + 2, plen + remain - 1)
NmRest(name, plen, remain) == SubSeq(name, plen + 1, plen + remain - 1)
NmFailed == [dev |-> NmSYSERR, new |-> << >>, ended |-> TRUE]
namrepl(name) ==
    IF NmMatches(name) = {} THEN NmFailed
    ELSE LET e == nametab[NmFirst(NmMatches(name))]
             plen == Len(e.prefix)
             rlen == namlen(e.repl, NM_MAXLEN) - 1
             remain == NmChar(namlen(name, NM_MAXLEN)) - plen IN
         IF ~NmFits(rlen, remain) THEN NmFailed
         ELSE [dev |-> e.dev, new |-> e.repl \o NmRest(name, plen, remain), ended |-> remain > 0]

\* nammap: at most as many substitutions as there are entries.  One whose
\* result is not ended leaves whatever was in the buffer behind it: the
\* outcome is the caller's stack, and the walk is not followed further.
NmSubst(m) == IF m.dev = NAMESPACE /\ m.ended THEN namrepl(m.new) ELSE m
NmMap(name) ==                          \* after k substitutions
    LET map[k \in 0..Len(nametab)] ==
            IF k = 0 THEN [dev |-> NAMESPACE, new |-> name, ended |-> TRUE] ELSE NmSubst(map[k - 1])
    IN  map
nammap(name) ==
    LET m == NmMap(name)[Len(nametab)] IN
    IF Len(name) >= NM_MAXLEN \/ m.dev = NAMESPACE THEN NmFailed ELSE m

mount(prefix, repl, dev) ==
    /\ nametab' = Mounted(nametab, prefix, repl, dev) /\ nametab' # nametab
    /\ UNCHANGED namopened
namopen(name) ==
    /\ LET m == nammap(name)
           i == NmMatches(name) IN
       namopened' = [name |-> name, dev |-> m.dev, new |-> m.new, ended |-> m.ended,
                     first |-> IF i = {} THEN << >> ELSE nametab[NmFirst(i)].prefix]
    /\ UNCHANGED nametab

NamNext ==
    \/ \E prefix \in NmPrefixes, repl \in NmRepls, d \in NmDevs : mount(prefix, repl, d)
    \/ \E name \in NmNames : namopen(name)
NamSpec == naminit /\ [][NamNext]_namvars
-----------------------------------------------------------------------------
\* The name that reaches the device fits the buffer with its NULLCH, and ends
\* with what followed the prefix in the name that was opened, however many
\* substitutions there were: nothing is dropped or written past the buffer.
\* That is so for names whose length fits a char (nammap.c:55), whatever is
\* mounted: every name matches an entry of naminit (naminit.c:89) first.
NamMapsRest ==
    LET o == namopened
        rest == SubSeq(o.name, Len(o.first) + 1, Len(o.name)) IN
    /\ Len(o.new) + 1 <= NM_MAXLEN
    /\ o.dev # NmSYSERR /\ o.ended /\ nametab[NmFirst(NmMatches(o.name))].dev # NAMESPACE
          => IsSuffix(rest, o.new)
    /\ Len(o.name) + 1 < NmCharBit => o.ended
==============================================================================
