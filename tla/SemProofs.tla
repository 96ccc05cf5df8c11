------------------------------ MODULE SemProofs ------------------------------
(***************************************************************************)
(* What the operators of Sem return, and how they move permits between the *)
(* semaphore and the processes that use it.                                *)
(***************************************************************************)
EXTENDS Sem, ProcQueueProofs

SemRecords(S) == [val : Int, queue : Seq(S)]

LEMMA PSem ==
    ASSUME NEW S, NEW s \in SemRecords(S), NEW p \in S
    PROVE  /\ P(s, p) \in SemRecords(S)
           /\ Passes(s) => P(s, p).val = s.val - 1 /\ P(s, p).queue = s.queue
           /\ ~Passes(s) => P(s, p).val = s.val /\ P(s, p).queue = enqueue(p, s.queue)
<1>1. s.val \in Int /\ s.queue \in Seq(S) BY DEF SemRecords
<1>2. CASE Passes(s)
  <2>1. P(s, p) = [s EXCEPT !.val = s.val - 1] BY <1>2 DEF P, Passes
  <2>2. QED BY <1>1, <1>2, <2>1 DEF SemRecords
<1>3. CASE ~Passes(s)
  <2>1. P(s, p) = [s EXCEPT !.queue = Append(s.queue, p)] BY <1>3 DEF P, Passes
  <2>2. Append(s.queue, p) \in Seq(S) BY <1>1
  <2>3. QED BY <1>1, <1>3, <2>1, <2>2 DEF SemRecords, enqueue
<1>4. QED BY <1>2, <1>3

LEMMA VSem ==
    ASSUME NEW S, NEW s \in SemRecords(S)
    PROVE  /\ V(s) \in SemRecords(S)
           /\ s.queue = << >> => V(s).val = s.val + 1 /\ V(s).queue = s.queue
           /\ s.queue # << >> => V(s).val = s.val /\ V(s).queue = Tail(s.queue)
<1>1. s.val \in Int /\ s.queue \in Seq(S) BY DEF SemRecords
<1>2. CASE s.queue = << >>
  <2>1. V(s) = [s EXCEPT !.val = s.val + 1] BY <1>2 DEF V
  <2>2. QED BY <1>1, <1>2, <2>1 DEF SemRecords
<1>3. CASE s.queue # << >>
  <2>1. V(s) = [s EXCEPT !.queue = Tail(s.queue)] BY <1>3 DEF V
  <2>2. Tail(s.queue) \in Seq(S) BY <1>1, <1>3
  <2>3. QED BY <1>1, <1>3, <2>1, <2>2 DEF SemRecords
<1>4. QED BY <1>2, <1>3

LEMMA LeaveSem ==
    ASSUME NEW S, NEW s \in SemRecords(S), NEW p, NoDup(s.queue)
    PROVE  /\ Leave(s, p) \in SemRecords(S) /\ Leave(s, p).val = s.val
           /\ ~Waits(s, p) => Leave(s, p) = s
           /\ NoDup(Leave(s, p).queue)
           /\ \A x : Waits(Leave(s, p), x) <=> Waits(s, x) /\ x # p
<1>1. s.val \in Int /\ s.queue \in Seq(S) BY DEF SemRecords
<1>2. CASE Waits(s, p)
  <2>1. Leave(s, p) = [s EXCEPT !.queue = getitem(p, s.queue)] BY <1>2 DEF Leave
  <2>2. /\ getitem(p, s.queue) \in Seq(S) /\ NoDup(getitem(p, s.queue))
        /\ \A x : OnQueue(getitem(p, s.queue), x) <=> OnQueue(s.queue, x) /\ x # p
    BY <1>1, <1>2, GetitemQueue, Zenon DEF Waits
  <2>3. Leave(s, p) \in SemRecords(S) /\ Leave(s, p).val = s.val
        /\ Leave(s, p).queue = getitem(p, s.queue)
    BY <1>1, <2>1, <2>2 DEF SemRecords
  <2>4. QED BY <1>2, <2>2, <2>3 DEF Waits
<1>3. CASE ~Waits(s, p)
  <2>1. Leave(s, p) = s BY <1>3 DEF Leave
  <2>2. QED BY <1>3, <2>1 DEF SemRecords
<1>4. QED BY <1>2, <1>3
-----------------------------------------------------------------------------
\* A semaphore on which only the processes C wait, and the permits that it has
\* or that those of C who do not wait have been given.
Serving(s, C) ==
    s.val \in Nat /\ NoDup(s.queue) /\ \A i \in 1..Len(s.queue) : s.queue[i] \in C
Awake(s, C) == {p \in C : ~Waits(s, p)}
Taken(s, C) == s.val + Cardinality(Awake(s, C))

LEMMA ServingWaits ==
    ASSUME NEW s, NEW C
    PROVE  Serving(s, C) <=>
             s.val \in Nat /\ NoDup(s.queue) /\ \A x : Waits(s, x) => x \in C
  BY DEF Serving, Waits, OnQueue

LEMMA AwakeFinite ==
    ASSUME NEW s, NEW C, IsFiniteSet(C)
    PROVE  IsFiniteSet(Awake(s, C)) /\ Cardinality(Awake(s, C)) \in Nat
<1>1. Awake(s, C) \subseteq C BY DEF Awake
<1>2. QED BY <1>1, FS_Subset, FS_CardinalityType

LEMMA TakenInt ==
    ASSUME NEW S, NEW s \in SemRecords(S), NEW C, IsFiniteSet(C)
    PROVE  Taken(s, C) \in Int
<1>1. s.val \in Int /\ Cardinality(Awake(s, C)) \in Nat BY AwakeFinite DEF SemRecords
<1>2. QED BY <1>1 DEF Taken

\* wait that passes takes a permit of the semaphore.
LEMMA TakenPass ==
    ASSUME NEW S, NEW s \in SemRecords(S), NEW C, IsFiniteSet(C), Serving(s, C),
           NEW p \in S, Passes(s)
    PROVE  Serving(P(s, p), C) /\ Taken(P(s, p), C) = Taken(s, C) - 1
<1>1. P(s, p).val = s.val - 1 /\ P(s, p).queue = s.queue /\ s.val \in Nat
  BY PSem DEF Serving
<1>2. Awake(P(s, p), C) = Awake(s, C) BY <1>1 DEF Awake, Waits
<1>3. Cardinality(Awake(s, C)) \in Nat BY AwakeFinite
<1>4. QED BY <1>1, <1>2, <1>3 DEF Serving, Taken, Passes

\* wait that blocks makes its caller one of those that wait.
LEMMA TakenBlock ==
    ASSUME NEW S, NEW s \in SemRecords(S), NEW C, IsFiniteSet(C), Serving(s, C),
           NEW p \in S, p \notin C, ~Passes(s)
    PROVE  Serving(P(s, p), C \cup {p}) /\ Taken(P(s, p), C \cup {p}) = Taken(s, C)
<1>1. P(s, p).val = s.val /\ P(s, p).queue = enqueue(p, s.queue) BY PSem
<1>2. s.queue \in Seq(S) /\ NoDup(s.queue) /\ s.val \in Nat BY DEF Serving, SemRecords
<1>3. \A x : Waits(s, x) => x \in C BY ServingWaits
<1>4. ~OnQueue(s.queue, p) BY <1>3 DEF Waits
<1>5. /\ NoDup(enqueue(p, s.queue))
      /\ \A x : OnQueue(enqueue(p, s.queue), x) <=> OnQueue(s.queue, x) \/ x = p
  BY <1>2, <1>4, EnqueueQueue, Zenon
<1>6. \A x : Waits(P(s, p), x) <=> Waits(s, x) \/ x = p BY <1>1, <1>5 DEF Waits
<1>7. Serving(P(s, p), C \cup {p})
  <2>1. P(s, p).val \in Nat /\ NoDup(P(s, p).queue) BY <1>1, <1>2, <1>5
  <2>2. \A x : Waits(P(s, p), x) => x \in C \cup {p} BY <1>3, <1>6
  <2>3. QED BY <2>1, <2>2, ServingWaits
<1>8. Awake(P(s, p), C \cup {p}) = Awake(s, C) BY <1>6 DEF Awake
<1>9. QED BY <1>1, <1>7, <1>8 DEF Taken

\* signal gives a permit, to the semaphore or to the first process that waits.
LEMMA TakenV ==
    ASSUME NEW S, NEW s \in SemRecords(S), NEW C, IsFiniteSet(C), Serving(s, C)
    PROVE  Serving(V(s), C) /\ Taken(V(s), C) = Taken(s, C) + 1
<1>1. s.queue \in Seq(S) /\ NoDup(s.queue) /\ s.val \in Nat BY DEF Serving, SemRecords
<1>2. \A x : Waits(s, x) => x \in C BY ServingWaits
<1>3. IsFiniteSet(Awake(s, C)) /\ Cardinality(Awake(s, C)) \in Nat BY AwakeFinite
<1>4. CASE s.queue = << >>
  <2>1. V(s).val = s.val + 1 /\ V(s).queue = s.queue BY <1>4, VSem
  <2>2. Awake(V(s), C) = Awake(s, C) BY <2>1 DEF Awake, Waits
  <2>3. QED BY <1>1, <1>3, <2>1, <2>2 DEF Serving, Taken
<1>5. CASE s.queue # << >>
  <2> DEFINE h == Head(s.queue)
  <2>1. V(s).val = s.val /\ V(s).queue = Tail(s.queue) BY <1>5, VSem
  <2>2. /\ OnQueue(s.queue, h) /\ NoDup(Tail(s.queue))
        /\ \A x : OnQueue(Tail(s.queue), x) <=> OnQueue(s.queue, x) /\ x # h
    BY <1>1, <1>5, DequeueQueue, Zenon
  <2> HIDE DEF h
  <2>3. \A x : Waits(V(s), x) <=> Waits(s, x) /\ x # h BY <2>1, <2>2 DEF Waits
  <2>4. Serving(V(s), C)
    <3>1. V(s).val \in Nat /\ NoDup(V(s).queue) BY <1>1, <2>1, <2>2
    <3>2. \A x : Waits(V(s), x) => x \in C BY <1>2, <2>3
    <3>3. QED BY <3>1, <3>2, ServingWaits
  <2>5. h \in C /\ h \notin Awake(s, C) BY <1>2, <2>2 DEF Awake, Waits
  <2>6. Awake(V(s), C) = Awake(s, C) \cup {h} BY <2>3, <2>5 DEF Awake
  <2>7. Cardinality(Awake(V(s), C)) = Cardinality(Awake(s, C)) + 1
    BY <1>3, <2>5, <2>6, FS_AddElement
  <2>8. QED BY <1>1, <1>3, <2>1, <2>4, <2>7 DEF Taken
<1>6. QED BY <1>4, <1>5

\* A process that is killed while it waits leaves its place.
LEMMA TakenLeave ==
    ASSUME NEW S, NEW s \in SemRecords(S), NEW C, IsFiniteSet(C), Serving(s, C),
           NEW p, Waits(s, p)
    PROVE  Serving(Leave(s, p), C \ {p}) /\ Taken(Leave(s, p), C \ {p}) = Taken(s, C)
<1>1. /\ Leave(s, p).val = s.val /\ NoDup(Leave(s, p).queue) /\ s.val \in Nat
      /\ \A x : Waits(Leave(s, p), x) <=> Waits(s, x) /\ x # p
  BY LeaveSem DEF Serving
<1>2. \A x : Waits(Leave(s, p), x) => x \in C \ {p} BY <1>1, ServingWaits
<1>3. Serving(Leave(s, p), C \ {p}) BY <1>1, <1>2, ServingWaits
<1>4. Awake(Leave(s, p), C \ {p}) = Awake(s, C) BY <1>1 DEF Awake
<1>5. QED BY <1>1, <1>3, <1>4 DEF Taken

\* A process that has its permit and goes on takes it along.
LEMMA TakenGone ==
    ASSUME NEW S, NEW s \in SemRecords(S), NEW C, IsFiniteSet(C), Serving(s, C),
           NEW p \in C, ~Waits(s, p)
    PROVE  Serving(s, C \ {p}) /\ Taken(s, C \ {p}) = Taken(s, C) - 1
<1>1. \A x : Waits(s, x) => x \in C \ {p} BY ServingWaits
<1>2. Serving(s, C \ {p}) BY <1>1, ServingWaits
<1>3. Awake(s, C \ {p}) = Awake(s, C) \ {p} /\ p \in Awake(s, C) BY DEF Awake
<1>4. Cardinality(Awake(s, C \ {p})) = Cardinality(Awake(s, C)) - 1
  BY <1>3, AwakeFinite, FS_RemoveElement
<1>5. s.val \in Nat /\ Cardinality(Awake(s, C)) \in Nat BY AwakeFinite DEF Serving
<1>6. QED BY <1>2, <1>4, <1>5 DEF Taken

\* A process that waits on a semaphore for the first time, and one that signals
\* it when it has done: where a semaphore is a mutex, nothing else is done to it.
LEMMA TakenEnter ==
    ASSUME NEW S, NEW s \in SemRecords(S), NEW C, IsFiniteSet(C), Serving(s, C),
           NEW p \in S, p \notin C
    PROVE  Serving(P(s, p), C \cup {p}) /\ Taken(P(s, p), C \cup {p}) = Taken(s, C)
<1>1. CASE Passes(s)
  <2>1. PICK t \in SemRecords(S) : t = P(s, p) BY PSem
  <2>2. Serving(t, C) /\ Taken(t, C) = Taken(s, C) - 1 BY <1>1, <2>1, TakenPass
  <2>3. \A x : Waits(t, x) => x \in C BY <2>2, ServingWaits
  <2>4. Serving(t, C \cup {p}) BY <2>2, <2>3, ServingWaits
  <2>5. Awake(t, C \cup {p}) = Awake(t, C) \cup {p} /\ p \notin Awake(t, C)
    BY <2>3 DEF Awake
  <2>6. IsFiniteSet(Awake(t, C)) /\ Cardinality(Awake(t, C)) \in Nat BY AwakeFinite
  <2>7. Cardinality(Awake(t, C \cup {p})) = Cardinality(Awake(t, C)) + 1
    BY <2>5, <2>6, FS_AddElement
  <2>8. t.val \in Int /\ Taken(s, C) \in Int BY TakenInt DEF SemRecords
  <2>9. Taken(t, C \cup {p}) = Taken(s, C) BY <2>2, <2>6, <2>7, <2>8 DEF Taken
  <2>10. QED BY <2>1, <2>4, <2>9
<1>2. CASE ~Passes(s) BY <1>2, TakenBlock
<1>3. QED BY <1>1, <1>2

LEMMA TakenExit ==
    ASSUME NEW S, NEW s \in SemRecords(S), NEW C, IsFiniteSet(C), Serving(s, C),
           NEW p \in C, ~Waits(s, p)
    PROVE  Serving(V(s), C \ {p}) /\ Taken(V(s), C \ {p}) = Taken(s, C)
<1>1. Serving(s, C \ {p}) /\ Taken(s, C \ {p}) = Taken(s, C) - 1 BY TakenGone
<1>2. IsFiniteSet(C \ {p}) BY FS_RemoveElement
<1>3. Serving(V(s), C \ {p}) /\ Taken(V(s), C \ {p}) = Taken(s, C \ {p}) + 1
  BY <1>1, <1>2, TakenV
<1>4. Taken(s, C) \in Int BY TakenInt
<1>5. QED BY <1>1, <1>3, <1>4

\* A semaphore that has just been made or reset.
LEMMA TakenNew ==
    ASSUME NEW S, NEW n \in Nat
    PROVE  /\ SemNew(n) \in SemRecords(S) /\ Serving(SemNew(n), {})
           /\ Taken(SemNew(n), {}) = n
<1>1. SemNew(n).val = n /\ SemNew(n).queue = << >> /\ << >> \in Seq(S) /\ Len(<< >>) = 0
  BY DEF SemNew
<1>2. SemNew(n) \in SemRecords(S) BY <1>1 DEF SemNew, SemRecords
<1>3. Serving(SemNew(n), {}) BY <1>1 DEF Serving, NoDup
<1>4. Cardinality(Awake(SemNew(n), {})) = 0 BY FS_EmptySet DEF Awake
<1>5. Taken(SemNew(n), {}) = n BY <1>1, <1>4 DEF Taken
<1>6. QED BY <1>2, <1>3, <1>5

\* A permit is left only if nobody waits: every wait finds it so and every
\* signal leaves it so.
Tight(s) == s.val = 0 \/ s.queue = << >>

LEMMA TightKept ==
    ASSUME NEW S, NEW s \in SemRecords(S), NEW C, Serving(s, C), Tight(s), NEW p \in S
    PROVE  /\ Tight(P(s, p)) /\ Tight(V(s)) /\ Tight(Leave(s, p))
           /\ \A x : Waits(P(s, p), x) => Waits(s, x) \/ x = p
           /\ \A x : Waits(V(s), x) => Waits(s, x)
<1>1. s.queue \in Seq(S) /\ NoDup(s.queue) /\ s.val \in Nat BY DEF Serving, SemRecords
<1>2. ASSUME s.queue = << >> PROVE \A x : ~Waits(s, x)
  <2>1. Len(s.queue) = 0 BY <1>2
  <2>2. QED BY <2>1 DEF Waits, OnQueue
<1>3. Tight(P(s, p)) /\ \A x : Waits(P(s, p), x) => Waits(s, x) \/ x = p
  <2>1. CASE Passes(s)
    <3>1. P(s, p).queue = s.queue BY <2>1, PSem
    <3>2. s.val > 0 BY <2>1 DEF Passes
    <3>3. s.queue = << >> BY <1>1, <3>2 DEF Tight
    <3>4. QED BY <3>1, <3>3 DEF Tight, Waits
  <2>2. CASE ~Passes(s)
    <3>1. P(s, p).val = s.val /\ P(s, p).queue = Append(s.queue, p) BY <2>2, PSem DEF enqueue
    <3>2. s.val = 0 BY <1>1, <2>2 DEF Passes
    <3>3. ASSUME NEW x, Waits(P(s, p), x) PROVE Waits(s, x) \/ x = p
      <4>1. PICK i \in 1..Len(Append(s.queue, p)) : Append(s.queue, p)[i] = x
        BY <3>1, <3>3 DEF Waits, OnQueue
      <4>2. i \in 1..Len(s.queue) \/ Append(s.queue, p)[i] = p BY <1>1, <4>1
      <4>3. i \in 1..Len(s.queue) => Append(s.queue, p)[i] = s.queue[i] BY <1>1
      <4>4. QED BY <4>1, <4>2, <4>3 DEF Waits, OnQueue
    <3>4. QED BY <3>1, <3>2, <3>3 DEF Tight
  <2>3. QED BY <2>1, <2>2
<1>4. Tight(V(s)) /\ \A x : Waits(V(s), x) => Waits(s, x)
  <2>1. CASE s.queue = << >>
    <3>1. V(s).queue = s.queue BY <2>1, VSem
    <3>2. QED BY <2>1, <3>1 DEF Tight, Waits
  <2>2. CASE s.queue # << >>
    <3>1. V(s).val = s.val /\ V(s).queue = Tail(s.queue) BY <2>2, VSem
    <3>2. \A x : OnQueue(Tail(s.queue), x) => OnQueue(s.queue, x)
      BY <1>1, <2>2, DequeueQueue, Zenon
    <3>3. QED BY <2>2, <3>1, <3>2 DEF Tight, Waits
  <2>3. QED BY <2>1, <2>2
<1>5. Tight(Leave(s, p))
  <2>1. Leave(s, p).val = s.val BY <1>1, LeaveSem
  <2>2. CASE s.val = 0 BY <2>1, <2>2 DEF Tight
  <2>3. CASE s.queue = << >>
    <3>1. Leave(s, p) = s BY <1>1, <1>2, <2>3, LeaveSem
    <3>2. QED BY <2>3, <3>1 DEF Tight
  <2>4. QED BY <2>2, <2>3 DEF Tight
<1>6. QED BY <1>3, <1>4, <1>5
-----------------------------------------------------------------------------
\* signaln gives n permits, one after the other.
LEMMA VNStep ==
    ASSUME NEW S, NEW s \in SemRecords(S), NEW n \in Nat
    PROVE  VN(s, 0) = s /\ VN(s, n + 1) = V(VN(s, n))
<1> DEFINE q == s.queue
<1>1. s.val \in Int /\ q \in Seq(S) /\ Len(q) \in Nat /\ s = [val |-> s.val, queue |-> q]
  BY DEF SemRecords
<1>2. \A m \in 0..Len(q) : VN(s, m) = [val |-> s.val, queue |-> SubSeq(q, m + 1, Len(q))]
  <2> TAKE m \in 0..Len(q)
  <2>1. VN(s, m) = [s EXCEPT !.queue = SubSeq(s.queue, m + 1, Len(s.queue))] BY <1>1 DEF VN
  <2>2. QED BY <1>1, <2>1
<1>3. \A m \in Nat : m > Len(q) => VN(s, m) = [val |-> s.val + m - Len(q), queue |-> << >>]
  BY <1>1 DEF VN
<1>4. SubSeq(q, 0 + 1, Len(q)) = q BY <1>1
<1>5. VN(s, 0) = s
  <2>1. 0 \in 0..Len(q) BY <1>1
  <2>2. VN(s, 0) = [val |-> s.val, queue |-> SubSeq(q, 0 + 1, Len(q))] BY <1>2, <2>1
  <2>3. QED BY <1>1, <1>4, <2>2
<1>6. SubSeq(q, Len(q) + 1, Len(q)) = << >> BY <1>1
<1>7. CASE n < Len(q)
  <2>1. PICK u : u = SubSeq(q, n + 1, Len(q)) OBVIOUS
  <2>2. u # << >> /\ Tail(u) = SubSeq(q, (n + 1) + 1, Len(q))
    <3>1. u \in Seq(S) /\ Len(u) = Len(q) - n BY <1>1, <1>7, <2>1
    <3>2. u # << >> BY <1>1, <1>7, <3>1
    <3>3. \A i \in 1..(Len(q) - n) : u[i] = q[n + i] BY <1>1, <1>7, <2>1
    <3>4. PICK t : t = SubSeq(q, (n + 1) + 1, Len(q)) OBVIOUS
    <3>5. t \in Seq(S) /\ Len(t) = Len(q) - n - 1 BY <1>1, <1>7, <3>4
    <3>6. \A i \in 1..(Len(q) - n - 1) : t[i] = q[n + 1 + i] BY <1>1, <1>7, <3>4
    <3>7. Tail(u) \in Seq(S) /\ Len(Tail(u)) = Len(q) - n - 1 BY <1>1, <1>7, <3>1, <3>2
    <3>8. \A i \in 1..(Len(q) - n - 1) : Tail(u)[i] = u[i + 1] BY <1>1, <1>7, <3>1, <3>2
    <3>9. \A i \in 1..(Len(q) - n - 1) : Tail(u)[i] = t[i]
      <4> TAKE i \in 1..(Len(q) - n - 1)
      <4>1. i + 1 \in 1..(Len(q) - n) BY <1>1, <1>7
      <4>2. u[i + 1] = q[n + (i + 1)] BY <3>3, <4>1
      <4>3. n + (i + 1) = n + 1 + i BY <1>1
      <4>4. QED BY <3>6, <3>8, <4>2, <4>3
    <3>10. Tail(u) = t BY <3>5, <3>7, <3>9
    <3>11. QED BY <3>2, <3>4, <3>10
  <2>3. VN(s, n) = [val |-> s.val, queue |-> u] BY <1>1, <1>2, <1>7, <2>1
  <2>4. V(VN(s, n)) = [val |-> s.val, queue |-> Tail(u)]
    <3>1. PICK r : r = [val |-> s.val, queue |-> u] OBVIOUS
    <3>2. r.queue = u /\ V(r) = [r EXCEPT !.queue = Tail(r.queue)] BY <2>2, <3>1 DEF V
    <3>3. QED BY <2>3, <3>1, <3>2
  <2>5. n + 1 \in 0..Len(q) BY <1>1, <1>7
  <2>6. VN(s, n + 1) = [val |-> s.val, queue |-> SubSeq(q, (n + 1) + 1, Len(q))]
    BY <1>2, <2>5
  <2>7. QED BY <1>5, <2>2, <2>4, <2>6
<1>8. CASE n >= Len(q)
  <2>1. VN(s, n) = [val |-> s.val + n - Len(q), queue |-> << >>]
    <3>1. CASE n = Len(q)
      <4>1. n \in 0..Len(q) BY <1>1, <3>1
      <4>2. VN(s, n) = [val |-> s.val, queue |-> << >>] BY <1>2, <1>6, <3>1, <4>1
      <4>3. s.val = s.val + n - Len(q) BY <1>1, <3>1
      <4>4. QED BY <4>2, <4>3
    <3>2. CASE n > Len(q) BY <1>3, <3>2
    <3>3. QED BY <1>1, <1>8, <3>1, <3>2
  <2>2. V(VN(s, n)) = [val |-> (s.val + n - Len(q)) + 1, queue |-> << >>] BY <2>1 DEF V
  <2>3. n + 1 \in Nat /\ n + 1 > Len(q) BY <1>1, <1>8
  <2>4. VN(s, n + 1) = [val |-> s.val + (n + 1) - Len(q), queue |-> << >>] BY <1>3, <2>3
  <2>5. s.val + (n + 1) - Len(q) = (s.val + n - Len(q)) + 1 BY <1>1
  <2>6. QED BY <1>5, <2>2, <2>4, <2>5
<1>9. QED BY <1>1, <1>7, <1>8

\* The count that the code keeps goes up by one with each signal.
LEMMA VCount ==
    ASSUME NEW S, NEW s \in SemRecords(S), Tight(s)
    PROVE  semcount(s) \in Int /\ semcount(V(s)) = semcount(s) + 1
<1>1. s.val \in Int /\ s.queue \in Seq(S) /\ Len(s.queue) \in Nat BY DEF SemRecords
<1>2. CASE s.queue = << >>
  <2>1. V(s).val = s.val + 1 /\ V(s).queue = << >> BY <1>2, VSem
  <2>2. QED BY <1>1, <1>2, <2>1 DEF semcount
<1>3. CASE s.queue # << >>
  <2>1. V(s).val = 0 /\ V(s).queue = Tail(s.queue) BY <1>1, <1>3, VSem DEF Tight
  <2>2. semcount(s) = -Len(s.queue) BY <1>3 DEF semcount
  <2>3. Len(Tail(s.queue)) = Len(s.queue) - 1 BY <1>1, <1>3
  <2>4. CASE Tail(s.queue) = << >>
    <3>1. Len(s.queue) = 1
      <4>1. Len(<< >>) = 0 OBVIOUS
      <4>2. Len(Tail(s.queue)) = 0 BY <2>4, <4>1
      <4>3. QED BY <1>1, <2>3, <4>2
    <3>2. semcount(V(s)) = 0 BY <2>1, <2>4 DEF semcount
    <3>3. QED BY <2>2, <3>1, <3>2
  <2>5. CASE Tail(s.queue) # << >>
    <3>1. semcount(V(s)) = -Len(Tail(s.queue)) BY <2>1, <2>5 DEF semcount
    <3>2. QED BY <1>1, <2>2, <2>3, <3>1
  <2>6. QED BY <2>4, <2>5
<1>4. QED BY <1>2, <1>3

\* signal wakes nobody else, and leaves a permit only if nobody waits.
LEMMA WaitsV ==
    ASSUME NEW S, NEW s \in SemRecords(S)
    PROVE  /\ \A x : Waits(V(s), x) => Waits(s, x)
           /\ Tight(s) => Tight(V(s))
<1>1. s.queue \in Seq(S) BY DEF SemRecords
<1>2. CASE s.queue = << >>
  <2>1. V(s).queue = s.queue BY <1>2, VSem
  <2>2. QED BY <1>2, <2>1 DEF Tight, Waits
<1>3. CASE s.queue # << >>
  <2>1. V(s).val = s.val /\ V(s).queue = Tail(s.queue) BY <1>3, VSem
  <2>2. \A i \in 1..Len(Tail(s.queue)) : i + 1 \in 1..Len(s.queue) /\ Tail(s.queue)[i] = s.queue[i + 1]
    BY <1>1, <1>3
  <2>3. \A x : OnQueue(Tail(s.queue), x) => OnQueue(s.queue, x) BY <2>2 DEF OnQueue
  <2>4. QED BY <1>3, <2>1, <2>3 DEF Tight, Waits
<1>4. QED BY <1>2, <1>3

\* What signaln(s, n) has done when it has given m of its permits.
GivenN(s, C, S, m) ==
    /\ VN(s, m) \in SemRecords(S) /\ Serving(VN(s, m), C)
    /\ Taken(VN(s, m), C) = Taken(s, C) + m
    /\ Tight(s) => Tight(VN(s, m)) /\ semcount(VN(s, m)) = semcount(s) + m
    /\ \A x : Waits(VN(s, m), x) => Waits(s, x)

LEMMA TakenVN ==
    ASSUME NEW S, NEW s \in SemRecords(S), NEW C, IsFiniteSet(C), Serving(s, C), NEW n \in Nat
    PROVE  GivenN(s, C, S, n)
<1> DEFINE T == {m \in Nat : ~GivenN(s, C, S, m)}
<1> SUFFICES ASSUME n \in T PROVE FALSE OBVIOUS
<1> HIDE DEF T
<1>1. PICK k \in T : \A m \in T : k <= m
  <2>1. T \subseteq Nat BY DEF T
  <2>2. QED BY <2>1, LeastNat
<1>2. k \in Nat /\ ~GivenN(s, C, S, k) BY <1>1 DEF T
<1>3. Taken(s, C) \in Int BY TakenInt
<1>4. CASE k = 0
  <2>1. VN(s, k) = s BY <1>4, VNStep
  <2>2. Tight(s) => semcount(s) \in Int BY VCount
  <2>3. QED BY <1>2, <1>3, <1>4, <2>1, <2>2 DEF GivenN
<1>5. CASE k # 0
  <2>1. PICK m \in Nat : k = m + 1
    <3>1. k - 1 \in Nat /\ k = (k - 1) + 1 BY <1>2, <1>5
    <3>2. QED BY <3>1
  <2>2. m \notin T
    <3>1. ~(k <= m) BY <2>1
    <3>2. QED BY <1>1, <3>1
  <2>3. GivenN(s, C, S, m) BY <2>2 DEF T
  <2>4. PICK t \in SemRecords(S) : t = VN(s, m) BY <2>3 DEF GivenN
  <2>5. /\ Serving(t, C) /\ Taken(t, C) = Taken(s, C) + m /\ \A x : Waits(t, x) => Waits(s, x)
        /\ Tight(s) => Tight(t) /\ semcount(t) = semcount(s) + m
    BY <2>3, <2>4 DEF GivenN
  <2>6. VN(s, k) = V(t) BY <2>1, <2>4, VNStep
  <2>7. V(t) \in SemRecords(S) BY VSem
  <2>8. Serving(V(t), C) /\ Taken(V(t), C) = Taken(t, C) + 1 BY <2>5, TakenV
  <2>9. Taken(V(t), C) = Taken(s, C) + k BY <1>3, <2>1, <2>5, <2>8
  <2>10. \A x : Waits(V(t), x) => Waits(t, x) BY <2>5, WaitsV
  <2>11. ASSUME Tight(s) PROVE Tight(V(t)) /\ semcount(V(t)) = semcount(s) + k
    <3>1. Tight(t) /\ semcount(t) = semcount(s) + m BY <2>5, <2>11
    <3>2. Tight(V(t)) BY <3>1, WaitsV
    <3>3. semcount(V(t)) = semcount(t) + 1 BY <3>1, VCount
    <3>4. semcount(s) \in Int BY <2>11, VCount
    <3>5. QED BY <2>1, <3>1, <3>2, <3>3, <3>4
  <2>12. QED BY <1>2, <2>5, <2>6, <2>7, <2>8, <2>9, <2>10, <2>11 DEF GivenN
<1>6. QED BY <1>4, <1>5
-----------------------------------------------------------------------------
\* A circular buffer f of N places: the c entries from h on, all different,
\* and the place t that the next one takes.
Ring(f, N, h, c) == {f[(h + i) % N] : i \in 0..(c - 1)}
RingSound(f, N, h, t, c) ==
    /\ h \in 0..(N - 1) /\ c \in 0..N /\ t = (h + c) % N
    /\ \A i, j \in 0..(c - 1) : f[(h + i) % N] = f[(h + j) % N] => i = j

LEMMA RingWrap ==
    ASSUME NEW N \in Nat \ {0}, NEW x \in Nat, x < 2 * N
    PROVE  /\ x % N = IF x < N THEN x ELSE x - N
           /\ x % N \in 0..(N - 1)
  OBVIOUS

\* Going round by one and by i, and by one more; different places meet only
\* after a whole round.
LEMMA RingPlaces ==
    ASSUME NEW N \in Nat \ {0}, NEW h \in 0..(N - 1)
    PROVE  /\ \A i \in 0..N : (h + i) % N \in 0..(N - 1)
           /\ (h + 0) % N = h
           /\ \A i \in 0..(N - 1) : (((h + 1) % N) + i) % N = (h + (i + 1)) % N
           /\ \A c \in 0..(N - 1) : (((h + c) % N) + 1) % N = (h + (c + 1)) % N
           /\ \A i, j \in 0..(N - 1) : (h + i) % N = (h + j) % N => i = j
<1>1. \A x \in Nat : x < 2 * N => x % N = (IF x < N THEN x ELSE x - N) /\ x % N \in 0..(N - 1)
  BY RingWrap
<1> DEFINE w(x) == IF x < N THEN x ELSE x - N
<1>2. \A i \in 0..N : (h + i) % N = w(h + i)
  <2> TAKE i \in 0..N
  <2>1. h + i \in Nat /\ h + i < 2 * N OBVIOUS
  <2>2. QED BY <1>1, <2>1
<1>3. (h + 1) % N = w(h + 1) BY <1>2
<1>4. \A i \in 0..(N - 1) : (((h + 1) % N) + i) % N = w(w(h + 1) + i)
  <2> TAKE i \in 0..(N - 1)
  <2>1. w(h + 1) + i \in Nat /\ w(h + 1) + i < 2 * N OBVIOUS
  <2>2. QED BY <1>1, <1>3, <2>1
<1>5. \A i \in 0..(N - 1) : (((h + i) % N) + 1) % N = w(w(h + i) + 1)
  <2> TAKE i \in 0..(N - 1)
  <2>1. w(h + i) + 1 \in Nat /\ w(h + i) + 1 < 2 * N OBVIOUS
  <2>2. (h + i) % N = w(h + i) BY <1>2
  <2>3. QED BY <1>1, <2>1, <2>2
<1>6. \A i \in 0..(N - 1) : /\ w(w(h + 1) + i) = w(h + (i + 1))
                            /\ w(w(h + i) + 1) = w(h + (i + 1))
  OBVIOUS
<1>7. \A i \in 0..(N - 1) : i \in 0..N /\ i + 1 \in 0..N OBVIOUS
<1>8. \A i \in 0..(N - 1) : (h + (i + 1)) % N = w(h + (i + 1)) BY <1>2, <1>7
<1>9. \A i \in 0..N : (h + i) % N \in 0..(N - 1)
  <2> TAKE i \in 0..N
  <2>1. h + i \in Nat /\ h + i < 2 * N OBVIOUS
  <2>2. QED BY <1>1, <2>1
<1>10. (h + 0) % N = h
  <2>1. w(h + 0) = h /\ 0 \in 0..N OBVIOUS
  <2>2. QED BY <1>2, <2>1
<1>11. \A i, j \in 0..(N - 1) : (h + i) % N = (h + j) % N => i = j
  <2>1. \A i, j \in 0..(N - 1) : w(h + i) = w(h + j) => i = j OBVIOUS
  <2>2. QED BY <1>2, <1>7, <2>1
<1> HIDE DEF w
<1>12. \A i \in 0..(N - 1) : (((h + 1) % N) + i) % N = (h + (i + 1)) % N
  BY <1>4, <1>6, <1>8, Zenon
<1>13. \A c \in 0..(N - 1) : (((h + c) % N) + 1) % N = (h + (c + 1)) % N
  BY <1>5, <1>6, <1>8, Zenon
<1>14. QED BY <1>9, <1>10, <1>11, <1>12, <1>13, Zenon

LEMMA RingPut ==
    ASSUME NEW N \in Nat \ {0}, NEW f, NEW h, NEW t, NEW c, RingSound(f, N, h, t, c), c < N,
           NEW b, b \notin Ring(f, N, h, c), NEW g, g[t] = b,
           \A k \in 0..(N - 1) : k # t => g[k] = f[k]
    PROVE  /\ RingSound(g, N, h, (t + 1) % N, c + 1)
           /\ Ring(g, N, h, c + 1) = Ring(f, N, h, c) \cup {b}
<1>1. h \in 0..(N - 1) /\ c \in 0..(N - 1) /\ t = (h + c) % N BY DEF RingSound
<1>2. /\ \A i \in 0..N : (h + i) % N \in 0..(N - 1)
      /\ (((h + c) % N) + 1) % N = (h + (c + 1)) % N
      /\ \A i, j \in 0..(N - 1) : (h + i) % N = (h + j) % N => i = j
  <2>1. h \in 0..(N - 1) /\ c \in 0..(N - 1) BY <1>1
  <2>2. \A i \in 0..N : (h + i) % N \in 0..(N - 1) BY <2>1, RingPlaces, Zenon
  <2>3. \A k \in 0..(N - 1) : (((h + k) % N) + 1) % N = (h + (k + 1)) % N
    BY <2>1, RingPlaces, Zenon
  <2>4. \A i, j \in 0..(N - 1) : (h + i) % N = (h + j) % N => i = j
    BY <2>1, RingPlaces, Zenon
  <2>5. QED BY <2>1, <2>2, <2>3, <2>4
<1>3. \A i \in 0..(c - 1) : i \in 0..(N - 1) /\ i \in 0..N /\ i # c BY <1>1
<1>4. \A i \in 0..(c - 1) : (h + i) % N # t BY <1>1, <1>2, <1>3
<1>5. \A i \in 0..(c - 1) : g[(h + i) % N] = f[(h + i) % N] BY <1>2, <1>3, <1>4
<1>6. g[(h + c) % N] = b BY <1>1
<1>7. \A i : i \in 0..((c + 1) - 1) <=> i \in 0..(c - 1) \/ i = c BY <1>1
<1>8. \A i \in 0..(c - 1) : f[(h + i) % N] # b BY DEF Ring
<1>9. \A i, j \in 0..((c + 1) - 1) : g[(h + i) % N] = g[(h + j) % N] => i = j
  BY <1>5, <1>6, <1>7, <1>8, Zenon DEF RingSound
<1>10. c + 1 \in 0..N /\ (t + 1) % N = (h + (c + 1)) % N BY <1>1, <1>2
<1>11. Ring(g, N, h, c + 1) = Ring(f, N, h, c) \cup {b}
  BY <1>5, <1>6, <1>7 DEF Ring
<1>12. QED BY <1>1, <1>9, <1>10, <1>11 DEF RingSound

LEMMA RingTake ==
    ASSUME NEW N \in Nat \ {0}, NEW f, NEW h, NEW t, NEW c, RingSound(f, N, h, t, c), c > 0
    PROVE  /\ RingSound(f, N, (h + 1) % N, t, c - 1)
           /\ Ring(f, N, (h + 1) % N, c - 1) = Ring(f, N, h, c) \ {f[h]}
           /\ f[h] \in Ring(f, N, h, c)
<1>1. h \in 0..(N - 1) /\ c \in 1..N /\ t = (h + c) % N BY DEF RingSound
<1>2. /\ \A i \in 0..N : (h + i) % N \in 0..(N - 1)
      /\ (h + 0) % N = h
      /\ \A i \in 0..(N - 1) : (((h + 1) % N) + i) % N = (h + (i + 1)) % N
  BY <1>1, RingPlaces
<1>3. PICK k \in 0..(N - 1) : k = (h + 1) % N BY <1>1, <1>2
<1>4. \A i \in 0..(N - 1) : (k + i) % N = (h + (i + 1)) % N BY <1>2, <1>3
<1>5. c - 1 \in 0..(N - 1) /\ (c - 1) + 1 = c BY <1>1
<1>6. t = (k + (c - 1)) % N BY <1>1, <1>4, <1>5
<1>7. PICK d : d = c - 1 OBVIOUS
<1>8. \A i \in 0..(d - 1) : i \in 0..(N - 1) /\ i + 1 \in 0..(c - 1) /\ i + 1 # 0 BY <1>1, <1>7
<1>9. \A i \in 0..(d - 1) : f[(k + i) % N] = f[(h + (i + 1)) % N] BY <1>4, <1>8
<1>10. \A i, j \in 0..(d - 1) : f[(k + i) % N] = f[(k + j) % N] => i = j
  <2> SUFFICES ASSUME NEW i \in 0..(d - 1), NEW j \in 0..(d - 1), f[(k + i) % N] = f[(k + j) % N]
               PROVE  i = j
    OBVIOUS
  <2>1. f[(h + (i + 1)) % N] = f[(h + (j + 1)) % N] BY <1>9
  <2>2. i + 1 = j + 1 BY <1>8, <2>1 DEF RingSound
  <2>3. i \in Int /\ j \in Int OBVIOUS
  <2>4. QED BY <2>2, <2>3
<1>11. 0 \in 0..(c - 1) /\ f[(h + 0) % N] = f[h] BY <1>1, <1>2
<1>12. \A j \in 0..(c - 1) : j = 0 \/ \E i \in 0..(d - 1) : j = i + 1
  <2> TAKE j \in 0..(c - 1)
  <2>1. j = 0 \/ (j - 1 \in 0..(d - 1) /\ j = (j - 1) + 1) BY <1>1, <1>7
  <2>2. QED BY <2>1
<1>13. Ring(f, N, k, d) = Ring(f, N, h, c) \ {f[h]}
  <2>1. ASSUME NEW x, x \in Ring(f, N, k, d) PROVE x \in Ring(f, N, h, c) \ {f[h]}
    <3>1. PICK i \in 0..(d - 1) : x = f[(k + i) % N] BY <2>1 DEF Ring
    <3>2. x = f[(h + (i + 1)) % N] /\ i + 1 \in 0..(c - 1) /\ i + 1 # 0 BY <1>8, <1>9, <3>1
    <3>3. x # f[h] BY <1>11, <3>2 DEF RingSound
    <3>4. QED BY <3>2, <3>3 DEF Ring
  <2>2. ASSUME NEW x, x \in Ring(f, N, h, c) \ {f[h]} PROVE x \in Ring(f, N, k, d)
    <3>1. PICK j \in 0..(c - 1) : x = f[(h + j) % N] BY <2>2 DEF Ring
    <3>2. j # 0 BY <1>11, <2>2, <3>1
    <3>3. PICK i \in 0..(d - 1) : j = i + 1 BY <1>12, <3>2
    <3>4. x = f[(k + i) % N] BY <1>9, <3>1, <3>3
    <3>5. QED BY <3>4 DEF Ring
  <2>3. QED BY <2>1, <2>2
<1>14. f[h] \in Ring(f, N, h, c) BY <1>11 DEF Ring
<1>15. RingSound(f, N, k, t, d) BY <1>3, <1>5, <1>6, <1>7, <1>10 DEF RingSound
<1>16. QED BY <1>3, <1>7, <1>13, <1>14, <1>15

LEMMA RingEmpty ==
    ASSUME NEW N \in Nat \ {0}, NEW f, NEW h \in 0..(N - 1)
    PROVE  RingSound(f, N, h, h, 0) /\ Ring(f, N, h, 0) = {}
<1>1. (h + 0) % N = h BY RingPlaces
<1>2. \A i : i \notin 0..(0 - 1) OBVIOUS
<1>3. QED BY <1>1, <1>2 DEF RingSound, Ring

LEMMA RingCount ==
    ASSUME NEW N \in Nat \ {0}, NEW f, NEW h, NEW t, NEW c, RingSound(f, N, h, t, c)
    PROVE  IsFiniteSet(Ring(f, N, h, c)) /\ Cardinality(Ring(f, N, h, c)) = c
<1>1. c \in Nat BY DEF RingSound
<1> DEFINE m == [i \in 0..(c - 1) |-> f[(h + i) % N]]
<1>2. m \in Bijection(0..(c - 1), Ring(f, N, h, c))
  <2>1. m \in [0..(c - 1) -> Ring(f, N, h, c)] BY DEF Ring
  <2>2. IsInjective(m) BY DEF IsInjective, RingSound
  <2>3. \A x \in Ring(f, N, h, c) : \E i \in 0..(c - 1) : m[i] = x BY DEF Ring
  <2>4. QED BY <2>1, <2>2, <2>3 DEF Bijection, Injection, Surjection
<1>3. ExistsBijection(0..(c - 1), Ring(f, N, h, c)) BY <1>2 DEF ExistsBijection
<1>4. IsFiniteSet(0..(c - 1)) /\ Cardinality(0..(c - 1)) = c
  <2>1. PICK n \in Int : n = c - 1 BY <1>1
  <2>2. IsFiniteSet(0..n) /\ Cardinality(0..n) = IF 0 > n THEN 0 ELSE n - 0 + 1 BY FS_Interval
  <2>3. (IF 0 > n THEN 0 ELSE n - 0 + 1) = c BY <1>1, <2>1
  <2>4. QED BY <2>1, <2>2, <2>3
<1>5. QED BY <1>3, <1>4, FS_Bijection, Zenon

\* Going round by n and then by i.
LEMMA RingFar ==
    ASSUME NEW N \in Nat \ {0}, NEW h \in 0..(N - 1), NEW n \in Nat, NEW i \in Nat, n + i <= N
    PROVE  /\ (h + n) % N \in 0..(N - 1)
           /\ (((h + n) % N) + i) % N = (h + (n + i)) % N
<1>1. \A x \in Nat : x < 2 * N => x % N = (IF x < N THEN x ELSE x - N) /\ x % N \in 0..(N - 1)
  BY RingWrap
<1>2. h + n \in Nat /\ h + n < 2 * N OBVIOUS
<1>3. (h + n) % N = (IF h + n < N THEN h + n ELSE h + n - N) BY <1>1, <1>2
<1>4. PICK k \in 0..(N - 1) : k = (h + n) % N BY <1>1, <1>2
<1>5. k + i \in Nat /\ k + i < 2 * N /\ h + (n + i) \in Nat /\ h + (n + i) < 2 * N
  BY <1>4
<1>6. /\ (k + i) % N = (IF k + i < N THEN k + i ELSE k + i - N)
      /\ (h + (n + i)) % N = (IF h + (n + i) < N THEN h + (n + i) ELSE h + (n + i) - N)
  BY <1>1, <1>5
<1>7. k = (IF h + n < N THEN h + n ELSE h + n - N) BY <1>3, <1>4
<1>8. (k + i) % N = (h + (n + i)) % N BY <1>6, <1>7
<1>9. QED BY <1>4, <1>8

-----------------------------------------------------------------------------
\* The places of a circular buffer f of N from h on hold the sequence s, and t
\* is the place after it.
RingHas(f, N, h, t, s) ==
    /\ h \in 0..(N - 1) /\ Len(s) <= N /\ t = (h + Len(s)) % N
    /\ \A i \in 1..Len(s) : f[(h + i - 1) % N] = s[i]

LEMMA RingHasPlaces ==
    ASSUME NEW N \in Nat \ {0}, NEW h \in 0..(N - 1)
    PROVE  /\ \A i \in 1..N : (h + i - 1) % N = (h + (i - 1)) % N /\ i - 1 \in 0..(N - 1)
           /\ \A i \in 0..N : (h + i) % N \in 0..(N - 1)
           /\ \A i, j \in 0..(N - 1) : (h + i) % N = (h + j) % N => i = j
<1>1. \A i \in 1..N : h + i - 1 = h + (i - 1) /\ i - 1 \in 0..(N - 1) OBVIOUS
<1>2. QED BY <1>1, RingPlaces

LEMMA RingHasPut ==
    ASSUME NEW S, NEW N \in Nat \ {0}, NEW f \in [0..(N - 1) -> S], NEW h, NEW t,
           NEW s \in Seq(S), RingHas(f, N, h, t, s), Len(s) < N, NEW c \in S
    PROVE  /\ RingHas([f EXCEPT ![t] = c], N, h, (t + 1) % N, Append(s, c))
           /\ t \in 0..(N - 1) /\ [f EXCEPT ![t] = c] \in [0..(N - 1) -> S]
<1>1. PICK n \in Nat : n = Len(s) OBVIOUS
<1>2. h \in 0..(N - 1) /\ n < N /\ t = (h + n) % N /\ \A i \in 1..n : f[(h + i - 1) % N] = s[i]
  BY <1>1 DEF RingHas
<1>3. PICK g : g = [f EXCEPT ![t] = c] OBVIOUS
<1>4. PICK u \in Seq(S) : u = Append(s, c) OBVIOUS
<1>5. Len(u) = n + 1 /\ u[n + 1] = c /\ \A i \in 1..n : u[i] = s[i] BY <1>1, <1>4
<1>6. t \in 0..(N - 1)
  <2>1. n \in 0..N BY <1>2
  <2>2. QED BY <1>2, <2>1, RingPlaces
<1>7. g[t] = c /\ g \in [0..(N - 1) -> S] /\ \A k \in 0..(N - 1) : k # t => g[k] = f[k]
  BY <1>3, <1>6
<1>8. (t + 1) % N = (h + (n + 1)) % N
  <2>1. n \in 0..(N - 1) BY <1>2
  <2>2. h \in 0..(N - 1) BY <1>2
  <2>3. \A k \in 0..(N - 1) : (((h + k) % N) + 1) % N = (h + (k + 1)) % N
    BY <2>2, RingPlaces, Zenon
  <2>4. QED BY <1>2, <2>1, <2>3
<1>9. ASSUME NEW i \in 1..(n + 1) PROVE g[(h + i - 1) % N] = u[i]
  <2>1. CASE i = n + 1
    <3>1. h + i - 1 = h + n BY <1>2, <2>1
    <3>2. (h + i - 1) % N = t BY <1>2, <3>1
    <3>3. QED BY <1>5, <1>7, <2>1, <3>2
  <2>2. CASE i # n + 1
    <3>1. i \in 1..n /\ i \in 1..N /\ i - 1 \in 0..(N - 1) /\ n \in 0..(N - 1) /\ i - 1 # n
      BY <1>2, <2>2
    <3>2. PICK k : k = (h + i - 1) % N OBVIOUS
    <3>3. k = (h + (i - 1)) % N BY <1>2, <3>1, <3>2, RingHasPlaces
    <3>4. k # t BY <1>2, <3>1, <3>3, RingHasPlaces
    <3>5. i - 1 \in 0..N BY <3>1
    <3>6. k \in 0..(N - 1) BY <1>2, <3>3, <3>5, RingHasPlaces
    <3>7. g[k] = s[i] BY <1>2, <1>7, <3>1, <3>2, <3>4, <3>6
    <3>8. QED BY <1>5, <3>1, <3>2, <3>7
  <2>3. QED BY <2>1, <2>2
<1>10. RingHas(g, N, h, (t + 1) % N, u)
  <2>1. Len(u) <= N /\ 1..Len(u) = 1..(n + 1) BY <1>1, <1>2, <1>5
  <2>2. (t + 1) % N = (h + Len(u)) % N BY <1>5, <1>8
  <2>3. QED BY <1>2, <1>9, <2>1, <2>2 DEF RingHas
<1>11. QED BY <1>3, <1>4, <1>6, <1>7, <1>10

\* The first n entries are taken.
LEMMA RingHasTake ==
    ASSUME NEW S, NEW N \in Nat \ {0}, NEW f, NEW h, NEW t, NEW s \in Seq(S),
           RingHas(f, N, h, t, s), NEW n \in 0..Len(s)
    PROVE  /\ RingHas(f, N, (h + n) % N, t, SubSeq(s, n + 1, Len(s)))
           /\ SubSeq(s, n + 1, Len(s)) \in Seq(S) /\ Len(SubSeq(s, n + 1, Len(s))) = Len(s) - n
<1>1. PICK c \in Nat : c = Len(s) OBVIOUS
<1>2. /\ h \in 0..(N - 1) /\ c <= N /\ t = (h + c) % N /\ n \in 0..c /\ n \in Nat
      /\ \A i \in 1..c : f[(h + i - 1) % N] = s[i]
  BY <1>1 DEF RingHas
<1>3. PICK u : u = SubSeq(s, n + 1, Len(s)) OBVIOUS
<1>4. u \in Seq(S) /\ Len(u) = c - n /\ \A i \in 1..(c - n) : u[i] = s[n + i] BY <1>1, <1>2, <1>3
<1>5. \A i \in 0..(c - n) : (((h + n) % N) + i) % N = (h + (n + i)) % N
  <2> TAKE i \in 0..(c - n)
  <2>1. i \in Nat /\ n + i <= N BY <1>2
  <2>2. QED BY <1>2, <2>1, RingFar
<1>6. PICK k \in 0..(N - 1) : k = (h + n) % N
  <2>1. n \in 0..N BY <1>2
  <2>2. QED BY <1>2, <2>1, RingPlaces
<1>7. t = (k + (c - n)) % N
  <2>1. c - n \in 0..(c - n) /\ n + (c - n) = c BY <1>2
  <2>2. QED BY <1>2, <1>5, <1>6, <2>1
<1>8. ASSUME NEW i \in 1..(c - n) PROVE f[(k + i - 1) % N] = u[i]
  <2>1. /\ i - 1 \in 0..(c - n) /\ k + i - 1 = k + (i - 1) /\ n + i \in 1..c
        /\ h + (n + (i - 1)) = h + (n + i) - 1
    BY <1>2, <1>6
  <2>2. (k + i - 1) % N = (h + (n + i) - 1) % N BY <1>5, <1>6, <2>1
  <2>3. f[(h + (n + i) - 1) % N] = s[n + i] BY <1>2, <2>1
  <2>4. QED BY <1>4, <2>2, <2>3
<1>9. Len(u) <= N BY <1>2, <1>4
<1>10. RingHas(f, N, k, t, u) BY <1>4, <1>7, <1>8, <1>9 DEF RingHas
<1>11. QED BY <1>1, <1>3, <1>4, <1>6, <1>10

\* The last n entries are taken back.
LEMMA RingHasDrop ==
    ASSUME NEW S, NEW N \in Nat \ {0}, NEW f, NEW h, NEW t, NEW s \in Seq(S),
           RingHas(f, N, h, t, s), NEW n \in 0..Len(s)
    PROVE  /\ RingHas(f, N, h, (h + (Len(s) - n)) % N, SubSeq(s, 1, Len(s) - n))
           /\ SubSeq(s, 1, Len(s) - n) \in Seq(S) /\ Len(SubSeq(s, 1, Len(s) - n)) = Len(s) - n
<1>1. PICK c \in Nat : c = Len(s) OBVIOUS
<1>2. /\ h \in 0..(N - 1) /\ c <= N /\ n \in 0..c
      /\ \A i \in 1..c : f[(h + i - 1) % N] = s[i]
  BY <1>1 DEF RingHas
<1>3. PICK m \in Nat : m = c - n /\ m <= c BY <1>2
<1>4. PICK u : u = SubSeq(s, 1, m) OBVIOUS
<1>5. u \in Seq(S) /\ Len(u) = m /\ \A i \in 1..m : u[i] = s[i] BY <1>1, <1>3, <1>4
<1>6. \A i \in 1..m : i \in 1..c BY <1>3
<1>7. m <= N BY <1>2, <1>3
<1>8. RingHas(f, N, h, (h + m) % N, u) BY <1>2, <1>5, <1>6, <1>7 DEF RingHas
<1>9. QED BY <1>1, <1>3, <1>4, <1>5, <1>8
==============================================================================
