--------------------------- MODULE ProcQueueProofs ---------------------------
(***************************************************************************)
(* What the queue operators of ProcQueue return: the queue they leave has  *)
(* the processes it should have, each once, and insert keeps it sorted.    *)
(***************************************************************************)
EXTENDS ProcQueue, TLAPS, FiniteSetTheorems, WellFoundedInduction

\* A nonempty set of natural numbers has a least element: the intervals 1..x
\* are finite sets, on which strict inclusion is well founded.
LEMMA LeastNat ==
    ASSUME NEW T, T \subseteq Nat, T # {}
    PROVE  \E x \in T : \A y \in T : x <= y
<1> DEFINE I == {1..x : x \in T}
<1>1. I \subseteq FiniteSubsetsOf(Nat) /\ I # {}
  <2>1. \A x \in T : (1..x) \in SUBSET Nat /\ IsFiniteSet(1..x)
    <3> TAKE x \in T
    <3>1. x \in Int /\ 1 \in Int OBVIOUS
    <3>2. IsFiniteSet(1..x) BY <3>1, FS_Interval, Zenon
    <3>3. QED BY <3>2
  <2>2. QED BY <2>1 DEF FiniteSubsetsOf
<1>2. PICK m \in I : \A y \in I : ~ (<<y, m>> \in StrictSubsetOrdering(Nat))
  <2> HIDE DEF I
  <2>1. IsWellFoundedOn(StrictSubsetOrdering(Nat), FiniteSubsetsOf(Nat))
    BY FS_StrictSubsetOrderingWellFounded, Zenon
  <2>2. \E x \in I : \A y \in I : ~ (<<y, x>> \in StrictSubsetOrdering(Nat))
    BY <1>1, <2>1, WFMin, Zenon
  <2> QED BY <2>2, Zenon
<1>3. PICK x \in T : m = 1..x
  BY <1>2
<1>4. ASSUME NEW y \in T, y < x PROVE FALSE
  <2>1. (1..y) \in I OBVIOUS
  <2>2. (1..y) \subseteq (1..x) /\ (1..y) # (1..x)
    <3>1. x \in 1..x /\ x \notin 1..y BY <1>4
    <3>2. QED BY <3>1, <1>4
  <2>3. (1..y) \in SUBSET Nat /\ (1..x) \in SUBSET Nat OBVIOUS
  <2>4. <<1..y, m>> \in StrictSubsetOrdering(Nat)
    BY <2>2, <2>3, <1>3, Zenon DEF StrictSubsetOrdering
  <2>5. QED BY <2>1, <2>4, <1>2
<1>5. QED BY <1>4, <1>3

\* A set that holds 0 and the successor of each of its numbers holds them all.
LEMMA Induction ==
    ASSUME NEW T, 0 \in T, \A n \in Nat : n \in T => n + 1 \in T PROVE \A n \in Nat : n \in T
<1> DEFINE S == {n \in Nat : n \notin T}
<1>1. SUFFICES ASSUME S # {} PROVE FALSE OBVIOUS
<1>2. S \subseteq Nat OBVIOUS
<1>3. PICK m \in S : \A k \in S : m <= k
  <2> HIDE DEF S
  <2>1. QED BY <1>1, <1>2, LeastNat, Zenon
<1>4. m \in Nat /\ m \notin T /\ m # 0 OBVIOUS
<1>5. PICK j \in Nat : m = j + 1
  <2>1. m - 1 \in Nat /\ m = (m - 1) + 1 BY <1>4
  <2>2. QED BY <2>1
<1>6. j \in T
  <2>1. ~(m <= j) BY <1>5
  <2>2. j \notin S BY <1>3, <2>1, Zenon
  <2>3. QED BY <2>2
<1>7. QED BY <1>4, <1>5, <1>6

\* The sequence r has the elements of q, and p at index i.
Inserted(r, q, i, p, S) ==
    /\ r \in Seq(S)
    /\ Len(r) = Len(q) + 1
    /\ \A j \in 1..(Len(q) + 1) :
         r[j] = IF j < i THEN q[j] ELSE IF j = i THEN p ELSE q[j - 1]

\* The elements of a sequence into which one is inserted at i.
LEMMA InsertAtElements ==
    ASSUME NEW S, NEW q \in Seq(S), NEW p \in S, NEW i \in 1..(Len(q) + 1)
    PROVE  Inserted(InsertAt(q, i, p), q, i, p, S)
<1> DEFINE a == SubSeq(q, 1, i - 1)
           b == SubSeq(q, i, Len(q))
           c == a \o <<p>>
<1>1. /\ a \in Seq(S) /\ Len(a) = i - 1 /\ Len(q) \in Nat
      /\ \A j \in 1..(i - 1) : a[j] = q[j]
  OBVIOUS
<1>2. /\ b \in Seq(S) /\ Len(b) = Len(q) - i + 1
      /\ \A j \in 1..(Len(q) - i + 1) : b[j] = q[j + i - 1]
  OBVIOUS
<1> HIDE DEF a, b
<1>3. /\ c \in Seq(S) /\ Len(c) = i
      /\ \A j \in 1..(i - 1) : c[j] = q[j]
      /\ c[i] = p
  BY <1>1
<1> HIDE DEF c
<1>4. /\ c \o b \in Seq(S) /\ Len(c \o b) = Len(q) + 1
      /\ \A j \in 1..i : (c \o b)[j] = c[j]
  BY <1>1, <1>2, <1>3
<1>5. ASSUME NEW j \in 1..(Len(q) + 1), j > i PROVE (c \o b)[j] = q[j - 1]
  <2>1. j \in (Len(c) + 1)..(Len(c) + Len(b)) /\ j - i \in 1..(Len(q) - i + 1)
    BY <1>1, <1>2, <1>3, <1>5
  <2>2. (c \o b)[j] = b[j - i] BY <1>1, <1>2, <1>3, <1>5, <2>1
  <2>3. b[j - i] = q[(j - i) + i - 1] BY <1>2, <2>1
  <2>4. (j - i) + i - 1 = j - 1 BY <1>5
  <2>5. QED BY <2>2, <2>3, <2>4
<1>6. InsertAt(q, i, p) = c \o b
  BY DEF InsertAt, a, b, c
<1>7. QED BY <1>1, <1>3, <1>4, <1>5, <1>6 DEF Inserted

\* The elements of a sequence from which the one at i is removed.
LEMMA RemoveAtElements ==
    ASSUME NEW S, NEW q \in Seq(S), NEW i \in 1..Len(q)
    PROVE  /\ RemoveAt(q, i) \in Seq(S)
           /\ Len(RemoveAt(q, i)) = Len(q) - 1
           /\ \A j \in 1..(Len(q) - 1) :
                RemoveAt(q, i)[j] = IF j < i THEN q[j] ELSE q[j + 1]
<1> DEFINE a == SubSeq(q, 1, i - 1)
           b == SubSeq(q, i + 1, Len(q))
<1>1. /\ a \in Seq(S) /\ Len(a) = i - 1 /\ Len(q) \in Nat
      /\ \A j \in 1..(i - 1) : a[j] = q[j]
  OBVIOUS
<1>2. /\ b \in Seq(S) /\ Len(b) = Len(q) - i
      /\ \A j \in 1..(Len(q) - i) : b[j] = q[j + i]
  OBVIOUS
<1> HIDE DEF a, b
<1>3. /\ a \o b \in Seq(S) /\ Len(a \o b) = Len(q) - 1
      /\ \A j \in 1..(i - 1) : (a \o b)[j] = q[j]
  <2>1. a \o b \in Seq(S) /\ Len(a \o b) = Len(a) + Len(b)
    <3>1. a \in Seq(S) /\ b \in Seq(S) BY <1>1, <1>2
    <3>2. QED BY <3>1
  <2>2. \A j \in 1..(i - 1) : (a \o b)[j] = a[j] BY <1>1, <1>2
  <2>3. QED BY <1>1, <1>2, <2>1, <2>2
<1>4. ASSUME NEW j \in 1..(Len(q) - 1), j >= i PROVE (a \o b)[j] = q[j + 1]
  <2>1. j \in (Len(a) + 1)..(Len(a) + Len(b)) /\ j - (i - 1) \in 1..(Len(q) - i)
    BY <1>1, <1>2, <1>4
  <2>2. (a \o b)[j] = b[j - (i - 1)] BY <1>1, <1>2, <1>4, <2>1
  <2>3. b[j - (i - 1)] = q[(j - (i - 1)) + i] BY <1>2, <2>1
  <2>4. (j - (i - 1)) + i = j + 1 BY <1>4
  <2>5. QED BY <2>2, <2>3, <2>4
<1>5. RemoveAt(q, i) = a \o b
  BY DEF RemoveAt, a, b
<1>6. QED BY <1>1, <1>3, <1>4, <1>5

\* Inserting a process that is not on the queue adds it and nothing else.
LEMMA InsertAtQueue ==
    ASSUME NEW S, NEW q \in Seq(S), NEW p \in S, NEW i \in 1..(Len(q) + 1),
           NoDup(q), ~OnQueue(q, p)
    PROVE  /\ InsertAt(q, i, p) \in Seq(S)
           /\ Len(InsertAt(q, i, p)) = Len(q) + 1
           /\ NoDup(InsertAt(q, i, p))
           /\ \A x : OnQueue(InsertAt(q, i, p), x) <=> OnQueue(q, x) \/ x = p
<1> DEFINE r == InsertAt(q, i, p)
<1>1. /\ r \in Seq(S) /\ Len(r) = Len(q) + 1 /\ Len(q) \in Nat
      /\ \A j \in 1..(Len(q) + 1) : r[j] = IF j < i THEN q[j]
                                           ELSE IF j = i THEN p ELSE q[j - 1]
  <2>1. Inserted(r, q, i, p, S) BY InsertAtElements, Zenon
  <2> HIDE DEF r
  <2>2. QED BY <2>1 DEF Inserted
<1> HIDE DEF r
<1>2. NoDup(r)
  <2>1. ASSUME NEW j \in 1..Len(r), NEW k \in 1..Len(r), j < k, r[j] = r[k]
        PROVE  FALSE
    <3>1. CASE k < i BY <1>1, <2>1, <3>1 DEF NoDup
    <3>2. CASE k = i
      <4>1. j \in 1..Len(q) /\ q[j] = p BY <1>1, <2>1, <3>2
      <4>2. QED BY <4>1 DEF OnQueue
    <3>3. CASE k > i /\ j < i
      <4>1. j \in 1..Len(q) /\ k - 1 \in 1..Len(q) /\ q[j] = q[k - 1] /\ j # k - 1
        BY <1>1, <2>1, <3>3
      <4>2. QED BY <4>1 DEF NoDup
    <3>4. CASE k > i /\ j = i
      <4>1. k - 1 \in 1..Len(q) /\ q[k - 1] = p BY <1>1, <2>1, <3>4
      <4>2. QED BY <4>1 DEF OnQueue
    <3>5. CASE j > i
      <4>1. /\ j - 1 \in 1..Len(q) /\ k - 1 \in 1..Len(q)
            /\ q[j - 1] = q[k - 1] /\ j - 1 # k - 1
        BY <1>1, <2>1, <3>5
      <4>2. QED BY <4>1 DEF NoDup
    <3>6. QED BY <1>1, <2>1, <3>1, <3>2, <3>3, <3>4, <3>5
  <2>2. \A j, k \in 1..Len(r) : j < k \/ k < j \/ j = k BY <1>1
  <2>3. QED BY <2>1, <2>2 DEF NoDup
<1>3. ASSUME NEW x, OnQueue(q, x) PROVE OnQueue(r, x)
  <2>1. PICK j \in 1..Len(q) : q[j] = x BY <1>3 DEF OnQueue
  <2>2. CASE j < i
    <3>1. r[j] = x /\ j \in 1..Len(r) BY <1>1, <2>1, <2>2
    <3>2. QED BY <3>1 DEF OnQueue
  <2>3. CASE j >= i
    <3>1. r[j + 1] = x /\ j + 1 \in 1..Len(r) BY <1>1, <2>1, <2>3
    <3>2. QED BY <3>1 DEF OnQueue
  <2>4. QED BY <2>2, <2>3
<1>4. OnQueue(r, p)
  BY <1>1 DEF OnQueue
<1>5. ASSUME NEW x, OnQueue(r, x), x # p PROVE OnQueue(q, x)
  <2>1. PICK j \in 1..Len(r) : r[j] = x BY <1>5 DEF OnQueue
  <2>2. CASE j < i BY <1>1, <2>1, <2>2 DEF OnQueue
  <2>3. CASE j = i BY <1>1, <2>1, <2>3, <1>5
  <2>4. CASE j > i
    <3>1. q[j - 1] = x /\ j - 1 \in 1..Len(q) BY <1>1, <2>1, <2>4
    <3>2. QED BY <3>1 DEF OnQueue
  <2>5. QED BY <2>2, <2>3, <2>4, <1>1
<1>6. QED BY <1>1, <1>2, <1>3, <1>4, <1>5 DEF r

\* getitem takes out the process and nothing else, and shortens the queue.
LEMMA GetitemQueue ==
    ASSUME NEW S, NEW q \in Seq(S), NEW p, NoDup(q), OnQueue(q, p)
    PROVE  /\ getitem(p, q) \in Seq(S)
           /\ Len(getitem(p, q)) = Len(q) - 1
           /\ NoDup(getitem(p, q))
           /\ \A x : OnQueue(getitem(p, q), x) <=> OnQueue(q, x) /\ x # p
<1> DEFINE i == PosOf(p, q)
           r == RemoveAt(q, i)
<1>1. i \in 1..Len(q) /\ q[i] = p
  BY DEF OnQueue, PosOf
<1> HIDE DEF i
<1>2. /\ r \in Seq(S) /\ Len(r) = Len(q) - 1 /\ Len(q) \in Nat
      /\ \A j \in 1..(Len(q) - 1) : r[j] = IF j < i THEN q[j] ELSE q[j + 1]
  BY <1>1, RemoveAtElements
<1> HIDE DEF r
<1>3. NoDup(r)
  <2>1. ASSUME NEW j \in 1..Len(r), NEW k \in 1..Len(r), j < k, r[j] = r[k]
        PROVE  FALSE
    <3> DEFINE f(x) == IF x < i THEN x ELSE x + 1
    <3>1. /\ f(j) \in 1..Len(q) /\ f(k) \in 1..Len(q) /\ f(j) # f(k)
          /\ r[j] = q[f(j)] /\ r[k] = q[f(k)]
      BY <1>1, <1>2, <2>1
    <3>2. QED BY <2>1, <3>1 DEF NoDup
  <2>2. \A j, k \in 1..Len(r) : j < k \/ k < j \/ j = k BY <1>2
  <2>3. QED BY <2>1, <2>2 DEF NoDup
<1>4. ASSUME NEW x, OnQueue(q, x), x # p PROVE OnQueue(r, x)
  <2>1. PICK j \in 1..Len(q) : q[j] = x BY <1>4 DEF OnQueue
  <2>2. CASE j < i
    <3>1. r[j] = x /\ j \in 1..Len(r) BY <1>1, <1>2, <2>1, <2>2
    <3>2. QED BY <3>1 DEF OnQueue
  <2>3. CASE j > i
    <3>1. r[j - 1] = x /\ j - 1 \in 1..Len(r) BY <1>1, <1>2, <2>1, <2>3
    <3>2. QED BY <3>1 DEF OnQueue
  <2>4. QED BY <2>1, <2>2, <2>3, <1>1, <1>4
<1>5. ASSUME NEW x, OnQueue(r, x) PROVE OnQueue(q, x) /\ x # p
  <2>1. PICK j \in 1..Len(r) : r[j] = x BY <1>5 DEF OnQueue
  <2>2. CASE j < i
    <3>1. q[j] = x /\ j \in 1..Len(q) /\ j # i BY <1>1, <1>2, <2>1, <2>2
    <3>2. QED BY <3>1, <1>1 DEF OnQueue, NoDup
  <2>3. CASE j >= i
    <3>1. q[j + 1] = x /\ j + 1 \in 1..Len(q) /\ j + 1 # i BY <1>1, <1>2, <2>1, <2>3
    <3>2. QED BY <3>1, <1>1 DEF OnQueue, NoDup
  <2>4. QED BY <2>2, <2>3, <1>1, <1>2
<1>6. QED BY <1>2, <1>3, <1>4, <1>5 DEF getitem, r, i

\* Appending, and taking the head off.
LEMMA EnqueueQueue ==
    ASSUME NEW S, NEW q \in Seq(S), NEW p \in S, NoDup(q), ~OnQueue(q, p)
    PROVE  /\ enqueue(p, q) \in Seq(S)
           /\ Len(enqueue(p, q)) = Len(q) + 1
           /\ NoDup(enqueue(p, q))
           /\ \A x : OnQueue(enqueue(p, q), x) <=> OnQueue(q, x) \/ x = p
<1> DEFINE r == enqueue(p, q)
<1>1. /\ r \in Seq(S) /\ Len(r) = Len(q) + 1 /\ Len(q) \in Nat
      /\ \A j \in 1..Len(q) : r[j] = q[j]
      /\ r[Len(q) + 1] = p
  BY DEF enqueue
<1> HIDE DEF r
<1>2. NoDup(r) BY <1>1 DEF NoDup, OnQueue
<1>3. \A x : OnQueue(r, x) <=> OnQueue(q, x) \/ x = p
  BY <1>1 DEF OnQueue
<1>4. QED BY <1>1, <1>2, <1>3 DEF r

LEMMA DequeueQueue ==
    ASSUME NEW S, NEW q \in Seq(S), q # << >>, NoDup(q)
    PROVE  /\ Head(q) \in S /\ Tail(q) \in Seq(S)
           /\ OnQueue(q, Head(q))
           /\ Len(Tail(q)) = Len(q) - 1
           /\ NoDup(Tail(q))
           /\ \A x : OnQueue(Tail(q), x) <=> OnQueue(q, x) /\ x # Head(q)
<1>1. /\ Head(q) \in S /\ Tail(q) \in Seq(S) /\ Len(Tail(q)) = Len(q) - 1
      /\ Len(q) \in Nat \ {0} /\ Head(q) = q[1]
      /\ \A j \in 1..(Len(q) - 1) : Tail(q)[j] = q[j + 1]
  OBVIOUS
<1>2. NoDup(Tail(q)) BY <1>1 DEF NoDup
<1>3. ASSUME NEW x, OnQueue(q, x), x # Head(q) PROVE OnQueue(Tail(q), x)
  <2>1. PICK j \in 1..Len(q) : q[j] = x BY <1>3 DEF OnQueue
  <2>2. j # 1 BY <2>1, <1>1, <1>3
  <2>3. j - 1 \in 1..Len(Tail(q)) /\ Tail(q)[j - 1] = x BY <1>1, <2>1, <2>2
  <2>4. QED BY <2>3 DEF OnQueue
<1>4. ASSUME NEW x, OnQueue(Tail(q), x) PROVE OnQueue(q, x) /\ x # Head(q)
  <2>1. PICK j \in 1..(Len(q) - 1) : Tail(q)[j] = x BY <1>4, <1>1 DEF OnQueue
  <2>2. j + 1 \in 1..Len(q) /\ q[j + 1] = x /\ 1 \in 1..Len(q) BY <1>1, <2>1
  <2>3. QED BY <2>2, <1>1 DEF OnQueue, NoDup
<1>5. QED BY <1>1, <1>2, <1>3, <1>4 DEF OnQueue

\* The keys of the processes on a queue are integers.
Keyed(q, qk) == \A j \in 1..Len(q) : qk[q[j]] \in Int
Descending(q, qk) ==
    \A i, j \in 1..Len(q) : i < j => qk[q[i]] >= qk[q[j]]

\* Two queues that share no process, one behind the other.
LEMMA ConcatQueue ==
    ASSUME NEW S, NEW q \in Seq(S), NEW r \in Seq(S), NoDup(q), NoDup(r),
           \A x \in S : ~(OnQueue(q, x) /\ OnQueue(r, x))
    PROVE  /\ q \o r \in Seq(S) /\ NoDup(q \o r)
           /\ \A x : OnQueue(q \o r, x) <=> OnQueue(q, x) \/ OnQueue(r, x)
<1> DEFINE c == q \o r
<1>1. /\ c \in Seq(S) /\ Len(c) = Len(q) + Len(r) /\ Len(q) \in Nat /\ Len(r) \in Nat
      /\ \A i \in 1..Len(q) : c[i] = q[i]
      /\ \A i \in 1..Len(r) : c[Len(q) + i] = r[i]
  OBVIOUS
<1>2. ASSUME NEW i \in 1..Len(c)
      PROVE  \/ i \in 1..Len(q) /\ c[i] = q[i]
             \/ i - Len(q) \in 1..Len(r) /\ c[i] = r[i - Len(q)]
  <2>1. CASE i <= Len(q) BY <1>1, <2>1
  <2>2. CASE i > Len(q)
    <3>1. i - Len(q) \in 1..Len(r) /\ Len(q) + (i - Len(q)) = i BY <1>1, <2>2
    <3>2. QED BY <1>1, <3>1
  <2>3. QED BY <1>1, <2>1, <2>2
<1>3. ASSUME NEW x, OnQueue(q, x) \/ OnQueue(r, x) PROVE OnQueue(c, x)
  <2>1. CASE OnQueue(q, x) BY <1>1, <2>1 DEF OnQueue
  <2>2. CASE OnQueue(r, x)
    <3>1. PICK i \in 1..Len(r) : r[i] = x BY <2>2 DEF OnQueue
    <3>2. Len(q) + i \in 1..Len(c) /\ c[Len(q) + i] = x BY <1>1, <3>1
    <3>3. QED BY <3>2 DEF OnQueue
  <2>3. QED BY <1>3, <2>1, <2>2
<1>4. ASSUME NEW i \in 1..Len(c), NEW j \in 1..Len(c), c[i] = c[j] PROVE i = j
  <2>1. \A a \in 1..Len(q), b \in 1..Len(r) : q[a] # r[b]
    <3> SUFFICES ASSUME NEW a \in 1..Len(q), NEW b \in 1..Len(r), q[a] = r[b] PROVE FALSE
      OBVIOUS
    <3>1. q[a] \in S /\ OnQueue(q, q[a]) /\ OnQueue(r, q[a]) BY DEF OnQueue
    <3>2. QED BY <3>1
  <2>2. CASE i \in 1..Len(q) /\ c[i] = q[i]
    <3>1. j \in 1..Len(q) /\ c[j] = q[j] BY <1>2, <1>4, <2>1, <2>2
    <3>2. QED BY <1>4, <2>2, <3>1 DEF NoDup
  <2>3. CASE i - Len(q) \in 1..Len(r) /\ c[i] = r[i - Len(q)]
    <3>1. j - Len(q) \in 1..Len(r) /\ c[j] = r[j - Len(q)] BY <1>2, <1>4, <2>1, <2>3
    <3>2. i - Len(q) = j - Len(q) BY <1>4, <2>3, <3>1 DEF NoDup
    <3>3. QED BY <1>1, <3>2
  <2>4. QED BY <1>2, <2>2, <2>3
<1>5. NoDup(c) BY <1>4 DEF NoDup
<1>6. ASSUME NEW x, OnQueue(c, x) PROVE OnQueue(q, x) \/ OnQueue(r, x)
  <2>1. PICK i \in 1..Len(c) : c[i] = x BY <1>6 DEF OnQueue
  <2>2. QED BY <1>2, <2>1 DEF OnQueue
<1>7. QED BY <1>1, <1>3, <1>5, <1>6

\* One that is not on the queue, put in front of it.
LEMMA PushQueue ==
    ASSUME NEW S, NEW q \in Seq(S), NEW p \in S, NoDup(q), ~OnQueue(q, p)
    PROVE  /\ <<p>> \o q \in Seq(S) /\ NoDup(<<p>> \o q)
           /\ \A x : OnQueue(<<p>> \o q, x) <=> x = p \/ OnQueue(q, x)
<1>1. <<p>> \in Seq(S) /\ NoDup(<<p>>) /\ \A x : OnQueue(<<p>>, x) <=> x = p
  BY DEF NoDup, OnQueue
<1>2. \A x \in S : ~(OnQueue(<<p>>, x) /\ OnQueue(q, x)) BY <1>1
<1>3. /\ <<p>> \o q \in Seq(S) /\ NoDup(<<p>> \o q)
      /\ \A x : OnQueue(<<p>> \o q, x) <=> OnQueue(<<p>>, x) \/ OnQueue(q, x)
  BY <1>1, <1>2, ConcatQueue, Zenon
<1>4. QED BY <1>1, <1>3

\* The walk of insert stops, at the place insert.c stops it at.
LEMMA InsertPosFound ==
    ASSUME NEW S, NEW q \in Seq(S), NEW qk, Keyed(q, qk), NEW k \in Int
    PROVE  /\ InsertPos(q, qk, k) \in 1..(Len(q) + 1)
           /\ \A j \in 1..(InsertPos(q, qk, k) - 1) : qk[q[j]] >= k
           /\ InsertPos(q, qk, k) <= Len(q) => qk[q[InsertPos(q, qk, k)]] < k
<1> DEFINE T == {i \in 1..(Len(q) + 1) : i <= Len(q) => qk[q[i]] < k}
<1>1. Len(q) \in Nat /\ \A j \in 1..Len(q) : qk[q[j]] \in Int
  BY DEF Keyed
<1>2. T \subseteq Nat /\ T # {}
  <2>1. Len(q) + 1 \in T BY <1>1
  <2>2. QED BY <2>1, <1>1
<1>3. PICK m \in T : \A y \in T : m <= y
  <2> HIDE DEF T
  <2>1. QED BY <1>2, LeastNat, Zenon
<1>4. ASSUME NEW j \in 1..(m - 1) PROVE qk[q[j]] >= k
  <2>1. j \notin T BY <1>3, <1>1
  <2>2. j \in 1..Len(q) BY <1>1
  <2>3. QED BY <2>1, <2>2, <1>1
<1> DEFINE D == 1..(Len(q) + 1)
           Stop(i) == /\ \A j \in 1..(i - 1) : qk[q[j]] >= k
                      /\ i <= Len(q) => qk[q[i]] < k
<1>5. \E i \in D : Stop(i)
  BY <1>4
<1>6. InsertPos(q, qk, k) = CHOOSE i \in D : Stop(i)
  BY DEF InsertPos
<1>7. InsertPos(q, qk, k) \in D /\ Stop(InsertPos(q, qk, k))
  <2> HIDE DEF D, Stop
  <2>1. QED BY <1>5, <1>6, Zenon
<1>8. QED BY <1>7, Zenon

\* insert puts the process on the queue, and keeps a sorted queue sorted.
LEMMA InsertQueue ==
    ASSUME NEW S, NEW q \in Seq(S), NEW p \in S, NEW qk, Keyed(q, qk), NEW k \in Int,
           NoDup(q), ~OnQueue(q, p)
    PROVE  /\ insert(p, q, qk, k) \in Seq(S)
           /\ NoDup(insert(p, q, qk, k))
           /\ \A x : OnQueue(insert(p, q, qk, k), x) <=> OnQueue(q, x) \/ x = p
<1> DEFINE i == InsertPos(q, qk, k)
<1>1. i \in 1..(Len(q) + 1) BY InsertPosFound, Zenon
<1> HIDE DEF i
<1>2. /\ InsertAt(q, i, p) \in Seq(S)
      /\ Len(InsertAt(q, i, p)) = Len(q) + 1
      /\ NoDup(InsertAt(q, i, p))
      /\ \A x : OnQueue(InsertAt(q, i, p), x) <=> OnQueue(q, x) \/ x = p
  BY <1>1, InsertAtQueue, Zenon
<1>3. QED BY <1>2 DEF insert, i

LEMMA InsertDescending ==
    ASSUME NEW S, NEW q \in Seq(S), NEW p \in S, NEW k \in Int,
           NEW qk \in [S -> Int], Descending(q, qk), ~OnQueue(q, p)
    PROVE  Descending(insert(p, q, qk, k), [qk EXCEPT ![p] = k])
<1> DEFINE i == InsertPos(q, qk, k)
           r == InsertAt(q, i, p)
           rk == [qk EXCEPT ![p] = k]
<1>1. Len(q) \in Nat /\ \A j \in 1..Len(q) : q[j] \in S /\ q[j] # p
  BY DEF OnQueue
<1>2. Keyed(q, qk) BY <1>1 DEF Keyed
<1>3. /\ i \in 1..(Len(q) + 1)
      /\ \A j \in 1..(i - 1) : qk[q[j]] >= k
      /\ i <= Len(q) => qk[q[i]] < k
  <2>1. QED BY <1>2, InsertPosFound, Zenon
<1> HIDE DEF i
<1>4. Inserted(r, q, i, p, S) BY <1>3, InsertAtElements, Zenon
<1> HIDE DEF r
<1>5. rk[p] = k /\ \A j \in 1..Len(q) : rk[q[j]] = qk[q[j]] /\ qk[q[j]] \in Int
  BY <1>1
<1>6. \A j \in 1..Len(q) : j >= i => qk[q[j]] < k
  <2> SUFFICES ASSUME NEW j \in 1..Len(q), j >= i PROVE qk[q[j]] < k
    OBVIOUS
  <2>1. i \in 1..Len(q) /\ qk[q[i]] < k /\ qk[q[i]] \in Int /\ qk[q[j]] \in Int
    BY <1>1, <1>3, <1>5
  <2>2. j = i \/ qk[q[i]] >= qk[q[j]] BY <2>1, <1>1 DEF Descending
  <2>3. QED BY <2>1, <2>2
<1> HIDE DEF rk
<1>7. ASSUME NEW a \in 1..Len(r), NEW b \in 1..Len(r), a < b
      PROVE  rk[r[a]] >= rk[r[b]]
  <2>1. Len(r) = Len(q) + 1 BY <1>4 DEF Inserted
  <2>2. /\ r[a] = IF a < i THEN q[a] ELSE IF a = i THEN p ELSE q[a - 1]
        /\ r[b] = IF b < i THEN q[b] ELSE IF b = i THEN p ELSE q[b - 1]
    BY <1>4, <2>1 DEF Inserted
  <2>3. CASE b < i
    <3>1. a \in 1..Len(q) /\ b \in 1..Len(q) BY <1>1, <1>3, <1>7, <2>1, <2>3
    <3>2. qk[q[a]] >= qk[q[b]] BY <3>1, <1>7 DEF Descending
    <3>3. rk[r[a]] = qk[q[a]] /\ rk[r[b]] = qk[q[b]]
      BY <1>3, <1>5, <1>7, <2>2, <2>3, <3>1
    <3>4. QED BY <3>2, <3>3
  <2>4. CASE b = i
    <3>1. a \in 1..Len(q) /\ a \in 1..(i - 1) BY <1>1, <1>3, <1>7, <2>1, <2>4
    <3>2. QED BY <1>3, <1>5, <1>7, <2>2, <2>4, <3>1
  <2>5. CASE b > i /\ a < i
    <3>1. a < b - 1 \/ a = b - 1
      BY <1>1, <1>3, <1>7, <2>1, <2>5
    <3>2. a \in 1..Len(q) /\ b - 1 \in 1..Len(q) BY <1>1, <1>3, <1>7, <2>1, <2>5
    <3>3. qk[q[a]] \in Int BY <1>5, <3>2
    <3>4. qk[q[a]] >= qk[q[b - 1]] BY <3>1, <3>2, <3>3 DEF Descending
    <3>5. rk[r[a]] = qk[q[a]] /\ rk[r[b]] = qk[q[b - 1]]
      <4>1. r[a] = q[a] /\ r[b] = q[b - 1] BY <1>3, <1>7, <2>2, <2>5
      <4>2. rk[q[a]] = qk[q[a]] BY <1>5, <3>2
      <4>3. rk[q[b - 1]] = qk[q[b - 1]] BY <1>5, <3>2
      <4>4. QED BY <4>1, <4>2, <4>3
    <3>6. QED BY <3>4, <3>5
  <2>6. CASE b > i /\ a = i
    <3>1. b - 1 \in 1..Len(q) /\ b - 1 >= i BY <1>1, <1>3, <1>7, <2>1, <2>6
    <3>2. qk[q[b - 1]] < k /\ qk[q[b - 1]] \in Int BY <3>1, <1>6, <1>5
    <3>3. rk[r[a]] = k /\ rk[r[b]] = qk[q[b - 1]] BY <1>5, <2>2, <2>6, <3>1
    <3>4. QED BY <3>2, <3>3
  <2>7. CASE a > i
    <3>1. a - 1 \in 1..Len(q) /\ b - 1 \in 1..Len(q) /\ a - 1 < b - 1
      BY <1>1, <1>3, <1>7, <2>1, <2>7
    <3>2. qk[q[a - 1]] >= qk[q[b - 1]] BY <3>1 DEF Descending
    <3>3. rk[r[a]] = qk[q[a - 1]] /\ rk[r[b]] = qk[q[b - 1]]
      <4>1. r[a] = q[a - 1] /\ r[b] = q[b - 1] BY <1>3, <1>7, <2>2, <2>7
      <4>2. QED BY <1>5, <3>1, <4>1
    <3>4. QED BY <3>2, <3>3
  <2>8. QED BY <1>3, <1>7, <2>3, <2>4, <2>5, <2>6, <2>7
<1>8. Descending(r, rk) BY <1>7 DEF Descending
<1>9. QED BY <1>8 DEF insert, r, i, rk

\* Taking a process out leaves the list in descending order.
LEMMA GetitemDescending ==
    ASSUME NEW S, NEW q \in Seq(S), NEW p, OnQueue(q, p),
           NEW qk \in [S -> Int], Descending(q, qk)
    PROVE  Descending(getitem(p, q), qk)
<1> DEFINE i == PosOf(p, q)
           r == RemoveAt(q, i)
<1>1. i \in 1..Len(q) BY DEF OnQueue, PosOf
<1>2. Len(q) \in Nat /\ \A j \in 1..Len(q) : qk[q[j]] \in Int OBVIOUS
<1> HIDE DEF i
<1>3. /\ Len(r) = Len(q) - 1
      /\ \A j \in 1..(Len(q) - 1) : r[j] = IF j < i THEN q[j] ELSE q[j + 1]
  BY <1>1, RemoveAtElements, Zenon
<1> HIDE DEF r
<1>4. ASSUME NEW a \in 1..Len(r), NEW b \in 1..Len(r), a < b
      PROVE  qk[r[a]] >= qk[r[b]]
  <2>1. PICK c \in 1..Len(q), d \in 1..Len(q) : c < d /\ r[a] = q[c] /\ r[b] = q[d]
    <3> DEFINE c == IF a < i THEN a ELSE a + 1
               d == IF b < i THEN b ELSE b + 1
    <3>1. c \in 1..Len(q) /\ d \in 1..Len(q) /\ c < d BY <1>1, <1>2, <1>3, <1>4
    <3>2. r[a] = q[c] /\ r[b] = q[d] BY <1>1, <1>2, <1>3, <1>4
    <3>3. QED BY <3>1, <3>2
  <2>2. QED BY <2>1 DEF Descending
<1>5. getitem(p, q) = r BY DEF getitem, i, r
<1>6. QED BY <1>4, <1>5 DEF Descending

LEMMA TailDescending ==
    ASSUME NEW S, NEW q \in Seq(S), q # << >>, NEW qk, Descending(q, qk)
    PROVE  /\ Descending(Tail(q), qk)
           /\ \A x : OnQueue(Tail(q), x) => qk[Head(q)] >= qk[x]
<1>1. /\ Len(q) \in Nat \ {0} /\ Len(Tail(q)) = Len(q) - 1 /\ Head(q) = q[1]
      /\ \A j \in 1..(Len(q) - 1) : Tail(q)[j] = q[j + 1]
  OBVIOUS
<1>2. ASSUME NEW a \in 1..Len(Tail(q)), NEW b \in 1..Len(Tail(q)), a < b
      PROVE  qk[Tail(q)[a]] >= qk[Tail(q)[b]]
  <2>1. a + 1 \in 1..Len(q) /\ b + 1 \in 1..Len(q) /\ a + 1 < b + 1 BY <1>1, <1>2
  <2>2. Tail(q)[a] = q[a + 1] /\ Tail(q)[b] = q[b + 1] BY <1>1, <1>2
  <2>3. QED BY <2>1, <2>2 DEF Descending
<1>3. ASSUME NEW x, OnQueue(Tail(q), x) PROVE qk[Head(q)] >= qk[x]
  <2>1. PICK j \in 1..Len(Tail(q)) : Tail(q)[j] = x BY <1>3 DEF OnQueue
  <2>2. 1 \in 1..Len(q) /\ j + 1 \in 1..Len(q) /\ 1 < j + 1 /\ q[j + 1] = x BY <1>1, <2>1
  <2>3. QED BY <1>1, <2>2 DEF Descending
<1>4. QED BY <1>2, <1>3 DEF Descending

\* A list whose keys are kept stays in order.
LEMMA SameDescending ==
    ASSUME NEW q, NEW qk, NEW new, Descending(q, qk), \A x : OnQueue(q, x) => new[x] = qk[x]
    PROVE  Descending(q, new)
  BY DEF Descending, OnQueue

\* What is left of the delay is an integer at every node of the delta list.
\* A least n up to which no function satisfies the recursion would be the
\* successor of one up to which a function does.
LEMMA LeftDefined ==
    ASSUME NEW S, NEW q \in Seq(S), NEW qk, Keyed(q, qk), NEW key \in Int
    PROVE  /\ Left(q, qk, key) \in [1..(Len(q) + 1) -> Int]
           /\ \A i \in 1..(Len(q) + 1) :
                Left(q, qk, key)[i] = IF i = 1 THEN key
                                      ELSE Left(q, qk, key)[i - 1] - qk[q[i - 1]]
<1> DEFINE Sat(f, n) == \A i \in 1..n : f[i] = IF i = 1 THEN key
                                              ELSE f[i - 1] - qk[q[i - 1]]
           P(n) == \E f \in [1..n -> Int] : Sat(f, n)
           T == {n \in 0..(Len(q) + 1) : ~P(n)}
<1>1. Len(q) \in Nat /\ \A j \in 1..Len(q) : qk[q[j]] \in Int
  BY DEF Keyed
<1>2. T = {}
  <2> SUFFICES ASSUME T # {} PROVE FALSE
    OBVIOUS
  <2>1. T \subseteq Nat BY <1>1
  <2>2. PICK m \in T : \A y \in T : m <= y
    <3> HIDE DEF T
    <3>1. QED BY <2>1, LeastNat, Zenon
  <2>3. m # 0
    <3>1. [i \in 1..0 |-> 0] \in [1..0 -> Int] /\ Sat([i \in 1..0 |-> 0], 0)
      OBVIOUS
    <3>2. P(0) BY <3>1
    <3>3. QED BY <3>2
  <2>4. m - 1 \in 0..(Len(q) + 1) /\ m \in 1..(Len(q) + 1) BY <1>1, <2>3
  <2>5. P(m - 1)
    <3>1. m - 1 \notin T
      <4> HIDE DEF T
      <4>1. QED BY <2>2, <2>4
    <3>2. QED BY <3>1, <2>4
  <2>6. PICK f \in [1..(m - 1) -> Int] : Sat(f, m - 1) BY <2>5
  <2> DEFINE v == IF m = 1 THEN key ELSE f[m - 1] - qk[q[m - 1]]
             g == [i \in 1..m |-> IF i = m THEN v ELSE f[i]]
  <2>7. v \in Int
    <3>1. CASE m = 1 BY <3>1
    <3>2. CASE m # 1
      <4>1. m - 1 \in 1..(m - 1) /\ m - 1 \in 1..Len(q) BY <1>1, <2>4, <3>2
      <4>2. f[m - 1] \in Int /\ qk[q[m - 1]] \in Int BY <4>1, <1>1, <2>6
      <4>3. QED BY <3>2, <4>2
    <3>3. QED BY <3>1, <3>2
  <2> HIDE DEF v
  <2>8. g \in [1..m -> Int] BY <2>4, <2>6, <2>7
  <2>9. Sat(g, m)
    <3> SUFFICES ASSUME NEW i \in 1..m
                 PROVE  g[i] = IF i = 1 THEN key ELSE g[i - 1] - qk[q[i - 1]]
      OBVIOUS
    <3>1. CASE i = m
      <4>1. g[i] = v BY <3>1
      <4>2. i # 1 => g[i - 1] = f[i - 1] BY <2>4, <3>1
      <4>3. QED BY <3>1, <4>1, <4>2 DEF v
    <3>2. CASE i # m
      <4>1. i \in 1..(m - 1) /\ g[i] = f[i] BY <2>4, <3>2
      <4>2. i # 1 => g[i - 1] = f[i - 1] BY <2>4, <3>2, <4>1
      <4>3. f[i] = IF i = 1 THEN key ELSE f[i - 1] - qk[q[i - 1]] BY <2>6, <4>1
      <4>4. QED BY <4>1, <4>2, <4>3
    <3>3. QED BY <3>1, <3>2
  <2>10. P(m) BY <2>8, <2>9
  <2>11. QED BY <2>2, <2>10
<1>3. P(Len(q) + 1)
  <2>1. Len(q) + 1 \in 0..(Len(q) + 1) BY <1>1
  <2>2. QED BY <1>2, <2>1
<1>4. PICK f \in [1..(Len(q) + 1) -> Int] : Sat(f, Len(q) + 1) BY <1>3
<1>5. f = [i \in 1..(Len(q) + 1) |-> IF i = 1 THEN key ELSE f[i - 1] - qk[q[i - 1]]]
  BY <1>4
<1> DEFINE L == Left(q, qk, key)
<1>6. L = [i \in 1..(Len(q) + 1) |-> IF i = 1 THEN key ELSE L[i - 1] - qk[q[i - 1]]]
  BY <1>5 DEF Left
<1> HIDE DEF L
<1>7. Sat(L, Len(q) + 1) /\ DOMAIN L = 1..(Len(q) + 1) BY <1>6
<1> DEFINE U == {i \in 1..(Len(q) + 1) : L[i] \notin Int}
<1>8. U = {}
  <2> SUFFICES ASSUME U # {} PROVE FALSE
    OBVIOUS
  <2>1. U \subseteq Nat BY <1>1
  <2>2. PICK m \in U : \A y \in U : m <= y
    <3> HIDE DEF U
    <3>1. QED BY <2>1, LeastNat, Zenon
  <2>3. m \in 1..(Len(q) + 1) /\ L[m] \notin Int OBVIOUS
  <2>4. m # 1 BY <1>7, <2>3
  <2>5. m - 1 \in 1..(Len(q) + 1) /\ m - 1 \in 1..Len(q) BY <1>1, <2>3, <2>4
  <2>6. m - 1 \notin U
    <3> HIDE DEF U
    <3>1. QED BY <2>2, <2>3
  <2>7. L[m - 1] \in Int BY <2>5, <2>6
  <2>8. L[m] = L[m - 1] - qk[q[m - 1]] BY <1>7, <2>3, <2>4
  <2>9. QED BY <1>1, <2>3, <2>5, <2>7, <2>8
<1>9. L \in [1..(Len(q) + 1) -> Int]
  <2>1. \A i \in 1..(Len(q) + 1) : L[i] \in Int BY <1>8
  <2>2. L = [i \in 1..(Len(q) + 1) |-> L[i]] BY <1>6
  <2>3. QED BY <2>1, <2>2
<1>10. QED BY <1>7, <1>9 DEF L

\* The walk of insertd stops, and the process is put on the delta list.
LEMMA InsertdPosFound ==
    ASSUME NEW S, NEW q \in Seq(S), NEW qk, Keyed(q, qk), NEW key \in Int
    PROVE  /\ InsertdPos(q, qk, key) \in 1..(Len(q) + 1)
           /\ \A j \in 1..(InsertdPos(q, qk, key) - 1) : qk[q[j]] <= Left(q, qk, key)[j]
           /\ InsertdPos(q, qk, key) <= Len(q) =>
                 qk[q[InsertdPos(q, qk, key)]] > Left(q, qk, key)[InsertdPos(q, qk, key)]
<1> DEFINE L == Left(q, qk, key)
           T == {i \in 1..(Len(q) + 1) : i <= Len(q) => qk[q[i]] > L[i]}
<1>1. Len(q) \in Nat /\ \A j \in 1..Len(q) : qk[q[j]] \in Int
  BY DEF Keyed
<1>2. L \in [1..(Len(q) + 1) -> Int]
  BY LeftDefined, Zenon
<1> HIDE DEF L
<1>3. T \subseteq Nat /\ T # {}
  <2>1. Len(q) + 1 \in T BY <1>1
  <2>2. QED BY <2>1, <1>1
<1>4. PICK m \in T : \A y \in T : m <= y
  <2> HIDE DEF T
  <2>1. QED BY <1>3, LeastNat, Zenon
<1>5. ASSUME NEW j \in 1..(m - 1) PROVE qk[q[j]] <= L[j]
  <2>1. j \notin T BY <1>4, <1>1
  <2>2. j \in 1..Len(q) /\ j \in 1..(Len(q) + 1) BY <1>1
  <2>3. qk[q[j]] \in Int /\ L[j] \in Int BY <2>2, <1>1, <1>2
  <2>4. QED BY <2>1, <2>2, <2>3
<1> DEFINE D == 1..(Len(q) + 1)
           Stop(i) == /\ \A j \in 1..(i - 1) : qk[q[j]] <= L[j]
                      /\ i <= Len(q) => qk[q[i]] > L[i]
<1>6. \E i \in D : Stop(i)
  BY <1>5
<1>7. InsertdPos(q, qk, key) = CHOOSE i \in D : Stop(i)
  BY DEF InsertdPos, L
<1>8. InsertdPos(q, qk, key) \in D /\ Stop(InsertdPos(q, qk, key))
  <2> HIDE DEF D, Stop
  <2>1. QED BY <1>6, <1>7, Zenon
<1>9. QED BY <1>8 DEF L

LEMMA InsertdQueue ==
    ASSUME NEW S, NEW q \in Seq(S), NEW p \in S, NEW qk, Keyed(q, qk),
           NEW key \in Int, NoDup(q), ~OnQueue(q, p)
    PROVE  /\ insertd(p, q, qk, key) \in Seq(S)
           /\ NoDup(insertd(p, q, qk, key))
           /\ \A x : OnQueue(insertd(p, q, qk, key), x) <=> OnQueue(q, x) \/ x = p
<1> DEFINE i == InsertdPos(q, qk, key)
<1>1. i \in 1..(Len(q) + 1) BY InsertdPosFound, Zenon
<1> HIDE DEF i
<1>2. /\ InsertAt(q, i, p) \in Seq(S)
      /\ NoDup(InsertAt(q, i, p))
      /\ \A x : OnQueue(InsertAt(q, i, p), x) <=> OnQueue(q, x) \/ x = p
  BY <1>1, InsertAtQueue, Zenon
<1>3. QED BY <1>2 DEF insertd, i

\* insertd changes the key of p and of one process on the delta list at most.
LEMMA InsertdKeys ==
    ASSUME NEW S, NEW q \in Seq(S), NEW p, NEW qk \in [S -> Int], NEW key \in Int
    PROVE  /\ insertdKeys(p, q, qk, key) \in [S -> Int]
           /\ \A x \in S : x # p /\ ~OnQueue(q, x) =>
                insertdKeys(p, q, qk, key)[x] = qk[x]
<1> DEFINE i == InsertdPos(q, qk, key)
           L == Left(q, qk, key)
           ks == insertdKeys(p, q, qk, key)
<1>1. Keyed(q, qk) BY DEF Keyed
<1>2. i \in 1..(Len(q) + 1) BY <1>1, InsertdPosFound, Zenon
<1>3. L \in [1..(Len(q) + 1) -> Int] BY <1>1, LeftDefined, Zenon
<1>4. ks = [x \in S |-> IF x = p THEN L[i]
                        ELSE IF i <= Len(q) /\ x = q[i] THEN qk[x] - L[i]
                        ELSE qk[x]]
  BY DEF insertdKeys
<1> HIDE DEF i, L, ks
<1>5. L[i] \in Int BY <1>2, <1>3
<1>6. ks \in [S -> Int] BY <1>4, <1>5
<1>7. \A x \in S : x # p /\ ~OnQueue(q, x) => ks[x] = qk[x]
  BY <1>2, <1>4 DEF OnQueue
<1>8. QED BY <1>6, <1>7 DEF ks

\* unsleep changes the key of a process on the delta list at most.
LEMMA UnsleepKeys ==
    ASSUME NEW S, NEW q \in Seq(S), NEW p \in S, NEW qk \in [S -> Int], OnQueue(q, p)
    PROVE  /\ unsleepKeys(p, q, qk) \in [S -> Int]
           /\ \A x \in S : ~OnQueue(q, x) => unsleepKeys(p, q, qk)[x] = qk[x]
<1> DEFINE i == PosOf(p, q)
<1>1. i \in 1..Len(q) BY DEF OnQueue, PosOf
<1>2. unsleepKeys(p, q, qk) =
        [x \in S |-> IF i < Len(q) /\ x = q[i + 1] THEN qk[x] + qk[p] ELSE qk[x]]
  BY DEF unsleepKeys
<1> HIDE DEF i
<1>3. QED BY <1>1, <1>2 DEF OnQueue
==============================================================================
