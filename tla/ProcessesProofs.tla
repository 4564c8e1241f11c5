---------------------------- MODULE ProcessesProofs ----------------------------
\* The inductive invariant of the processes of Processes.tla, Core, and the lemmas
\* that every step of a process, a fork or a kill keeps it (process_waits.c, wakeup.c,
\* forks.c and process_control.c under src/sim/rt/scheduler).
EXTENDS Processes, TLAPS

\* Zenon is the prover of a leaf that names none.
USE ZenonT(60)

--------------------------------------------------------------------------------
\* Numbers, finite sets and queues.

\* What the lemmas below need to count: the numbers are well ordered, and the sizes of
\* finite sets.
Counting ==
  /\ \A S \in SUBSET Nat : S # {} => \E n \in S : \A m \in S : n <= m
  /\ Cardinality({}) = 0 /\ \A x : Cardinality({x}) = 1
  /\ \A S : IsFiniteSet(S) =>
       /\ Cardinality(S) \in Nat
       /\ \A x : IsFiniteSet(S \cup {x})
       /\ \A T : /\ IsFiniteSet(S \ T)
                 /\ Cardinality(S \ T) = Cardinality(S) - Cardinality(S \cap T)
  /\ \A s \in Seq(Proc) : IsInjective(s) =>
       IsFiniteSet(Range(s)) /\ Cardinality(Range(s)) = Len(s)

\* A set of numbers that is not empty has a least one.
LEMMA Least ==
  ASSUME Counting, NEW S \in SUBSET Nat, S # {}
  PROVE  \E n \in S : \A m \in S : n <= m
  BY DEF Counting

\* A set with 0 and with the successor of each of its numbers holds all numbers.
LEMMA Induction ==
  ASSUME Counting, NEW S, 0 \in S, \A n \in Nat : n \in S => n + 1 \in S
  PROVE  Nat \subseteq S
<1> DEFINE T == Nat \ S
<1> SUFFICES ASSUME T # {} PROVE FALSE
  OBVIOUS
<1>1. T \in SUBSET Nat
  OBVIOUS
<1>2. PICK n \in T : \A m \in T : n <= m
  <2> HIDE DEF T
  <2> QED
    BY <1>1, Least
<1>3. n \in Nat /\ n # 0 /\ n - 1 \in Nat /\ ~(n <= n - 1) /\ n - 1 + 1 = n
  BY SMTT(60)
<1>4. n - 1 \in S
  BY <1>2, <1>3
<1> QED
  BY <1>3, <1>4

\* What the items of a sequence are, and where they are.
LEMMA SeqFields ==
  ASSUME NEW V, NEW s \in Seq(V)
  PROVE  /\ Len(s) \in Nat /\ DOMAIN s = 1..Len(s) /\ s \in [1..Len(s) -> V]
         /\ \A i \in 1..Len(s) : s[i] \in V
  BY SMTT(60)

\* A part of a finite set is finite.
LEMMA PartFinite ==
  ASSUME Counting, NEW S, IsFiniteSet(S), NEW T \in SUBSET S
  PROVE  IsFiniteSet(T)
<1>1. T = S \ (S \ T)
  OBVIOUS
<1>2. IsFiniteSet(S \ (S \ T))
  BY DEF Counting
<1> QED
  BY <1>1, <1>2

\* The size of a finite set is a number.
LEMMA SizeNat ==
  ASSUME Counting, NEW S, IsFiniteSet(S)
  PROVE  Cardinality(S) \in Nat
  BY DEF Counting

\* The size of a set without some others.
LEMMA SizeLess ==
  ASSUME Counting, NEW S, IsFiniteSet(S), NEW T
  PROVE  IsFiniteSet(S \ T) /\ Cardinality(S \ T) = Cardinality(S) - Cardinality(S \cap T)
  BY DEF Counting

\* One less: what remaining counts once a child has ended (note_child_dead).
LEMMA SizeRemove ==
  ASSUME Counting, NEW S, IsFiniteSet(S), NEW x \in S
  PROVE  IsFiniteSet(S \ {x}) /\ Cardinality(S \ {x}) = Cardinality(S) - 1
<1>1. S \cap {x} = {x}
  OBVIOUS
<1>2. IsFiniteSet(S \ {x}) /\ Cardinality(S \ {x}) = Cardinality(S) - Cardinality(S \cap {x})
  BY SizeLess
<1>3. Cardinality({x}) = 1
  BY DEF Counting
<1> QED
  BY <1>1, <1>2, <1>3

\* One more: what wait_count counts once a process waits (proc_block).
LEMMA SizeAdd ==
  ASSUME Counting, NEW S, IsFiniteSet(S), NEW x, x \notin S
  PROVE  IsFiniteSet(S \cup {x}) /\ Cardinality(S \cup {x}) = Cardinality(S) + 1
<1> DEFINE U == S \cup {x}
<1>1. IsFiniteSet(U) /\ x \in U /\ U \ {x} = S
  BY DEF Counting
<1> HIDE DEF U
<1>2. Cardinality(S) = Cardinality(U) - 1 /\ Cardinality(U) \in Nat /\ Cardinality(S) \in Nat
  BY <1>1, SizeRemove, SizeNat
<1>3. Cardinality(U) = Cardinality(S) + 1
  BY <1>2, SMTT(60)
<1> QED
  BY <1>1, <1>3 DEF U

\* The sequences that Joint computes, up to n.
Joins(f, ss, n) == f = [i \in 0..n |-> IF i = 0 THEN <<>> ELSE f[i - 1] \o ss[i]]

\* Joint's recursion has a solution for every length.
LEMMA JoinsExist ==
  ASSUME Counting, NEW ss, NEW n \in Nat
  PROVE  \E f : Joins(f, ss, n)
<1> DEFINE S == {m \in Nat : \E f : Joins(f, ss, m)}
<1>1. 0 \in S
  <2>1. Joins([i \in 0..0 |-> <<>>], ss, 0)
    BY SMTT(60) DEF Joins
  <2> QED
    BY <2>1
<1>2. ASSUME NEW m \in Nat, m \in S PROVE m + 1 \in S
  <2>1. PICK f : Joins(f, ss, m)
    BY <1>2
  <2> DEFINE g == [i \in 0..m + 1 |-> IF i = m + 1 THEN f[i - 1] \o ss[i] ELSE f[i]]
  <2>2. \A i \in 0..m : g[i] = f[i] /\ f[i] = IF i = 0 THEN <<>> ELSE f[i - 1] \o ss[i]
    BY <2>1, SMTT(60) DEF Joins
  <2>3. \A i \in 0..m + 1 : g[i] = IF i = 0 THEN <<>> ELSE g[i - 1] \o ss[i]
    <3> SUFFICES ASSUME NEW i \in 0..m + 1
                 PROVE  g[i] = IF i = 0 THEN <<>> ELSE g[i - 1] \o ss[i]
      OBVIOUS
    <3>1. i # 0 => i - 1 \in 0..m
      BY SMTT(60)
    <3>2. i \in 0..m \/ (i = m + 1 /\ i # 0)
      BY SMTT(60)
    <3>3. i = m + 1 => g[i] = f[i - 1] \o ss[i]
      OBVIOUS
    <3> HIDE DEF g
    <3> QED
      BY <2>2, <3>1, <3>2, <3>3
  <2>4. Joins(g, ss, m + 1)
    BY <2>3 DEF Joins
  <2> QED
    BY <2>4, SMTT(60)
<1> HIDE DEF S
<1>3. Nat \subseteq S
  BY <1>1, <1>2, Induction
<1> QED
  BY <1>3 DEF S

------------------------------------------------------------------------------

\* queue_push: an item at the end of a queue.
LEMMA AppendSet ==
  ASSUME NEW V, NEW s \in Seq(V), NEW p \in V
  PROVE  /\ Append(s, p) \in Seq(V) /\ Len(Append(s, p)) = Len(s) + 1
         /\ Range(Append(s, p)) = Range(s) \cup {p}
         /\ IsInjective(s) /\ p \notin Range(s) => IsInjective(Append(s, p))
<1>1. /\ Append(s, p) \in Seq(V) /\ Len(Append(s, p)) = Len(s) + 1
      /\ DOMAIN Append(s, p) = 1..Len(s) + 1 /\ DOMAIN s = 1..Len(s) /\ Len(s) \in Nat
      /\ \A i \in 1..Len(s) : Append(s, p)[i] = s[i]
      /\ Append(s, p)[Len(s) + 1] = p
  BY SMTT(60)
<1>2. Range(Append(s, p)) = Range(s) \cup {p}
  BY <1>1, SMTT(60) DEF Range
<1>3. IsInjective(s) /\ p \notin Range(s) => IsInjective(Append(s, p))
  BY <1>1, SMTT(60) DEF Range, IsInjective
<1> QED
  BY <1>1, <1>2, <1>3

\* One queue behind another.
LEMMA ConcatSet ==
  ASSUME NEW V, NEW s \in Seq(V), NEW t \in Seq(V)
  PROVE  /\ s \o t \in Seq(V) /\ Len(s \o t) = Len(s) + Len(t)
         /\ Range(s \o t) = Range(s) \cup Range(t)
         /\ IsInjective(s) /\ IsInjective(t) /\ Range(s) \cap Range(t) = {} => IsInjective(s \o t)
<1>1. /\ s \o t \in Seq(V) /\ Len(s \o t) = Len(s) + Len(t)
      /\ DOMAIN (s \o t) = 1..Len(s) + Len(t)
      /\ DOMAIN s = 1..Len(s) /\ Len(s) \in Nat /\ DOMAIN t = 1..Len(t) /\ Len(t) \in Nat
      /\ \A i \in 1..Len(s) + Len(t) : (s \o t)[i] = IF i <= Len(s) THEN s[i] ELSE t[i - Len(s)]
  BY SMTT(60)
<1>2. Range(s \o t) = Range(s) \cup Range(t)
  <2>1. \A i \in 1..Len(t) : i + Len(s) \in 1..Len(s) + Len(t) /\ (s \o t)[i + Len(s)] = t[i]
    BY <1>1, SMTT(60)
  <2>2. \A i \in 1..Len(s) : i \in 1..Len(s) + Len(t) /\ (s \o t)[i] = s[i]
    BY <1>1, SMTT(60)
  <2>3. \A i \in 1..Len(s) + Len(t) : \/ i \in 1..Len(s) /\ (s \o t)[i] = s[i]
                                      \/ i - Len(s) \in 1..Len(t) /\ (s \o t)[i] = t[i - Len(s)]
    BY <1>1, SMTT(60)
  <2>4. ASSUME NEW x \in Range(s \o t) PROVE x \in Range(s) \cup Range(t)
    BY <1>1, <2>3 DEF Range
  <2>5. ASSUME NEW x \in Range(s) PROVE x \in Range(s \o t)
    BY <1>1, <2>2 DEF Range
  <2>6. ASSUME NEW x \in Range(t) PROVE x \in Range(s \o t)
    <3>1. PICK i \in 1..Len(t) : x = t[i]
      BY <1>1 DEF Range
    <3>2. i + Len(s) \in DOMAIN (s \o t) /\ (s \o t)[i + Len(s)] = x
      BY <1>1, <2>1, <3>1
    <3> QED
      BY <3>2 DEF Range
  <2> QED
    BY <2>4, <2>5, <2>6
<1>3. ASSUME IsInjective(s), IsInjective(t), Range(s) \cap Range(t) = {} PROVE IsInjective(s \o t)
  <2> SUFFICES ASSUME NEW i \in 1..Len(s) + Len(t), NEW j \in 1..Len(s) + Len(t),
                      (s \o t)[i] = (s \o t)[j]
               PROVE  i = j
    BY <1>1 DEF IsInjective
  <2>1. \A a \in 1..Len(s), b \in 1..Len(t) : s[a] # t[b]
    BY <1>1, <1>3 DEF Range
  <2>2. CASE i <= Len(s) /\ j <= Len(s)
    BY <1>1, <1>3, <2>2, SMTT(60) DEF IsInjective
  <2>3. CASE i <= Len(s) /\ j > Len(s)
    BY <1>1, <2>1, <2>3, SMTT(60)
  <2>4. CASE i > Len(s) /\ j <= Len(s)
    BY <1>1, <2>1, <2>4, SMTT(60)
  <2>5. CASE i > Len(s) /\ j > Len(s)
    <3>1. i - Len(s) \in 1..Len(t) /\ j - Len(s) \in 1..Len(t) /\ t[i - Len(s)] = t[j - Len(s)]
      BY <1>1, <2>5, SMTT(60)
    <3>2. i - Len(s) = j - Len(s)
      BY <1>1, <1>3, <3>1 DEF IsInjective
    <3> QED
      BY <3>2, SMTT(60)
  <2> QED
    BY <2>2, <2>3, <2>4, <2>5, SMTT(60)
<1> QED
  BY <1>1, <1>2, <1>3

\* A queue of one.
LEMMA OneSet ==
  ASSUME NEW V, NEW p \in V
  PROVE  <<p>> \in Seq(V) /\ Range(<<p>>) = {p} /\ IsInjective(<<p>>) /\ Len(<<p>>) = 1
  BY SMTT(60) DEF Range, IsInjective

\* A queue of nobody.
LEMMA NoneSet ==
  ASSUME NEW V
  PROVE  <<>> \in Seq(V) /\ Range(<<>>) = {} /\ IsInjective(<<>>) /\ Len(<<>>) = 0
  BY SMTT(60) DEF Range, IsInjective

\* queue_pop: the head leaves the queue.
LEMMA TailSet ==
  ASSUME NEW V, NEW s \in Seq(V), s # <<>>
  PROVE  /\ Head(s) \in V /\ Tail(s) \in Seq(V) /\ Len(Tail(s)) = Len(s) - 1
         /\ Range(s) = Range(Tail(s)) \cup {Head(s)}
         /\ IsInjective(s) => IsInjective(Tail(s)) /\ Head(s) \notin Range(Tail(s))
<1>1. /\ Head(s) \in V /\ Tail(s) \in Seq(V) /\ Len(Tail(s)) = Len(s) - 1
      /\ DOMAIN s = 1..Len(s) /\ Len(s) \in Nat \ {0} /\ DOMAIN Tail(s) = 1..Len(s) - 1
      /\ Head(s) = s[1] /\ \A i \in 1..Len(s) - 1 : Tail(s)[i] = s[i + 1]
  BY SMTT(60)
<1>2. Range(s) = Range(Tail(s)) \cup {Head(s)}
  <2>1. \A i \in 1..Len(s) : i = 1 \/ (i - 1 \in 1..Len(s) - 1 /\ s[i] = Tail(s)[i - 1])
    BY <1>1, SMTT(60)
  <2>2. \A i \in 1..Len(s) - 1 : i + 1 \in 1..Len(s) /\ Tail(s)[i] = s[i + 1]
    BY <1>1, SMTT(60)
  <2>3. 1 \in 1..Len(s)
    BY <1>1, SMTT(60)
  <2>4. ASSUME NEW x \in Range(s) PROVE x \in Range(Tail(s)) \cup {Head(s)}
    <3>1. PICK i \in 1..Len(s) : x = s[i]
      BY <1>1, <2>4 DEF Range
    <3>2. i = 1 \/ (i - 1 \in DOMAIN Tail(s) /\ x = Tail(s)[i - 1])
      BY <1>1, <2>1, <3>1
    <3> QED
      BY <1>1, <3>1, <3>2 DEF Range
  <2>5. ASSUME NEW x \in Range(Tail(s)) PROVE x \in Range(s)
    BY <1>1, <2>2, <2>5, SMTT(60) DEF Range
  <2>6. Head(s) \in Range(s)
    BY <1>1, <2>3 DEF Range
  <2> QED
    BY <2>4, <2>5, <2>6
<1>3. ASSUME IsInjective(s) PROVE IsInjective(Tail(s)) /\ Head(s) \notin Range(Tail(s))
  <2>1. \A i \in 1..Len(s) - 1 : s[i + 1] # s[1]
    BY <1>1, <1>3, SMTT(60) DEF IsInjective
  <2>2. \A i, j \in 1..Len(s) - 1 : s[i + 1] = s[j + 1] => i = j
    <3> SUFFICES ASSUME NEW i \in 1..Len(s) - 1, NEW j \in 1..Len(s) - 1, s[i + 1] = s[j + 1]
                 PROVE  i = j
      OBVIOUS
    <3>1. i + 1 \in 1..Len(s) /\ j + 1 \in 1..Len(s)
      BY <1>1, SMTT(60)
    <3>2. i + 1 = j + 1
      BY <1>1, <1>3, <3>1 DEF IsInjective
    <3> QED
      BY <3>2, SMTT(60)
  <2> QED
    BY <1>1, <2>1, <2>2, SMTT(60) DEF Range, IsInjective
<1> QED
  BY <1>1, <1>2, <1>3

------------------------------------------------------------------------------

\* An unlinked item leaves the others, in their order.
LEMMA RemoveAtSet ==
  ASSUME NEW V, NEW s \in Seq(V), NEW k \in 1..Len(s)
  PROVE  /\ RemoveAt(s, k) \in Seq(V) /\ Len(RemoveAt(s, k)) = Len(s) - 1
         /\ \A i \in 1..Len(s) - 1 : RemoveAt(s, k)[i] = IF i < k THEN s[i] ELSE s[i + 1]
         /\ IsInjective(s) => /\ IsInjective(RemoveAt(s, k))
                           /\ Range(RemoveAt(s, k)) = Range(s) \ {s[k]}
<1> DEFINE r == RemoveAt(s, k)
<1>1. /\ Len(s) \in Nat /\ Len(s) - 1 \in Nat /\ DOMAIN s = 1..Len(s)
      /\ \A i \in 1..Len(s) : s[i] \in V
      /\ k \in Nat /\ 1 <= k /\ k <= Len(s)
  BY SeqFields, SMTT(60)
<1>2. /\ DOMAIN r = 1..Len(s) - 1 /\ \A i \in 1..Len(s) - 1 : r[i] = IF i < k THEN s[i] ELSE s[i + 1]
  BY DEF RemoveAt
<1>3. r \in Seq(V) /\ Len(r) = Len(s) - 1
  <2>1. \A i \in 1..Len(s) - 1 : (IF i < k THEN i ELSE i + 1) \in 1..Len(s)
    BY <1>1, SMTT(60)
  <2>2. r \in [1..Len(s) - 1 -> V]
    BY <1>1, <2>1 DEF RemoveAt
  <2> DEFINE n == Len(s) - 1
  <2>3. n \in Nat /\ r \in [1..n -> V]
    BY <1>1, <2>2
  <2> HIDE DEF r, n
  <2>4. r \in Seq(V) /\ Len(r) = n
    BY ONLY <2>3, SMTT(60)
  <2> QED
    BY <2>4 DEF n
<1> HIDE DEF r
<1>4. ASSUME IsInjective(s) PROVE IsInjective(r)
  <2> SUFFICES ASSUME NEW i \in 1..Len(s) - 1, NEW j \in 1..Len(s) - 1, r[i] = r[j]
               PROVE  i = j
    BY <1>2 DEF IsInjective
  <2> DEFINE a == IF i < k THEN i ELSE i + 1
             b == IF j < k THEN j ELSE j + 1
  <2>1. a \in 1..Len(s) /\ b \in 1..Len(s) /\ (a = b => i = j)
    BY <1>1, SMTT(60)
  <2>2. s[a] = s[b]
    BY <1>2
  <2> HIDE DEF a, b
  <2>3. a = b
    BY <1>1, <1>4, <2>1, <2>2 DEF IsInjective
  <2> QED
    BY <2>1, <2>3
<1>5. ASSUME IsInjective(s) PROVE Range(r) = Range(s) \ {s[k]}
  <2>1. ASSUME NEW i \in 1..Len(s) - 1 PROVE r[i] \in Range(s) \ {s[k]}
    <3> DEFINE a == IF i < k THEN i ELSE i + 1
    <3>1. a \in 1..Len(s) /\ a # k /\ r[i] = s[a]
      BY <1>1, <1>2, SMTT(60)
    <3> HIDE DEF a
    <3>2. s[a] # s[k]
      BY <1>1, <1>5, <3>1 DEF IsInjective
    <3> QED
      BY <1>1, <3>1, <3>2 DEF Range
  <2>2. ASSUME NEW a \in 1..Len(s), a # k PROVE s[a] \in Range(r)
    <3> DEFINE i == IF a < k THEN a ELSE a - 1
    <3>1. i \in 1..Len(s) - 1 /\ r[i] = s[a]
      BY <1>1, <1>2, <2>2, SMTT(60)
    <3> HIDE DEF i
    <3> QED
      BY <1>2, <3>1 DEF Range
  <2>3. ASSUME NEW x \in Range(r) PROVE x \in Range(s) \ {s[k]}
    BY <1>2, <2>1, <2>3 DEF Range
  <2>4. ASSUME NEW x \in Range(s), x # s[k] PROVE x \in Range(r)
    BY <1>1, <2>2, <2>4 DEF Range
  <2> QED
    BY <2>3, <2>4
<1> QED
  BY <1>2, <1>3, <1>4, <1>5 DEF r

\* What the searches of queue_remove and of the unlink functions find.
LEMMA RemoveFirstIs ==
  ASSUME Counting, NEW V, NEW s \in Seq(V), NEW p
  PROVE  \/ p \notin Range(s) /\ RemoveFirst(s, p) = s
         \/ \E k \in 1..Len(s) : s[k] = p /\ RemoveFirst(s, p) = RemoveAt(s, k)
<1>1. CASE p \notin Range(s)
  BY <1>1 DEF RemoveFirst
<1>2. CASE p \in Range(s)
  <2> DEFINE I == {i \in DOMAIN s : s[i] = p}
             k == CHOOSE i \in DOMAIN s : s[i] = p /\ \A j \in 1..i - 1 : s[j] # p
  <2>0. Len(s) \in Nat /\ DOMAIN s = 1..Len(s)
    BY SeqFields
  <2>1. RemoveFirst(s, p) = RemoveAt(s, k)
    BY <1>2 DEF RemoveFirst
  <2>2. PICK i \in I : \A j \in I : i <= j
    <3>1. I \in SUBSET Nat /\ I # {}
      BY <1>2, <2>0, SMTT(60) DEF Range
    <3> HIDE DEF I
    <3> QED
      BY <3>1, Least
  <2>3. s[i] = p /\ \A j \in 1..i - 1 : s[j] # p
    BY <2>0, <2>2, SMTT(60)
  <2>4. k \in DOMAIN s /\ s[k] = p
    <3>1. i \in DOMAIN s
      BY <2>2
    <3> HIDE DEF I
    <3> QED
      BY <2>3, <3>1
  <2> HIDE DEF k
  <2> QED
    BY <2>0, <2>1, <2>4
<1> QED
  BY <1>1, <1>2

\* queue_remove, in a queue in which nobody is twice.
LEMMA RemoveFirstSet ==
  ASSUME Counting, NEW V, NEW s \in Seq(V), IsInjective(s), NEW p
  PROVE  /\ RemoveFirst(s, p) \in Seq(V) /\ IsInjective(RemoveFirst(s, p))
         /\ Range(RemoveFirst(s, p)) = Range(s) \ {p}
<1>1. CASE p \notin Range(s) /\ RemoveFirst(s, p) = s
  BY <1>1
<1>2. CASE \E k \in 1..Len(s) : s[k] = p /\ RemoveFirst(s, p) = RemoveAt(s, k)
  <2>1. PICK k \in 1..Len(s) : s[k] = p /\ RemoveFirst(s, p) = RemoveAt(s, k)
    BY <1>2
  <2>2. /\ RemoveAt(s, k) \in Seq(V) /\ IsInjective(RemoveAt(s, k))
        /\ Range(RemoveAt(s, k)) = Range(s) \ {s[k]}
    BY RemoveAtSet, SMTT(60)
  <2> QED
    BY <2>1, <2>2
<1> QED
  BY <1>1, <1>2, RemoveFirstIs

\* g.waiters is walked from the newest wait; the order of the waits is its reverse.
LEMMA ReverseSet ==
  ASSUME NEW V, NEW s \in Seq(V)
  PROVE  /\ Reverse(s) \in Seq(V) /\ Range(Reverse(s)) = Range(s)
         /\ IsInjective(s) => IsInjective(Reverse(s))
<1> DEFINE r == Reverse(s)
<1>1. Len(s) \in Nat /\ DOMAIN s = 1..Len(s) /\ \A i \in 1..Len(s) : s[i] \in V
  BY SeqFields
<1>2. DOMAIN r = 1..Len(s) /\ \A i \in 1..Len(s) : r[i] = s[Len(s) - i + 1]
  BY DEF Reverse
<1>3. \A i \in 1..Len(s) : /\ Len(s) - i + 1 \in 1..Len(s)
                           /\ Len(s) - (Len(s) - i + 1) + 1 = i
  BY ONLY <1>1, SMTT(60)
<1>4. r \in Seq(V)
  <2>1. r \in [1..Len(s) -> V]
    BY <1>1, <1>3 DEF Reverse
  <2> QED
    BY <1>1, <2>1, SMTT(60)
<1> HIDE DEF r
<1>5. Range(r) = Range(s)
  <2>1. \A i \in 1..Len(s) : s[i] = r[Len(s) - i + 1]
    BY <1>2, <1>3
  <2>2. ASSUME NEW x \in Range(r) PROVE x \in Range(s)
    <3>1. PICK i \in 1..Len(s) : x = r[i]
      BY <1>2, <2>2 DEF Range
    <3> QED
      BY <1>1, <1>2, <1>3, <3>1 DEF Range
  <2>3. ASSUME NEW x \in Range(s) PROVE x \in Range(r)
    <3>1. PICK i \in 1..Len(s) : x = s[i]
      BY <1>1, <2>3 DEF Range
    <3> QED
      BY <1>2, <1>3, <2>1, <3>1 DEF Range
  <2> QED
    BY <2>2, <2>3
<1>6. ASSUME IsInjective(s) PROVE IsInjective(r)
  BY <1>1, <1>2, <1>3, <1>6 DEF IsInjective
<1> QED
  BY <1>4, <1>5, <1>6 DEF r

Apart(ss) ==
  /\ \A i \in DOMAIN ss : IsInjective(ss[i])
  /\ \A i, j \in DOMAIN ss : Range(ss[i]) \cap Range(ss[j]) # {} => i = j

Gathered(r, V, ss, n) ==
  /\ r \in Seq(V)
  /\ \A x : x \in Range(r) <=> \E i \in 1..n : x \in Range(ss[i])
  /\ Apart(ss) => IsInjective(r)

\* The sequences that Joint joins: their items, and when nobody is twice.
LEMMA JointGathers ==
  ASSUME Counting, NEW V, NEW ss \in Seq(Seq(V))
  PROVE  Gathered(Joint(ss), V, ss, Len(ss))
<1> DEFINE n == Len(ss)
<1>1. n \in Nat /\ DOMAIN ss = 1..n /\ \A i \in 1..n : ss[i] \in Seq(V)
  BY SeqFields
<1>2. PICK f : Joins(f, ss, n) /\ Joint(ss) = f[n]
  <2>1. Joint(ss) = (CHOOSE f : Joins(f, ss, n))[n]
    BY DEF Joint, Joins
  <2> QED
    BY <1>1, <2>1, JoinsExist
<1> HIDE DEF n
<1> DEFINE S == {m \in Nat : m \in 0..n => Gathered(f[m], V, ss, m)}
<1>3. \A m \in 0..n : f[m] = IF m = 0 THEN <<>> ELSE f[m - 1] \o ss[m]
  BY <1>2 DEF Joins
<1>4. 0 \in S
  <2>1. 0 \in 0..n /\ 1..0 = {} /\ 0 \in Nat
    BY <1>1, SMTT(60)
  <2>2. f[0] = <<>>
    BY <1>3, <2>1
  <2> QED
    BY <2>1, <2>2, NoneSet DEF Gathered
<1>5. ASSUME NEW m \in Nat, m \in S PROVE m + 1 \in S
  <2> DEFINE k == m + 1
  <2>0. k \in Nat
    BY SMTT(60)
  <2> HIDE DEF k
  <2> SUFFICES ASSUME k \in 0..n PROVE Gathered(f[k], V, ss, k)
    BY <2>0 DEF k
  <2>1. /\ m \in 0..n /\ k \in 1..n /\ k # 0 /\ k - 1 = m
        /\ \A i : i \in 1..k <=> i \in 1..m \/ i = k
        /\ \A i \in 1..m : i \in 1..n /\ i # k
    <3>1. n \in Nat /\ k = m + 1
      BY <1>1 DEF k
    <3> QED
      BY <3>1, SMTT(60)
  <2>2. f[k] = f[m] \o ss[k] /\ ss[k] \in Seq(V)
    BY <1>1, <1>3, <2>1
  <2>3. Gathered(f[m], V, ss, m)
    BY <1>5, <2>1
  <2>4. f[m] \in Seq(V)
    BY <2>3 DEF Gathered
  <2>5. /\ f[k] \in Seq(V) /\ Range(f[k]) = Range(f[m]) \cup Range(ss[k])
        /\ /\ IsInjective(f[m]) /\ IsInjective(ss[k])
           /\ Range(f[m]) \cap Range(ss[k]) = {}
           => IsInjective(f[k])
    <3> DEFINE r == f[m] \o ss[k]
    <3>1. /\ r \in Seq(V) /\ Range(r) = Range(f[m]) \cup Range(ss[k])
          /\ /\ IsInjective(f[m]) /\ IsInjective(ss[k])
             /\ Range(f[m]) \cap Range(ss[k]) = {}
             => IsInjective(r)
      BY <2>2, <2>4, ConcatSet, SMTT(60)
    <3> QED
      BY <2>2, <3>1
  <2>6. \A x : x \in Range(f[k]) <=> \E i \in 1..k : x \in Range(ss[i])
    BY <2>1, <2>3, <2>5 DEF Gathered
  <2>7. Apart(ss) => IsInjective(f[k])
    BY <1>1, <2>1, <2>3, <2>5 DEF Gathered, Apart
  <2> QED
    BY <2>5, <2>6, <2>7 DEF Gathered
<1> HIDE DEF S
<1>6. Nat \subseteq S
  BY <1>4, <1>5, Induction
<1>7. n \in 0..n
  BY <1>1, SMTT(60)
<1>8. Gathered(f[n], V, ss, n)
  BY <1>1, <1>6, <1>7 DEF S
<1> QED
  BY <1>2, <1>8 DEF n

\* A filtered queue holds who passes the filter, and nobody twice.
LEMMA WithinSet ==
  ASSUME Counting, NEW V, NEW s \in Seq(V), NEW S
  PROVE  /\ Within(s, S) \in Seq(V)
         /\ Range(Within(s, S)) = Range(s) \cap S
         /\ IsInjective(s) => IsInjective(Within(s, S))
<1> DEFINE ss == [i \in DOMAIN s |-> IF s[i] \in S THEN <<s[i]>> ELSE <<>>]
<1>1. Len(s) \in Nat /\ DOMAIN s = 1..Len(s) /\ \A i \in 1..Len(s) : s[i] \in V
  BY SeqFields
<1>2. \A i \in 1..Len(s) : /\ ss[i] \in Seq(V) /\ IsInjective(ss[i])
                           /\ \A x : x \in Range(ss[i]) <=> x = s[i] /\ x \in S
  BY <1>1, OneSet, NoneSet, SMTT(60)
<1>3. ss \in Seq(Seq(V)) /\ Len(ss) = Len(s) /\ DOMAIN ss = 1..Len(s)
  <2>1. DOMAIN ss = 1..Len(s)
    BY <1>1
  <2>2. ss = [i \in 1..Len(s) |-> ss[i]]
    BY <1>1
  <2> HIDE DEF ss
  <2>3. ss \in [1..Len(s) -> Seq(V)]
    BY <1>2, <2>2
  <2> QED
    BY <1>1, <2>1, <2>3, SMTT(60)
<1>4. Within(s, S) = Joint(ss)
  BY DEF Within
<1> HIDE DEF ss
<1>5. Gathered(Within(s, S), V, ss, Len(s))
  BY <1>3, <1>4, JointGathers
<1>6. Range(Within(s, S)) = Range(s) \cap S
  <2>1. \A x : x \in Range(s) <=> \E i \in 1..Len(s) : x = s[i]
    BY <1>1 DEF Range
  <2>2. \A x : x \in Range(Within(s, S)) <=> x \in Range(s) /\ x \in S
    BY <1>2, <1>5, <2>1, SMTT(60) DEF Gathered
  <2> QED
    BY <2>2
<1>7. IsInjective(s) => IsInjective(Within(s, S))
  <2>1. ASSUME IsInjective(s) PROVE Apart(ss)
    <3>1. \A i, j \in 1..Len(s) : s[i] = s[j] => i = j
      BY <1>1, <2>1 DEF IsInjective
    <3>2. \A i, j \in 1..Len(s) : Range(ss[i]) \cap Range(ss[j]) # {} => s[i] = s[j]
      BY <1>2
    <3> QED
      BY <1>2, <1>3, <3>1, <3>2 DEF Apart
  <2> QED
    BY <1>5, <2>1 DEF Gathered
<1> QED
  BY <1>5, <1>6, <1>7 DEF Gathered

--------------------------------------------------------------------------------
\* The inductive invariant of the processes.

Blocked == {p \in Proc : wait[p].kind # "none"}

Child(c, i) == c \in Range(groups[i].children)

Unstarted == {c \in Proc : /\ life[c] = "live"
                           /\ \E i \in DOMAIN groups : /\ groups[i].live /\ ~groups[i].started
                                                       /\ Child(c, i)}

\* The processes that a kill still has to kill, and the groups it leads to.
Victims == Range(work.victims)

Dying(i) == groups[i].parent \in work.entered \cap Victims \/ i = work.closing

Alive(i) == {c \in Range(groups[i].children) : life[c] = "live"}

\* The variables that the calls about processes change are well formed.
Types ==
  /\ current = {} \/ \E p \in Proc : current = {p}
  /\ queue \in Seq(Proc)
  /\ life \in [Proc -> {"unborn", "live", "completed", "killed"}]
  /\ ran \subseteq Proc
  /\ wait \in [Proc -> WaitType]
  /\ waiters \in Seq(Proc)
  /\ wait_count \in Nat
  /\ suspended \subseteq Proc
  /\ wake_pending \subseteq Proc
  /\ groups \in Seq(GroupType)
  /\ work \in WorkType

\* g.waiters and the counter say what the waits of the processes say.
WaitersOK ==
  /\ IsInjective(waiters) /\ Range(waiters) = Blocked
  /\ wait_count = Cardinality(Blocked)

\* Whoever awaits a process awaits one other process, and that one lives.
AwaitsOK ==
  \A p \in Proc : /\ wait[p].kind # "process" => wait[p].target = {}
                  /\ \A t \in wait[p].target : /\ wait[p].target = {t} /\ t # p
                                               /\ life[t] = "live"

\* Every live process is in one place, or a kill is about to reach it.
Placed(p) ==
  /\ p \in current => p \notin Range(queue) /\ p \notin Blocked /\ p \notin suspended
  /\ p \in Range(queue) => p \notin Blocked /\ p \notin suspended
  /\ p \in Unstarted => /\ p \notin current /\ p \notin Range(queue) /\ p \notin Blocked
                        /\ p \notin suspended /\ p \notin ran
  /\ life[p] # "live" => p \notin Range(queue) /\ p \notin Blocked /\ p \notin suspended
  /\ p \in current => life[p] = "live" \/ (life[p] = "killed" /\ work.loop = "kill")
  /\ life[p] = "unborn" => p \notin ran
  /\ life[p] = "live" => \/ p \in current \/ p \in Range(queue) \/ p \in Blocked
                         \/ p \in suspended \/ p \in Unstarted \/ p \in Victims

PlacesOK == IsInjective(queue) /\ \A p \in Proc : Placed(p)

\* The groups form a forest in the order of their creation.
ForestOK ==
  \A i \in DOMAIN groups :
    /\ IsInjective(groups[i].children)
    /\ life[groups[i].parent] # "unborn"
    /\ \A c \in Range(groups[i].children) : life[c] # "unborn"
    /\ \A j \in DOMAIN groups : /\ \A c \in Proc : Child(c, i) /\ Child(c, j) => j = i
                                /\ Child(groups[i].parent, j) => j < i

\* A group counts its live children, unless a kill is on its way through it.
CountsOK ==
  \A i \in DOMAIN groups :
    /\ groups[i].live => /\ groups[i].remaining > 0
                         /\ life[groups[i].parent] # "killed"
                         /\ groups[i].remaining = Cardinality(Alive(i)) \/ Dying(i)
    /\ groups[i].live /\ ~groups[i].started =>
         /\ current = {groups[i].parent}
         /\ \A c \in Range(groups[i].children) : life[c] # "completed"
    /\ ~groups[i].live => Alive(i) \subseteq Victims

\* Whoever waits for children has children to wait for.
JoinsOK ==
  \A p \in Proc :
    /\ wait[p].kind = "fork" => /\ wait[p].arg \in DOMAIN groups
                                /\ groups[wait[p].arg].parent = p
                                /\ groups[wait[p].arg].live /\ ~groups[wait[p].arg].resumed
                                /\ groups[wait[p].arg].kind # "join_none"
    /\ wait[p].kind = "fork_all" => \E i \in DOMAIN groups : groups[i].parent = p /\ groups[i].live

\* The stack of a kill: the children of an entered victim are above it.
StackOK ==
  \A k \in DOMAIN work.victims, i \in DOMAIN groups, c \in Proc :
    /\ groups[i].live /\ groups[i].parent = work.victims[k]
    /\ work.victims[k] \in work.entered /\ Child(c, i) /\ life[c] # "killed"
    => \E j \in DOMAIN work.victims : j < k /\ work.victims[j] = c

\* Where the victims of a kill come from: the groups being killed, below the process
\* or the group it started with.
KillsOK ==
  /\ work.loop # "kill" => /\ work.victims = <<>> /\ work.closing = 0
                           /\ work.notify = {} /\ work.entered = {}
  /\ \A x \in work.entered : x \in Victims \/ life[x] = "killed"
  /\ \A x \in Victims : life[x] # "unborn"
  /\ \A x \in Victims, i \in DOMAIN groups :
       Child(x, i) /\ groups[i].live /\ x \notin work.notify => Dying(i)
  /\ work.closing # 0 => /\ work.closing \in DOMAIN groups /\ work.notify = {}
                         /\ \A c \in Proc : Child(c, work.closing) /\ life[c] # "killed" => c \in Victims
                         /\ \A x \in Victims : \E j \in DOMAIN groups : Child(x, j) /\ work.closing <= j

\* A kill that ends with one process kills only what was forked after that one before.
Younger(c, t) == \E j \in DOMAIN groups : /\ Child(c, j)
                                         /\ \A i \in DOMAIN groups : Child(t, i) => i < j

NotifyOK ==
  \A t \in work.notify :
    /\ work.notify = {t}
    /\ work.victims # <<>> =>
         /\ life[t] = "live" /\ work.victims[Len(work.victims)] = t
         /\ \A k \in DOMAIN work.victims : k # Len(work.victims) => Younger(work.victims[k], t)

\* The part of the inductive invariant that is about the processes; SimRuntimeProofs adds
\* that of the semaphore and the mailbox.
Core ==
  /\ Types /\ WaitersOK /\ AwaitsOK /\ PlacesOK /\ ForestOK /\ CountsOK /\ JoinsOK
  /\ StackOK /\ KillsOK /\ NotifyOK

\* Children: the processes of some groups that are not killed.
LEMMA ChildrenSet ==
  ASSUME Counting, NEW gs \in Seq(GroupType), NEW is
  PROVE  /\ Children(gs, is) \in Seq(Proc)
         /\ \A c : c \in Range(Children(gs, is)) <=>
              /\ c \in Proc /\ life[c] # "killed"
              /\ \E i \in DOMAIN gs : i \in is /\ c \in Range(gs[i].children)
         /\ (/\ \A i \in DOMAIN gs : IsInjective(gs[i].children)
             /\ \A i, j \in DOMAIN gs : Range(gs[i].children) \cap Range(gs[j].children) # {} => i = j)
            => IsInjective(Children(gs, is))
<1> DEFINE ss == [i \in DOMAIN gs |-> IF i \in is THEN gs[i].children ELSE <<>>]
           all == Joint(ss)
           S == {c \in Proc : life[c] # "killed"}
<1>1. Len(gs) \in Nat /\ DOMAIN gs = 1..Len(gs) /\ \A i \in 1..Len(gs) : gs[i].children \in Seq(Proc)
  <2>1. Len(gs) \in Nat /\ DOMAIN gs = 1..Len(gs) /\ \A i \in 1..Len(gs) : gs[i] \in GroupType
    BY SeqFields
  <2> QED
    BY <2>1 DEF GroupType
<1>2. \A i \in 1..Len(gs) : ss[i] = IF i \in is THEN gs[i].children ELSE <<>>
  BY <1>1
<1>3. ss \in Seq(Seq(Proc)) /\ Len(ss) = Len(gs) /\ DOMAIN ss = 1..Len(gs)
  <2>1. ss = [i \in 1..Len(gs) |-> ss[i]] /\ DOMAIN ss = 1..Len(gs)
    BY <1>1
  <2>2. \A i \in 1..Len(gs) : ss[i] \in Seq(Proc)
    BY <1>1, <1>2, NoneSet
  <2> HIDE DEF ss
  <2>3. ss \in [1..Len(gs) -> Seq(Proc)]
    BY <2>1, <2>2
  <2> QED
    BY <1>1, <2>1, <2>3, SMTT(60)
<1>4. Children(gs, is) = Within(all, S)
  BY DEF Children
<1> HIDE DEF ss
<1>5. Gathered(all, Proc, ss, Len(gs))
  BY <1>3, JointGathers
<1>6. \A c : c \in Range(all) <=> \E i \in DOMAIN gs : i \in is /\ c \in Range(gs[i].children)
  <2>1. \A i \in 1..Len(gs) : \A c : c \in Range(ss[i]) <=> i \in is /\ c \in Range(gs[i].children)
    BY <1>2, NoneSet
  <2> QED
    BY <1>1, <1>5, <2>1 DEF Gathered
<1>7. all \in Seq(Proc)
  BY <1>5 DEF Gathered
<1>8. ASSUME /\ \A i \in DOMAIN gs : IsInjective(gs[i].children)
             /\ \A i, j \in DOMAIN gs : Range(gs[i].children) \cap Range(gs[j].children) # {} => i = j
      PROVE  IsInjective(all)
  <2>1. \A i \in 1..Len(gs) : IsInjective(ss[i])
    BY <1>1, <1>2, <1>8, NoneSet
  <2>2. \A i, j \in 1..Len(gs) : Range(ss[i]) \cap Range(ss[j]) # {} => i = j
    BY <1>1, <1>2, <1>8, NoneSet
  <2>3. Apart(ss)
    BY <1>3, <2>1, <2>2 DEF Apart
  <2> QED
    BY <1>5, <2>3 DEF Gathered
<1> HIDE DEF all
<1>9. /\ Within(all, S) \in Seq(Proc) /\ Range(Within(all, S)) = Range(all) \cap S
      /\ IsInjective(all) => IsInjective(Within(all, S))
  BY <1>7, WithinSet
<1> QED
  BY <1>4, <1>6, <1>8, <1>9

\* What waking the processes of ps and dropping the waits of those in gone come to.
Released(ps, gone, q) ==
  /\ wait' = [p \in Proc |-> IF p \in Range(ps) \cup gone THEN NoWait ELSE wait[p]]
  /\ waiters' \in Seq(Proc) /\ IsInjective(waiters)' /\ Range(waiters)' = Blocked'
  /\ wait_count' = Cardinality(Blocked') /\ wait_count' \in Nat
  /\ queue' \in Seq(Proc) /\ IsInjective(queue)'
  /\ Range(queue)' = Range(q) \cup (Range(ps) \ suspended)
  /\ wake_pending' \subseteq Proc
  /\ Blocked' = Blocked \ (Range(ps) \cup gone)

\* Release: what the waits, g.waiters, the counter and the queue are after it.
LEMMA ReleaseSets ==
  ASSUME Counting, Types, WaitersOK, NEW ps \in Seq(Proc), IsInjective(ps), NEW gone \in SUBSET Proc,
         NEW q \in Seq(Proc), IsInjective(q), Range(ps) \cap Range(q) = {}, Release(ps, gone, q)
  PROVE  Released(ps, gone, q)
<1> DEFINE over == Range(ps) \cup gone
<1>1. wait' = [p \in Proc |-> IF p \in over THEN NoWait ELSE wait[p]]
  BY DEF Release
<1>2. NoWait.kind = "none"
  BY DEF NoWait, Wait
<1>3. Blocked' = Blocked \ over
  <2>1. \A p \in Proc : wait'[p] = IF p \in over THEN NoWait ELSE wait[p]
    BY <1>1
  <2> QED
    BY <1>2, <2>1 DEF Blocked
<1>4. /\ waiters' \in Seq(Proc) /\ IsInjective(waiters') /\ Range(waiters') = Range(waiters) \cap (Proc \ over)
  <2>1. waiters' = Within(waiters, Proc \ over)
    BY DEF Release
  <2>2. waiters \in Seq(Proc) /\ IsInjective(waiters)
    BY DEF Types, WaitersOK
  <2> DEFINE S == Proc \ over
  <2>3. waiters' = Within(waiters, S)
    BY <2>1
  <2> HIDE DEF S
  <2>4. /\ Within(waiters, S) \in Seq(Proc) /\ Range(Within(waiters, S)) = Range(waiters) \cap S
        /\ IsInjective(waiters) => IsInjective(Within(waiters, S))
    BY <2>2, WithinSet, SMTT(60)
  <2> QED
    BY <2>2, <2>3, <2>4 DEF S
<1>5. Range(waiters') = Blocked'
  BY <1>3, <1>4 DEF WaitersOK, Blocked
<1>6. wait_count' = Cardinality(Blocked') /\ wait_count' \in Nat
  <2>1. IsFiniteSet(Blocked)
    BY PartFinite, ProcessesAssumption DEF Blocked, ProcessesAssumption
  <2>2. {p \in over : wait[p].kind # "none"} = Blocked \cap over
    <3>1. Range(ps) \subseteq Proc
      BY SeqFields, SMTT(60) DEF Range
    <3> QED
      BY <3>1 DEF Blocked
  <2>3. wait_count' = Cardinality(Blocked) - Cardinality(Blocked \cap over)
    BY <2>2 DEF Release, WaitersOK
  <2>4. Cardinality(Blocked \ over) = Cardinality(Blocked) - Cardinality(Blocked \cap over)
    BY <2>1, SizeLess
  <2>5. Cardinality(Blocked \ over) \in Nat
    BY <2>1, SizeLess, SizeNat
  <2> QED
    BY <1>3, <2>3, <2>4, <2>5
<1>7. /\ queue' \in Seq(Proc) /\ IsInjective(queue')
      /\ Range(queue') = Range(q) \cup (Range(ps) \ suspended)
  <2> DEFINE r == Within(ps, Proc \ suspended)
  <2>1. r \in Seq(Proc) /\ IsInjective(r) /\ Range(r) = Range(ps) \cap (Proc \ suspended)
    <3> DEFINE S == Proc \ suspended
    <3> HIDE DEF S
    <3>1. /\ Within(ps, S) \in Seq(Proc) /\ Range(Within(ps, S)) = Range(ps) \cap S
          /\ IsInjective(ps) => IsInjective(Within(ps, S))
      BY WithinSet, SMTT(60)
    <3> QED
      BY <3>1 DEF S
  <2>2. queue' = q \o r
    BY DEF Release
  <2> HIDE DEF r
  <2>3. Range(q) \cap Range(r) = {}
    BY <2>1
  <2>4. Range(r) = Range(ps) \ suspended
    <3>1. Range(ps) \subseteq Proc
      BY SeqFields, SMTT(60) DEF Range
    <3> QED
      BY <2>1, <3>1
  <2>5. /\ q \o r \in Seq(Proc) /\ Range(q \o r) = Range(q) \cup Range(r) /\ IsInjective(q \o r)
    BY <2>1, <2>3, ConcatSet, SMTT(60)
  <2> QED
    BY <2>2, <2>4, <2>5
<1>8. wake_pending' \subseteq Proc
  BY DEF Release, Types
<1> QED
  BY <1>1, <1>3, <1>4, <1>5, <1>6, <1>7, <1>8 DEF Released

\* Outside the loops of the runtime nothing is left to do.
LEMMA IdleFields ==
  /\ Idle \in WorkType /\ Idle.loop = "none" /\ Idle.victims = <<>> /\ Idle.entered = {}
  /\ Idle.notify = {} /\ Idle.closing = 0
  BY SMTT(60) DEF Idle, Work, WorkType

\* The items of a sequence are of its type.
LEMMA RangeIn ==
  ASSUME NEW V, NEW s \in Seq(V)
  PROVE  Range(s) \subseteq V
<1>1. DOMAIN s = 1..Len(s) /\ \A i \in 1..Len(s) : s[i] \in V
  BY SeqFields
<1> QED
  BY <1>1 DEF Range

\* The fields of the groups have their types.
LEMMA GroupFields ==
  ASSUME NEW gs \in Seq(GroupType)
  PROVE  /\ Len(gs) \in Nat /\ DOMAIN gs = 1..Len(gs)
         /\ \A i \in DOMAIN gs :
              /\ gs[i] \in GroupType /\ gs[i].parent \in Proc /\ gs[i].children \in Seq(Proc)
              /\ gs[i].remaining \in Nat /\ Range(gs[i].children) \subseteq Proc
<1>1. Len(gs) \in Nat /\ DOMAIN gs = 1..Len(gs) /\ \A i \in 1..Len(gs) : gs[i] \in GroupType
  BY SeqFields
<1>2. \A g \in GroupType : g.parent \in Proc /\ g.children \in Seq(Proc) /\ g.remaining \in Nat
  BY DEF GroupType
<1>3. \A g \in GroupType : Range(g.children) \subseteq Proc
  BY <1>2, RangeIn
<1> QED
  BY <1>1, <1>2, <1>3

\* The number of the next group is new, and 0 is never one.
LEMMA GroupNumbers ==
  ASSUME NEW gs \in Seq(GroupType)
  PROVE  /\ Len(gs) + 1 \in Nat /\ Len(gs) + 1 \notin DOMAIN gs /\ 0 \notin DOMAIN gs
         /\ DOMAIN gs \subseteq Nat
         /\ \A i \in DOMAIN gs : i \in Nat /\ i < Len(gs) + 1 /\ i <= i /\ ~(i < i)
<1>1. Len(gs) \in Nat /\ DOMAIN gs = 1..Len(gs)
  BY SeqFields
<1> QED
  BY ONLY <1>1, SMTT(60)

\* start_groups_of only marks groups as started.
LEMMA StartedFields ==
  ASSUME NEW gs \in Seq(GroupType), NEW p
  PROVE  /\ StartedBy(gs, p) \in Seq(GroupType) /\ DOMAIN StartedBy(gs, p) = DOMAIN gs
         /\ \A i \in DOMAIN gs :
              /\ StartedBy(gs, p)[i].parent = gs[i].parent
              /\ StartedBy(gs, p)[i].children = gs[i].children
              /\ StartedBy(gs, p)[i].kind = gs[i].kind
              /\ StartedBy(gs, p)[i].remaining = gs[i].remaining
              /\ StartedBy(gs, p)[i].resumed = gs[i].resumed
              /\ StartedBy(gs, p)[i].live = gs[i].live
              /\ StartedBy(gs, p)[i].started <=> gs[i].started \/ gs[i].parent = p
<1> DEFINE h(i) == IF gs[i].parent = p THEN [gs[i] EXCEPT !.started = TRUE] ELSE gs[i]
<1>1. Len(gs) \in Nat /\ DOMAIN gs = 1..Len(gs) /\ \A i \in 1..Len(gs) : gs[i] \in GroupType
  BY SeqFields
<1>2. ASSUME NEW i \in 1..Len(gs)
      PROVE  /\ h(i) \in GroupType
             /\ h(i).parent = gs[i].parent /\ h(i).children = gs[i].children
             /\ h(i).kind = gs[i].kind /\ h(i).remaining = gs[i].remaining
             /\ h(i).resumed = gs[i].resumed /\ h(i).live = gs[i].live
             /\ h(i).started <=> gs[i].started \/ gs[i].parent = p
  BY <1>1 DEF GroupType
<1>3. StartedBy(gs, p) = [i \in 1..Len(gs) |-> h(i)]
  BY <1>1 DEF StartedBy
<1> HIDE DEF h
<1>4. StartedBy(gs, p) \in [1..Len(gs) -> GroupType]
  BY <1>2, <1>3
<1>5. StartedBy(gs, p) \in Seq(GroupType)
  BY <1>1, <1>4, SMTT(60)
<1>6. DOMAIN StartedBy(gs, p) = DOMAIN gs /\ \A i \in DOMAIN gs : StartedBy(gs, p)[i] = h(i)
  BY <1>1, <1>3
<1> QED
  BY <1>1, <1>2, <1>5, <1>6, SMTT(60)

\* The children of a group that has not started are alive or killed.
LEMMA UnstartedChildren ==
  ASSUME Types, ForestOK, CountsOK
  PROVE  \A i \in DOMAIN groups, c \in Proc :
           groups[i].live /\ ~groups[i].started /\ Child(c, i) /\ life[c] # "killed" => life[c] = "live"
  BY DEF CountsOK, ForestOK, Types, Child

\* The children that the end of a turn makes eligible are the ones not started.
LEMMA EligibleIs ==
  ASSUME Counting, Types, ForestOK, CountsOK, NEW p \in Proc, current = {p}
  PROVE  /\ Eligible(groups, p) \in Seq(Proc) /\ IsInjective(Eligible(groups, p))
         /\ Range(Eligible(groups, p)) = Unstarted
<1>1. groups \in Seq(GroupType)
  BY DEF Types
<1>2. \A i \in DOMAIN groups : groups[i].parent \in Proc /\ Range(groups[i].children) \subseteq Proc
  BY <1>1, GroupFields
<1>3. /\ \A i \in DOMAIN groups : IsInjective(groups[i].children)
      /\ \A i, j \in DOMAIN groups :
           Range(groups[i].children) \cap Range(groups[j].children) # {} => i = j
  BY <1>2 DEF ForestOK, Child
<1>4. /\ Eligible(groups, p) \in Seq(Proc) /\ IsInjective(Eligible(groups, p))
      /\ \A c : c \in Range(Eligible(groups, p)) <=>
           /\ c \in Proc /\ life[c] # "killed"
           /\ \E i \in DOMAIN groups : i \in Pending(groups, p) /\ c \in Range(groups[i].children)
  BY <1>1, <1>3, ChildrenSet DEF Eligible
<1>5. \A i \in DOMAIN groups : i \in Pending(groups, p) <=> groups[i].live /\ ~groups[i].started
  BY <1>2 DEF Pending, CountsOK
<1>7. \A c : c \in Range(Eligible(groups, p)) <=> c \in Unstarted
  BY <1>4, <1>5, UnstartedChildren DEF Unstarted, Child
<1> QED
  BY <1>4, <1>7

\* The group of a process.
LEMMA GroupOfIs ==
  ASSUME Types, ForestOK, NEW v \in Proc
  PROVE  /\ GroupOf(v) = 0 \/ GroupOf(v) \in DOMAIN groups
         /\ \A i \in DOMAIN groups : Child(v, i) <=> i = GroupOf(v)
<1>1. 0 \notin DOMAIN groups
  BY GroupFields, SMTT(60) DEF Types
<1>2. CASE \E i \in DOMAIN groups : v \in Range(groups[i].children)
  <2>1. GroupOf(v) \in DOMAIN groups /\ v \in Range(groups[GroupOf(v)].children)
    BY <1>2 DEF GroupOf
  <2> QED
    BY <2>1 DEF ForestOK, Child
<1>3. CASE ~ \E i \in DOMAIN groups : v \in Range(groups[i].children)
  BY <1>1, <1>3 DEF GroupOf, Child
<1> QED
  BY <1>2, <1>3

------------------------------------------------------------------------------

\* A step that leaves the processes alone and starts or ends no kill.
LEMMA CalmStep ==
  ASSUME Core, UNCHANGED <<current, life, ran, suspended, groups, waitVars>>,
         work.loop # "kill", work' \in WorkType, work'.loop # "kill", work'.victims = <<>>,
         work'.entered = {}, work'.notify = {}, work'.closing = 0
  PROVE  Core'
<1> USE DEF Core
<1>1. /\ work'.victims = work.victims /\ work'.entered = work.entered
      /\ work'.notify = work.notify /\ work'.closing = work.closing
  BY DEF KillsOK
<1>2. /\ Blocked' = Blocked /\ Victims' = Victims /\ Unstarted' = Unstarted
      /\ \A i : Dying(i)' <=> Dying(i)
      /\ \A i : Alive(i)' = Alive(i)
      /\ \A c : \A i : Child(c, i)' <=> Child(c, i)
  BY <1>1 DEF Blocked, Victims, Unstarted, Dying, Alive, Child, waitVars
<1>3. Types'
  BY DEF Types, waitVars
<1>4. WaitersOK'
  BY <1>2 DEF WaitersOK, waitVars
<1>5. AwaitsOK'
  BY DEF AwaitsOK, waitVars
<1>6. PlacesOK'
  BY <1>2 DEF PlacesOK, Placed, waitVars
<1>7. ForestOK'
  BY <1>2 DEF ForestOK
<1>8. CountsOK'
  BY <1>2 DEF CountsOK
<1>9. JoinsOK'
  BY DEF JoinsOK, waitVars
<1>10. StackOK' /\ KillsOK' /\ NotifyOK'
  BY <1>1, <1>2 DEF StackOK, KillsOK, NotifyOK, Younger
<1> QED
  BY <1>3, <1>4, <1>5, <1>6, <1>7, <1>8, <1>9, <1>10

--------------------------------------------------------------------------------
\* Processes that end.

\* A cleared wait waits for nothing.
LEMMA NoWaitFields == NoWait \in WaitType /\ NoWait.kind = "none" /\ NoWait.target = {}
  BY DEF NoWait, Wait, WaitType, Kinds

\* start_groups_of puts the children of the process behind the others.
LEMMA StartQueue ==
  ASSUME Counting, Core, NEW p \in Proc, current = {p}
  PROVE  /\ queue \o Eligible(groups, p) \in Seq(Proc) /\ IsInjective(queue \o Eligible(groups, p))
         /\ Range(queue \o Eligible(groups, p)) = Range(queue) \cup Unstarted
<1> USE DEF Core
<1> DEFINE e == Eligible(groups, p)
<1>1. e \in Seq(Proc) /\ IsInjective(e) /\ Range(e) = Unstarted
  BY EligibleIs
<1> HIDE DEF e
<1>3. Range(queue) \cap Range(e) = {}
  BY <1>1 DEF PlacesOK, Placed, Unstarted
<1>4. queue \in Seq(Proc) /\ IsInjective(queue)
  BY DEF Types, PlacesOK
<1>5. queue \o e \in Seq(Proc) /\ IsInjective(queue \o e) /\ Range(queue \o e) = Range(queue) \cup Range(e)
  BY <1>1, <1>3, <1>4, ConcatSet, SMTT(60)
<1> QED
  BY <1>1, <1>5 DEF e

\* The groups gs with those in S closed, and what hs has in common with gs then.
Closing(gs, S) == [i \in DOMAIN gs |-> IF i \in S THEN Closed(gs[i]) ELSE gs[i]]

ClosedIn(hs, gs, S) ==
  /\ hs \in Seq(GroupType) /\ DOMAIN hs = DOMAIN gs
  /\ \A i \in DOMAIN gs :
       /\ hs[i].parent = gs[i].parent /\ hs[i].children = gs[i].children
       /\ hs[i].kind = gs[i].kind /\ hs[i].started = gs[i].started
       /\ hs[i].resumed = gs[i].resumed
       /\ hs[i].live <=> gs[i].live /\ i \notin S
       /\ i \notin S => hs[i] = gs[i]

\* Closing some groups changes nothing else about them.
LEMMA ClosingFields ==
  ASSUME NEW gs \in Seq(GroupType), NEW S, NEW hs, hs = Closing(gs, S)
  PROVE  ClosedIn(hs, gs, S)
\* group_close changes nothing of a group but that it is live.
<1>ClosedFields.
    ASSUME NEW g \in GroupType
    PROVE  /\ Closed(g) \in GroupType
           /\ Closed(g).parent = g.parent /\ Closed(g).children = g.children
           /\ Closed(g).kind = g.kind /\ Closed(g).started = g.started
           /\ Closed(g).resumed = g.resumed /\ ~Closed(g).live
  BY <1>ClosedFields DEF Closed, GroupType
<1>1. Len(gs) \in Nat /\ DOMAIN gs = 1..Len(gs) /\ \A i \in DOMAIN gs : gs[i] \in GroupType
  BY GroupFields
<1>2. /\ hs = [i \in DOMAIN gs |-> hs[i]] /\ DOMAIN hs = DOMAIN gs
      /\ \A i \in DOMAIN gs : hs[i] = IF i \in S THEN Closed(gs[i]) ELSE gs[i]
  BY DEF Closing
<1>3. ASSUME NEW i \in DOMAIN gs
      PROVE  /\ hs[i] \in GroupType
             /\ hs[i].parent = gs[i].parent /\ hs[i].children = gs[i].children
             /\ hs[i].kind = gs[i].kind /\ hs[i].started = gs[i].started
             /\ hs[i].resumed = gs[i].resumed
             /\ hs[i].live <=> gs[i].live /\ i \notin S
             /\ i \notin S => hs[i] = gs[i]
  <2>1. CASE i \in S
    <3>1. hs[i] = Closed(gs[i]) /\ gs[i] \in GroupType
      BY <1>1, <1>2, <2>1
    <3> QED
      BY <2>1, <3>1, <1>ClosedFields
  <2>2. CASE i \notin S
    BY <1>1, <1>2, <2>2
  <2> QED
    BY <2>1, <2>2
<1>4. hs \in Seq(GroupType)
  <2>1. hs = [i \in 1..Len(gs) |-> hs[i]] /\ \A i \in 1..Len(gs) : hs[i] \in GroupType
    BY <1>1, <1>2, <1>3
  <2> QED
    BY <1>1, <2>1, SMTT(60)
<1> QED
  BY <1>2, <1>3, <1>4 DEF ClosedIn

\* What the end of a child changes in the groups gs.
DoneIn(hs, gs, i) ==
  /\ hs \in Seq(GroupType) /\ DOMAIN hs = DOMAIN gs
  /\ \A j \in DOMAIN gs :
       /\ hs[j].parent = gs[j].parent /\ hs[j].children = gs[j].children
       /\ hs[j].kind = gs[j].kind /\ hs[j].started = gs[j].started
       /\ ~(Counted(i) /\ j = i) => hs[j] = gs[j]
  /\ Counted(i) => /\ hs[i].remaining = gs[i].remaining - 1
                   /\ hs[i].live <=> gs[i].remaining > 1
                   /\ hs[i].resumed <=> gs[i].resumed \/ gs[i].kind = "join_any"

\* The parent whose wait the end of a child ends.
LEMMA JoinedSet ==
  ASSUME Types, NEW i, i = 0 \/ i \in DOMAIN groups
  PROVE  /\ JoinedBy(i) \in Seq(Proc) /\ IsInjective(JoinedBy(i))
         /\ \A q \in Range(JoinedBy(i)) :
              /\ Counted(i) /\ q = groups[i].parent
              /\ wait[q].kind = "fork" \/ wait[q].kind = "fork_all"
         /\ \A q \in Proc \ Range(JoinedBy(i)) : Counted(i) /\ groups[i].parent = q =>
              /\ wait[q].kind = "fork" /\ wait[q].arg = i =>
                   /\ groups[i].kind = "join" => groups[i].remaining # 1
                   /\ groups[i].kind = "join_any" => groups[i].resumed
              /\ wait[q].kind = "fork_all" /\ LiveGroups(q) = {i} => groups[i].remaining # 1
<1>1. CASE ~Counted(i)
  <2>1. JoinedBy(i) = <<>>
    BY <1>1 DEF JoinedBy
  <2> QED
    BY <1>1, <2>1, NoneSet
<1>2. CASE Counted(i)
  <2> DEFINE g == groups[i]
             w == wait[g.parent]
             last == g.remaining = 1
             now == \/ w.kind = "fork" /\ w.arg = i
                         /\ IF g.kind = "join" THEN last ELSE g.kind = "join_any" /\ ~g.resumed
                    \/ w.kind = "fork_all" /\ last /\ LiveGroups(g.parent) = {i}
  <2>1. JoinedBy(i) = IF now THEN <<g.parent>> ELSE <<>>
    BY <1>2 DEF JoinedBy, Joined
  <2>2. g.parent \in Proc
    BY <1>2, GroupFields DEF Counted, Types
  <2>3. CASE now
    <3>1. JoinedBy(i) = <<g.parent>>
      BY <2>1, <2>3
    <3>2. JoinedBy(i) \in Seq(Proc) /\ IsInjective(JoinedBy(i)) /\ Range(JoinedBy(i)) = {g.parent}
      BY <2>2, <3>1, OneSet
    <3> QED
      BY <1>2, <2>3, <3>2
  <2>4. CASE ~now
    <3>1. JoinedBy(i) = <<>>
      BY <2>1, <2>4
    <3>2. "join" # "join_any"
      OBVIOUS
    <3> QED
      BY <2>4, <3>1, <3>2, NoneSet
  <2> QED
    BY <2>3, <2>4
<1> QED
  BY <1>1, <1>2

\* Whose wait the end of v ends: the processes that await it, and its parent.
LEMMA EndedSet ==
  ASSUME Counting, Core, NEW v \in Proc, NEW i, i = 0 \/ (i \in DOMAIN groups /\ Child(v, i)),
         NEW ps, ps = Awaiters(v) \o JoinedBy(i)
  PROVE  /\ ps \in Seq(Proc) /\ IsInjective(ps)
         /\ Range(ps) \subseteq Blocked /\ v \notin Range(ps)
         /\ \A q \in Range(ps) : wait[q].kind \in {"process", "fork", "fork_all"}
         /\ \A q \in Proc : wait[q].target = {v} => q \in Range(ps)
         /\ Range(JoinedBy(i)) \subseteq Range(ps)
<1> USE DEF Core
<1> DEFINE as == Awaiters(v)
           js == JoinedBy(i)
           S == {q \in Proc : wait[q].target = {v}}
<1>1. js \in Seq(Proc) /\ IsInjective(js) /\ \A q \in Range(js) :
        Counted(i) /\ q = groups[i].parent /\ (wait[q].kind = "fork" \/ wait[q].kind = "fork_all")
  BY JoinedSet
<1>2. ASSUME NEW q \in S PROVE q \in Proc /\ wait[q].kind = "process" /\ q \in Blocked /\ q # v
  <2>1. v \in wait[q].target /\ wait[q].target # {}
    OBVIOUS
  <2>2. wait[q].kind = "process" /\ q # v
    BY <2>1 DEF AwaitsOK
  <2> QED
    BY <2>2 DEF Blocked
<1>3. as \in Seq(Proc) /\ Range(as) = Range(waiters) \cap S /\ IsInjective(as)
  <2>1. waiters \in Seq(Proc) /\ IsInjective(waiters) /\ as = Within(waiters, S)
    BY DEF Types, WaitersOK, Awaiters
  <2> HIDE DEF S, as
  <2> QED
    BY <2>1, WithinSet
<1>4. Range(as) = S
  BY <1>2, <1>3 DEF WaitersOK
<1>5. ASSUME NEW q \in Range(js) PROVE q \in Blocked /\ q # v /\ q \notin S
  <2>1. /\ Counted(i) /\ q = groups[i].parent /\ i \in DOMAIN groups
        /\ wait[q].kind = "fork" \/ wait[q].kind = "fork_all"
    BY <1>1 DEF Counted
  <2>2. q # v
    <3>1. ~(i < i)
      BY <2>1, GroupFields, SMTT(60) DEF Types
    <3> QED
      BY <2>1, <3>1 DEF ForestOK, Counted
  <2>3. q \in Proc /\ q \notin S
    BY <1>2, <2>1, GroupFields DEF Types
  <2> QED
    BY <2>1, <2>2, <2>3 DEF Blocked
<1>6. S = {q \in Proc : wait[q].target = {v}}
  OBVIOUS
<1>8. ps = as \o js
  OBVIOUS
<1> HIDE DEF as, js, S
<1>7. ps \in Seq(Proc) /\ Range(ps) = S \cup Range(js) /\ IsInjective(ps)
  <2>1. Range(as) \cap Range(js) = {}
    BY <1>4, <1>5
  <2>2. as \in Seq(Proc) /\ js \in Seq(Proc) /\ IsInjective(as) /\ IsInjective(js)
    BY <1>1, <1>3
  <2>3. /\ as \o js \in Seq(Proc) /\ Range(as \o js) = Range(as) \cup Range(js)
        /\ IsInjective(as \o js)
    <3>1. as \o js \in Seq(Proc) /\ Range(as \o js) = Range(as) \cup Range(js)
      BY <2>2, ConcatSet
    <3>2. IsInjective(as \o js)
      BY <2>1, <2>2, ConcatSet
    <3> QED
      BY <3>1, <3>2
  <2> QED
    BY <1>4, <1>8, <2>3
<1>9. \A q \in Range(ps) : wait[q].kind \in {"process", "fork", "fork_all"}
  BY <1>1, <1>2, <1>7
<1>10. Range(JoinedBy(i)) \subseteq Range(ps)
  BY <1>7 DEF js
<1> QED
  BY <1>2, <1>5, <1>6, <1>7, <1>9, <1>10

\* The three ways a process ends: its last statement (proc_complete), a kill that
\* reaches it (llg_kill_proc), and the return of the kill (llg_kill_named_group).
LEMMA EndSteps ==
  ASSUME Counting, Core
  PROVE  /\ KillStep => Core'
         /\ KillEnd => Core'
         /\ \A p \in Proc : Complete(p) => Core'
\* The forest of the groups stays as it is while no process is unmade.
<1>ForestKept.
    ASSUME Types, ForestOK, DOMAIN groups' = DOMAIN groups,
           \A j \in DOMAIN groups : groups'[j].parent = groups[j].parent /\ groups'[j].children = groups[j].children,
           \A q \in Proc : life[q] # "unborn" => life'[q] # "unborn"
    PROVE  ForestOK'
  <2> USE <1>ForestKept
  <2> SUFFICES ASSUME NEW j \in DOMAIN groups
               PROVE  /\ IsInjective(groups'[j].children)
                      /\ life'[groups'[j].parent] # "unborn"
                      /\ \A c \in Range(groups'[j].children) : life'[c] # "unborn"
                      /\ \A k \in DOMAIN groups : /\ \A c \in Proc : Child(c, j)' /\ Child(c, k)' => k = j
                                                  /\ Child(groups[j].parent, k)' => k < j
    BY DEF ForestOK
  <2>1. /\ IsInjective(groups[j].children) /\ life[groups[j].parent] # "unborn"
        /\ \A c \in Range(groups[j].children) : life[c] # "unborn"
        /\ \A k \in DOMAIN groups : /\ \A c \in Proc : Child(c, j) /\ Child(c, k) => k = j
                                    /\ Child(groups[j].parent, k) => k < j
    BY DEF ForestOK
  <2>2. groups[j].parent \in Proc /\ Range(groups[j].children) \subseteq Proc
    BY GroupFields DEF Types
  <2> QED
    BY <2>1, <2>2 DEF Child
\* llg_fork_group_child_done, one group.
<1>ChildDoneFields.
    ASSUME NEW g \in GroupType, g.remaining > 0
    PROVE  /\ ChildDone(g) \in GroupType
           /\ ChildDone(g).parent = g.parent /\ ChildDone(g).children = g.children
           /\ ChildDone(g).kind = g.kind /\ ChildDone(g).started = g.started
           /\ ChildDone(g).remaining = g.remaining - 1
           /\ ChildDone(g).live <=> g.remaining > 1
           /\ ChildDone(g).resumed <=> g.resumed \/ g.kind = "join_any"
  <2> USE <1>ChildDoneFields
  <2> DEFINE r == g.resumed \/ g.kind = "join_any"
             l == g.remaining > 1
             n == g.remaining - 1
  <2>1. ChildDone(g) = [g EXCEPT !.remaining = n, !.resumed = r, !.live = l]
    BY DEF ChildDone
  <2>2. n \in Nat /\ r \in BOOLEAN /\ l \in BOOLEAN
    BY SMTT(60) DEF GroupType
  <2> HIDE DEF n, r, l
  <2>3. /\ ChildDone(g) \in GroupType
        /\ ChildDone(g).parent = g.parent /\ ChildDone(g).children = g.children
        /\ ChildDone(g).kind = g.kind /\ ChildDone(g).started = g.started
        /\ ChildDone(g).remaining = n /\ ChildDone(g).live = l /\ ChildDone(g).resumed = r
    BY <2>1, <2>2 DEF GroupType
  <2> QED
    BY <2>3 DEF n, r, l
\* llg_fork_group_child_done among all groups.
<1>DoneFields.
    ASSUME NEW gs \in Seq(GroupType), NEW i, NEW hs, hs = GroupsAfter(gs, i),
           Counted(i) => i \in DOMAIN gs /\ gs[i].remaining > 0
    PROVE  DoneIn(hs, gs, i)
  <2> USE <1>DoneFields
  <2>1. Len(gs) \in Nat /\ DOMAIN gs = 1..Len(gs) /\ \A j \in DOMAIN gs : gs[j] \in GroupType
    BY GroupFields
  <2>2. CASE ~Counted(i)
    <3>1. hs = gs
      BY <2>2 DEF GroupsAfter
    <3> QED
      BY <2>2, <3>1 DEF DoneIn
  <2>3. CASE Counted(i)
    <3> DEFINE d == ChildDone(gs[i])
    <3>1. hs = [gs EXCEPT ![i] = d] /\ i \in DOMAIN gs
      BY <2>3 DEF GroupsAfter
    <3>2. /\ d \in GroupType
          /\ d.parent = gs[i].parent /\ d.children = gs[i].children
          /\ d.kind = gs[i].kind /\ d.started = gs[i].started
          /\ d.remaining = gs[i].remaining - 1 /\ (d.live <=> gs[i].remaining > 1)
          /\ d.resumed <=> gs[i].resumed \/ gs[i].kind = "join_any"
      <4>1. gs[i] \in GroupType /\ gs[i].remaining > 0
        BY <2>1, <2>3
      <4> QED
        BY <4>1, <1>ChildDoneFields
    <3> HIDE DEF d
    <3>3. hs \in Seq(GroupType) /\ DOMAIN hs = DOMAIN gs
      BY <2>1, <3>1, <3>2, SMTT(60)
    <3>4. hs[i] = d /\ \A j \in DOMAIN gs : j # i => hs[j] = gs[j]
      BY <3>1
    <3> QED
      BY <2>3, <3>2, <3>3, <3>4 DEF DoneIn
  <2> QED
    BY <2>2, <2>3
\* Joins go on, unless the end of v ends them.
<1>JoinsKept.
    ASSUME Core, NEW v \in Proc, NEW i, i = 0 \/ i \in DOMAIN groups,
           DOMAIN groups' = DOMAIN groups,
           \A j \in DOMAIN groups :
             /\ groups'[j].parent = groups[j].parent /\ groups'[j].kind = groups[j].kind
             /\ groups[j].parent # v /\ ~(Counted(i) /\ j = i) =>
                  groups'[j].live = groups[j].live /\ groups'[j].resumed = groups[j].resumed,
           Counted(i) => /\ groups'[i].live <=> groups[i].remaining > 1
                         /\ groups'[i].resumed <=> groups[i].resumed \/ groups[i].kind = "join_any",
           \A q \in Proc : wait'[q].kind = "fork" \/ wait'[q].kind = "fork_all" =>
             wait'[q] = wait[q] /\ q # v /\ q \notin Range(JoinedBy(i))
    PROVE  JoinsOK'
  <2> USE <1>JoinsKept
  <2> USE DEF Core
  <2>1. /\ \A q \in Proc \ Range(JoinedBy(i)) : Counted(i) /\ groups[i].parent = q =>
             /\ wait[q].kind = "fork" /\ wait[q].arg = i =>
                  /\ groups[i].kind = "join" => groups[i].remaining # 1
                  /\ groups[i].kind = "join_any" => groups[i].resumed
             /\ wait[q].kind = "fork_all" /\ LiveGroups(q) = {i} => groups[i].remaining # 1
    BY JoinedSet
  <2>2. Counted(i) /\ groups[i].remaining # 1 => groups'[i].live
    <3>1. Counted(i) => i \in DOMAIN groups /\ groups[i].live
      BY DEF Counted
    <3>2. Counted(i) => groups[i].remaining \in Nat /\ groups[i].remaining > 0
      BY <3>1, GroupFields DEF Types, CountsOK
    <3> QED
      BY <3>2, SMTT(60)
  <2>3. ASSUME NEW q \in Proc, wait'[q].kind = "fork"
        PROVE  /\ wait'[q].arg \in DOMAIN groups' /\ groups'[wait'[q].arg].parent = q
               /\ groups'[wait'[q].arg].live /\ ~groups'[wait'[q].arg].resumed
               /\ groups'[wait'[q].arg].kind # "join_none"
    <3> DEFINE g == wait[q].arg
    <3>1. wait'[q] = wait[q] /\ wait[q].kind = "fork" /\ q # v /\ q \notin Range(JoinedBy(i))
      BY <2>3
    <3>2. /\ g \in DOMAIN groups /\ groups[g].parent = q /\ groups[g].live /\ ~groups[g].resumed
          /\ groups[g].kind # "join_none"
      BY <3>1 DEF JoinsOK
    <3>3. CASE Counted(i) /\ g = i
      <4>1. groups[g].kind \in {"join", "join_any", "join_none"}
        BY <3>2, GroupFields DEF Types, GroupType
      <4>2. groups[i].kind = "join" /\ groups[i].remaining # 1
        BY <2>1, <3>1, <3>2, <3>3, <4>1
      <4>3. groups'[i].live /\ ~groups'[i].resumed
        BY <2>2, <3>2, <3>3, <4>2
      <4> QED
        BY <3>1, <3>2, <3>3, <4>3
    <3>4. CASE ~(Counted(i) /\ g = i)
      <4>1. /\ groups'[g].parent = q /\ groups'[g].kind # "join_none"
            /\ groups'[g].live = groups[g].live /\ groups'[g].resumed = groups[g].resumed
        BY <3>1, <3>2, <3>4
      <4> HIDE DEF g
      <4>2. groups'[g].live /\ ~groups'[g].resumed
        BY <3>2, <4>1
      <4> QED
        BY <3>1, <3>2, <4>1, <4>2 DEF g
    <3> QED
      BY <3>3, <3>4
  <2>4. ASSUME NEW q \in Proc, wait'[q].kind = "fork_all"
        PROVE  \E j \in DOMAIN groups' : groups'[j].parent = q /\ groups'[j].live
    <3>1. wait[q].kind = "fork_all" /\ q # v /\ q \notin Range(JoinedBy(i))
      BY <2>4
    <3>2. PICK j \in DOMAIN groups : groups[j].parent = q /\ groups[j].live
      BY <3>1 DEF JoinsOK
    <3>3. CASE \E k \in DOMAIN groups : groups[k].parent = q /\ groups[k].live /\ ~(Counted(i) /\ k = i)
      <4>1. PICK k \in DOMAIN groups : groups[k].parent = q /\ groups[k].live /\ ~(Counted(i) /\ k = i)
        BY <3>3
      <4>2. groups'[k].live = groups[k].live /\ groups'[k].parent = q
        BY <3>1, <4>1
      <4>3. groups'[k].live
        BY <4>1, <4>2
      <4> QED
        BY <4>2, <4>3
    <3>4. CASE ~ \E k \in DOMAIN groups : groups[k].parent = q /\ groups[k].live /\ ~(Counted(i) /\ k = i)
      <4>1. Counted(i) /\ j = i /\ LiveGroups(q) = {i}
        BY <3>2, <3>4 DEF LiveGroups
      <4>2. groups[i].remaining # 1
        BY <2>1, <3>1, <3>2, <4>1
      <4>3. groups'[i].live
        BY <2>2, <4>1, <4>2
      <4> QED
        BY <3>2, <4>1, <4>3
    <3> QED
      BY <3>3, <3>4
  <2> QED
    BY <2>3, <2>4, SMTT(60) DEF JoinsOK
\* The count of a group is right before the end of a live child, and so is it after.
<1>CountLess.
    ASSUME Counting, Core, NEW v \in Proc, life[v] = "live", NEW i \in DOMAIN groups, Child(v, i),
           groups[i].live, ~Dying(i)
    PROVE  /\ groups[i].remaining - 1 = Cardinality(Alive(i) \ {v})
           /\ ~(groups[i].remaining > 1) => Alive(i) = {v}
  <2> USE <1>CountLess
  <2> USE DEF Core
  <2>1. groups[i].remaining = Cardinality(Alive(i)) /\ groups[i].remaining \in Nat
    BY GroupFields DEF CountsOK, Types
  <2>2. v \in Alive(i)
    BY DEF Alive, Child
  <2>3. IsFiniteSet(Alive(i))
    <3>1. Alive(i) \in SUBSET Proc /\ IsFiniteSet(Proc)
      BY ProcessesAssumption, GroupFields DEF Alive, Types, ProcessesAssumption
    <3> QED
      BY <3>1, PartFinite
  <2>4. IsFiniteSet(Alive(i) \ {v}) /\ Cardinality(Alive(i) \ {v}) = Cardinality(Alive(i)) - 1
    BY <2>2, <2>3, SizeRemove
  <2>5. ASSUME NEW c \in Alive(i), c # v PROVE groups[i].remaining > 1
    <3>1. c \in Alive(i) \ {v}
      BY <2>5
    <3> DEFINE T == Alive(i) \ {v}
    <3>2. IsFiniteSet(T \ {c}) /\ Cardinality(T \ {c}) = Cardinality(T) - 1
      BY <2>4, <3>1, SizeRemove
    <3>3. Cardinality(T \ {c}) \in Nat /\ Cardinality(T) \in Nat
      BY <2>4, <3>2, SizeNat
    <3>4. Cardinality(T) = groups[i].remaining - 1
      BY <2>1, <2>4
    <3> HIDE DEF T
    <3> QED
      BY ONLY <2>1, <3>2, <3>3, <3>4, SMTT(60)
  <2> QED
    BY <2>1, <2>2, <2>4, <2>5
\* llg_kill_proc.
<1>KillVictim.
    ASSUME Counting, Core, KillStep
    PROVE  Core'
  <2> USE <1>KillVictim
  <2> USE DEF Core
  <2> DEFINE v == Head(work.victims)
             own == IF v \in work.notify THEN GroupOf(v) ELSE 0
             ps == Awaiters(v) \o JoinedBy(own)
             cl == [j \in DOMAIN groups |-> IF groups[j].parent = v THEN Closed(groups[j]) ELSE groups[j]]
             q0 == RemoveFirst(queue, v)
             old == work.victims
  <2>1. /\ old # <<>> /\ v \in work.entered
        /\ work' = [work EXCEPT !.victims = Tail(old)]
        /\ life' = [life EXCEPT ![v] = "killed"] /\ suspended' = suspended \ {v}
        /\ groups' = GroupsAfter(cl, own) /\ Release(ps, {v}, q0)
        /\ current' = current /\ ran' = ran
    BY DEF KillStep
  <2>2. old \in Seq(Proc) /\ work \in WorkType /\ Victims = Range(old)
    BY DEF Types, WorkType, Victims
  <2>3. /\ v \in Proc /\ v \in Victims /\ v = old[1] /\ Tail(old) \in Seq(Proc) /\ 1 \in DOMAIN old
        /\ Victims = Range(Tail(old)) \cup {v} /\ Len(old) \in Nat \ {0} /\ DOMAIN old = 1..Len(old)
    <3>1. v \in Proc /\ Range(old) = Range(Tail(old)) \cup {v} /\ Tail(old) \in Seq(Proc)
      BY <2>1, <2>2, TailSet
    <3>2. v = old[1] /\ Len(old) \in Nat \ {0} /\ DOMAIN old = 1..Len(old) /\ 1 \in DOMAIN old
      BY <2>1, <2>2, SMTT(60)
    <3> QED
      BY <2>2, <3>1, <3>2
  <2>4. /\ work' \in WorkType /\ work'.loop = work.loop /\ work'.notify = work.notify
        /\ work'.closing = work.closing /\ work'.victims = Tail(old) /\ work'.entered = work.entered
        /\ Victims' = Range(Tail(old))
    <3> HIDE DEF v, old
    <3>1. /\ work' \in WorkType /\ work'.loop = work.loop /\ work'.notify = work.notify
          /\ work'.closing = work.closing /\ work'.victims = Tail(old) /\ work'.entered = work.entered
      BY <2>1, <2>2, <2>3 DEF WorkType
    <3> QED
      BY <3>1 DEF Victims
  <2>5. /\ own = 0 \/ (own \in DOMAIN groups /\ Child(v, own))
        /\ own # 0 => v \in work.notify
        /\ v \in work.notify => \A j \in DOMAIN groups : Child(v, j) => j = own
    BY <2>3, GroupOfIs
  <2>22. work.loop = "kill"
    BY <2>1 DEF KillsOK
  <2>32. \A t \in work.notify : life[t] = "live" /\ old[Len(old)] = t
                                  /\ \A k \in DOMAIN old : k # Len(old) => Younger(old[k], t)
    BY <2>1 DEF NotifyOK
  <2> HIDE DEF old, v
  <2>6. ASSUME v \in work.notify
        PROVE  Len(old) = 1 /\ life[v] = "live" /\ work.closing = 0 /\ Victims = {v}
    <3>1. life[v] = "live" /\ old[Len(old)] = v /\ (1 # Len(old) => Younger(v, v))
      BY <2>3, <2>6, <2>32
    <3>2. ~Younger(v, v)
      <4>1. ASSUME NEW j \in DOMAIN groups PROVE ~(j < j)
        BY GroupFields, SMTT(60) DEF Types
      <4> QED
        BY <4>1 DEF Younger
    <3>3. work.closing = 0
      BY <2>6 DEF KillsOK
    <3>4. Len(old) = 1
      BY <3>1, <3>2
    <3>5. Range(old) = {old[1]}
      BY <2>2, <3>4, SMTT(60) DEF Range
    <3> QED
      BY <2>2, <2>3, <3>1, <3>3, <3>4, <3>5
  <2> HIDE DEF own
  <2>7. ASSUME Counted(own)
        PROVE  /\ own \in DOMAIN groups /\ Child(v, own) /\ groups[own].live /\ v \in work.notify
               /\ groups[own].parent # v /\ ~Dying(own) /\ life[v] = "live" /\ groups[own].remaining > 0
               /\ groups[own].remaining \in Nat
    <3>1. own \in DOMAIN groups /\ Child(v, own) /\ groups[own].live /\ v \in work.notify /\ own # 0
      BY <2>5, <2>7 DEF Counted
    <3>2. groups[own].parent # v
      <4>1. ~(own < own)
        BY <3>1, GroupFields, SMTT(60) DEF Types
      <4> QED
        BY <3>1, <4>1 DEF ForestOK
    <3>3. ~Dying(own)
      BY <2>6, <3>1, <3>2 DEF Dying
    <3> QED
      BY <2>6, <3>1, <3>2, <3>3, GroupFields DEF CountsOK, Types
  <2>8. /\ cl \in Seq(GroupType) /\ DOMAIN cl = DOMAIN groups
        /\ \A j \in DOMAIN groups :
             /\ cl[j].parent = groups[j].parent /\ cl[j].children = groups[j].children
             /\ cl[j].kind = groups[j].kind /\ cl[j].started = groups[j].started
             /\ groups[j].parent = v => ~cl[j].live
             /\ groups[j].parent # v => cl[j] = groups[j]
    <3> DEFINE S == {j \in DOMAIN groups : groups[j].parent = v}
    <3>1. cl = Closing(groups, S)
      BY DEF Closing
    <3>2. \A j \in DOMAIN groups : j \in S <=> groups[j].parent = v
      OBVIOUS
    <3>3. groups \in Seq(GroupType)
      BY DEF Types
    <3> HIDE DEF cl, S
    <3>4. ClosedIn(cl, groups, S)
      BY <3>1, <3>3, ClosingFields
    <3> QED
      BY <3>2, <3>4 DEF ClosedIn
  <2> HIDE DEF cl
  <2>9. /\ groups' \in Seq(GroupType) /\ DOMAIN groups' = DOMAIN groups
        /\ \A j \in DOMAIN groups :
             /\ groups'[j].parent = groups[j].parent /\ groups'[j].children = groups[j].children
             /\ groups'[j].kind = groups[j].kind /\ groups'[j].started = groups[j].started
             /\ groups[j].parent = v => ~groups'[j].live
             /\ groups[j].parent # v /\ ~(Counted(own) /\ j = own) => groups'[j] = groups[j]
        /\ Counted(own) => /\ groups'[own].remaining = groups[own].remaining - 1
                           /\ groups'[own].live <=> groups[own].remaining > 1
                           /\ groups'[own].resumed <=> groups[own].resumed \/ groups[own].kind = "join_any"
    <3>1. Counted(own) => cl[own] = groups[own] /\ own \in DOMAIN cl
      BY <2>7, <2>8
    <3>2. Counted(own) => own \in DOMAIN cl /\ cl[own].remaining > 0
      BY <2>7, <3>1
    <3>7. DoneIn(groups', cl, own)
      <4>1. groups' = GroupsAfter(cl, own) /\ cl \in Seq(GroupType)
        BY <2>1, <2>8
      <4> QED
        BY <3>2, <4>1, <1>DoneFields
    <3>3. /\ groups' \in Seq(GroupType) /\ DOMAIN groups' = DOMAIN cl
          /\ \A j \in DOMAIN cl :
                /\ groups'[j].parent = cl[j].parent /\ groups'[j].children = cl[j].children
                /\ groups'[j].kind = cl[j].kind /\ groups'[j].started = cl[j].started
                /\ ~(Counted(own) /\ j = own) => groups'[j] = cl[j]
          /\ Counted(own) => /\ groups'[own].remaining = cl[own].remaining - 1
                             /\ groups'[own].live <=> cl[own].remaining > 1
                             /\ groups'[own].resumed <=> cl[own].resumed \/ cl[own].kind = "join_any"
      BY <3>7 DEF DoneIn
    <3>4. ASSUME NEW j \in DOMAIN groups, groups[j].parent = v PROVE ~groups'[j].live
      <4>1. groups'[j] = cl[j] /\ ~cl[j].live
        BY <2>7, <2>8, <3>3, <3>4
      <4> QED
        BY <4>1
    <3>5. ASSUME NEW j \in DOMAIN groups
          PROVE  /\ groups'[j].parent = groups[j].parent /\ groups'[j].children = groups[j].children
                 /\ groups'[j].kind = groups[j].kind /\ groups'[j].started = groups[j].started
                 /\ groups[j].parent # v /\ ~(Counted(own) /\ j = own) => groups'[j] = groups[j]
      BY <2>8, <3>3
    <3>6. Counted(own) => /\ groups'[own].remaining = groups[own].remaining - 1
                          /\ groups'[own].live <=> groups[own].remaining > 1
                          /\ groups'[own].resumed <=> groups[own].resumed \/ groups[own].kind = "join_any"
      BY <3>1, <3>3
    <3> QED
      BY <2>8, <3>3, <3>4, <3>5, <3>6
  <2>10. /\ ps \in Seq(Proc) /\ IsInjective(ps) /\ Range(ps) \subseteq Blocked /\ v \notin Range(ps)
         /\ \A q \in Proc : wait[q].target = {v} => q \in Range(ps)
         /\ Range(JoinedBy(own)) \subseteq Range(ps)
    BY <2>3, <2>5, EndedSet
  <2> HIDE DEF ps
  <2>11. q0 \in Seq(Proc) /\ IsInjective(q0) /\ Range(q0) = Range(queue) \ {v}
    BY RemoveFirstSet DEF Types, PlacesOK
  <2> HIDE DEF q0
  <2>12. /\ wait' = [p \in Proc |-> IF p \in Range(ps) \cup {v} THEN NoWait ELSE wait[p]]
         /\ waiters' \in Seq(Proc) /\ IsInjective(waiters)' /\ Range(waiters)' = Blocked'
         /\ wait_count' = Cardinality(Blocked') /\ wait_count' \in Nat
         /\ queue' \in Seq(Proc) /\ IsInjective(queue)'
         /\ Range(queue)' = (Range(queue) \ {v}) \cup (Range(ps) \ suspended)
         /\ wake_pending' \subseteq Proc
         /\ Blocked' = Blocked \ (Range(ps) \cup {v})
    <3>1. Range(ps) \cap Range(q0) = {}
      BY <2>10, <2>11 DEF PlacesOK, Placed, Blocked
    <3> DEFINE gone == {v}
    <3>2. gone \in SUBSET Proc /\ Release(ps, gone, q0) /\ gone = {v}
      BY <2>1, <2>3
    <3> HIDE DEF gone
    <3>3. Released(ps, gone, q0)
      BY <2>10, <2>11, <3>1, <3>2, ReleaseSets
    <3> QED
      BY <2>11, <3>3 DEF gone, Released
  <2>13. /\ life' \in [Proc -> {"unborn", "live", "completed", "killed"}] /\ life'[v] = "killed"
         /\ \A q \in Proc : q # v => life'[q] = life[q]
    BY <2>1, <2>3 DEF Types
  <2>14. /\ \A c : \A j \in DOMAIN groups : Child(c, j)' <=> Child(c, j)
         /\ \A j \in DOMAIN groups : Alive(j)' = Alive(j) \ {v}
    <3>1. \A c : \A j \in DOMAIN groups : Child(c, j)' <=> Child(c, j)
      BY <2>9 DEF Child
    <3>2. ASSUME NEW j \in DOMAIN groups PROVE Alive(j)' = Alive(j) \ {v}
      <4>1. groups'[j].children = groups[j].children /\ Range(groups[j].children) \subseteq Proc
        BY <2>9, GroupFields DEF Types
      <4> QED
        BY <2>13, <4>1 DEF Alive
    <3> QED
      BY <3>1, <3>2
  <2>15. ASSUME NEW j \in DOMAIN groups, groups[j].live, groups[j].parent = v, NEW c \in Proc, Child(c, j)
         PROVE  life[c] = "killed"
    <3>1. ASSUME NEW m \in DOMAIN old PROVE ~(m < 1)
      BY <2>3, SMTT(60)
    <3> QED
      BY <2>1, <2>3, <2>15, <3>1 DEF StackOK, old
  <2>16. \A j \in DOMAIN groups : Dying(j) /\ groups[j].parent # v => Dying(j)'
    BY <2>3, <2>4, <2>9 DEF Dying
  <2>17. \A j \in DOMAIN groups : groups'[j].live => groups[j].live /\ groups[j].parent # v
    <3> SUFFICES ASSUME NEW j \in DOMAIN groups, groups'[j].live PROVE groups[j].live /\ groups[j].parent # v
      OBVIOUS
    <3>1. groups[j].parent # v
      BY <2>9
    <3>2. CASE Counted(own) /\ j = own
      BY <2>7, <3>1, <3>2
    <3>3. CASE ~(Counted(own) /\ j = own)
      <4>1. groups'[j] = groups[j]
        BY <2>9, <3>1, <3>3
      <4> QED
        BY <3>1, <4>1
    <3> QED
      BY <3>2, <3>3
  <2>18. Counted(own) => /\ groups[own].remaining - 1 = Cardinality(Alive(own) \ {v})
                         /\ ~(groups[own].remaining > 1) => Alive(own) = {v}
    BY <2>3, <2>7, <1>CountLess
  <2>19. \A q \in Proc : q # v => (q \in Unstarted' <=> q \in Unstarted)
    <3> SUFFICES ASSUME NEW q \in Proc, q # v PROVE q \in Unstarted' <=> q \in Unstarted
      OBVIOUS
    <3>1. ASSUME q \in Unstarted' PROVE q \in Unstarted
      <4>1. /\ life'[q] = "live"
            /\ \E j \in DOMAIN groups' : groups'[j].live /\ ~groups'[j].started /\ Child(q, j)'
        BY <3>1 DEF Unstarted
      <4>2. PICK j \in DOMAIN groups : groups'[j].live /\ ~groups'[j].started /\ Child(q, j)
        BY <2>9, <2>14, <4>1
      <4>3. groups[j].live /\ ~groups[j].started
        BY <2>9, <2>17, <4>2
      <4> QED
        BY <2>13, <4>1, <4>2, <4>3 DEF Unstarted
    <3>2. ASSUME q \in Unstarted PROVE q \in Unstarted'
      <4>1. life[q] = "live" /\ life'[q] = "live"
        BY <2>13, <3>2 DEF Unstarted
      <4>2. PICK j \in DOMAIN groups : groups[j].live /\ ~groups[j].started /\ Child(q, j)
        BY <3>2 DEF Unstarted
      <4>3. groups[j].parent # v
        <5>1. "live" # "killed"
          OBVIOUS
        <5> QED
          BY <2>15, <4>1, <4>2, <5>1
      <4>4. groups'[j].live
        <5>1. CASE Counted(own) /\ j = own
          <6>1. q \in Alive(own)
            BY <4>1, <4>2, <5>1 DEF Alive, Child
          <6>2. groups[own].remaining > 1
            BY <2>18, <5>1, <6>1, q # v
          <6> QED
            BY <2>9, <5>1, <6>2
        <5>2. CASE ~(Counted(own) /\ j = own)
          <6>1. groups'[j] = groups[j]
            BY <2>9, <4>3, <5>2
          <6> QED
            BY <4>2, <6>1
        <5> QED
          BY <5>1, <5>2
      <4>5. ~groups'[j].started
        BY <2>9, <4>2
      <4> QED
        BY <2>9, <2>14, <4>1, <4>2, <4>4, <4>5 DEF Unstarted
    <3> QED
      BY <3>1, <3>2
  <2>20. Types'
    <3>1. wait' \in [Proc -> WaitType]
      BY <2>12, NoWaitFields DEF Types
    <3>2. suspended' \subseteq Proc
      BY <2>1 DEF Types
    <3> QED
      BY <2>1, <2>4, <2>9, <2>12, <2>13, <3>1, <3>2 DEF Types
  <2>21. WaitersOK'
    BY <2>12 DEF WaitersOK
  <2>23. AwaitsOK'
    <3> SUFFICES ASSUME NEW q \in Proc
                 PROVE  /\ wait'[q].kind # "process" => wait'[q].target = {}
                        /\ \A t \in wait'[q].target : wait'[q].target = {t} /\ t # q /\ life'[t] = "live"
      BY DEF AwaitsOK
    <3>1. CASE q \in Range(ps) \cup {v}
      <4>1. wait'[q] = NoWait
        BY <2>12, <3>1
      <4> QED
        BY <4>1, NoWaitFields
    <3>2. CASE q \notin Range(ps) \cup {v}
      <4>1. wait'[q] = wait[q] /\ wait[q].target # {v}
        BY <2>10, <2>12, <3>2
      <4>2. /\ wait[q].kind # "process" => wait[q].target = {}
            /\ \A t \in wait[q].target : wait[q].target = {t} /\ t # q /\ life[t] = "live"
        BY DEF AwaitsOK
      <4>3. wait[q].target \subseteq Proc
        BY DEF Types, WaitType
      <4>4. \A t \in wait[q].target : life'[t] = "live"
        BY <2>13, <4>1, <4>2, <4>3
      <4> QED
        BY <4>1, <4>2, <4>4
    <3> QED
      BY <3>1, <3>2
  <2>24. PlacesOK'
    <3>1. ASSUME NEW q \in Proc PROVE Placed(q)'
      <4>1. Placed(q)
        BY DEF PlacesOK
      <4>2. CASE q = v
        <5>1. /\ q \notin Range(queue') /\ q \notin Blocked' /\ q \notin suspended' /\ life'[q] = "killed"
              /\ q \notin Unstarted' /\ work'.loop = "kill"
          <6>1. q \notin Range(queue') /\ q \notin Blocked' /\ q \notin suspended'
            BY <2>1, <2>10, <2>12, <4>2
          <6>2. q \notin Unstarted'
            BY <2>13, <4>2 DEF Unstarted
          <6> QED
            BY <2>4, <2>13, <2>22, <4>2, <6>1, <6>2
        <5> QED
          BY <5>1 DEF Placed
      <4>3. CASE q # v
        <5>1. /\ q \in Range(queue') <=> (q \in Range(queue) \/ (q \in Range(ps) /\ q \notin suspended))
              /\ q \in Blocked' <=> (q \in Blocked /\ q \notin Range(ps))
              /\ q \in suspended' <=> q \in suspended
              /\ q \in Unstarted' <=> q \in Unstarted
              /\ q \in Victims => q \in Victims'
              /\ q \in Range(ps) => q \in Blocked
              /\ life'[q] = life[q] /\ current' = current /\ ran' = ran /\ work'.loop = work.loop
          BY <2>1, <2>3, <2>4, <2>10, <2>12, <2>13, <2>19, <4>3
        <5> QED
          BY <4>1, <5>1 DEF Placed
      <4> QED
        BY <4>2, <4>3
    <3> QED
      BY <2>12, <3>1 DEF PlacesOK
  <2>25. ForestOK'
    <3>1. \A q \in Proc : life[q] # "unborn" => life'[q] # "unborn"
      BY <2>13
    <3> QED
      BY <2>9, <3>1, <1>ForestKept
  <2>26. CountsOK'
    <3> SUFFICES ASSUME NEW j \in DOMAIN groups
                 PROVE  /\ groups'[j].live => /\ groups'[j].remaining > 0
                                              /\ life'[groups[j].parent] # "killed"
                                              /\ groups'[j].remaining = Cardinality(Alive(j)') \/ Dying(j)'
                        /\ groups'[j].live /\ ~groups'[j].started =>
                             /\ current' = {groups[j].parent}
                             /\ \A c \in Range(groups[j].children) : life'[c] # "completed"
                        /\ ~groups'[j].live => Alive(j)' \subseteq Victims'
      BY <2>9, SMTT(60) DEF CountsOK
    <3>1. groups[j].parent \in Proc /\ Range(groups[j].children) \subseteq Proc /\ groups[j].remaining \in Nat
      BY GroupFields DEF Types
    <3>2. ASSUME groups'[j].live
          PROVE  groups'[j].remaining > 0 /\ life'[groups[j].parent] # "killed"
                 /\ (groups'[j].remaining = Cardinality(Alive(j)') \/ Dying(j)')
      <4>1. groups[j].live /\ groups[j].parent # v
        BY <2>17, <3>2
      <4>2. life'[groups[j].parent] # "killed"
        BY <2>13, <3>1, <4>1 DEF CountsOK
      <4>3. CASE Counted(own) /\ j = own
        <5>1. groups'[j].remaining = groups[j].remaining - 1 /\ groups[j].remaining > 1
          BY <2>9, <3>2, <4>3
        <5>2. groups'[j].remaining > 0
          BY <3>1, <5>1, SMTT(60)
        <5> QED
          BY <2>14, <2>18, <4>2, <4>3, <5>1, <5>2
      <4>4. CASE ~(Counted(own) /\ j = own)
        <5>1. groups'[j] = groups[j]
          BY <2>9, <4>1, <4>4
        <5>2. groups[j].remaining > 0 /\ (groups[j].remaining = Cardinality(Alive(j)) \/ Dying(j))
          BY <4>1 DEF CountsOK
        <5>3. ASSUME ~Dying(j) PROVE v \notin Alive(j)
          <6>1. ASSUME Child(v, j) PROVE FALSE
            <7>1. v \in work.notify
              BY <2>3, <4>1, <5>3, <6>1 DEF KillsOK
            <7>2. j = own
              BY <2>5, <6>1, <7>1
            <7>3. j # 0
              BY GroupFields, SMTT(60) DEF Types
            <7> QED
              BY <4>1, <4>4, <7>2, <7>3 DEF Counted
          <6> QED
            BY <6>1 DEF Alive, Child
        <5>4. ~Dying(j) => Alive(j)' = Alive(j)
          BY <2>14, <5>3
        <5>5. Dying(j) => Dying(j)'
          BY <2>16, <4>1
        <5> QED
          BY <4>2, <5>1, <5>2, <5>4, <5>5
      <4> QED
        BY <4>3, <4>4
    <3>3. ASSUME groups'[j].live, ~groups'[j].started
          PROVE  /\ current' = {groups[j].parent}
                 /\ \A c \in Range(groups[j].children) : life'[c] # "completed"
      <4>1. groups[j].live /\ ~groups[j].started
        BY <2>9, <2>17, <3>3
      <4>2. current = {groups[j].parent} /\ \A c \in Range(groups[j].children) : life[c] # "completed"
        BY <4>1 DEF CountsOK
      <4>3. \A q \in Proc : life[q] # "completed" => life'[q] # "completed"
        BY <2>13
      <4> QED
        BY <2>1, <3>1, <4>2, <4>3
    <3>4. ASSUME ~groups'[j].live PROVE Alive(j)' \subseteq Victims'
      <4>1. CASE ~groups[j].live
        BY <2>3, <2>4, <2>14, <4>1 DEF CountsOK
      <4>2. CASE groups[j].live /\ groups[j].parent = v
        <5>1. \A c \in Alive(j) : c \in Proc /\ Child(c, j) /\ life[c] = "live"
          BY <3>1 DEF Alive, Child
        <5>2. "live" # "killed"
          OBVIOUS
        <5> QED
          BY <2>14, <2>15, <4>2, <5>1, <5>2
      <4>3. CASE groups[j].live /\ groups[j].parent # v
        <5>1. Counted(own) /\ j = own
          BY <2>9, <3>4, <4>3
        <5>2. ~(groups[own].remaining > 1)
          BY <2>9, <3>4, <5>1
        <5> QED
          BY <2>14, <2>18, <5>1, <5>2
      <4> QED
        BY <4>1, <4>2, <4>3
    <3> QED
      BY <3>2, <3>3, <3>4
  <2>27. JoinsOK'
    <3>1. ASSUME NEW q \in Proc, wait'[q].kind = "fork" \/ wait'[q].kind = "fork_all"
          PROVE  wait'[q] = wait[q] /\ q # v /\ q \notin Range(JoinedBy(own))
      <4>1. q \notin Range(ps) \cup {v}
        <5>1. "none" # "fork" /\ "none" # "fork_all"
          OBVIOUS
        <5> QED
          BY <2>12, <3>1, <5>1, NoWaitFields
      <4> QED
        BY <2>10, <2>12, <4>1
    <3>2. own = 0 \/ own \in DOMAIN groups
      BY <2>5
    <3>3. \A j \in DOMAIN groups :
             /\ groups'[j].parent = groups[j].parent /\ groups'[j].kind = groups[j].kind
             /\ groups[j].parent # v /\ ~(Counted(own) /\ j = own) =>
                  groups'[j].live = groups[j].live /\ groups'[j].resumed = groups[j].resumed
      BY <2>9
    <3>4. Counted(own) => /\ groups'[own].live <=> groups[own].remaining > 1
                          /\ groups'[own].resumed <=> groups[own].resumed \/ groups[own].kind = "join_any"
      BY <2>9
    <3>5. v \in Proc /\ DOMAIN groups' = DOMAIN groups
      BY <2>3, <2>9
    <3> QED
      BY <3>1, <3>2, <3>3, <3>4, <3>5, <1>JoinsKept
  <2>28. /\ \A k \in DOMAIN work'.victims : k \in Nat /\ k + 1 \in DOMAIN old /\ work'.victims[k] = old[k + 1]
         /\ \A k \in DOMAIN old : k # 1 => k - 1 \in DOMAIN work'.victims /\ work'.victims[k - 1] = old[k]
         /\ Len(work'.victims) = Len(old) - 1 /\ (work'.victims # <<>> => Len(work'.victims) \in DOMAIN work'.victims)
    <3>1. work'.victims = Tail(old) /\ old \in Seq(Proc) /\ old # <<>>
      BY <2>1, <2>2, <2>4
    <3> QED
      BY ONLY <3>1, SMTT(60)
  <2>29. StackOK'
    <3> SUFFICES ASSUME NEW k \in DOMAIN work'.victims, NEW j \in DOMAIN groups', NEW c \in Proc,
                        groups'[j].live, groups'[j].parent = work'.victims[k],
                        work'.victims[k] \in work'.entered, Child(c, j)', life'[c] # "killed"
                 PROVE  \E m \in DOMAIN work'.victims : m < k /\ work'.victims[m] = c
      BY DEF StackOK
    <3>1. /\ j \in DOMAIN groups /\ groups[j].live /\ groups[j].parent = old[k + 1] /\ k + 1 \in DOMAIN old
          /\ old[k + 1] \in work.entered /\ Child(c, j) /\ life[c] # "killed" /\ c # v
      BY <2>4, <2>9, <2>13, <2>14, <2>17, <2>28
    <3>2. PICK m \in DOMAIN old : m < k + 1 /\ old[m] = c
      BY <3>1 DEF StackOK, old
    <3>3. m # 1
      BY <2>3, <3>1, <3>2
    <3>4. m - 1 < k
      <4>1. k \in Nat /\ m < k + 1 /\ m \in 1..Len(old) /\ Len(old) \in Nat
        BY <2>3, <2>28, <3>2
      <4> QED
        BY ONLY <4>1, SMTT(60)
    <3> QED
      BY <2>28, <3>2, <3>3, <3>4
  <2>30. KillsOK'
    <3>1. work'.loop = "kill"
      BY <2>4, <2>22
    <3>2. \A x \in work'.entered : x \in Victims' \/ life'[x] = "killed"
      <4>1. \A x \in work.entered : x \in Proc /\ (x \in Victims \/ life[x] = "killed")
        BY <2>2 DEF KillsOK, WorkType
      <4> QED
        BY <2>3, <2>4, <2>13, <4>1
    <3>3. \A x \in Victims' : life'[x] # "unborn"
      <4>1. \A x \in Victims : x \in Proc /\ life[x] # "unborn"
        BY <2>2, RangeIn DEF KillsOK
      <4>2. "killed" # "unborn"
        OBVIOUS
      <4> QED
        BY <2>3, <2>4, <2>13, <4>1, <4>2
    <3>4. ASSUME NEW x \in Victims', NEW j \in DOMAIN groups',
                 Child(x, j)', groups'[j].live, x \notin work'.notify
          PROVE  Dying(j)'
      <4>1. /\ x \in Victims /\ j \in DOMAIN groups /\ Child(x, j) /\ groups[j].live /\ x \notin work.notify
            /\ groups[j].parent # v
        BY <2>3, <2>4, <2>9, <2>14, <2>17, <3>4
      <4> QED
        BY <2>16, <4>1 DEF KillsOK
    <3>5. ASSUME work'.closing # 0
          PROVE  /\ work'.closing \in DOMAIN groups' /\ work'.notify = {}
                 /\ \A c \in Proc : Child(c, work.closing)' /\ life'[c] # "killed" => c \in Victims'
                 /\ \A x \in Victims' : \E j \in DOMAIN groups' : Child(x, j)' /\ work'.closing <= j
      <4>1. /\ work.closing \in DOMAIN groups /\ work.notify = {}
            /\ \A c \in Proc : Child(c, work.closing) /\ life[c] # "killed" => c \in Victims
            /\ \A x \in Victims : \E j \in DOMAIN groups : Child(x, j) /\ work.closing <= j
        BY <2>4, <3>5 DEF KillsOK
      <4>2. ASSUME NEW c \in Proc, Child(c, work.closing)', life'[c] # "killed" PROVE c \in Victims'
        <5>1. Child(c, work.closing) /\ c # v /\ life[c] # "killed"
          <6>1. groups'[work.closing].children = groups[work.closing].children /\ work'.closing = work.closing
            BY <2>4, <2>9, <4>1
          <6> QED
            BY <2>13, <4>2, <6>1 DEF Child
        <5> QED
          BY <2>3, <2>4, <4>1, <5>1
      <4>3. \A x \in Victims' : \E j \in DOMAIN groups' : Child(x, j)' /\ work'.closing <= j
        BY <2>3, <2>4, <2>9, <2>14, <4>1
      <4> QED
        BY <2>4, <2>9, <4>1, <4>2, <4>3
    <3> QED
      BY <3>1, <3>2, <3>3, <3>4, <3>5 DEF KillsOK
  <2>31. NotifyOK'
    <3> SUFFICES ASSUME NEW t \in work'.notify
                 PROVE  /\ work'.notify = {t}
                        /\ work'.victims # <<>> =>
                             /\ life'[t] = "live"
                             /\ work'.victims[Len(work'.victims)] = t
                             /\ \A k \in DOMAIN work'.victims :
                                  k # Len(work'.victims) => Younger(work.victims[k], t)'
      BY DEF NotifyOK
    <3>1. /\ t \in work.notify /\ work.notify = {t} /\ life[t] = "live" /\ old[Len(old)] = t
          /\ \A k \in DOMAIN old : k # Len(old) => Younger(old[k], t)
      BY <2>1, <2>4 DEF NotifyOK, old
    <3> SUFFICES ASSUME work'.victims # <<>>
                 PROVE  /\ life'[t] = "live" /\ work'.victims[Len(work'.victims)] = t
                        /\ \A k \in DOMAIN work'.victims :
                             k # Len(work'.victims) => Younger(work.victims[k], t)'
      BY <2>4, <3>1
    <3>2. work'.victims[Len(work'.victims)] = t
      <4>1. Len(work'.victims) + 1 = Len(old)
        <5>1. Len(work'.victims) = Len(old) - 1 /\ Len(old) \in Nat
          BY <2>3, <2>28
        <5> QED
          BY ONLY <5>1, SMTT(60)
      <4> QED
        BY <2>28, <3>1, <4>1
    <3>3. Len(old) # 1
      <4>1. Len(work'.victims) # 0
        BY <2>3, <2>4, SMTT(60)
      <4> QED
        BY ONLY <2>28, <4>1, SMTT(60)
    <3>4. life'[t] = "live"
      <4>1. t \in Proc
        BY <2>2, <3>1 DEF WorkType
      <4> QED
        BY <2>6, <2>13, <3>1, <3>3, <4>1
    <3>5. ASSUME NEW k \in DOMAIN work'.victims, k # Len(work'.victims)
          PROVE  Younger(work.victims[k], t)'
      <4>1. k + 1 # Len(old)
        <5>1. /\ k \in Nat /\ k # Len(work'.victims) /\ Len(work'.victims) = Len(old) - 1
              /\ Len(old) \in Nat
          BY <2>3, <2>28, <3>5
        <5> QED
          BY ONLY <5>1, SMTT(60)
      <4>2. Younger(work'.victims[k], t)
        BY <2>28, <3>1, <4>1
      <4> QED
        BY <2>9, <2>14, <4>2 DEF Younger
    <3> QED
      BY <3>2, <3>4, <3>5
  <2> QED
    BY <2>20, <2>21, <2>23, <2>24, <2>25, <2>26, <2>27, <2>29, <2>30, <2>31
\* llg_kill_proc of the last victim returned.
<1>KillReturns.
    ASSUME Counting, Core, KillEnd
    PROVE  Core'
  <2> USE <1>KillReturns
  <2> USE DEF Core
  <2> DEFINE i == work.closing
             parent == groups[i].parent
             joined == \/ wait[parent].kind = "fork" /\ wait[parent].arg = i
                       \/ wait[parent].kind = "fork_all" /\ LiveGroups(parent) = {i}
             ps == IF i # 0 /\ joined THEN <<parent>> ELSE <<>>
             S == {i}
             none == {}
  <2>1. /\ work.loop = "kill" /\ work.victims = <<>> /\ work' = Idle
        /\ current' = {p \in current : life[p] = "live"}
        /\ groups' = [j \in DOMAIN groups |-> IF j = i THEN Closed(groups[j]) ELSE groups[j]]
        /\ Release(ps, none, queue)
        /\ life' = life /\ ran' = ran /\ suspended' = suspended
    BY DEF KillEnd
  <2>2. /\ Victims = {} /\ 0 \notin DOMAIN groups
        /\ \A j \in DOMAIN groups : Dying(j) => j = i
        /\ i \in DOMAIN groups => \A c \in Proc : Child(c, i) => life[c] = "killed"
    <3>1. Victims = {}
      BY <2>1, NoneSet DEF Victims
    <3>2. 0 \notin DOMAIN groups
      BY GroupFields, SMTT(60) DEF Types
    <3> QED
      BY <3>1, <3>2 DEF Dying, KillsOK
  <2>3. /\ Types /\ groups \in Seq(GroupType) /\ none \in SUBSET Proc
        /\ \A j \in DOMAIN groups : groups[j].parent \in Proc /\ Range(groups[j].children) \subseteq Proc
    BY GroupFields DEF Types
  <2>4. /\ ps \in Seq(Proc) /\ IsInjective(ps) /\ Range(ps) \subseteq Blocked
        /\ i \in DOMAIN groups /\ joined => parent \in Range(ps)
    <3>1. CASE i # 0 /\ joined
      <4>1. i \in DOMAIN groups /\ parent \in Proc
        BY <2>3, <3>1 DEF KillsOK
      <4>2. ps = <<parent>>
        BY <3>1
      <4>3. ps \in Seq(Proc) /\ IsInjective(ps) /\ Range(ps) = {parent}
        BY <4>1, <4>2, OneSet
      <4>4. "fork" # "none" /\ "fork_all" # "none"
        OBVIOUS
      <4> QED
        BY <3>1, <4>1, <4>3, <4>4 DEF Blocked
    <3>2. CASE ~(i # 0 /\ joined)
      <4>1. ps = <<>>
        BY <3>2
      <4> QED
        BY <2>2, <3>2, <4>1, NoneSet
    <3> QED
      BY <3>1, <3>2
  <2>5. /\ \A q \in Proc \ Range(ps) : wait[q].kind = "fork" => wait[q].arg # i
        /\ \A q \in Proc \ Range(ps) : wait[q].kind = "fork_all" =>
             \E j \in DOMAIN groups : groups[j].parent = q /\ groups[j].live /\ j # i
    <3>1. ASSUME NEW q \in Proc \ Range(ps), wait[q].kind = "fork" PROVE wait[q].arg # i
      BY <2>4, <3>1 DEF JoinsOK
    <3>2. ASSUME NEW q \in Proc \ Range(ps), wait[q].kind = "fork_all"
          PROVE  \E j \in DOMAIN groups : groups[j].parent = q /\ groups[j].live /\ j # i
      <4>1. PICK j \in DOMAIN groups : groups[j].parent = q /\ groups[j].live
        BY <3>2 DEF JoinsOK
      <4>2. j = i => LiveGroups(q) # {i}
        BY <2>4, <3>2, <4>1
      <4> QED
        BY <4>1, <4>2 DEF LiveGroups
    <3> QED
      BY <3>1, <3>2
  <2>6. groups' = Closing(groups, S) /\ S = {i}
    BY <2>1 DEF Closing
  <2> HIDE DEF i, ps, S, none
  <2>7. /\ groups' \in Seq(GroupType) /\ DOMAIN groups' = DOMAIN groups
        /\ \A j \in DOMAIN groups :
             /\ groups'[j].parent = groups[j].parent /\ groups'[j].children = groups[j].children
             /\ groups'[j].live <=> groups[j].live /\ j # i
             /\ j # i => groups'[j] = groups[j]
             /\ groups'[j].started = groups[j].started
    <3>1. ClosedIn(groups', groups, S)
      BY <2>3, <2>6, ClosingFields
    <3> QED
      BY <2>6, <3>1 DEF ClosedIn
  <2>8. /\ wait' = [p \in Proc |-> IF p \in Range(ps) THEN NoWait ELSE wait[p]]
        /\ waiters' \in Seq(Proc) /\ IsInjective(waiters)' /\ Range(waiters)' = Blocked'
        /\ wait_count' = Cardinality(Blocked') /\ wait_count' \in Nat
        /\ queue' \in Seq(Proc) /\ IsInjective(queue)'
        /\ Range(queue)' = Range(queue) \cup (Range(ps) \ suspended)
        /\ wake_pending' \subseteq Proc
        /\ Blocked' = Blocked \ Range(ps)
    <3>1. queue \in Seq(Proc) /\ IsInjective(queue) /\ Range(ps) \cap Range(queue) = {}
      BY <2>4 DEF Types, PlacesOK, Placed, Blocked
    <3>2. Released(ps, none, queue)
      BY <2>1, <2>3, <2>4, <3>1, ReleaseSets
    <3>3. Range(ps) \cup none = Range(ps)
      BY DEF none
    <3> QED
      BY <3>2, <3>3 DEF Released
  <2>9. /\ work' \in WorkType /\ work'.loop = "none" /\ work'.victims = <<>> /\ work'.entered = {}
        /\ work'.notify = {} /\ work'.closing = 0 /\ DOMAIN work'.victims = {} /\ Victims' = {}
    <3>1. DOMAIN <<>> = {}
      BY SMTT(60)
    <3> QED
      BY <2>1, <3>1, IdleFields, NoneSet DEF Victims
  <2>10. /\ \A c : \A j \in DOMAIN groups : Child(c, j)' <=> Child(c, j)
         /\ \A j \in DOMAIN groups : Alive(j)' = Alive(j)
    BY <2>1, <2>7 DEF Child, Alive
  <2>11. /\ current' = {} \/ current' = current
         /\ \A p : p \in current' <=> p \in current /\ life[p] = "live"
    <3>1. current = {} \/ \E p \in Proc : current = {p}
      BY <2>3 DEF Types
    <3> QED
      BY <2>1, <3>1
  <2>12. \A q \in Proc : q \in Unstarted' <=> q \in Unstarted
    <3>1. ASSUME NEW q \in Proc, life[q] = "live", NEW j \in DOMAIN groups, Child(q, j)
          PROVE  groups'[j].live /\ ~groups'[j].started <=> groups[j].live /\ ~groups[j].started
      <4>1. j # i
        <5>1. "live" # "killed"
          OBVIOUS
        <5> QED
          BY <2>2, <3>1, <5>1
      <4> QED
        BY <2>7, <4>1
    <3> QED
      BY <2>1, <2>7, <2>10, <3>1 DEF Unstarted
  <2>13. Types'
    <3>1. wait' \in [Proc -> WaitType]
      BY <2>8, NoWaitFields DEF Types
    <3>2. current' = {} \/ \E p \in Proc : current' = {p}
      BY <2>11 DEF Types
    <3> QED
      BY <2>1, <2>7, <2>8, <2>9, <3>1, <3>2 DEF Types
  <2>14. WaitersOK' /\ ForestOK' /\ StackOK' /\ KillsOK' /\ NotifyOK'
    <3>1. WaitersOK' /\ StackOK' /\ NotifyOK'
      BY <2>8, <2>9 DEF WaitersOK, StackOK, NotifyOK
    <3>2. KillsOK'
      BY <2>9 DEF KillsOK
    <3>3. ForestOK'
      BY <2>1, <2>7, <1>ForestKept
    <3> QED
      BY <3>1, <3>2, <3>3
  <2>15. AwaitsOK'
    <3>1. ASSUME NEW q \in Proc PROVE wait'[q] = wait[q] \/ wait'[q] = NoWait
      BY <2>8
    <3> QED
      BY <2>1, <3>1, NoWaitFields DEF AwaitsOK
  <2>16. PlacesOK'
    <3>1. ASSUME NEW q \in Proc PROVE Placed(q)'
      <4>1. /\ Placed(q) /\ q \notin Victims
            /\ q \in Range(queue') <=> (q \in Range(queue) \/ (q \in Range(ps) /\ q \notin suspended))
            /\ q \in Blocked' <=> (q \in Blocked /\ q \notin Range(ps))
            /\ q \in Range(ps) => q \in Blocked
        BY <2>2, <2>4, <2>8 DEF PlacesOK
      <4> QED
        BY <2>1, <2>11, <2>12, <4>1 DEF Placed
    <3> QED
      BY <2>8, <3>1 DEF PlacesOK
  <2>17. CountsOK'
    <3> SUFFICES ASSUME NEW j \in DOMAIN groups
                 PROVE  /\ groups'[j].live => /\ groups'[j].remaining > 0
                                              /\ life'[groups[j].parent] # "killed"
                                              /\ groups'[j].remaining = Cardinality(Alive(j)')
                        /\ groups'[j].live /\ ~groups'[j].started =>
                             /\ current' = {groups[j].parent}
                             /\ \A c \in Range(groups[j].children) : life'[c] # "completed"
                        /\ ~groups'[j].live => Alive(j)' \subseteq Victims'
      BY <2>7, SMTT(60) DEF CountsOK
    <3>1. ASSUME groups'[j].live
          PROVE  groups'[j] = groups[j] /\ groups[j].live /\ j # i
      BY <2>7, <3>1
    <3>2. ASSUME groups'[j].live
          PROVE  groups'[j].remaining > 0 /\ life'[groups[j].parent] # "killed"
                 /\ groups'[j].remaining = Cardinality(Alive(j)')
      BY <2>1, <2>2, <2>10, <3>1, <3>2 DEF CountsOK
    <3>3. ASSUME groups'[j].live, ~groups'[j].started
          PROVE  /\ current' = {groups[j].parent}
                 /\ \A c \in Range(groups[j].children) : life'[c] # "completed"
      <4>1. groups[j].live /\ ~groups[j].started
        BY <2>7, <3>3
      <4>2. /\ current = {groups[j].parent} /\ life[groups[j].parent] # "killed"
            /\ \A c \in Range(groups[j].children) : life'[c] # "completed"
        BY <2>1, <4>1 DEF CountsOK
      <4>3. life[groups[j].parent] = "live"
        BY <2>3, <4>2 DEF PlacesOK, Placed
      <4> QED
        BY <2>11, <4>2, <4>3
    <3>4. ASSUME ~groups'[j].live PROVE Alive(j)' \subseteq Victims'
      <4>1. CASE j = i
        <5>1. ASSUME NEW c \in Alive(j) PROVE FALSE
          <6>1. c \in Proc /\ Child(c, j) /\ life[c] = "live"
            BY <2>3, <5>1 DEF Alive, Child
          <6> QED
            BY <2>2, <4>1, <6>1
        <5> QED
          BY <2>10, <5>1
      <4>2. CASE j # i
        <5>1. ~groups[j].live
          BY <2>7, <3>4, <4>2
        <5> QED
          BY <2>2, <2>10, <5>1 DEF CountsOK
      <4> QED
        BY <4>1, <4>2
    <3> QED
      BY <3>2, <3>3, <3>4
  <2>18. JoinsOK'
    <3>1. ASSUME NEW q \in Proc, wait'[q].kind = "fork" \/ wait'[q].kind = "fork_all"
          PROVE  wait'[q] = wait[q] /\ q \notin Range(ps)
      <4>1. "none" # "fork" /\ "none" # "fork_all"
        OBVIOUS
      <4> QED
        BY <2>8, <3>1, <4>1, NoWaitFields
    <3>2. ASSUME NEW q \in Proc, wait'[q].kind = "fork"
          PROVE  /\ wait'[q].arg \in DOMAIN groups' /\ groups'[wait'[q].arg] = groups[wait[q].arg]
                 /\ wait'[q].arg = wait[q].arg /\ wait[q].kind = "fork"
      <4>1. wait'[q] = wait[q] /\ wait[q].arg # i /\ wait[q].arg \in DOMAIN groups
        BY <2>5, <3>1, <3>2 DEF JoinsOK
      <4> QED
        BY <2>7, <3>2, <4>1
    <3>3. ASSUME NEW q \in Proc, wait'[q].kind = "fork_all"
          PROVE  \E j \in DOMAIN groups' : groups'[j].parent = q /\ groups'[j].live
      <4>1. PICK j \in DOMAIN groups : groups[j].parent = q /\ groups[j].live /\ j # i
        BY <2>5, <3>1, <3>3
      <4> QED
        BY <2>7, <4>1
    <3> QED
      BY <3>2, <3>3, SMTT(60) DEF JoinsOK
  <2> QED
    BY <2>13, <2>14, <2>15, <2>16, <2>17, <2>18
\* proc_complete.
<1>CompleteStep.
    ASSUME Counting, Core, NEW p \in Proc, Complete(p)
    PROVE  Core'
  <2> USE <1>CompleteStep
  <2> USE DEF Core
  <2> DEFINE i == GroupOf(p)
             ps == Awaiters(p) \o JoinedBy(i)
             gs == StartedBy(groups, p)
             q0 == queue \o Eligible(groups, p)
             none == {}
  <2>1. /\ current = {p} /\ work = Idle /\ current' = {} /\ life' = [life EXCEPT ![p] = "completed"]
        /\ groups' = GroupsAfter(gs, i) /\ Release(ps, none, q0)
        /\ ran' = ran /\ suspended' = suspended /\ work' = work
    BY DEF Complete
  <2>2. /\ work.loop = "none" /\ work.victims = <<>> /\ work.entered = {} /\ work.notify = {} /\ work.closing = 0
        /\ Victims = {} /\ DOMAIN work.victims = {}
    <3>1. DOMAIN <<>> = {}
      BY SMTT(60)
    <3> QED
      BY <2>1, <3>1, IdleFields, NoneSet DEF Victims
  <2>3. /\ life[p] = "live" /\ p \notin Range(queue) /\ p \notin Blocked /\ p \notin suspended /\ p \notin Unstarted
    <3>1. p \in current /\ "none" # "kill"
      BY <2>1
    <3> QED
      BY <2>2, <3>1 DEF PlacesOK, Placed
  <2>4. /\ i = 0 \/ (i \in DOMAIN groups /\ Child(p, i))
        /\ 0 \notin DOMAIN groups
        /\ \A j \in DOMAIN groups : ~Dying(j) /\ (Child(p, j) => j = i)
    <3>1. 0 \notin DOMAIN groups
      BY GroupNumbers DEF Types
    <3> QED
      BY <2>2, <3>1, GroupOfIs DEF Dying
  <2>5. /\ gs \in Seq(GroupType) /\ DOMAIN gs = DOMAIN groups
        /\ \A j \in DOMAIN groups :
             /\ gs[j].parent = groups[j].parent /\ gs[j].children = groups[j].children
             /\ gs[j].kind = groups[j].kind /\ gs[j].remaining = groups[j].remaining
             /\ gs[j].resumed = groups[j].resumed /\ gs[j].live = groups[j].live
             /\ gs[j].started <=> groups[j].started \/ groups[j].parent = p
    <3>1. groups \in Seq(GroupType)
      BY DEF Types
    <3> QED
      BY <3>1, StartedFields, SMTT(60)
  <2>6. q0 \in Seq(Proc) /\ IsInjective(q0) /\ Range(q0) = Range(queue) \cup Unstarted
    BY <2>1, StartQueue
  <2>7. /\ ps \in Seq(Proc) /\ IsInjective(ps) /\ Range(ps) \subseteq Blocked /\ p \notin Range(ps)
        /\ \A q \in Proc : wait[q].target = {p} => q \in Range(ps)
        /\ Range(JoinedBy(i)) \subseteq Range(ps)
    <3>1. ps = Awaiters(p) \o JoinedBy(i)
      OBVIOUS
    <3> HIDE DEF i, ps
    <3> QED
      BY <2>4, <3>1, EndedSet
  <2>8. none \in SUBSET Proc /\ Range(ps) \cup none = Range(ps)
    OBVIOUS
  <2> HIDE DEF i, ps, gs, q0, none
  <2>9. ASSUME Counted(i)
        PROVE  /\ i \in DOMAIN groups /\ Child(p, i) /\ groups[i].live /\ ~Dying(i)
               /\ groups[i].remaining \in Nat /\ groups[i].remaining > 0 /\ groups[i].parent # p
    <3>1. i \in DOMAIN groups /\ Child(p, i) /\ groups[i].live /\ ~Dying(i)
      BY <2>4, <2>9 DEF Counted
    <3>2. groups[i].parent # p
      <4>1. ~(i < i)
        BY <3>1, GroupNumbers DEF Types
      <4> QED
        BY <3>1, <4>1 DEF ForestOK
    <3> QED
      BY <3>1, <3>2, GroupFields DEF CountsOK, Types
  <2>10. /\ groups' \in Seq(GroupType) /\ DOMAIN groups' = DOMAIN groups
         /\ \A j \in DOMAIN groups :
              /\ groups'[j].parent = groups[j].parent /\ groups'[j].children = groups[j].children
              /\ groups'[j].kind = groups[j].kind
              /\ groups'[j].started <=> groups[j].started \/ groups[j].parent = p
              /\ ~(Counted(i) /\ j = i) =>
                   /\ groups'[j].live = groups[j].live /\ groups'[j].remaining = groups[j].remaining
                   /\ groups'[j].resumed = groups[j].resumed
         /\ Counted(i) => /\ groups'[i].remaining = groups[i].remaining - 1
                          /\ groups'[i].live <=> groups[i].remaining > 1
                          /\ groups'[i].resumed <=> groups[i].resumed \/ groups[i].kind = "join_any"
    <3>1. Counted(i) => i \in DOMAIN gs /\ gs[i].remaining > 0
      BY <2>5, <2>9
    <3>2. DoneIn(groups', gs, i)
      BY <2>1, <2>5, <3>1, <1>DoneFields
    <3>3. ASSUME NEW j \in DOMAIN groups
          PROVE  /\ groups'[j].parent = groups[j].parent /\ groups'[j].children = groups[j].children
                 /\ groups'[j].kind = groups[j].kind
                 /\ groups'[j].started <=> groups[j].started \/ groups[j].parent = p
                 /\ ~(Counted(i) /\ j = i) =>
                      /\ groups'[j].live = groups[j].live /\ groups'[j].remaining = groups[j].remaining
                      /\ groups'[j].resumed = groups[j].resumed
      BY <2>5, <3>2 DEF DoneIn
    <3>4. Counted(i) => /\ groups'[i].remaining = groups[i].remaining - 1
                        /\ groups'[i].live <=> groups[i].remaining > 1
                        /\ groups'[i].resumed <=> groups[i].resumed \/ groups[i].kind = "join_any"
      BY <2>5, <2>9, <3>2 DEF DoneIn
    <3> QED
      BY <2>5, <3>2, <3>3, <3>4 DEF DoneIn
  <2>11. /\ wait' = [q \in Proc |-> IF q \in Range(ps) THEN NoWait ELSE wait[q]]
         /\ waiters' \in Seq(Proc) /\ IsInjective(waiters)' /\ Range(waiters)' = Blocked'
         /\ wait_count' = Cardinality(Blocked') /\ wait_count' \in Nat
         /\ queue' \in Seq(Proc) /\ IsInjective(queue)'
         /\ Range(queue)' = Range(q0) \cup (Range(ps) \ suspended)
         /\ wake_pending' \subseteq Proc /\ Blocked' = Blocked \ Range(ps)
    <3>1. Range(ps) \cap Range(q0) = {}
      BY <2>6, <2>7 DEF PlacesOK, Placed, Blocked
    <3>2. Released(ps, none, q0)
      BY <2>1, <2>6, <2>7, <2>8, <3>1, ReleaseSets
    <3> QED
      BY <2>8, <3>2 DEF Released
  <2>12. /\ life' \in [Proc -> {"unborn", "live", "completed", "killed"}] /\ life'[p] = "completed"
         /\ \A q \in Proc : q # p => life'[q] = life[q]
    BY <2>1 DEF Types
  <2>13. /\ \A c : \A j \in DOMAIN groups : Child(c, j)' <=> Child(c, j)
         /\ \A j \in DOMAIN groups : Alive(j)' = Alive(j) \ {p}
    <3>1. ASSUME NEW j \in DOMAIN groups PROVE Alive(j)' = Alive(j) \ {p}
      <4>1. groups'[j].children = groups[j].children /\ Range(groups[j].children) \subseteq Proc
        BY <2>10, GroupFields DEF Types
      <4> QED
        BY <2>12, <4>1 DEF Alive
    <3> QED
      BY <2>10, <3>1 DEF Child
  <2>14. \A j \in DOMAIN groups : groups'[j].live => groups[j].live /\ groups'[j].started
    <3> SUFFICES ASSUME NEW j \in DOMAIN groups, groups'[j].live PROVE groups[j].live /\ groups'[j].started
      OBVIOUS
    <3>1. groups[j].live
      BY <2>9, <2>10
    <3>2. groups[j].started \/ groups[j].parent = p
      BY <2>1, <3>1 DEF CountsOK
    <3> QED
      BY <2>10, <3>1, <3>2
  <2>15. Unstarted' = {}
    BY <2>10, <2>14 DEF Unstarted
  <2>16. Types'
    <3>1. wait' \in [Proc -> WaitType]
      BY <2>11, NoWaitFields DEF Types
    <3> QED
      BY <2>1, <2>10, <2>11, <2>12, <3>1 DEF Types
  <2>17. WaitersOK' /\ StackOK' /\ KillsOK' /\ NotifyOK'
    <3>1. Victims' = {}
      BY <2>1, <2>2 DEF Victims
    <3>2. KillsOK'
      BY <2>1, <2>2, <3>1 DEF KillsOK
    <3> QED
      BY <2>1, <2>2, <2>11, <3>2 DEF WaitersOK, StackOK, NotifyOK
  <2>18. ForestOK'
    <3>1. \A q \in Proc : life[q] # "unborn" => life'[q] # "unborn"
      BY <2>12
    <3> QED
      BY <2>10, <3>1, <1>ForestKept
  <2>19. AwaitsOK'
    <3> SUFFICES ASSUME NEW q \in Proc
                 PROVE  /\ wait'[q].kind # "process" => wait'[q].target = {}
                        /\ \A t \in wait'[q].target : wait'[q].target = {t} /\ t # q /\ life'[t] = "live"
      BY DEF AwaitsOK
    <3>1. CASE q \in Range(ps)
      BY <2>11, <3>1, NoWaitFields
    <3>2. CASE q \notin Range(ps)
      <4>1. wait'[q] = wait[q] /\ wait[q].target # {p}
        BY <2>7, <2>11, <3>2
      <4>2. wait[q].target \subseteq Proc
        BY DEF Types, WaitType
      <4> QED
        BY <2>12, <4>1, <4>2 DEF AwaitsOK
    <3> QED
      BY <3>1, <3>2
  <2>20. PlacesOK'
    <3>1. ASSUME NEW q \in Proc PROVE Placed(q)'
      <4>1. /\ Placed(q) /\ q \notin Victims
            /\ q \in Range(queue') <=> (q \in Range(queue) \/ q \in Unstarted \/ (q \in Range(ps) /\ q \notin suspended))
            /\ q \in Blocked' <=> (q \in Blocked /\ q \notin Range(ps))
            /\ q \in Range(ps) => q \in Blocked
            /\ q \notin Unstarted' /\ q \notin current'
        BY <2>1, <2>2, <2>6, <2>7, <2>11, <2>15 DEF PlacesOK
      <4>2. CASE q = p
        <5>1. q \notin Range(queue') /\ q \notin Blocked' /\ q \notin suspended' /\ life'[q] = "completed"
          BY <2>1, <2>3, <2>7, <2>12, <4>1, <4>2
        <5> QED
          BY <4>1, <5>1 DEF Placed
      <4>3. CASE q # p
        <5>1. q \notin current /\ life'[q] = life[q]
          BY <2>1, <2>12, <4>3
        <5>2. q \in Unstarted => life[q] = "live"
          BY DEF Unstarted
        <5> QED
          BY <2>1, <4>1, <5>1, <5>2 DEF Placed
      <4> QED
        BY <4>2, <4>3
    <3> QED
      BY <2>11, <3>1 DEF PlacesOK
  <2>21. CountsOK'
    <3> SUFFICES ASSUME NEW j \in DOMAIN groups
                 PROVE  /\ groups'[j].live => /\ groups'[j].remaining > 0
                                              /\ life'[groups[j].parent] # "killed"
                                              /\ groups'[j].remaining = Cardinality(Alive(j)')
                        /\ ~groups'[j].live => Alive(j)' \subseteq Victims'
      BY <2>10, <2>14 DEF CountsOK
    <3>1. groups[j].parent \in Proc
      BY GroupFields DEF Types
    <3>2. Counted(i) => /\ groups[i].remaining - 1 = Cardinality(Alive(i) \ {p})
                        /\ ~(groups[i].remaining > 1) => Alive(i) = {p}
      BY <2>3, <2>9, <1>CountLess
    <3>3. ASSUME groups'[j].live
          PROVE  groups'[j].remaining > 0 /\ life'[groups[j].parent] # "killed"
                 /\ groups'[j].remaining = Cardinality(Alive(j)')
      <4>1. groups[j].live /\ life[groups[j].parent] # "killed" /\ groups[j].remaining > 0
            /\ groups[j].remaining = Cardinality(Alive(j))
        BY <2>4, <2>14, <3>3 DEF CountsOK
      <4>2. life'[groups[j].parent] # "killed"
        <5>1. "completed" # "killed"
          OBVIOUS
        <5> QED
          BY <2>12, <3>1, <4>1, <5>1
      <4>3. CASE Counted(i) /\ j = i
        <5>1. groups'[j].remaining = groups[j].remaining - 1 /\ groups[j].remaining > 1
          BY <2>10, <3>3, <4>3
        <5>2. groups'[j].remaining > 0
          BY <2>9, <4>3, <5>1, SMTT(60)
        <5> QED
          BY <2>13, <3>2, <4>2, <4>3, <5>1, <5>2
      <4>4. CASE ~(Counted(i) /\ j = i)
        <5>1. ~Child(p, j)
          BY <2>4, <4>1, <4>4 DEF Counted
        <5>2. Alive(j)' = Alive(j)
          BY <2>13, <5>1 DEF Alive, Child
        <5> QED
          BY <2>10, <4>1, <4>2, <4>4, <5>2
      <4> QED
        BY <4>3, <4>4
    <3>4. ASSUME ~groups'[j].live PROVE Alive(j)' \subseteq Victims'
      <4>1. CASE ~groups[j].live
        BY <2>2, <2>13, <4>1 DEF CountsOK
      <4>2. CASE groups[j].live
        <5>1. Counted(i) /\ j = i
          BY <2>10, <3>4, <4>2
        <5>2. ~(groups[i].remaining > 1)
          BY <2>10, <3>4, <5>1
        <5> QED
          BY <2>13, <3>2, <5>1, <5>2
      <4> QED
        BY <4>1, <4>2
    <3> QED
      BY <3>3, <3>4
  <2>22. JoinsOK'
    <3>1. ASSUME NEW q \in Proc, wait'[q].kind = "fork" \/ wait'[q].kind = "fork_all"
          PROVE  wait'[q] = wait[q] /\ q # p /\ q \notin Range(JoinedBy(i))
      <4>1. "none" # "fork" /\ "none" # "fork_all"
        OBVIOUS
      <4>2. q \notin Range(ps) /\ wait'[q] = wait[q]
        BY <2>11, <3>1, <4>1, NoWaitFields
      <4>3. q \in Blocked
        BY <3>1, <4>2 DEF Blocked
      <4> QED
        BY <2>3, <2>7, <4>2, <4>3
    <3>2. /\ DOMAIN groups' = DOMAIN groups /\ (i = 0 \/ i \in DOMAIN groups)
          /\ \A j \in DOMAIN groups :
               /\ groups'[j].parent = groups[j].parent /\ groups'[j].kind = groups[j].kind
               /\ groups[j].parent # p /\ ~(Counted(i) /\ j = i) =>
                    groups'[j].live = groups[j].live /\ groups'[j].resumed = groups[j].resumed
          /\ Counted(i) => /\ groups'[i].live <=> groups[i].remaining > 1
                           /\ groups'[i].resumed <=> groups[i].resumed \/ groups[i].kind = "join_any"
      BY <2>4, <2>10
    <3> QED
      BY <3>1, <3>2, <1>JoinsKept
  <2> QED
    BY <2>16, <2>17, <2>18, <2>19, <2>20, <2>21, <2>22
<1> QED
  BY <1>KillVictim, <1>KillReturns, <1>CompleteStep

--------------------------------------------------------------------------------
\* Kills that begin or go on.

\* The live children of groups.
LEMMA ChildrenIs ==
  ASSUME Counting, Types, ForestOK, NEW is
  PROVE  /\ Children(groups, is) \in Seq(Proc) /\ IsInjective(Children(groups, is))
         /\ \A c : c \in Range(Children(groups, is)) <=>
              /\ c \in Proc /\ life[c] # "killed" /\ life[c] # "unborn"
              /\ \E i \in DOMAIN groups : i \in is /\ Child(c, i)
<1>1. groups \in Seq(GroupType)
  BY DEF Types
<1>2. \A i \in DOMAIN groups : Range(groups[i].children) \subseteq Proc
  BY <1>1, GroupFields
<1>3. /\ \A i \in DOMAIN groups : IsInjective(groups[i].children)
      /\ \A i, j \in DOMAIN groups :
           Range(groups[i].children) \cap Range(groups[j].children) # {} => i = j
  BY <1>2 DEF ForestOK, Child
<1>4. /\ Children(groups, is) \in Seq(Proc) /\ IsInjective(Children(groups, is))
      /\ \A c : c \in Range(Children(groups, is)) <=>
           /\ c \in Proc /\ life[c] # "killed"
           /\ \E i \in DOMAIN groups : i \in is /\ c \in Range(groups[i].children)
  BY <1>1, <1>3, ChildrenSet
<1>5. \A c : \A i \in DOMAIN groups : Child(c, i) => life[c] # "unborn"
  BY DEF ForestOK, Child
<1> QED
  BY <1>4, <1>5 DEF Child

\* llg_kill_proc_groups: the children of the next victim are to be killed first.  None of
\* them is on the stack already.
LEMMA KillEnterStep ==
  ASSUME Counting, Core, KillEnter
  PROVE  Core'
<1> USE DEF Core
<1> DEFINE v == Head(work.victims)
           vs == Children(groups, LiveGroups(v))
<1>1. /\ work.victims # <<>> /\ v \notin work.entered
      /\ work' = [work EXCEPT !.victims = vs \o @, !.entered = @ \cup {v}]
      /\ UNCHANGED <<current, life, ran, suspended, groups, waitVars>>
  BY DEF KillEnter
<1>2. /\ work.victims \in Seq(Proc) /\ work.entered \in SUBSET Proc
  BY DEF Types, WorkType
<1>3. /\ v \in Proc /\ v \in Victims /\ v = work.victims[1] /\ work.victims[1] \in Proc
      /\ Len(work.victims) \in Nat \ {0} /\ DOMAIN work.victims = 1..Len(work.victims)
  <2>1. v \in Proc /\ Range(work.victims) = Range(Tail(work.victims)) \cup {v}
    BY <1>1, <1>2, TailSet
  <2>2. v = work.victims[1] /\ Len(work.victims) \in Nat \ {0} /\ DOMAIN work.victims = 1..Len(work.victims)
    BY <1>1, <1>2, SMTT(60)
  <2> QED
    BY <2>1, <2>2 DEF Victims
<1>4. /\ vs \in Seq(Proc)
      /\ \A c : c \in Range(vs) <=>
           /\ c \in Proc /\ life[c] # "killed" /\ life[c] # "unborn"
           /\ \E j \in DOMAIN groups : j \in LiveGroups(v) /\ Child(c, j)
  BY ChildrenIs
<1>5. /\ work' \in WorkType /\ work'.loop = work.loop /\ work'.notify = work.notify
      /\ work'.closing = work.closing /\ work'.victims = vs \o work.victims
      /\ work'.entered = work.entered \cup {v} /\ vs \o work.victims \in Seq(Proc)
  <2>1. vs \o work.victims \in Seq(Proc)
    BY <1>2, <1>4, ConcatSet
  <2> HIDE DEF vs, v
  <2> QED
    BY <1>1, <1>3, <2>1 DEF Types, WorkType
<1> HIDE DEF vs, v
<1>6. Victims' = Range(vs) \cup Victims
  BY <1>2, <1>4, <1>5, ConcatSet, SMTT(60) DEF Victims
<1>7. \A x \in Range(vs) : /\ x \in Proc /\ life[x] # "unborn" /\ life[x] # "killed"
                           /\ \E i \in DOMAIN groups : Child(x, i) /\ groups[i].live /\ groups[i].parent = v
  BY <1>4 DEF LiveGroups
<1>8. \A c \in Proc, i \in DOMAIN groups :
        Child(c, i) /\ groups[i].live /\ groups[i].parent = v /\ life[c] # "killed" => c \in Range(vs)
  <2>1. \A c : \A i \in DOMAIN groups : Child(c, i) => life[c] # "unborn"
    BY DEF ForestOK, Child
  <2> QED
    BY <1>4, <2>1 DEF LiveGroups
<1>9. /\ Unstarted' = Unstarted /\ Blocked' = Blocked
      /\ \A c : \A i : Child(c, i)' <=> Child(c, i)
      /\ \A i : Alive(i)' = Alive(i)
  BY <1>1 DEF Unstarted, Child, Blocked, waitVars, Alive
<1>22. \A c, t : Younger(c, t) => \E j \in DOMAIN groups' : /\ Child(c, j)'
                                         /\ \A i \in DOMAIN groups' : Child(t, i)' => i < j
  BY <1>1, <1>9 DEF Younger
<1>10. \A i \in DOMAIN groups : Dying(i) \/ groups[i].parent = v => Dying(i)'
  <2>1. \A x : x \in work.entered \cap Victims \/ x = v => x \in work'.entered \cap Victims'
    BY <1>3, <1>5, <1>6
  <2>2. groups' = groups
    BY <1>1
  <2> QED
    BY <1>5, <2>1, <2>2 DEF Dying
<1>11. \A i, j \in DOMAIN groups : groups[i].parent = v /\ Child(v, j) => j < i
  BY DEF ForestOK
<1>12. ASSUME NEW x \in Range(vs) PROVE x \notin work'.entered /\ x # v
  <2>1. PICK i \in DOMAIN groups : Child(x, i) /\ groups[i].live /\ groups[i].parent = v
    BY <1>7
  <2>2. DOMAIN groups \subseteq Nat
    BY GroupNumbers DEF Types
  <2>3. \A j \in DOMAIN groups : Child(v, j) => j < i
    BY <1>11, <2>1
  <2>4. ASSUME NEW j \in DOMAIN groups, Child(v, j), i <= j PROVE FALSE
    BY ONLY <2>2, <2>3, <2>4, SMTT(60)
  <2>5. x # v
    BY <2>1, <2>2, <2>4, SMTT(60)
  <2>6. ASSUME x \in Victims PROVE FALSE
    <3>1. CASE x \in work.notify
      <4>1. work.victims[Len(work.victims)] = x
        BY <1>1, <3>1 DEF NotifyOK
      <4>2. Len(work.victims) # 1
        BY <1>3, <2>5, <4>1
      <4>3. 1 \in DOMAIN work.victims
        BY <1>3, SMTT(60)
      <4>4. Younger(v, x)
        BY <1>1, <1>3, <3>1, <4>2, <4>3 DEF NotifyOK
      <4>5. PICK j \in DOMAIN groups : Child(v, j) /\ i < j
        BY <2>1, <4>4 DEF Younger
      <4> QED
        BY <2>2, <2>4, <4>5, SMTT(60)
    <3>2. CASE x \notin work.notify
      <4>1. Dying(i)
        BY <2>1, <2>6, <3>2 DEF KillsOK
      <4>2. i = work.closing /\ work.closing # 0
        <5>1. 0 \notin DOMAIN groups
          BY GroupFields, SMTT(60) DEF Types
        <5> QED
          BY <1>1, <2>1, <4>1, <5>1 DEF Dying
      <4>3. PICK j \in DOMAIN groups : Child(v, j) /\ i <= j
        BY <1>3, <4>2 DEF KillsOK
      <4> QED
        BY <2>4, <4>3
    <3> QED
      BY <3>1, <3>2
  <2> QED
    BY <1>5, <1>7, <2>5, <2>6 DEF KillsOK
<1>13. ASSUME NEW k \in DOMAIN work'.victims
       PROVE  \/ k \in DOMAIN vs /\ work'.victims[k] = vs[k] /\ vs[k] \in Range(vs) /\ k <= Len(vs)
                   /\ k # Len(work'.victims)
              \/ /\ k - Len(vs) \in DOMAIN work.victims /\ work'.victims[k] = work.victims[k - Len(vs)]
                 /\ (k = Len(work'.victims) <=> k - Len(vs) = Len(work.victims))
  <2> DEFINE old == work.victims
  <2>1. vs \in Seq(Proc) /\ old \in Seq(Proc) /\ k \in DOMAIN (vs \o old) /\ Len(old) > 0
    BY <1>2, <1>3, <1>4, <1>5, SMTT(60)
  <2>2. work'.victims = vs \o old
    BY <1>5
  <2> HIDE DEF old
  <2>3. \/ k \in DOMAIN vs /\ (vs \o old)[k] = vs[k] /\ k <= Len(vs) /\ k # Len(vs \o old)
        \/ /\ k - Len(vs) \in DOMAIN old /\ (vs \o old)[k] = old[k - Len(vs)]
           /\ (k = Len(vs \o old) <=> k - Len(vs) = Len(old))
    BY ONLY <2>1, SMTT(60)
  <2> QED
    BY <2>2, <2>3 DEF Range, old
<1>14. StackOK'
  <2> SUFFICES ASSUME NEW k \in DOMAIN work'.victims, NEW i \in DOMAIN groups', NEW c \in Proc,
                      groups'[i].live, groups'[i].parent = work'.victims[k],
                      work'.victims[k] \in work'.entered, Child(c, i)', life'[c] # "killed"
               PROVE  \E j \in DOMAIN work'.victims : j < k /\ work'.victims[j] = c
    BY DEF StackOK
  <2>1. /\ i \in DOMAIN groups /\ groups[i].live /\ groups[i].parent = work'.victims[k]
        /\ Child(c, i) /\ life[c] # "killed"
    BY <1>1, <1>9
  <2>2. /\ k - Len(vs) \in DOMAIN work.victims /\ work'.victims[k] = work.victims[k - Len(vs)]
    BY <1>12, <1>13
  <2> DEFINE m == k - Len(vs)
             old == work.victims
  <2>3. /\ vs \in Seq(Proc) /\ old \in Seq(Proc) /\ work'.victims = vs \o old
        /\ k \in DOMAIN (vs \o old) /\ m \in DOMAIN old
    BY <1>2, <1>4, <1>5, <2>2
  <2>4. CASE work.victims[m] = v
    <3>1. c \in Range(vs)
      BY <1>8, <2>1, <2>2, <2>4
    <3>2. PICK j \in DOMAIN vs : vs[j] = c
      BY <3>1 DEF Range
    <3> HIDE DEF old
    <3>3. j \in DOMAIN (vs \o old) /\ j < k /\ (vs \o old)[j] = c
      BY ONLY <2>3, <3>2, c \in Proc, SMTT(60)
    <3> QED
      BY <2>3, <3>3
  <2>5. CASE work.victims[m] # v
    <3>1. work.victims[m] \in work.entered
      BY <1>5, <2>2, <2>5
    <3>2. PICK j \in DOMAIN work.victims : j < m /\ work.victims[j] = c
      BY <2>1, <2>2, <3>1 DEF StackOK
    <3>4. j \in DOMAIN old /\ old[j] = c /\ j < m
      BY <3>2
    <3> HIDE DEF old
    <3>3. j + Len(vs) \in DOMAIN (vs \o old) /\ j + Len(vs) < k /\ (vs \o old)[j + Len(vs)] = c
      BY ONLY <2>3, <3>4, c \in Proc, SMTT(60)
    <3> QED
      BY <2>3, <3>3
  <2> QED
    BY <2>4, <2>5
<1>15. KillsOK'
  <2>1. work.loop = "kill"
    BY <1>1 DEF KillsOK
  <2>2. \A x \in work'.entered : x \in Victims' \/ life'[x] = "killed"
    BY <1>1, <1>3, <1>5, <1>6 DEF KillsOK
  <2>3. \A x \in Victims' : life'[x] # "unborn"
    BY <1>1, <1>6, <1>7 DEF KillsOK
  <2>4. ASSUME NEW x \in Victims', NEW i \in DOMAIN groups',
               Child(x, i)', groups'[i].live, x \notin work'.notify
        PROVE  Dying(i)'
    <3>1. i \in DOMAIN groups /\ Child(x, i) /\ groups[i].live /\ x \notin work.notify
      BY <1>1, <1>5, <1>9, <2>4
    <3>2. CASE x \in Victims
      BY <1>10, <3>1, <3>2 DEF KillsOK
    <3>3. CASE x \in Range(vs)
      <4>1. PICK j \in DOMAIN groups : Child(x, j) /\ groups[j].parent = v
        BY <1>7, <3>3
      <4>2. j = i
        BY <1>7, <3>1, <3>3, <4>1 DEF ForestOK
      <4> QED
        BY <1>10, <4>1, <4>2
    <3> QED
      BY <1>6, <3>2, <3>3
  <2>5. ASSUME work'.closing # 0
        PROVE  /\ work'.closing \in DOMAIN groups' /\ work'.notify = {}
               /\ \A c \in Proc : Child(c, work.closing)' /\ life'[c] # "killed" => c \in Victims'
               /\ \A x \in Victims' : \E j \in DOMAIN groups' : Child(x, j)' /\ work'.closing <= j
    <3>1. /\ work.closing \in DOMAIN groups /\ work.notify = {}
          /\ \A c \in Proc : Child(c, work.closing) /\ life[c] # "killed" => c \in Victims
          /\ \A x \in Victims : \E j \in DOMAIN groups : Child(x, j) /\ work.closing <= j
      BY <1>5, <2>5 DEF KillsOK
    <3>2. ASSUME NEW x \in Range(vs) PROVE \E j \in DOMAIN groups : Child(x, j) /\ work.closing <= j
      <4>1. PICK i \in DOMAIN groups : Child(x, i) /\ groups[i].parent = v
        BY <1>7
      <4>2. PICK j \in DOMAIN groups : Child(v, j) /\ work.closing <= j
        BY <1>3, <3>1
      <4>3. j < i
        BY <1>11, <4>1, <4>2
      <4>4. i \in Nat /\ j \in Nat /\ work.closing \in Nat
        BY <3>1, GroupNumbers DEF Types
      <4>5. work.closing <= i
        BY ONLY <4>2, <4>3, <4>4, SMTT(60)
      <4> QED
        BY <4>1, <4>5
    <3>3. \A x \in Victims' : \E j \in DOMAIN groups : Child(x, j) /\ work.closing <= j
      BY <1>6, <3>1, <3>2
    <3>4. \A c \in Proc : Child(c, work.closing)' /\ life[c] # "killed" => c \in Victims'
      BY <1>5, <1>6, <1>9, <3>1
    <3> QED
      BY <1>1, <1>5, <1>9, <3>1, <3>3, <3>4
  <2> QED
    BY <1>5, <2>1, <2>2, <2>3, <2>4, <2>5 DEF KillsOK
<1>16. NotifyOK'
  <2> SUFFICES ASSUME NEW t \in work'.notify
               PROVE  /\ work'.notify = {t} /\ life'[t] = "live"
                      /\ work'.victims[Len(work'.victims)] = t
                      /\ \A k \in DOMAIN work'.victims :
                           k # Len(work'.victims) => Younger(work.victims[k], t)'
    BY DEF NotifyOK
  <2>1. /\ t \in work.notify /\ work.notify = {t} /\ life[t] = "live"
        /\ work.victims[Len(work.victims)] = t
        /\ \A k \in DOMAIN work.victims : k # Len(work.victims) => Younger(work.victims[k], t)
    BY <1>1, <1>5 DEF NotifyOK
  <2>2. work'.victims[Len(work'.victims)] = t
    <3> DEFINE old == work.victims
    <3>1. vs \in Seq(Proc) /\ old \in Seq(Proc) /\ Len(old) > 0 /\ old[Len(old)] = t
      BY <1>2, <1>3, <1>4, <2>1, SMTT(60)
    <3>2. work'.victims = vs \o old
      BY <1>5
    <3> HIDE DEF old
    <3>3. (vs \o old)[Len(vs \o old)] = old[Len(old)]
      BY ONLY <3>1, SMTT(60)
    <3> QED
      BY <3>1, <3>2, <3>3
  <2>3. ASSUME NEW x \in Range(vs) PROVE Younger(x, t)
    <3>1. PICK i \in DOMAIN groups : Child(x, i) /\ groups[i].parent = v
      BY <1>7
    <3>2. CASE v = t
      BY <1>11, <3>1, <3>2 DEF Younger
    <3>3. CASE v # t
      <4>1. Len(work.victims) # 1 /\ 1 \in DOMAIN work.victims
        BY <1>3, <2>1, <3>3, SMTT(60)
      <4>2. Younger(v, t)
        BY <1>3, <2>1, <4>1
      <4>3. PICK j \in DOMAIN groups : /\ Child(v, j)
                                       /\ \A g \in DOMAIN groups : Child(t, g) => g < j
        BY <4>2 DEF Younger
      <4>4. j < i /\ DOMAIN groups \subseteq Nat
        BY <1>11, <3>1, <4>3, GroupNumbers DEF Types
      <4>5. \A g \in DOMAIN groups : Child(t, g) => g < i
        BY ONLY <4>3, <4>4, SMTT(60)
      <4> QED
        BY <3>1, <4>5 DEF Younger
    <3> QED
      BY <3>2, <3>3
  <2>4. ASSUME NEW k \in DOMAIN work'.victims, k # Len(work'.victims)
        PROVE  Younger(work.victims[k], t)'
    <3>1. Younger(work'.victims[k], t)
      BY <1>13, <2>1, <2>3, <2>4
    <3> QED
      BY <1>22, <3>1 DEF Younger
  <2> QED
    BY <1>1, <1>5, <2>1, <2>2, <2>4
<1>17. Types'
  BY <1>1, <1>5 DEF Types, waitVars
<1>18. WaitersOK' /\ AwaitsOK' /\ JoinsOK'
  BY <1>1, <1>9 DEF WaitersOK, AwaitsOK, JoinsOK, waitVars
<1>19. ForestOK'
  BY <1>1, <1>9 DEF ForestOK
<1>20. CountsOK'
  BY <1>1, <1>6, <1>9, <1>10 DEF CountsOK
<1>21. PlacesOK'
  <2>1. ASSUME NEW q \in Proc PROVE Placed(q)'
    <3>1. Placed(q) /\ (q \in Victims => q \in Victims')
      BY <1>6 DEF PlacesOK
    <3> QED
      BY <1>1, <1>5, <1>9, <3>1 DEF Placed, waitVars
  <2> QED
    BY <1>1, <2>1 DEF PlacesOK, waitVars
<1> QED
  BY <1>14, <1>15, <1>16, <1>17, <1>18, <1>19, <1>20, <1>21

\* A kill begins: llg_process_kill or llg_kill_named_group.
LEMMA KillStart ==
  ASSUME Counting, Core, work = Idle, NEW vs \in Seq(Proc), NEW ns \in SUBSET Proc, NEW g \in Nat,
         work' = Work("kill", 0, vs, ns, g),
         UNCHANGED <<current, life, ran, suspended, groups, waitVars>>,
         \A x \in Range(vs) : life[x] # "unborn",
         \A x \in Range(vs), i \in DOMAIN groups :
           Child(x, i) /\ groups[i].live /\ x \notin ns => i = g,
         g # 0 => /\ g \in DOMAIN groups /\ ns = {}
                  /\ \A c \in Proc : Child(c, g) /\ life[c] # "killed" => c \in Range(vs)
                  /\ \A x \in Range(vs) : Child(x, g),
         ns # {} => \E t \in Proc : ns = {t} /\ vs = <<t>> /\ life[t] = "live"
  PROVE  Core'
<1> USE DEF Core
<1>1. /\ work.loop = "none" /\ work.victims = <<>> /\ work.entered = {} /\ work.closing = 0
      /\ Victims = {}
  BY IdleFields, NoneSet DEF Victims
<1>2. /\ work' \in WorkType /\ work'.loop = "kill" /\ work'.victims = vs /\ work'.entered = {}
      /\ work'.notify = ns /\ work'.closing = g
  <2> DEFINE w == Work("kill", 0, vs, ns, g)
  <2>1. /\ w \in WorkType /\ w.loop = "kill" /\ w.victims = vs /\ w.entered = {}
        /\ w.notify = ns /\ w.closing = g
    BY DEF Work, WorkType
  <2>2. work' = w
    OBVIOUS
  <2> HIDE DEF w
  <2> QED
    BY <2>1, <2>2
<1>3. Victims' = Range(vs)
  BY <1>2 DEF Victims
<1>4. /\ Unstarted' = Unstarted /\ Blocked' = Blocked
      /\ \A c : \A i : Child(c, i)' <=> Child(c, i)
      /\ \A i : Alive(i)' = Alive(i)
  BY DEF Unstarted, Child, Blocked, waitVars, Alive
<1>5. 0 \notin DOMAIN groups
  BY GroupNumbers DEF Types
<1>6. \A i \in DOMAIN groups : ~Dying(i) /\ (Dying(i)' <=> i = g)
  BY <1>1, <1>2, <1>5 DEF Dying
<1>7. Types'
  BY <1>2 DEF Types, waitVars
<1>8. WaitersOK' /\ AwaitsOK'
  BY <1>4 DEF WaitersOK, AwaitsOK, waitVars
<1>9. JoinsOK'
  BY DEF JoinsOK, waitVars
<1>10. ForestOK'
  BY <1>4 DEF ForestOK
<1>11. CountsOK'
  BY <1>1, <1>4, <1>6 DEF CountsOK
<1>12. PlacesOK'
  <2>1. ASSUME NEW q \in Proc PROVE Placed(q)'
    <3>1. Placed(q)
      BY DEF PlacesOK
    <3> QED
      BY <1>1, <1>2, <1>4, <3>1 DEF Placed, waitVars
  <2> QED
    BY <2>1 DEF PlacesOK, waitVars
<1>13. StackOK'
  BY <1>2 DEF StackOK
<1>14. KillsOK'
  <2>1. \A j \in DOMAIN groups : j <= j
    BY GroupNumbers DEF Types
  <2>2. g # 0 => \A x \in Range(vs) : \E j \in DOMAIN groups : Child(x, j) /\ g <= j
    BY <2>1
  <2>3. \A x \in Victims', i \in DOMAIN groups :
          Child(x, i)' /\ groups'[i].live /\ x \notin work'.notify => Dying(i)'
    BY <1>2, <1>3, <1>4, <1>6
  <2>4. g # 0 => /\ g \in DOMAIN groups' /\ ns = {}
                 /\ \A c \in Proc : Child(c, g)' /\ life'[c] # "killed" => c \in Victims'
                 /\ \A x \in Victims' : \E j \in DOMAIN groups' : Child(x, j)' /\ g <= j
    BY <1>3, <1>4, <2>2
  <2>5. /\ \A x \in work'.entered : x \in Victims' \/ life'[x] = "killed"
        /\ \A x \in Victims' : life'[x] # "unborn"
    BY <1>2, <1>3
  <2> QED
    BY <1>2, <2>3, <2>4, <2>5 DEF KillsOK
<1>15. NotifyOK'
  <2>1. CASE ns = {}
    BY <1>2, <2>1 DEF NotifyOK
  <2>2. CASE ns # {}
    <3>1. PICK t \in Proc : ns = {t} /\ vs = <<t>> /\ life[t] = "live"
      BY <2>2
    <3>2. vs[Len(vs)] = t /\ \A k \in DOMAIN vs : k = Len(vs)
      BY <3>1, SMTT(60)
    <3> QED
      BY <1>2, <3>1, <3>2 DEF NotifyOK
  <2> QED
    BY <2>1, <2>2
<1> QED
  BY <1>7, <1>8, <1>9, <1>10, <1>11, <1>12, <1>13, <1>14, <1>15

\* llg_process_kill.
LEMMA KillBegins ==
  ASSUME Counting, Core, NEW p \in Proc, NEW t \in Proc, Kill(p, t)
  PROVE  Core'
<1>1. /\ work = Idle /\ life[t] = "live" /\ work' = Work("kill", 0, <<t>>, {t}, 0)
      /\ UNCHANGED <<current, life, ran, suspended, groups, waitVars>>
  BY DEF Kill, Calls
<1> DEFINE vs == <<t>>
<1>2. vs \in Seq(Proc) /\ Range(vs) = {t}
  BY OneSet
<1>3. work' = Work("kill", 0, vs, {t}, 0) /\ vs = <<t>>
  BY <1>1
<1>4. life[t] # "unborn" /\ {t} \in SUBSET Proc /\ 0 \in Nat
  BY <1>1
<1> HIDE DEF vs
<1> QED
  BY <1>1, <1>2, <1>3, <1>4, KillStart

\* llg_kill_named_group.
LEMMA DisableGroupBegins ==
  ASSUME Counting, Core, NEW p \in Proc, NEW i \in DOMAIN groups, DisableGroup(p, i)
  PROVE  Core'
<1>1. /\ work = Idle /\ work' = Work("kill", 0, Children(groups, {i}), {}, i)
      /\ UNCHANGED <<current, life, ran, suspended, groups, waitVars>>
  BY DEF DisableGroup, Calls
<1> DEFINE vs == Children(groups, {i})
<1>2. /\ vs \in Seq(Proc)
      /\ \A c : c \in Range(vs) <=>
           /\ c \in Proc /\ life[c] # "killed" /\ life[c] # "unborn"
           /\ \E j \in DOMAIN groups : j \in {i} /\ Child(c, j)
  BY ChildrenIs DEF Core
<1>3. work' = Work("kill", 0, vs, {}, i)
  BY <1>1
<1> HIDE DEF vs
<1>4. \A x \in Range(vs) : Child(x, i) /\ x \in Proc /\ life[x] # "unborn"
  BY <1>2
<1>5. \A c \in Proc : Child(c, i) /\ life[c] # "killed" => c \in Range(vs)
  <2>1. \A c : Child(c, i) => life[c] # "unborn"
    BY DEF Core, ForestOK, Child
  <2> QED
    BY <1>2, <2>1
<1>6. \A x \in Range(vs), j \in DOMAIN groups : Child(x, j) => j = i
  BY <1>4 DEF Core, ForestOK
<1>7. i \in Nat
  BY GroupNumbers DEF Core, Types
<1> QED
  BY <1>1, <1>2, <1>3, <1>4, <1>5, <1>6, <1>7, KillStart

\* llg_disable_fork.
LEMMA DisableForkBegins ==
  ASSUME Counting, Core, NEW p \in Proc, DisableFork(p)
  PROVE  Core'
<1> USE DEF Core
<1> DEFINE vs == Children(groups, LiveGroups(p))
           S == {i \in DOMAIN groups : groups[i].parent = p}
<1>1. /\ current = {p} /\ work = Idle /\ work' = Work("kill", 0, vs, {}, 0)
      /\ groups' = [i \in DOMAIN groups |-> IF groups[i].parent = p THEN Closed(groups[i])
                                           ELSE groups[i]]
      /\ UNCHANGED <<current, life, ran, suspended, waitVars>>
  BY DEF DisableFork, Calls
<1>2. /\ vs \in Seq(Proc)
      /\ \A c : c \in Range(vs) <=>
           /\ c \in Proc /\ life[c] # "killed" /\ life[c] # "unborn"
           /\ \E j \in DOMAIN groups : j \in LiveGroups(p) /\ Child(c, j)
  BY ChildrenIs
<1>3. groups' = Closing(groups, S)
  BY <1>1 DEF Closing
<1> HIDE DEF vs, S
<1>4. \A c \in Proc, i \in DOMAIN groups :
        Child(c, i) /\ groups[i].live /\ groups[i].parent = p /\ life[c] # "killed" => c \in Range(vs)
  <2>1. \A c : \A i \in DOMAIN groups : Child(c, i) => life[c] # "unborn"
    BY DEF ForestOK, Child
  <2> QED
    BY <1>2, <2>1 DEF LiveGroups
<1>5. \A c \in Range(vs) : /\ life[c] # "unborn"
                           /\ \E i \in DOMAIN groups : Child(c, i) /\ groups[i].live /\ groups[i].parent = p
  BY <1>2 DEF LiveGroups
<1>6. /\ groups' \in Seq(GroupType) /\ DOMAIN groups' = DOMAIN groups
      /\ \A i \in DOMAIN groups :
           /\ groups'[i].parent = groups[i].parent /\ groups'[i].children = groups[i].children
           /\ groups'[i].kind = groups[i].kind /\ groups'[i].started = groups[i].started
           /\ groups'[i].resumed = groups[i].resumed
           /\ groups'[i].live <=> groups[i].live /\ groups[i].parent # p
           /\ groups[i].parent # p => groups'[i] = groups[i]
  <2>1. groups \in Seq(GroupType) /\ \A i \in DOMAIN groups : i \in S <=> groups[i].parent = p
    BY DEF Types, S
  <2>2. ClosedIn(groups', groups, S)
    BY <1>3, <2>1, ClosingFields
  <2> QED
    BY <2>1, <2>2 DEF ClosedIn
<1>7. /\ work.loop = "none" /\ work.victims = <<>> /\ work.entered = {} /\ work.closing = 0
      /\ Victims = {}
  BY <1>1, IdleFields, NoneSet DEF Victims
<1>8. /\ work' \in WorkType /\ work'.loop = "kill" /\ work'.victims = vs /\ work'.entered = {}
      /\ work'.notify = {} /\ work'.closing = 0
  <2> DEFINE w == Work("kill", 0, vs, {}, 0)
  <2>1. /\ w \in WorkType /\ w.loop = "kill" /\ w.victims = vs /\ w.entered = {}
        /\ w.notify = {} /\ w.closing = 0
    BY <1>2 DEF Work, WorkType
  <2>2. work' = w
    BY <1>1
  <2> HIDE DEF w
  <2> QED
    BY <2>1, <2>2
<1>9. Victims' = Range(vs)
  BY <1>8 DEF Victims
<1>10. /\ Blocked' = Blocked
       /\ \A c : \A i \in DOMAIN groups : Child(c, i)' <=> Child(c, i)
       /\ \A i \in DOMAIN groups : Alive(i)' = Alive(i)
  BY <1>1, <1>6 DEF Child, Blocked, waitVars, Alive
<1>11. 0 \notin DOMAIN groups
  BY GroupFields, SMTT(60) DEF Types
<1>12. \A i \in DOMAIN groups : ~Dying(i) /\ ~Dying(i)'
  BY <1>7, <1>8, <1>11 DEF Dying
<1>13. \A i \in DOMAIN groups : groups'[i].live => groups'[i].started
  <2>1. \A i \in DOMAIN groups : groups[i].parent \in Proc
    BY GroupFields DEF Types
  <2>2. ASSUME NEW i \in DOMAIN groups, groups[i].live, ~groups[i].started PROVE groups[i].parent = p
    BY <1>1, <2>1, <2>2 DEF CountsOK
  <2> QED
    BY <1>6, <2>2
<1>14. Unstarted' = {} /\ Unstarted \subseteq Range(vs)
  <2>1. Unstarted' = {}
    BY <1>6, <1>13 DEF Unstarted
  <2>2. ASSUME NEW c \in Unstarted PROVE c \in Range(vs)
    <3>1. PICK i \in DOMAIN groups : groups[i].live /\ ~groups[i].started /\ Child(c, i)
      BY DEF Unstarted
    <3>2. c \in Proc /\ life[c] # "killed"
      BY DEF Unstarted
    <3>3. groups[i].parent = p
      BY <1>6, <1>13, <3>1
    <3> QED
      BY <1>4, <3>1, <3>2, <3>3
  <2> QED
    BY <2>1, <2>2
<1>15. Types'
  BY <1>1, <1>6, <1>8 DEF Types, waitVars
<1>16. WaitersOK' /\ AwaitsOK'
  BY <1>1, <1>10 DEF WaitersOK, AwaitsOK, waitVars
<1>17. JoinsOK'
  <2>1. p \notin Blocked /\ wait' = wait
    BY <1>1 DEF PlacesOK, Placed, waitVars
  <2>2. ASSUME NEW q \in Proc, wait[q].kind = "fork" \/ wait[q].kind = "fork_all" PROVE q # p
    BY <2>1, <2>2 DEF Blocked
  <2>3. ASSUME NEW q \in Proc, wait[q].kind = "fork"
        PROVE  /\ wait[q].arg \in DOMAIN groups /\ groups'[wait[q].arg].parent = q
               /\ groups'[wait[q].arg].live /\ ~groups'[wait[q].arg].resumed
               /\ groups'[wait[q].arg].kind # "join_none"
    BY <1>6, <2>2, <2>3, SMTT(60) DEF JoinsOK
  <2>4. ASSUME NEW q \in Proc, wait[q].kind = "fork_all"
        PROVE  \E i \in DOMAIN groups : groups'[i].parent = q /\ groups'[i].live
    <3>1. PICK i \in DOMAIN groups : groups[i].parent = q /\ groups[i].live
      BY <2>4 DEF JoinsOK
    <3> QED
      BY <1>6, <2>2, <2>4, <3>1
  <2> QED
    BY <1>6, <2>1, <2>3, <2>4 DEF JoinsOK
<1>18. ForestOK'
  <2>1. ASSUME NEW i \in DOMAIN groups
        PROVE  /\ groups'[i].children = groups[i].children /\ groups'[i].parent = groups[i].parent
               /\ IsInjective(groups[i].children) /\ life[groups[i].parent] # "unborn"
               /\ \A c \in Range(groups[i].children) : life[c] # "unborn"
    BY <1>6 DEF ForestOK
  <2>2. ASSUME NEW i \in DOMAIN groups, NEW j \in DOMAIN groups
        PROVE  /\ \A c \in Proc : Child(c, i)' /\ Child(c, j)' => j = i
               /\ Child(groups[i].parent, j)' => j < i
    <3>1. Child(groups[i].parent, j)' <=> Child(groups[i].parent, j)
      BY <1>10, <2>1
    <3> QED
      BY <1>10, <3>1 DEF ForestOK
  <2>3. life' = life /\ DOMAIN groups' = DOMAIN groups
    BY <1>1, <1>6
  <2> QED
    BY <2>1, <2>2, <2>3 DEF ForestOK
<1>19. CountsOK'
  <2>1. ASSUME NEW i \in DOMAIN groups
        PROVE  /\ groups'[i].live => /\ groups'[i].remaining > 0
                                     /\ life'[groups'[i].parent] # "killed"
                                     /\ groups'[i].remaining = Cardinality(Alive(i)')
               /\ ~groups'[i].live => Alive(i)' \subseteq Victims'
    <3>1. CASE groups[i].parent # p
      <4>1. groups'[i] = groups[i] /\ Alive(i)' = Alive(i) /\ ~Dying(i) /\ life' = life
        BY <1>1, <1>6, <1>10, <1>12, <3>1
      <4>2. /\ groups[i].live => /\ groups[i].remaining > 0 /\ life[groups[i].parent] # "killed"
                                 /\ groups[i].remaining = Cardinality(Alive(i))
            /\ ~groups[i].live => Alive(i) \subseteq Victims
        BY <4>1 DEF CountsOK
      <4> QED
        BY ONLY <1>7, <4>1, <4>2, SMTT(60)
    <3>2. CASE groups[i].parent = p
      <4>1. ASSUME NEW c \in Alive(i), groups[i].live PROVE c \in Range(vs)
        <5>1. c \in Proc /\ Child(c, i) /\ life[c] # "killed"
          BY <4>1, GroupFields DEF Alive, Child, Types
        <5> QED
          BY <1>4, <3>2, <4>1, <5>1
      <4> QED
        BY <1>6, <1>7, <1>9, <1>10, <3>2, <4>1 DEF CountsOK
    <3> QED
      BY <3>1, <3>2
  <2> QED
    BY <1>6, <1>13, <2>1 DEF CountsOK
<1>20. PlacesOK'
  <2>1. ASSUME NEW q \in Proc PROVE Placed(q)'
    <3>1. Placed(q) /\ (q \in Unstarted => q \in Victims') /\ q \notin Victims
      BY <1>7, <1>9, <1>14 DEF PlacesOK
    <3> QED
      BY <1>1, <1>7, <1>8, <1>10, <1>14, <3>1 DEF Placed, waitVars
  <2> QED
    BY <1>1, <2>1 DEF PlacesOK, waitVars
<1>21. StackOK' /\ NotifyOK'
  BY <1>8 DEF StackOK, NotifyOK
<1>22. KillsOK'
  <2>1. \A x \in Range(vs), i \in DOMAIN groups : Child(x, i) => ~groups'[i].live
    <3>1. \A x \in Range(vs) : x \in Proc
      BY <1>2
    <3> QED
      BY <1>5, <1>6, <3>1 DEF ForestOK
  <2>2. \A x \in Victims', i \in DOMAIN groups' : Child(x, i)' => ~groups'[i].live
    BY <1>6, <1>9, <1>10, <2>1
  <2>3. \A x \in Victims' : life'[x] # "unborn"
    BY <1>1, <1>5, <1>9
  <2> QED
    BY <1>8, <2>2, <2>3 DEF KillsOK
<1> QED
  BY <1>15, <1>16, <1>17, <1>18, <1>19, <1>20, <1>21, <1>22

--------------------------------------------------------------------------------
\* Turns, waits and wakes.

\* What depends only on who lives, on the shape of the groups and on the kill.
LEMMA SameGroups ==
  ASSUME life' = life, work' = work, DOMAIN groups' = DOMAIN groups,
         \A i \in DOMAIN groups :
           /\ groups'[i].parent = groups[i].parent /\ groups'[i].children = groups[i].children
           /\ groups'[i].live = groups[i].live
  PROVE  /\ Victims' = Victims
         /\ \A i \in DOMAIN groups : (Dying(i)' <=> Dying(i)) /\ Alive(i)' = Alive(i)
         /\ \A c : \A i \in DOMAIN groups : Child(c, i)' <=> Child(c, i)
         /\ ForestOK => ForestOK'
         /\ StackOK => StackOK'
         /\ KillsOK => KillsOK'
         /\ NotifyOK => NotifyOK'
<1>1. /\ work'.loop = work.loop /\ work'.victims = work.victims /\ work'.entered = work.entered
      /\ work'.notify = work.notify /\ work'.closing = work.closing
  OBVIOUS
<1>2. /\ Victims' = Victims
      /\ \A i \in DOMAIN groups : (Dying(i)' <=> Dying(i)) /\ Alive(i)' = Alive(i)
      /\ \A c : \A i \in DOMAIN groups : Child(c, i)' <=> Child(c, i)
  BY <1>1 DEF Victims, Dying, Alive, Child
<1>3. ForestOK => ForestOK'
  BY <1>2 DEF ForestOK
<1>4. ASSUME StackOK PROVE StackOK'
  <2>1. ASSUME NEW k \in DOMAIN work.victims, NEW i \in DOMAIN groups, NEW c \in Proc,
               groups'[i].live, groups'[i].parent = work.victims[k],
               work.victims[k] \in work.entered, Child(c, i)', life[c] # "killed"
        PROVE  \E j \in DOMAIN work.victims : j < k /\ work.victims[j] = c
    <3>1. groups[i].live /\ groups[i].parent = work.victims[k] /\ Child(c, i)
      BY <1>2, <2>1
    <3> QED
      BY <1>4, <2>1, <3>1 DEF StackOK
  <2> QED
    BY <1>1, <2>1, SMTT(60) DEF StackOK
<1>5. ASSUME KillsOK PROVE KillsOK'
  <2>1. work.closing # 0 => work.closing \in DOMAIN groups
    BY <1>5 DEF KillsOK
  <2>3. /\ work.loop # "kill" => /\ work.victims = <<>> /\ work.closing = 0
                                 /\ work.notify = {} /\ work.entered = {}
        /\ \A x \in work.entered : x \in Victims' \/ life[x] = "killed"
        /\ \A x \in Victims' : life[x] # "unborn"
        /\ \A x \in Victims', i \in DOMAIN groups :
             Child(x, i)' /\ groups'[i].live /\ x \notin work.notify => Dying(i)'
    BY <1>2, <1>5 DEF KillsOK
  <2>4. work.closing # 0 =>
          /\ work.closing \in DOMAIN groups /\ work.notify = {}
          /\ \A c \in Proc : Child(c, work.closing)' /\ life[c] # "killed" => c \in Victims'
          /\ \A x \in Victims' : \E j \in DOMAIN groups : Child(x, j)' /\ work.closing <= j
    BY <1>2, <1>5, <2>1 DEF KillsOK
  <2> QED
    BY <1>1, <2>3, <2>4 DEF KillsOK
<1>6. NotifyOK => NotifyOK'
  <2>1. \A c, t : Younger(c, t)' <=> Younger(c, t)
    BY <1>2 DEF Younger
  <2> QED
    BY <1>1, <2>1 DEF NotifyOK
<1> QED
  BY <1>2, <1>3, <1>4, <1>5, <1>6

\* The waits of some processes end, and nothing else happens.
LEMMA WakeStep ==
  ASSUME Counting, Core, NEW ps \in Seq(Proc), IsInjective(ps), Range(ps) \subseteq Blocked,
         Release(ps, {}, queue), UNCHANGED <<current, life, ran, suspended, groups, work>>
  PROVE  /\ Core'
         /\ wait' = [p \in Proc |-> IF p \in Range(ps) THEN NoWait ELSE wait[p]]
<1> USE DEF Core
<1>1. Range(ps) \cap Range(queue) = {}
  BY DEF PlacesOK, Placed, Blocked
<1>2. queue \in Seq(Proc) /\ IsInjective(queue)
  BY DEF Types, PlacesOK
<1>3. /\ wait' = [p \in Proc |-> IF p \in Range(ps) \cup {} THEN NoWait ELSE wait[p]]
      /\ waiters' \in Seq(Proc) /\ IsInjective(waiters)' /\ Range(waiters)' = Blocked'
      /\ wait_count' = Cardinality(Blocked') /\ wait_count' \in Nat
      /\ queue' \in Seq(Proc) /\ IsInjective(queue)'
      /\ Range(queue)' = Range(queue) \cup (Range(ps) \ suspended)
      /\ wake_pending' \subseteq Proc
      /\ Blocked' = Blocked \ (Range(ps) \cup {})
  <2> DEFINE gone == {}
  <2>1. gone \in SUBSET Proc /\ Release(ps, gone, queue)
    OBVIOUS
  <2> HIDE DEF gone
  <2>2. Released(ps, gone, queue)
    BY <1>1, <1>2, <2>1, ReleaseSets
  <2> QED
    BY <2>2 DEF Released, gone
<1>4. \A p \in Proc : wait'[p] = IF p \in Range(ps) THEN NoWait ELSE wait[p]
  BY <1>3
<1>5. /\ Victims' = Victims /\ Unstarted' = Unstarted
      /\ \A i \in DOMAIN groups : (Dying(i)' <=> Dying(i)) /\ Alive(i)' = Alive(i)
      /\ ForestOK' /\ StackOK' /\ KillsOK' /\ NotifyOK'
  <2>1. Unstarted' = Unstarted
    BY DEF Unstarted, Child
  <2> QED
    BY <2>1, SameGroups
<1>6. Types'
  <2>1. wait' \in [Proc -> WaitType]
    BY <1>3, NoWaitFields DEF Types
  <2> QED
    BY <1>3, <2>1 DEF Types
<1>7. WaitersOK'
  BY <1>3 DEF WaitersOK
<1>8. AwaitsOK'
  BY <1>4, NoWaitFields DEF AwaitsOK
<1>9. PlacesOK'
  <2>1. ASSUME NEW p \in Proc PROVE Placed(p)'
    <3>1. p \in Blocked' <=> p \in Blocked /\ p \notin Range(ps)
      BY <1>3
    <3>2. p \in Range(queue)' <=> p \in Range(queue) \/ (p \in Range(ps) /\ p \notin suspended)
      BY <1>3
    <3>3. p \in Range(ps) => p \in Blocked
      OBVIOUS
    <3>4. Placed(p)
      BY DEF PlacesOK
    <3> QED
      BY <1>5, <3>1, <3>2, <3>3, <3>4 DEF Placed
  <2> QED
    BY <1>3, <2>1 DEF PlacesOK
<1>10. CountsOK'
  BY <1>5 DEF CountsOK
<1>11. JoinsOK'
  <2>1. NoWait.kind # "fork" /\ NoWait.kind # "fork_all"
    BY NoWaitFields
  <2>2. ASSUME NEW p \in Proc, p \in Range(ps)
        PROVE  wait'[p].kind # "fork" /\ wait'[p].kind # "fork_all"
    BY <1>4, <2>1, <2>2
  <2>3. ASSUME NEW p \in Proc, p \notin Range(ps) PROVE wait'[p] = wait[p]
    BY <1>4, <2>3
  <2>4. ASSUME NEW p \in Proc
        PROVE  /\ wait'[p].kind = "fork" => /\ wait'[p].arg \in DOMAIN groups
                                            /\ groups[wait'[p].arg].parent = p
                                            /\ groups[wait'[p].arg].live /\ ~groups[wait'[p].arg].resumed
                                            /\ groups[wait'[p].arg].kind # "join_none"
               /\ wait'[p].kind = "fork_all" =>
                    \E i \in DOMAIN groups : groups[i].parent = p /\ groups[i].live
    <3>1. CASE p \in Range(ps)
      BY <2>2, <3>1
    <3>2. CASE p \notin Range(ps)
      BY <2>3, <3>2 DEF JoinsOK
    <3> QED
      BY <3>1, <3>2
  <2> QED
    BY <2>4 DEF JoinsOK
<1>13. wait' = [p \in Proc |-> IF p \in Range(ps) THEN NoWait ELSE wait[p]]
  BY <1>3
<1> QED
  BY <1>5, <1>6, <1>7, <1>8, <1>9, <1>10, <1>11, <1>13

\* The turn of p is over, so the children of its forks are eligible.
LEMMA StartStep ==
  ASSUME Core, NEW p \in Proc, current = {p}, life' = life, work' = work,
         groups' = StartedBy(groups, p)
  PROVE  /\ groups' \in Seq(GroupType) /\ DOMAIN groups' = DOMAIN groups
         /\ \A i \in DOMAIN groups :
              /\ groups'[i].parent = groups[i].parent /\ groups'[i].children = groups[i].children
              /\ groups'[i].kind = groups[i].kind /\ groups'[i].remaining = groups[i].remaining
              /\ groups'[i].resumed = groups[i].resumed /\ groups'[i].live = groups[i].live
              /\ groups'[i].started <=> groups[i].started \/ groups[i].parent = p
         /\ \A i \in DOMAIN groups : groups'[i].live => groups'[i].started
         /\ Victims' = Victims /\ Unstarted' = {}
         /\ CountsOK' /\ ForestOK' /\ StackOK' /\ KillsOK' /\ NotifyOK'
<1> USE DEF Core
<1>6. /\ groups' \in Seq(GroupType) /\ DOMAIN groups' = DOMAIN groups
      /\ \A i \in DOMAIN groups :
           /\ groups'[i].parent = groups[i].parent /\ groups'[i].children = groups[i].children
           /\ groups'[i].kind = groups[i].kind /\ groups'[i].remaining = groups[i].remaining
           /\ groups'[i].resumed = groups[i].resumed /\ groups'[i].live = groups[i].live
           /\ groups'[i].started <=> groups[i].started \/ groups[i].parent = p
  <2>1. groups \in Seq(GroupType)
    BY DEF Types
  <2> DEFINE gs == StartedBy(groups, p)
  <2>2. /\ gs \in Seq(GroupType) /\ DOMAIN gs = DOMAIN groups
        /\ \A i \in DOMAIN groups :
             /\ gs[i].parent = groups[i].parent /\ gs[i].children = groups[i].children
             /\ gs[i].kind = groups[i].kind /\ gs[i].remaining = groups[i].remaining
             /\ gs[i].resumed = groups[i].resumed /\ gs[i].live = groups[i].live
             /\ gs[i].started <=> groups[i].started \/ groups[i].parent = p
    BY ONLY <2>1, StartedFields, SMTT(60) DEF gs
  <2>3. groups' = gs
    OBVIOUS
  <2> HIDE DEF gs
  <2> QED
    BY <2>2, <2>3
<1>7. \A i \in DOMAIN groups : groups'[i].live => groups'[i].started
  <2>1. \A i \in DOMAIN groups : groups[i].parent \in Proc
    BY GroupFields DEF Types
  <2>2. ASSUME NEW i \in DOMAIN groups, groups[i].live, ~groups[i].started PROVE groups[i].parent = p
    BY <2>1, <2>2 DEF CountsOK
  <2> QED
    BY <1>6, <2>2
<1>8. /\ Victims' = Victims /\ Unstarted' = {}
      /\ \A i \in DOMAIN groups : (Dying(i)' <=> Dying(i)) /\ Alive(i)' = Alive(i)
      /\ ForestOK' /\ StackOK' /\ KillsOK' /\ NotifyOK'
  <2>1. Unstarted' = {}
    BY <1>6, <1>7 DEF Unstarted
  <2> QED
    BY <1>6, <2>1, SameGroups
<1>13. CountsOK'
  <2>1. ASSUME NEW i \in DOMAIN groups
        PROVE  /\ groups'[i].live => /\ groups'[i].remaining > 0
                                     /\ life[groups'[i].parent] # "killed"
                                     /\ groups'[i].remaining = Cardinality(Alive(i)') \/ Dying(i)'
               /\ ~groups'[i].live => Alive(i)' \subseteq Victims'
    BY <1>6, <1>8 DEF CountsOK
  <2> QED
    BY <1>6, <1>7, <2>1 DEF CountsOK
<1> QED
  BY <1>6, <1>7, <1>8, <1>13

\* register_wait links a process into the list of waiters.
LEMMA NewWaiter ==
  ASSUME Counting, Types, WaitersOK, NEW p \in Proc, p \notin Blocked, NEW w \in WaitType,
         w.kind # "none", wait' = [wait EXCEPT ![p] = w], waiters' = <<p>> \o waiters,
         wait_count' = wait_count + 1
  PROVE  /\ Blocked' = Blocked \cup {p} /\ WaitersOK'
         /\ waiters' \in Seq(Proc) /\ wait_count' \in Nat /\ wait' \in [Proc -> WaitType]
         /\ wait'[p] = w /\ \A q \in Proc : q # p => wait'[q] = wait[q]
<1>1. /\ wait'[p] = w /\ \A q \in Proc : q # p => wait'[q] = wait[q]
      /\ wait' \in [Proc -> WaitType]
  BY DEF Types
<1>2. Blocked' = Blocked \cup {p}
  BY <1>1 DEF Blocked
<1>3. waiters \in Seq(Proc) /\ IsInjective(waiters) /\ Range(waiters) = Blocked
  BY DEF Types, WaitersOK
<1> DEFINE one == <<p>>
<1>4. one \in Seq(Proc) /\ IsInjective(one) /\ Range(one) = {p} /\ waiters' = one \o waiters
  BY OneSet
<1> HIDE DEF one
<1>5. /\ one \o waiters \in Seq(Proc) /\ Range(one \o waiters) = Range(one) \cup Range(waiters)
      /\ IsInjective(one) /\ IsInjective(waiters) /\ Range(one) \cap Range(waiters) = {}
         => IsInjective(one \o waiters)
  BY <1>3, <1>4, ConcatSet, SMTT(60)
<1>6. waiters' \in Seq(Proc) /\ Range(waiters') = Blocked' /\ IsInjective(waiters')
  BY <1>2, <1>3, <1>4, <1>5
<1>7. IsFiniteSet(Blocked)
  BY PartFinite, ProcessesAssumption DEF Blocked, ProcessesAssumption
<1>8. Cardinality(Blocked \cup {p}) = Cardinality(Blocked) + 1
  BY <1>7, SizeAdd
<1>9. wait_count' = Cardinality(Blocked')
  BY <1>2, <1>8 DEF WaitersOK
<1>10. wait_count' \in Nat
  BY SMTT(60) DEF Types
<1> QED
  BY <1>1, <1>2, <1>6, <1>9, <1>10 DEF WaitersOK

\* A process blocks: what register_wait does, apart from forks.
LEMMA BlockStep ==
  ASSUME Counting, Core, NEW p \in Proc, current = {p}, work = Idle, NEW w \in WaitType,
         Blocks(p, w, queue, groups), UNCHANGED <<life, ran, suspended, work>>,
         w.kind # "none", w.kind # "fork",
         w.kind # "process" => w.target = {},
         \A t \in w.target : w.target = {t} /\ t # p /\ life[t] = "live",
         w.kind = "fork_all" => LiveGroups(p) # {}
  PROVE  Core' /\ wait' = [wait EXCEPT ![p] = w]
<1> USE DEF Core
<1>0. wait' = [wait EXCEPT ![p] = w] /\ current' = {} /\ wake_pending' = wake_pending
  BY DEF Blocks
<1>2. p \notin Blocked /\ p \notin Range(queue) /\ p \notin suspended /\ life[p] = "live"
  <2>1. work.loop # "kill"
    BY IdleFields
  <2> QED
    BY <2>1 DEF PlacesOK, Placed
<1>3. /\ Blocked' = Blocked \cup {p} /\ WaitersOK'
      /\ waiters' \in Seq(Proc) /\ wait_count' \in Nat /\ wait' \in [Proc -> WaitType]
      /\ wait'[p] = w /\ \A q \in Proc : q # p => wait'[q] = wait[q]
  <2>1. waiters' = <<p>> \o waiters /\ wait_count' = wait_count + 1
    BY DEF Blocks
  <2> QED
    BY <1>0, <1>2, <2>1, NewWaiter
<1>5. /\ queue' \in Seq(Proc) /\ IsInjective(queue)'
      /\ Range(queue)' = Range(queue) \cup Unstarted
  <2>1. queue' = queue \o Eligible(groups, p)
    BY DEF Blocks
  <2> QED
    BY <2>1, StartQueue
<1>6. /\ groups' \in Seq(GroupType) /\ DOMAIN groups' = DOMAIN groups
      /\ \A i \in DOMAIN groups :
           /\ groups'[i].parent = groups[i].parent /\ groups'[i].children = groups[i].children
           /\ groups'[i].kind = groups[i].kind /\ groups'[i].remaining = groups[i].remaining
           /\ groups'[i].resumed = groups[i].resumed /\ groups'[i].live = groups[i].live
           /\ groups'[i].started <=> groups[i].started \/ groups[i].parent = p
      /\ Victims' = Victims /\ Unstarted' = {}
      /\ CountsOK' /\ ForestOK' /\ StackOK' /\ KillsOK' /\ NotifyOK'
  <2>1. groups' = StartedBy(groups, p)
    BY DEF Blocks
  <2> QED
    BY <2>1, StartStep
<1>9. Types'
  BY <1>0, <1>3, <1>5, <1>6 DEF Types
<1>10. AwaitsOK'
  BY <1>3 DEF AwaitsOK
<1>11. PlacesOK'
  <2>1. ASSUME NEW q \in Proc PROVE Placed(q)'
    <3>1. q \in Blocked' <=> q \in Blocked \/ q = p
      BY <1>3
    <3>2. q \in Range(queue)' <=> q \in Range(queue) \/ q \in Unstarted
      BY <1>5
    <3>3. Placed(q) /\ (q \in current <=> q = p) /\ q \notin current' /\ q \notin Unstarted'
      BY <1>0, <1>6 DEF PlacesOK
    <3>4. q \in Unstarted => life[q] = "live"
      BY DEF Unstarted
    <3> QED
      BY <1>2, <1>6, <3>1, <3>2, <3>3, <3>4 DEF Placed
  <2> QED
    BY <1>5, <2>1 DEF PlacesOK
<1>14. JoinsOK'
  <2>1. ASSUME NEW q \in Proc, wait'[q].kind = "fork"
        PROVE  /\ wait'[q].arg \in DOMAIN groups /\ groups'[wait'[q].arg].parent = q
               /\ groups'[wait'[q].arg].live /\ ~groups'[wait'[q].arg].resumed
               /\ groups'[wait'[q].arg].kind # "join_none"
    <3>1. wait'[q] = wait[q]
      BY <1>3, <2>1
    <3> QED
      BY <1>6, <2>1, <3>1, SMTT(60) DEF JoinsOK
  <2>2. ASSUME NEW q \in Proc, wait'[q].kind = "fork_all"
        PROVE  \E i \in DOMAIN groups : groups'[i].parent = q /\ groups'[i].live
    <3>1. \E i \in DOMAIN groups : groups[i].parent = q /\ groups[i].live
      BY <1>3, <2>2, SMTT(60) DEF JoinsOK, LiveGroups
    <3> QED
      BY <1>6, <3>1
  <2> QED
    BY <1>6, <2>1, <2>2 DEF JoinsOK
<1> QED
  BY <1>0, <1>3, <1>6, <1>9, <1>10, <1>11, <1>14

\* The next process of the run queue has its turn.
LEMMA DispatchStep ==
  ASSUME Counting, Core, Dispatch
  PROVE  Core'
<1> USE DEF Core
<1> DEFINE h == Head(queue)
<1>1. /\ current = {} /\ work = Idle /\ queue # <<>> /\ current' = {h} /\ queue' = Tail(queue)
      /\ ran' = ran \cup {h}
      /\ UNCHANGED <<life, wait, waiters, wait_count, suspended, wake_pending, groups, work>>
  BY DEF Dispatch
<1>2. /\ h \in Proc /\ queue' \in Seq(Proc) /\ IsInjective(queue)' /\ h \notin Range(queue)'
      /\ Range(queue) = Range(queue)' \cup {h}
  <2>1. queue \in Seq(Proc) /\ IsInjective(queue)
    BY DEF Types, PlacesOK
  <2> QED
    BY <1>1, <2>1, TailSet
<1> HIDE DEF h
<1>3. /\ Victims' = Victims
      /\ \A i \in DOMAIN groups : (Dying(i)' <=> Dying(i)) /\ Alive(i)' = Alive(i)
      /\ ForestOK' /\ StackOK' /\ KillsOK' /\ NotifyOK'
  BY <1>1, SameGroups
<1>4. \A i \in DOMAIN groups : groups[i].live => groups[i].started
  <2>1. \A x : current # {x}
    BY <1>1
  <2> QED
    BY <2>1 DEF CountsOK
<1>5. Unstarted = {} /\ Unstarted' = {} /\ Blocked' = Blocked
  BY <1>1, <1>4 DEF Unstarted, Blocked
<1>6. Types'
  BY <1>1, <1>2 DEF Types
<1>7. WaitersOK' /\ AwaitsOK'
  BY <1>1, <1>5 DEF WaitersOK, AwaitsOK
<1>10. JoinsOK'
  BY <1>1 DEF JoinsOK
<1>8. PlacesOK'
  <2>1. ASSUME NEW q \in Proc PROVE Placed(q)'
    <3>1. /\ Placed(q) /\ (q \in Range(queue) <=> q \in Range(queue)' \/ q = h)
          /\ (q = h => q \notin Range(queue)')
          /\ (q \in current' <=> q = h) /\ q \notin current /\ (q \in ran' <=> q \in ran \/ q = h)
      BY <1>1, <1>2 DEF PlacesOK
    <3> QED
      BY <1>1, <1>3, <1>5, <3>1 DEF Placed
  <2> QED
    BY <1>2, <2>1 DEF PlacesOK
<1>9. CountsOK'
  BY <1>1, <1>3, <1>4 DEF CountsOK
<1> QED
  BY <1>3, <1>6, <1>7, <1>8, <1>9, <1>10

\* A process is suspended, by itself or by another one.
LEMMA SuspendStep ==
  ASSUME Counting, Core, NEW p \in Proc, NEW t \in Proc, Suspend(p, t)
  PROVE  Core'
<1> USE DEF Core
<1>1. /\ current = {p} /\ work = Idle /\ t \in ran /\ life[t] = "live" /\ t \notin suspended
      /\ suspended' = suspended \cup {t} /\ wake_pending' = wake_pending \ {t}
      /\ UNCHANGED <<life, ran, wait, waiters, wait_count, work>>
  BY DEF Suspend, Calls
<1>2. /\ queue' \in Seq(Proc) /\ IsInjective(queue)' /\ groups' \in Seq(GroupType)
      /\ CountsOK' /\ JoinsOK' /\ ForestOK' /\ StackOK' /\ KillsOK' /\ NotifyOK'
      /\ current' = current \ {t} /\ Victims' = Victims
      /\ \/ t = p /\ Unstarted' = {} /\ Range(queue)' = Range(queue) \cup Unstarted
         \/ t # p /\ Unstarted' = Unstarted /\ Range(queue)' = Range(queue) \ {t}
  <2>1. CASE t = p
    <3>1. current' = {} /\ queue' = queue \o Eligible(groups, p) /\ groups' = StartedBy(groups, p)
      BY <2>1 DEF Suspend
    <3>2. /\ groups' \in Seq(GroupType) /\ DOMAIN groups' = DOMAIN groups
          /\ \A i \in DOMAIN groups :
               /\ groups'[i].parent = groups[i].parent /\ groups'[i].kind = groups[i].kind
               /\ groups'[i].resumed = groups[i].resumed /\ groups'[i].live = groups[i].live
          /\ Victims' = Victims /\ Unstarted' = {}
          /\ CountsOK' /\ ForestOK' /\ StackOK' /\ KillsOK' /\ NotifyOK'
      BY <1>1, <3>1, StartStep
    <3>3. JoinsOK'
      <4>1. ASSUME NEW q \in Proc, wait[q].kind = "fork"
            PROVE  /\ wait[q].arg \in DOMAIN groups /\ groups'[wait[q].arg].parent = q
                   /\ groups'[wait[q].arg].live /\ ~groups'[wait[q].arg].resumed
                   /\ groups'[wait[q].arg].kind # "join_none"
        BY <3>2, <4>1, SMTT(60) DEF JoinsOK
      <4>2. ASSUME NEW q \in Proc, wait[q].kind = "fork_all"
            PROVE  \E i \in DOMAIN groups : groups'[i].parent = q /\ groups'[i].live
        <5>1. PICK i \in DOMAIN groups : groups[i].parent = q /\ groups[i].live
          BY <4>2 DEF JoinsOK
        <5> QED
          BY <3>2, <5>1
      <4> QED
        BY <1>1, <3>2, <4>1, <4>2 DEF JoinsOK
    <3> QED
      BY <1>1, <2>1, <3>1, <3>2, <3>3, StartQueue
  <2>2. CASE t # p
    <3>1. queue' = RemoveFirst(queue, t) /\ current' = current /\ groups' = groups
      BY <2>2 DEF Suspend
    <3>2. queue \in Seq(Proc) /\ IsInjective(queue) /\ groups \in Seq(GroupType)
      BY DEF Types, PlacesOK
    <3>3. queue' \in Seq(Proc) /\ IsInjective(queue)' /\ Range(queue)' = Range(queue) \ {t}
      BY <3>1, <3>2, RemoveFirstSet
    <3>4. /\ Victims' = Victims
          /\ \A i \in DOMAIN groups : (Dying(i)' <=> Dying(i)) /\ Alive(i)' = Alive(i)
          /\ ForestOK' /\ StackOK' /\ KillsOK' /\ NotifyOK'
      BY <1>1, <3>1, SameGroups
    <3>5. Unstarted' = Unstarted
      BY <1>1, <3>1 DEF Unstarted, Child
    <3>6. CountsOK'
      BY <1>1, <3>1, <3>4 DEF CountsOK
    <3>7. JoinsOK'
      BY <1>1, <3>1 DEF JoinsOK
    <3> QED
      BY <1>1, <2>2, <3>1, <3>2, <3>3, <3>4, <3>5, <3>6, <3>7
  <2> QED
    BY <2>1, <2>2
<1>3. Types'
  <2>1. current' = {} \/ \E x \in Proc : current' = {x}
    BY <1>1, <1>2
  <2> QED
    BY <1>1, <1>2, <2>1 DEF Types
<1>4. Blocked' = Blocked
  BY <1>1 DEF Blocked
<1>5. WaitersOK' /\ AwaitsOK'
  BY <1>1, <1>4 DEF WaitersOK, AwaitsOK
<1>6. PlacesOK'
  <2>1. ASSUME NEW q \in Proc PROVE Placed(q)'
    <3>1. /\ Placed(q) /\ (q \in current' <=> q \in current /\ q # t) /\ (q \in current <=> q = p)
          /\ (q \in suspended' <=> q \in suspended \/ q = t)
      BY <1>1, <1>2 DEF PlacesOK
    <3>2. \/ t = p /\ q \notin Unstarted' /\ (q \in Range(queue)' <=> q \in Range(queue) \/ q \in Unstarted)
          \/ t # p /\ (q \in Unstarted' <=> q \in Unstarted)
                   /\ (q \in Range(queue)' <=> q \in Range(queue) /\ q # t)
      BY <1>2
    <3>3. q \in Unstarted => life[q] = "live"
      BY DEF Unstarted
    <3> QED
      BY <1>1, <1>2, <1>4, <3>1, <3>2, <3>3 DEF Placed
  <2> QED
    BY <1>2, <2>1 DEF PlacesOK
<1> QED
  BY <1>2, <1>3, <1>5, <1>6

\* A suspended process is resumed.
LEMMA ResumeStep ==
  ASSUME Counting, Core, NEW p \in Proc, NEW t \in Proc, Resume(p, t)
  PROVE  Core'
<1> USE DEF Core
<1>1. /\ current = {p} /\ work = Idle /\ t \in suspended
      /\ suspended' = suspended \ {t} /\ wake_pending' = wake_pending \ {t}
      /\ queue' = IF Resumed(t) THEN Append(queue, t) ELSE queue
      /\ UNCHANGED <<current, life, ran, wait, waiters, wait_count, groups, work>>
  BY DEF Resume, Calls
<1>2. t \notin Range(queue) /\ t \notin current /\ t \notin Unstarted /\ life[t] = "live"
  BY <1>1 DEF PlacesOK, Placed
<1>3. Resumed(t) <=> t \notin Blocked
  BY DEF Resumed, Blocked
<1>4. /\ queue' \in Seq(Proc) /\ IsInjective(queue)'
      /\ Range(queue)' = Range(queue) \cup ({t} \ Blocked)
  <2>1. queue \in Seq(Proc) /\ IsInjective(queue)
    BY DEF Types, PlacesOK
  <2>2. CASE Resumed(t)
    <3>1. queue' = Append(queue, t)
      BY <1>1, <2>2
    <3>2. queue' \in Seq(Proc) /\ Range(queue') = Range(queue) \cup {t} /\ IsInjective(queue')
      BY <1>2, <2>1, <3>1, AppendSet, SMTT(60)
    <3> QED
      BY <1>3, <2>2, <3>2
  <2>3. CASE ~Resumed(t)
    BY <1>1, <1>3, <2>1, <2>3
  <2> QED
    BY <2>2, <2>3
<1>5. /\ Victims' = Victims
      /\ \A i \in DOMAIN groups : (Dying(i)' <=> Dying(i)) /\ Alive(i)' = Alive(i)
      /\ ForestOK' /\ StackOK' /\ KillsOK' /\ NotifyOK'
  BY <1>1, SameGroups
<1>6. Unstarted' = Unstarted /\ Blocked' = Blocked
  BY <1>1 DEF Unstarted, Child, Blocked
<1>7. CountsOK'
  BY <1>1, <1>5 DEF CountsOK
<1>10. JoinsOK' /\ WaitersOK' /\ AwaitsOK'
  BY <1>1, <1>6 DEF JoinsOK, WaitersOK, AwaitsOK
<1>8. Types'
  BY <1>1, <1>4 DEF Types
<1>9. PlacesOK'
  <2>1. ASSUME NEW q \in Proc PROVE Placed(q)'
    <3>1. /\ Placed(q) /\ (q \in Range(queue)' <=> q \in Range(queue) \/ (q = t /\ q \notin Blocked))
          /\ (q \in suspended' <=> q \in suspended /\ q # t)
      BY <1>1, <1>4 DEF PlacesOK
    <3> QED
      BY <1>1, <1>2, <1>5, <1>6, <3>1 DEF Placed
  <2> QED
    BY <1>4, <2>1 DEF PlacesOK
<1> QED
  BY <1>5, <1>7, <1>8, <1>9, <1>10

--------------------------------------------------------------------------------
\* Forks.

\* hs is groups with one more group, which p forks with the children cs.
Forked(hs, p, kind, cs) ==
  /\ hs \in Seq(GroupType) /\ DOMAIN hs = DOMAIN groups \cup {Len(groups) + 1}
  /\ \A i \in DOMAIN groups :
       /\ hs[i].parent = groups[i].parent /\ hs[i].children = groups[i].children
       /\ hs[i].kind = groups[i].kind /\ hs[i].remaining = groups[i].remaining
       /\ hs[i].resumed = groups[i].resumed /\ hs[i].live = groups[i].live
  /\ hs[Len(groups) + 1].parent = p /\ hs[Len(groups) + 1].kind = kind
  /\ hs[Len(groups) + 1].children = cs /\ hs[Len(groups) + 1].remaining = Len(cs)
  /\ ~hs[Len(groups) + 1].resumed /\ hs[Len(groups) + 1].live

\* gs is groups and one group; join_none children start only when p blocks.
Added(gs, p, kind, cs) ==
  /\ Forked(gs, p, kind, cs) /\ Forked(StartedBy(gs, p), p, kind, cs)
  /\ \A i \in DOMAIN groups : gs[i] = groups[i]
  /\ gs[Len(groups) + 1].started <=> kind # "join_none"
  /\ \A i \in DOMAIN gs : StartedBy(gs, p)[i].started <=> gs[i].started \/ gs[i].parent = p
  /\ Len(gs) = Len(groups) + 1

\* No process is twice a child.
Disjoint(gs) ==
  /\ \A i \in DOMAIN gs : IsInjective(gs[i].children)
  /\ \A i, j \in DOMAIN gs : Range(gs[i].children) \cap Range(gs[j].children) # {} => i = j

\* llg_fork_group_new, llg_fork and llg_arm_join.
LEMMA ForkStep ==
  Counting /\ Core =>
    \A p \in Proc, kind \in {"join", "join_any", "join_none"}, cs \in Branches :
      Fork(p, kind, cs) =>
        /\ Core'
        /\ wait' = wait \/ wait' = [wait EXCEPT ![p] = Wait("fork", Len(groups) + 1, {})]
\* llg_fork_group_new and llg_fork add such a group.
<1>GroupAdded.
    ASSUME Types, NEW p \in Proc, NEW kind \in {"join", "join_any", "join_none"}, NEW cs \in Seq(Proc),
           NEW gs, gs = Append(groups, Group(p, kind, cs))
    PROVE  Added(gs, p, kind, cs)
  <2> USE <1>GroupAdded
  <2> DEFINE g == Group(p, kind, cs)
             b == kind # "join_none"
             n == Len(cs)
  <2>1. g \in GroupType
    <3>1. n \in Nat /\ b \in BOOLEAN
      BY SeqFields
    <3>2. g = [parent |-> p, kind |-> kind, children |-> cs, remaining |-> n,
               resumed |-> FALSE, started |-> b, live |-> TRUE]
      BY DEF Group
    <3> HIDE DEF g, n, b
    <3> QED
      BY <3>1, <3>2 DEF GroupType
  <2>2. /\ g.parent = p /\ g.kind = kind /\ g.children = cs /\ g.remaining = Len(cs)
        /\ ~g.resumed /\ g.live /\ (g.started <=> kind # "join_none")
    BY DEF Group
  <2> HIDE DEF g, b, n
  <2>3. /\ Len(groups) \in Nat /\ DOMAIN groups = 1..Len(groups)
        /\ groups \in Seq(GroupType) /\ gs = Append(groups, g)
    BY SeqFields DEF Types, g
  <2>4. /\ gs \in Seq(GroupType) /\ DOMAIN gs = 1..Len(groups) + 1 /\ Len(gs) = Len(groups) + 1
        /\ \A i \in DOMAIN groups : gs[i] = groups[i]
        /\ gs[Len(groups) + 1] = g
    BY ONLY <2>1, <2>3, SMTT(60)
  <2>5. DOMAIN gs = DOMAIN groups \cup {Len(groups) + 1} /\ Len(groups) + 1 \in DOMAIN gs
    BY ONLY <2>3, <2>4, SMTT(60)
  <2>6. Forked(gs, p, kind, cs)
    BY <2>2, <2>4, <2>5 DEF Forked
  <2> DEFINE hs == StartedBy(gs, p)
  <2>7. /\ hs \in Seq(GroupType) /\ DOMAIN hs = DOMAIN gs
        /\ \A i \in DOMAIN gs :
             /\ hs[i].parent = gs[i].parent /\ hs[i].children = gs[i].children
             /\ hs[i].kind = gs[i].kind /\ hs[i].remaining = gs[i].remaining
             /\ hs[i].resumed = gs[i].resumed /\ hs[i].live = gs[i].live
             /\ hs[i].started <=> gs[i].started \/ gs[i].parent = p
    <3>1. gs \in Seq(GroupType)
      BY <2>4
    <3> QED
      BY ONLY <3>1, StartedFields, SMTT(60) DEF hs
  <2> HIDE DEF hs
  <2>8. Forked(hs, p, kind, cs)
    <3>1. \A i \in DOMAIN groups : i \in DOMAIN gs /\ gs[i] = groups[i]
      BY <2>4, <2>5
    <3>2. /\ hs[Len(groups) + 1].parent = p /\ hs[Len(groups) + 1].kind = kind
          /\ hs[Len(groups) + 1].children = cs /\ hs[Len(groups) + 1].remaining = Len(cs)
          /\ ~hs[Len(groups) + 1].resumed /\ hs[Len(groups) + 1].live
      BY ONLY <2>2, <2>4, <2>5, <2>7, SMTT(60)
    <3>3. \A i \in DOMAIN groups :
            /\ hs[i].parent = groups[i].parent /\ hs[i].children = groups[i].children
            /\ hs[i].kind = groups[i].kind /\ hs[i].remaining = groups[i].remaining
            /\ hs[i].resumed = groups[i].resumed /\ hs[i].live = groups[i].live
      BY ONLY <2>7, <3>1, SMTT(60)
    <3> QED
      BY <2>5, <2>7, <3>2, <3>3 DEF Forked
  <2> QED
    BY ONLY <2>2, <2>4, <2>6, <2>7, <2>8, SMTT(60) DEF hs, Added
\* Processes that do not exist yet are nowhere.
<1>UnbornNowhere.
    ASSUME Core, work = Idle, NEW c \in Proc, life[c] = "unborn"
    PROVE  /\ c \notin Range(queue) /\ c \notin Blocked /\ c \notin suspended /\ c \notin ran
           /\ c \notin current
           /\ \A i \in DOMAIN groups : ~Child(c, i) /\ groups[i].parent # c
           /\ \A q \in Proc : c \notin wait[q].target
  <2> USE <1>UnbornNowhere
  <2> USE DEF Core
  <2>1. work.loop # "kill" /\ "unborn" # "live"
    BY IdleFields
  <2>2. \A i \in DOMAIN groups : ~Child(c, i) /\ groups[i].parent # c
    BY DEF ForestOK, Child
  <2>3. \A q \in Proc : c \notin wait[q].target
    BY <2>1 DEF AwaitsOK
  <2> QED
    BY <2>1, <2>2, <2>3 DEF PlacesOK, Placed
\* The tree of groups with the new one.
<1>ForkTree.
    ASSUME Counting, Core, work = Idle, work' = work, NEW p \in Proc, life[p] = "live", NEW kind,
           NEW cs \in Seq(Proc), IsInjective(cs), Len(cs) # 0, \A c \in Range(cs) : life[c] = "unborn",
           life' = [q \in Proc |-> IF q \in Range(cs) THEN "live" ELSE life[q]],
           Forked(groups', p, kind, cs),
           \A i \in DOMAIN groups' : groups'[i].live /\ ~groups'[i].started => current' = {groups'[i].parent},
           \A i \in DOMAIN groups : groups'[i].live /\ ~groups'[i].started => ~groups[i].started
    PROVE  /\ ForestOK' /\ CountsOK' /\ StackOK' /\ KillsOK' /\ NotifyOK'
           /\ \A c : \A i \in DOMAIN groups : Child(c, i)' <=> Child(c, i)
  <2> USE <1>ForkTree
  <2> USE DEF Core
  <2>0. PICK n : n = Len(groups) + 1
    OBVIOUS
  <2>1. /\ n \notin DOMAIN groups /\ n \in Nat /\ \A i \in DOMAIN groups : i \in Nat /\ i < n
        /\ Len(cs) \in Nat /\ Len(cs) > 0 /\ \A i \in DOMAIN groups : ~(i < i) /\ ~(n < n)
    <3>1. Len(groups) \in Nat /\ DOMAIN groups = 1..Len(groups)
      BY GroupFields DEF Types
    <3>2. Len(cs) \in Nat /\ Len(cs) # 0
      BY SeqFields
    <3>3. Len(cs) > 0 /\ \A m \in Nat : ~(m < m)
      BY ONLY <3>2, SMTT(60)
    <3> QED
      BY <2>0, <3>1, <3>2, <3>3, GroupNumbers DEF Types
  <2>2. /\ DOMAIN groups' = DOMAIN groups \cup {n}
        /\ \A i \in DOMAIN groups :
             /\ groups'[i].parent = groups[i].parent /\ groups'[i].children = groups[i].children
             /\ groups'[i].remaining = groups[i].remaining /\ groups'[i].live = groups[i].live
        /\ groups'[n].parent = p /\ groups'[n].children = cs /\ groups'[n].remaining = Len(cs)
        /\ groups'[n].live
    BY <2>0 DEF Forked
  <2>3. /\ \A q \in Range(cs) : q \in Proc /\ life'[q] = "live" /\ life[q] = "unborn"
        /\ \A q \in Proc : q \notin Range(cs) => life'[q] = life[q]
        /\ "live" # "unborn" /\ "live" # "killed" /\ "live" # "completed"
        /\ \A q \in Proc : life[q] # "unborn" => life'[q] = life[q] /\ q \notin Range(cs)
    <3>1. \A q \in Range(cs) : q \in Proc
      BY RangeIn
    <3> QED
      BY <3>1
  <2>4. \A i \in DOMAIN groups : /\ groups[i].parent \in Proc /\ life[groups[i].parent] # "unborn"
                                 /\ \A c : Child(c, i) => c \in Proc /\ life[c] # "unborn"
    BY GroupFields DEF Types, ForestOK, Child
  <2>5. /\ \A c : \A i \in DOMAIN groups : Child(c, i)' <=> Child(c, i)
        /\ \A c : Child(c, n)' <=> c \in Range(cs)
    BY <2>2 DEF Child
  <2>6. ForestOK'
    <3>1. ASSUME NEW i \in DOMAIN groups'
          PROVE  /\ IsInjective(groups'[i].children) /\ life'[groups'[i].parent] # "unborn"
                 /\ \A c \in Range(groups'[i].children) : life'[c] # "unborn"
      <4>1. CASE i = n
        BY <2>2, <2>3, <4>1
      <4>2. CASE i \in DOMAIN groups
        <5>1. groups'[i].children = groups[i].children /\ groups'[i].parent = groups[i].parent
          BY <2>2, <4>2
        <5>2. IsInjective(groups[i].children)
          BY <4>2 DEF ForestOK
        <5>3. \A c \in Range(groups[i].children) : c \in Proc /\ life[c] # "unborn"
          BY <2>4, <4>2 DEF Child
        <5>4. /\ life'[groups[i].parent] # "unborn"
              /\ \A c \in Range(groups[i].children) : life'[c] # "unborn"
          BY <2>3, <2>4, <4>2, <5>3
        <5> QED
          BY <5>1, <5>2, <5>4
      <4> QED
        BY <2>2, <4>1, <4>2
    <3>2. ASSUME NEW i \in DOMAIN groups', NEW j \in DOMAIN groups'
          PROVE  /\ \A c \in Proc : Child(c, i)' /\ Child(c, j)' => j = i
                 /\ Child(groups[i].parent, j)' => j < i
      <4>1. CASE i = n
        <5>1. groups'[i].parent = p /\ p \notin Range(cs)
          BY <2>2, <2>3, <4>1
        <5>2. CASE j = n
          <6>1. ~Child(groups[i].parent, j)'
            BY <2>5, <5>1, <5>2
          <6> QED
            BY <4>1, <5>2, <6>1
        <5>3. CASE j \in DOMAIN groups
          <6>1. \A c \in Proc : ~(Child(c, i)' /\ Child(c, j)')
            BY <2>3, <2>4, <2>5, <4>1, <5>3
          <6> QED
            BY <2>1, <4>1, <5>3, <6>1
        <5> QED
          BY <2>2, <5>2, <5>3
      <4>2. CASE i \in DOMAIN groups /\ j = n
        <5>1. groups'[i].parent = groups[i].parent /\ groups[i].parent \notin Range(cs)
          BY <2>2, <2>3, <2>4, <4>2
        <5>2. ~Child(groups[i].parent, j)'
          BY <2>5, <4>2, <5>1
        <5>3. \A c \in Proc : ~(Child(c, i)' /\ Child(c, j)')
          BY <2>3, <2>4, <2>5, <4>2
        <5> QED
          BY <5>2, <5>3
      <4>3. CASE i \in DOMAIN groups /\ j \in DOMAIN groups
        <5>1. Child(groups[i].parent, j)' <=> Child(groups[i].parent, j)
          BY <2>2, <2>5, <4>3
        <5> QED
          BY <2>5, <4>3, <5>1 DEF ForestOK
      <4> QED
        BY <2>2, <4>1, <4>2, <4>3
    <3> QED
      BY <3>1, <3>2 DEF ForestOK
  <2>7. Victims = {} /\ Victims' = {} /\ (\A i : ~Dying(i) \/ i = 0) /\ 0 \notin DOMAIN groups
    <3>1. 0 \notin DOMAIN groups
      BY GroupNumbers DEF Types
    <3> QED
      BY <3>1, IdleFields, NoneSet DEF Victims, Dying
  <2>8. CountsOK'
    <3>1. ASSUME NEW i \in DOMAIN groups
          PROVE  /\ groups'[i].live => /\ groups'[i].remaining > 0
                                       /\ life'[groups'[i].parent] # "killed"
                                       /\ groups'[i].remaining = Cardinality(Alive(i)')
                 /\ ~groups'[i].live => Alive(i)' \subseteq Victims'
                 /\ groups'[i].live /\ ~groups'[i].started =>
                      \A c \in Range(groups'[i].children) : life'[c] # "completed"
      <4>0. /\ groups'[i].children = groups[i].children
            /\ \A c \in Range(groups[i].children) : c \in Proc /\ life'[c] = life[c]
        BY <2>2, <2>3, <2>4 DEF Child
      <4>1. Alive(i)' = Alive(i)
        BY <4>0 DEF Alive
      <4>2. i # 0
        BY <2>7
      <4>3. ASSUME groups'[i].live, ~groups'[i].started
            PROVE  \A c \in Range(groups'[i].children) : life'[c] # "completed"
        <5>1. groups[i].live /\ ~groups[i].started
          BY <2>2, <4>3
        <5>2. \A c \in Range(groups[i].children) : life[c] # "completed"
          BY <5>1 DEF CountsOK
        <5> QED
          BY <4>0, <5>2
      <4>4. /\ groups[i].live => /\ groups[i].remaining > 0 /\ life[groups[i].parent] # "killed"
                                 /\ groups[i].remaining = Cardinality(Alive(i))
            /\ ~groups[i].live => Alive(i) \subseteq Victims
        BY <2>7, <4>2 DEF CountsOK
      <4>5. /\ groups'[i].live = groups[i].live /\ groups'[i].remaining = groups[i].remaining
            /\ life'[groups'[i].parent] = life[groups[i].parent] /\ Victims' = Victims
        BY <2>2, <2>3, <2>4, <2>7
      <4> QED
        BY <4>1, <4>3, <4>4, <4>5
    <3>2. /\ groups'[n].remaining > 0 /\ life'[groups'[n].parent] # "killed"
          /\ groups'[n].remaining = Cardinality(Alive(n)') /\ groups'[n].live
          /\ \A c \in Range(groups'[n].children) : life'[c] # "completed"
      <4>1. Alive(n)' = Range(cs)
        BY <2>2, <2>3 DEF Alive
      <4>2. Cardinality(Range(cs)) = Len(cs)
        BY DEF Counting
      <4> QED
        BY <2>1, <2>2, <2>3, <4>1, <4>2
    <3> QED
      BY <2>2, <3>1, <3>2 DEF CountsOK
  <2>9. StackOK' /\ KillsOK' /\ NotifyOK'
    <3>1. /\ work'.loop = "none" /\ work'.victims = <<>> /\ work'.entered = {} /\ work'.notify = {}
          /\ work'.closing = 0 /\ DOMAIN <<>> = {}
      BY IdleFields, SMTT(60)
    <3>2. KillsOK'
      BY <2>7, <3>1 DEF KillsOK
    <3> QED
      BY <3>1, <3>2 DEF StackOK, NotifyOK
  <2> QED
    BY <2>5, <2>6, <2>8, <2>9
\* A join_none fork: the parent goes on, its new children wait for it to block.
<1>ForkNone.
    ASSUME Counting, Core, work = Idle, NEW p \in Proc, current = {p},
           NEW kind \in {"join", "join_any", "join_none"}, kind = "join_none", NEW cs \in Seq(Proc),
           IsInjective(cs), Len(cs) # 0, \A c \in Range(cs) : life[c] = "unborn",
           life' = [q \in Proc |-> IF q \in Range(cs) THEN "live" ELSE life[q]],
           groups' = Append(groups, Group(p, kind, cs)),
           UNCHANGED <<current, waitVars, ran, suspended, work>>
    PROVE  Core'
  <2> USE <1>ForkNone
  <2> USE DEF Core
  <2>0. PICK n : n = Len(groups) + 1
    OBVIOUS
  <2>1. /\ Forked(groups', p, kind, cs) /\ ~groups'[n].started
        /\ \A i \in DOMAIN groups : groups'[i] = groups[i]
    <3>1. Added(groups', p, kind, cs)
      BY <1>GroupAdded
    <3> QED
      BY <2>0, <3>1 DEF Added
  <2>2. /\ groups' \in Seq(GroupType) /\ DOMAIN groups' = DOMAIN groups \cup {n}
        /\ groups'[n].parent = p /\ groups'[n].children = cs /\ groups'[n].live
    BY <2>0, <2>1 DEF Forked
  <2>3. /\ queue' = queue /\ wait' = wait /\ waiters' = waiters /\ wait_count' = wait_count
        /\ wake_pending' = wake_pending /\ current' = current /\ ran' = ran /\ suspended' = suspended
        /\ work' = work /\ Blocked' = Blocked
    BY DEF waitVars, Blocked
  <2>4. life[p] = "live" /\ work.loop = "none" /\ Victims = {} /\ Victims' = {}
    <3>1. work.loop = "none" /\ "none" # "kill"
      BY IdleFields
    <3> QED
      BY <2>3, <3>1, IdleFields, NoneSet DEF PlacesOK, Placed, Victims
  <2>5. /\ life' \in [Proc -> {"unborn", "live", "completed", "killed"}]
        /\ \A q \in Range(cs) : q \in Proc /\ life'[q] = "live" /\ life[q] = "unborn"
        /\ \A q \in Proc : q \notin Range(cs) => life'[q] = life[q]
    <3>1. \A q \in Range(cs) : q \in Proc
      BY RangeIn
    <3> QED
      BY <3>1 DEF Types
  <2>6. /\ ForestOK' /\ CountsOK' /\ StackOK' /\ KillsOK' /\ NotifyOK'
        /\ \A c : \A i \in DOMAIN groups : Child(c, i)' <=> Child(c, i)
    <3>1. \A i \in DOMAIN groups' : groups'[i].live /\ ~groups'[i].started => current' = {groups'[i].parent}
      BY <2>1, <2>2, <2>3 DEF CountsOK
    <3>2. \A i \in DOMAIN groups : groups'[i].live /\ ~groups'[i].started => ~groups[i].started
      BY <2>1
    <3> QED
      BY <2>1, <2>3, <2>4, <3>1, <3>2, <1>ForkTree
  <2>7. /\ \A c \in Range(cs) :
             /\ c \notin Range(queue) /\ c \notin Blocked /\ c \notin suspended /\ c \notin ran
             /\ c \notin current /\ \A i \in DOMAIN groups : ~Child(c, i)
             /\ \A q \in Proc : c \notin wait[q].target
    BY <2>5, <1>UnbornNowhere
  <2>8. Unstarted' = Unstarted \cup Range(cs)
    <3>1. ASSUME NEW c \in Proc
          PROVE  c \in Unstarted' <=> c \in Unstarted \/ c \in Range(cs)
      <4>1. CASE c \in Range(cs)
        BY <2>1, <2>2, <2>5, <4>1 DEF Unstarted, Child
      <4>2. CASE c \notin Range(cs)
        <5>1. life'[c] = life[c] /\ ~Child(c, n)'
          BY <2>2, <2>5, <4>2 DEF Child
        <5> QED
          BY <2>1, <2>2, <2>6, <4>2, <5>1 DEF Unstarted
      <4> QED
        BY <4>1, <4>2
    <3> QED
      BY <2>5, <3>1 DEF Unstarted
  <2>9. Types' /\ WaitersOK'
    BY <2>2, <2>3, <2>5 DEF Types, WaitersOK
  <2>10. AwaitsOK'
    <3>1. \A q \in Proc : wait[q].target \subseteq Proc
      BY DEF Types, WaitType
    <3> QED
      BY <2>3, <2>5, <2>7, <3>1 DEF AwaitsOK
  <2>11. PlacesOK'
    <3>1. ASSUME NEW q \in Proc PROVE Placed(q)'
      <4>1. Placed(q) /\ (q \in Unstarted' <=> q \in Unstarted \/ q \in Range(cs))
        BY <2>8 DEF PlacesOK
      <4>2. CASE q \in Range(cs)
        <5>1. q \in Unstarted' /\ life'[q] = "live" /\ "live" # "unborn"
          BY <2>5, <4>1, <4>2
        <5> QED
          BY <2>3, <2>7, <4>2, <5>1 DEF Placed
      <4>3. CASE q \notin Range(cs)
        BY <2>3, <2>4, <2>5, <4>1, <4>3 DEF Placed
      <4> QED
        BY <4>2, <4>3
    <3> QED
      BY <2>3, <3>1 DEF PlacesOK
  <2>12. JoinsOK'
    <3>1. \A i \in DOMAIN groups :
            /\ i \in DOMAIN groups' /\ groups'[i].parent = groups[i].parent
            /\ groups'[i].kind = groups[i].kind /\ groups'[i].live = groups[i].live
            /\ groups'[i].resumed = groups[i].resumed
      BY <2>1, <2>2 DEF Forked
    <3>2. ASSUME NEW q \in Proc, wait[q].kind = "fork"
          PROVE  /\ wait[q].arg \in DOMAIN groups' /\ groups'[wait[q].arg].parent = q
                 /\ groups'[wait[q].arg].live /\ ~groups'[wait[q].arg].resumed
                 /\ groups'[wait[q].arg].kind # "join_none"
      <4>1. /\ wait[q].arg \in DOMAIN groups /\ groups[wait[q].arg].parent = q
            /\ groups[wait[q].arg].live /\ ~groups[wait[q].arg].resumed
            /\ groups[wait[q].arg].kind # "join_none"
        BY <3>2 DEF JoinsOK
      <4> QED
        BY <3>1, <4>1
    <3>3. ASSUME NEW q \in Proc, wait[q].kind = "fork_all"
          PROVE  \E i \in DOMAIN groups' : groups'[i].parent = q /\ groups'[i].live
      <4>1. PICK i \in DOMAIN groups : groups[i].parent = q /\ groups[i].live
        BY <3>3 DEF JoinsOK
      <4> QED
        BY <3>1, <4>1
    <3> QED
      BY <2>3, <3>2, <3>3 DEF JoinsOK
  <2> QED
    BY <2>6, <2>9, <2>10, <2>11, <2>12
\* start_pending_fork_children returns the children of the groups it starts.
<1>EligibleSet.
    ASSUME Counting, NEW gs \in Seq(GroupType), Disjoint(gs), NEW p
    PROVE  /\ Eligible(gs, p) \in Seq(Proc) /\ IsInjective(Eligible(gs, p))
           /\ \A c : c \in Range(Eligible(gs, p)) <=>
                /\ c \in Proc /\ life[c] # "killed"
                /\ \E i \in DOMAIN gs : i \in Pending(gs, p) /\ c \in Range(gs[i].children)
  BY <1>EligibleSet, ChildrenSet DEF Eligible, Disjoint
\* start_pending_fork_children when a fork blocks the parent: the new group is started.
<1>EligibleFork.
    ASSUME Counting, Types, ForestOK, CountsOK, NEW p \in Proc, current = {p},
           NEW gs \in Seq(GroupType), NEW n, DOMAIN gs = DOMAIN groups \cup {n},
           \A i \in DOMAIN groups : gs[i] = groups[i], gs[n].started, IsInjective(gs[n].children),
           \A c \in Range(gs[n].children), i \in DOMAIN groups : ~Child(c, i)
    PROVE  /\ Eligible(gs, p) \in Seq(Proc) /\ IsInjective(Eligible(gs, p))
           /\ Range(Eligible(gs, p)) = Unstarted
  <2> USE <1>EligibleFork
  <2>1. /\ \A i \in DOMAIN groups : groups[i].parent \in Proc /\ Range(groups[i].children) \subseteq Proc
    <3>1. groups \in Seq(GroupType)
      BY DEF Types
    <3> QED
      BY <3>1, GroupFields
  <2>2. ASSUME NEW i \in DOMAIN gs, NEW j \in DOMAIN gs, i # j
        PROVE  Range(gs[i].children) \cap Range(gs[j].children) = {}
    <3>1. CASE i \in DOMAIN groups /\ j \in DOMAIN groups
      <4>1. gs[i] = groups[i] /\ gs[j] = groups[j]
        BY <3>1
      <4> QED
        BY <2>1, <2>2, <3>1, <4>1 DEF ForestOK, Child
    <3>2. CASE i \in DOMAIN groups /\ j = n
      BY <3>2 DEF Child
    <3>3. CASE i = n /\ j \in DOMAIN groups
      BY <3>3 DEF Child
    <3>4. (i \in DOMAIN groups \/ i = n) /\ (j \in DOMAIN groups \/ j = n)
      OBVIOUS
    <3> QED
      BY <2>2, <3>1, <3>2, <3>3, <3>4
  <2>3. \A i \in DOMAIN gs : IsInjective(gs[i].children)
    BY DEF ForestOK
  <2>4. /\ Eligible(gs, p) \in Seq(Proc) /\ IsInjective(Eligible(gs, p))
        /\ \A c : c \in Range(Eligible(gs, p)) <=>
             /\ c \in Proc /\ life[c] # "killed"
             /\ \E i \in DOMAIN gs : i \in Pending(gs, p) /\ c \in Range(gs[i].children)
    <3>1. \A i, j \in DOMAIN gs : Range(gs[i].children) \cap Range(gs[j].children) # {} => i = j
      BY <2>2
    <3> QED
      BY <2>3, <3>1, <1>EligibleSet DEF Disjoint
  <2>5. /\ \A i \in DOMAIN groups : i \in Pending(gs, p) <=> groups[i].live /\ ~groups[i].started
        /\ n \notin Pending(gs, p)
    <3>1. \A x : current = {x} => x = p
      OBVIOUS
    <3>2. \A i \in DOMAIN groups : groups[i].live /\ ~groups[i].started => groups[i].parent = p
      BY <2>1, <3>1 DEF CountsOK
    <3> QED
      BY <3>2 DEF Pending
  <2>6. \A c : c \in Range(Eligible(gs, p)) <=>
          /\ c \in Proc /\ life[c] # "killed"
          /\ \E i \in DOMAIN groups : groups[i].live /\ ~groups[i].started /\ Child(c, i)
    BY <2>4, <2>5 DEF Child
  <2>7. \A c : c \in Range(Eligible(gs, p)) <=> c \in Unstarted
    <3>1. "live" # "killed"
      OBVIOUS
    <3> QED
      BY <2>6, <3>1, UnstartedChildren DEF Unstarted
  <2> QED
    BY <2>4, <2>7
\* A fork that joins: the parent blocks and all its new children are queued.
<1>ForkJoin.
    ASSUME Counting, Core, NEW p \in Proc, NEW kind \in {"join", "join_any", "join_none"},
           kind # "join_none", NEW cs \in Seq(Proc), IsInjective(cs), Len(cs) # 0, Fork(p, kind, cs)
    PROVE  Core' /\ wait' = [wait EXCEPT ![p] = Wait("fork", Len(groups) + 1, {})]
  <2> USE <1>ForkJoin
  <2> USE DEF Core
  <2> PICK gs : gs = Append(groups, Group(p, kind, cs))
    OBVIOUS
  <2> PICK w : w = Wait("fork", Len(gs), {})
    OBVIOUS
  <2> /\ work = Idle /\ current = {p} /\ (\A c \in Range(cs) : life[c] = "unborn")
      /\ life' = [q \in Proc |-> IF q \in Range(cs) THEN "live" ELSE life[q]]
      /\ ran' = ran /\ suspended' = suspended /\ work' = work
      /\ Blocks(p, w, queue \o cs, gs)
    BY DEF Fork, Calls, Range
  <2>0. PICK n : n = Len(groups) + 1
    OBVIOUS
  <2> DEFINE e == Eligible(gs, p)
  <2>1. /\ Forked(gs, p, kind, cs) /\ Forked(StartedBy(gs, p), p, kind, cs) /\ Len(gs) = n
        /\ gs[n].started /\ \A i \in DOMAIN groups : gs[i] = groups[i]
        /\ \A i \in DOMAIN gs : StartedBy(gs, p)[i].started <=> gs[i].started \/ gs[i].parent = p
    <3>1. Added(gs, p, kind, cs)
      BY <1>GroupAdded
    <3> QED
      BY <2>0, <3>1 DEF Added
  <2>2. /\ wait' = [wait EXCEPT ![p] = w] /\ waiters' = <<p>> \o waiters /\ wait_count' = wait_count + 1
        /\ queue' = (queue \o cs) \o e /\ groups' = StartedBy(gs, p) /\ current' = {}
        /\ wake_pending' = wake_pending
    BY <2>1 DEF Blocks
  <2>3. w \in WaitType /\ w.kind = "fork" /\ w.arg = n /\ w.target = {} /\ n \in Nat
    <3>1. n \in Nat
      BY <2>0, GroupNumbers DEF Types
    <3> QED
      BY <2>1, <3>1 DEF Wait, WaitType, Kinds
  <2> HIDE DEF e
  <2>4. /\ gs \in Seq(GroupType) /\ DOMAIN gs = DOMAIN groups \cup {n}
        /\ gs[n].children = cs /\ gs[n].parent = p
        /\ groups' \in Seq(GroupType) /\ DOMAIN groups' = DOMAIN groups \cup {n}
        /\ \A i \in DOMAIN groups :
             /\ groups'[i].parent = groups[i].parent /\ groups'[i].children = groups[i].children
             /\ groups'[i].kind = groups[i].kind /\ groups'[i].resumed = groups[i].resumed
             /\ groups'[i].live = groups[i].live
        /\ groups'[n].parent = p /\ groups'[n].kind = kind /\ groups'[n].children = cs
        /\ groups'[n].live /\ ~groups'[n].resumed
    <3>1. /\ gs \in Seq(GroupType) /\ DOMAIN gs = DOMAIN groups \cup {n}
          /\ gs[n].children = cs /\ gs[n].parent = p
      BY <2>0, <2>1 DEF Forked
    <3>2. Forked(groups', p, kind, cs)
      BY <2>1, <2>2
    <3>3. /\ groups' \in Seq(GroupType) /\ DOMAIN groups' = DOMAIN groups \cup {n}
          /\ \A i \in DOMAIN groups :
               /\ groups'[i].parent = groups[i].parent /\ groups'[i].children = groups[i].children
               /\ groups'[i].kind = groups[i].kind /\ groups'[i].resumed = groups[i].resumed
               /\ groups'[i].live = groups[i].live
          /\ groups'[n].parent = p /\ groups'[n].kind = kind /\ groups'[n].children = cs
          /\ groups'[n].live /\ ~groups'[n].resumed
      BY <2>0, <3>2 DEF Forked
    <3> QED
      BY <3>1, <3>3
  <2>5. life[p] = "live" /\ p \notin Range(queue) /\ p \notin Blocked /\ p \notin suspended
        /\ Victims = {} /\ Victims' = {}
    <3>1. work.loop = "none" /\ "none" # "kill"
      BY IdleFields
    <3> QED
      BY <3>1, IdleFields, NoneSet DEF PlacesOK, Placed, Victims
  <2>6. /\ life' \in [Proc -> {"unborn", "live", "completed", "killed"}]
        /\ \A q \in Range(cs) : q \in Proc /\ life'[q] = "live" /\ life[q] = "unborn"
        /\ \A q \in Proc : q \notin Range(cs) => life'[q] = life[q]
    <3>1. \A q \in Range(cs) : q \in Proc
      BY RangeIn
    <3> QED
      BY <3>1 DEF Types
  <2>7. \A i \in DOMAIN groups' : groups'[i].live => groups'[i].started
    <3>1. ASSUME NEW i \in DOMAIN groups, groups'[i].live PROVE groups'[i].started
      <4>1. i \in DOMAIN gs /\ groups[i].live /\ gs[i] = groups[i]
        BY <2>1, <2>4, <3>1
      <4>2. groups[i].started \/ groups[i].parent = p
        BY <4>1 DEF CountsOK
      <4> QED
        BY <2>1, <2>2, <4>1, <4>2
    <3>2. groups'[n].started
      BY <2>1, <2>2, <2>4
    <3> QED
      BY <2>4, <3>1, <3>2
  <2>8. /\ ForestOK' /\ CountsOK' /\ StackOK' /\ KillsOK' /\ NotifyOK' /\ Unstarted' = {}
    <3>1. Unstarted' = {}
      BY <2>7 DEF Unstarted
    <3>2. DOMAIN groups \subseteq DOMAIN groups'
      BY <2>4
    <3> QED
      BY <2>1, <2>2, <2>5, <2>7, <3>1, <3>2, <1>ForkTree
  <2>9. /\ \A c \in Range(cs) :
             /\ c \notin Range(queue) /\ c \notin Blocked /\ c \notin suspended /\ c \notin ran
             /\ c \notin current /\ \A i \in DOMAIN groups : ~Child(c, i)
             /\ \A q \in Proc : c \notin wait[q].target
    BY <2>6, <1>UnbornNowhere
  <2>10. e \in Seq(Proc) /\ IsInjective(e) /\ Range(e) = Unstarted
    <3>1. /\ \A c \in Range(gs[n].children), i \in DOMAIN groups : ~Child(c, i)
          /\ IsInjective(gs[n].children) /\ gs \in Seq(GroupType) /\ DOMAIN gs = DOMAIN groups \cup {n}
          /\ gs[n].started /\ \A i \in DOMAIN groups : gs[i] = groups[i]
      BY <2>1, <2>4, <2>9
    <3> QED
      BY <3>1, <1>EligibleFork DEF e
  <2>11. /\ queue' \in Seq(Proc) /\ IsInjective(queue)'
         /\ Range(queue)' = Range(queue) \cup Range(cs) \cup Unstarted
    <3> DEFINE qc == queue \o cs
    <3>1. /\ queue \in Seq(Proc) /\ IsInjective(queue) /\ Range(queue) \cap Range(cs) = {}
          /\ cs \in Seq(Proc)
      BY <2>9 DEF Types, PlacesOK
    <3>2. qc \in Seq(Proc) /\ Range(qc) = Range(queue) \cup Range(cs)
      BY ONLY <3>1, ConcatSet, SMTT(60)
    <3>3. IsInjective(qc)
      BY <3>1, ConcatSet
    <3>4. queue' = qc \o e
      BY <2>2
    <3> HIDE DEF qc
    <3>5. Range(qc) \cap Range(e) = {}
      <4>1. "live" # "unborn"
        OBVIOUS
      <4> QED
        BY <2>6, <2>10, <3>2, <4>1 DEF PlacesOK, Placed, Unstarted
    <3>6. qc \o e \in Seq(Proc) /\ Range(qc \o e) = Range(qc) \cup Range(e)
      BY ONLY <2>10, <3>2, ConcatSet, SMTT(60)
    <3>7. IsInjective(qc \o e)
      BY <2>10, <3>2, <3>3, <3>5, ConcatSet
    <3> QED
      BY <2>10, <3>2, <3>4, <3>6, <3>7
  <2>12. /\ Blocked' = Blocked \cup {p} /\ WaitersOK'
         /\ waiters' \in Seq(Proc) /\ wait_count' \in Nat /\ wait' \in [Proc -> WaitType]
         /\ wait'[p] = w /\ \A q \in Proc : q # p => wait'[q] = wait[q]
    <3>1. w.kind # "none"
      BY <2>3
    <3> QED
      BY <2>2, <2>3, <2>5, <3>1, NewWaiter
  <2>13. Types'
    BY <2>2, <2>4, <2>6, <2>11, <2>12 DEF Types
  <2>14. AwaitsOK'
    <3>1. \A q \in Proc : wait[q].target \subseteq Proc
      BY DEF Types, WaitType
    <3>2. ASSUME NEW q \in Proc
          PROVE  /\ wait'[q].kind # "process" => wait'[q].target = {}
                 /\ \A t \in wait'[q].target : wait'[q].target = {t} /\ t # q /\ life'[t] = "live"
      <4>1. CASE q = p
        BY <2>3, <2>12, <4>1
      <4>2. CASE q # p
        <5>1. wait'[q] = wait[q] /\ \A t \in wait[q].target : life'[t] = life[t]
          BY <2>6, <2>9, <2>12, <3>1, <4>2
        <5> QED
          BY <5>1 DEF AwaitsOK
      <4> QED
        BY <4>1, <4>2
    <3> QED
      BY <3>2 DEF AwaitsOK
  <2>15. PlacesOK'
    <3>1. ASSUME NEW q \in Proc PROVE Placed(q)'
      <4>1. /\ Placed(q) /\ q \notin current' /\ q \notin Unstarted'
            /\ q \in Blocked' <=> q \in Blocked \/ q = p
            /\ q \in Range(queue)' <=> (q \in Range(queue) \/ q \in Range(cs) \/ q \in Unstarted)
            /\ q \in Unstarted => life[q] = "live"
            /\ q \in current <=> q = p
            /\ q \notin Victims
        BY <2>2, <2>5, <2>8, <2>11, <2>12 DEF PlacesOK, Unstarted
      <4>2. CASE q \in Range(cs)
        <5>1. /\ q # p /\ life'[q] = "live" /\ "live" # "unborn" /\ q \notin Blocked /\ q \notin suspended
          BY <2>5, <2>6, <2>9, <4>2
        <5> QED
          BY <4>1, <4>2, <5>1 DEF Placed
      <4>3. CASE q \notin Range(cs)
        <5>1. life'[q] = life[q]
          BY <2>6, <4>3
        <5> QED
          BY <2>5, <4>1, <4>3, <5>1 DEF Placed
      <4> QED
        BY <4>2, <4>3
    <3> QED
      BY <2>11, <3>1 DEF PlacesOK
  <2>16. JoinsOK'
    <3>1. ASSUME NEW q \in Proc, wait'[q].kind = "fork"
          PROVE  /\ wait'[q].arg \in DOMAIN groups' /\ groups'[wait'[q].arg].parent = q
                 /\ groups'[wait'[q].arg].live /\ ~groups'[wait'[q].arg].resumed
                 /\ groups'[wait'[q].arg].kind # "join_none"
      <4>1. CASE q = p
        BY <2>3, <2>4, <2>12, <4>1
      <4>2. CASE q # p
        <5>1. wait'[q] = wait[q]
          BY <2>12, <4>2
        <5>2. wait[q].kind = "fork"
          BY <3>1, <5>1
        <5>3. /\ wait[q].arg \in DOMAIN groups /\ groups[wait[q].arg].parent = q
              /\ groups[wait[q].arg].live /\ ~groups[wait[q].arg].resumed
              /\ groups[wait[q].arg].kind # "join_none"
          BY <5>2 DEF JoinsOK
        <5> QED
          BY <2>4, <5>1, <5>3
      <4> QED
        BY <4>1, <4>2
    <3>2. ASSUME NEW q \in Proc, wait'[q].kind = "fork_all"
          PROVE  \E i \in DOMAIN groups' : groups'[i].parent = q /\ groups'[i].live
      <4>1. wait[q].kind = "fork_all"
        BY <2>3, <2>12, <3>2
      <4>2. \E i \in DOMAIN groups : groups[i].parent = q /\ groups[i].live
        BY <4>1 DEF JoinsOK
      <4> QED
        BY <2>4, <4>2
    <3> QED
      BY <3>1, <3>2 DEF JoinsOK
  <2> QED
    BY <2>0, <2>1, <2>2, <2>8, <2>12, <2>13, <2>14, <2>15, <2>16
<1> SUFFICES ASSUME Counting, Core, NEW p \in Proc, NEW kind \in {"join", "join_any", "join_none"},
                    NEW cs \in Branches, Fork(p, kind, cs)
             PROVE  /\ Core'
                    /\ wait' = wait \/ wait' = [wait EXCEPT ![p] = Wait("fork", Len(groups) + 1, {})]
  OBVIOUS
<1>1. cs \in Seq(Proc) /\ IsInjective(cs) /\ Len(cs) # 0
  <2>1. PICK m \in 1..MaxFork : cs \in [1..m -> Proc] /\ IsInjective(cs)
    BY DEF Branches
  <2>2. m \in Nat /\ m # 0
    BY <2>1, ProcessesAssumption, SMTT(60) DEF ProcessesAssumption
  <2> QED
    BY <2>1, <2>2, SMTT(60)
<1>2. CASE kind = "join_none"
  <2>1. /\ groups' = Append(groups, Group(p, kind, cs)) /\ UNCHANGED <<current, waitVars>>
        /\ work = Idle /\ current = {p} /\ \A c \in Range(cs) : life[c] = "unborn"
        /\ life' = [q \in Proc |-> IF q \in Range(cs) THEN "live" ELSE life[q]]
        /\ ran' = ran /\ suspended' = suspended /\ work' = work
    BY <1>2 DEF Fork, Calls, Range
  <2>2. UNCHANGED <<current, waitVars, ran, suspended, work>>
    BY <2>1
  <2>3. wait' = wait
    BY <2>1 DEF waitVars
  <2> QED
    BY <1>1, <1>2, <2>1, <2>2, <2>3, <1>ForkNone
<1>3. CASE kind # "join_none"
  BY <1>1, <1>3, <1>ForkJoin
<1> QED
  BY <1>2, <1>3

================================================================================
