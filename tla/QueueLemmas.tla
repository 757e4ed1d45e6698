---------------------------- MODULE QueueLemmas ----------------------------
(***************************************************************************)
(* A queue q without repetitions and a set U that together partition S:    *)
(* what the address pool relies on when an address moves between the two.  *)
(***************************************************************************)
EXTENDS Integers, Sequences, TLAPS

Elems(q) == {q[i] : i \in DOMAIN q}

Partitions(q, U, S) ==
    /\ q \in Seq(S)
    /\ U \subseteq S
    /\ \A i, j \in DOMAIN q : q[i] = q[j] => i = j
    /\ Elems(q) \cap U = {}
    /\ Elems(q) \cup U = S

\* The head is one of the queue's elements, so not in the set.
LEMMA HeadIsFree ==
    ASSUME NEW S, NEW q, NEW U, Partitions(q, U, S), q # <<>>
    PROVE  Head(q) \in S /\ Head(q) \notin U
<1>1. 1 \in DOMAIN q /\ Head(q) = q[1]
    BY DEF Partitions
<1> QED
    BY <1>1 DEF Partitions, Elems

\* Moving the head of the queue into the set keeps the partition.
LEMMA TakeHead ==
    ASSUME NEW S, NEW q, NEW U, Partitions(q, U, S), q # <<>>
    PROVE  Partitions(Tail(q), U \cup {Head(q)}, S)
<1> DEFINE n == Len(q)
           t == Tail(q)
<1>1. /\ n \in Nat \ {0} /\ DOMAIN q = 1 .. n /\ Head(q) = q[1]
      /\ t \in Seq(S) /\ Len(t) = n - 1 /\ DOMAIN t = 1 .. n - 1
      /\ \A i \in 1 .. n - 1 : t[i] = q[i + 1]
      /\ \A i \in 1 .. n : q[i] \in S
    BY DEF Partitions
<1>2. \A i, j \in 1 .. n : q[i] = q[j] => i = j
    BY <1>1 DEF Partitions
<1>3. ASSUME NEW i \in DOMAIN t, NEW j \in DOMAIN t, t[i] = t[j]
      PROVE  i = j
    <2>1. i + 1 \in 1 .. n /\ j + 1 \in 1 .. n /\ q[i + 1] = q[j + 1]
        BY <1>1, <1>3
    <2>2. i + 1 = j + 1
        BY <1>2, <2>1
    <2> QED
        BY <1>1, <2>2
<1>4. ASSUME NEW i \in DOMAIN t
      PROVE  t[i] \in Elems(q) /\ t[i] # Head(q)
    <2>1. i + 1 \in 1 .. n /\ 1 \in 1 .. n /\ i + 1 # 1 /\ t[i] = q[i + 1]
        BY <1>1
    <2> QED
        BY <1>1, <1>2, <2>1 DEF Elems
<1>5. ASSUME NEW a \in Elems(q), a # Head(q)
      PROVE  a \in Elems(t)
    <2>1. PICK i \in 1 .. n : q[i] = a
        BY <1>1 DEF Elems
    <2>2. i - 1 \in 1 .. n - 1 /\ (i - 1) + 1 = i
        BY <1>1, <1>5, <2>1
    <2>3. t[i - 1] = a
        BY <1>1, <2>1, <2>2
    <2> QED
        BY <1>1, <2>2, <2>3 DEF Elems
<1>6. Elems(t) = Elems(q) \ {Head(q)}
    <2>1. \A a \in Elems(t) : a \in Elems(q) /\ a # Head(q)
        BY <1>4 DEF Elems
    <2> QED
        BY <1>5, <2>1
<1>7. Head(q) \in Elems(q) /\ Head(q) \in S
    BY <1>1 DEF Elems
<1> HIDE DEF t
<1>8. Partitions(t, U \cup {Head(q)}, S)
    BY <1>1, <1>3, <1>6, <1>7 DEF Partitions
<1> QED
    BY <1>8 DEF t

\* Moving an element of the set to the end of the queue keeps the partition.
LEMMA PutBack ==
    ASSUME NEW S, NEW q, NEW U, Partitions(q, U, S), NEW a \in U
    PROVE  Partitions(Append(q, a), U \ {a}, S)
<1> DEFINE n == Len(q)
           p == Append(q, a)
<1>1. /\ n \in Nat /\ DOMAIN q = 1 .. n /\ DOMAIN p = 1 .. n + 1
      /\ \A i \in 1 .. n : p[i] = q[i]
      /\ p[n + 1] = a /\ p \in Seq(S)
    BY DEF Partitions
<1>2. Elems(p) = Elems(q) \cup {a}
    BY <1>1 DEF Elems
<1>3. \A i \in DOMAIN q : q[i] # a
    BY DEF Partitions, Elems
<1> HIDE DEF p
<1>4. \A i, j \in DOMAIN p : p[i] = p[j] => i = j
    BY <1>1, <1>3 DEF Partitions
<1>5. Partitions(p, U \ {a}, S)
    BY <1>1, <1>2, <1>4 DEF Partitions
<1> QED
    BY <1>5 DEF p

=============================================================================
