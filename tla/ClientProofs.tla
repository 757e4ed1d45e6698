---------------------------- MODULE ClientProofs ----------------------------
(***************************************************************************)
(* Client: for any users and addresses, the threads of every client keep   *)
(* the types of the state, nothing leaves before the handshake, and the    *)
(* lists implement Directory.                                              *)
(***************************************************************************)
EXTENDS Client, TLAPS

----------------------------------------------------------------------------
(* One vector.                                                             *)

Vector == [mem : Seq(Seq(user_info)) \ {<<>>}, size : Nat]

Content(v) == v.mem[Len(v.mem)]

VectorOK(v) == v \in Vector /\ v.size <= Len(Content(v))

\* w has every block of v, and none is shorter.
NothingFreed(v, w) ==
    \A g \in DOMAIN v.mem :
        g \in DOMAIN w.mem /\ DOMAIN v.mem[g] \subseteq DOMAIN w.mem[g]

LEMMA VectorFacts ==
    ASSUME NEW v, VectorOK(v)
    PROVE  /\ v.mem \in Seq(Seq(user_info)) /\ v.mem # <<>>
           /\ Len(v.mem) \in Nat \ {0} /\ DOMAIN v.mem = 1 .. Len(v.mem)
           /\ \A g \in DOMAIN v.mem : v.mem[g] \in Seq(user_info)
           /\ Content(v) \in Seq(user_info)
           /\ Len(Content(v)) \in Nat /\ DOMAIN Content(v) = 1 .. Len(Content(v))
           /\ v.size \in Nat /\ v.size <= Len(Content(v))
           /\ \A k \in 1 .. v.size : Content(v)[k] \in user_info
BY DEF VectorOK, Vector, Content

LEMMA AppendFacts ==
    ASSUME NEW S, NEW m \in Seq(S), NEW c \in S, NEW a, a = Append(m, c)
    PROVE  /\ a \in Seq(S) /\ Len(a) = Len(m) + 1 /\ a # <<>>
           /\ DOMAIN a = 1 .. Len(m) + 1 /\ a[Len(m) + 1] = c
           /\ \A h \in 1 .. Len(m) : h \in DOMAIN a /\ a[h] = m[h]
OBVIOUS

LEMMA ReplaceFacts ==
    ASSUME NEW S, NEW m \in Seq(S), m # <<>>, NEW c \in S
    PROVE  LET a == [m EXCEPT ![Len(m)] = c]
           IN  /\ a \in Seq(S) /\ Len(a) = Len(m) /\ a # <<>>
               /\ DOMAIN a = 1 .. Len(m) /\ a[Len(m)] = c
               /\ \A h \in 1 .. Len(m) : h # Len(m) => a[h] = m[h]
OBVIOUS

\* v of n elements, its newest block written to, or copied to a new one.
InPlace(v, c, n) == [mem |-> [v.mem EXCEPT ![Len(v.mem)] = c], size |-> n]
Moved(v, c, n) == [mem |-> Append(v.mem, c), size |-> n]

LEMMA LastBlock ==
    ASSUME NEW v, VectorOK(v), NEW c \in Seq(user_info), NEW n \in Nat,
           n <= Len(c), Len(Content(v)) <= Len(c),
           NEW w \in {InPlace(v, c, n), Moved(v, c, n)}
    PROVE  VectorOK(w) /\ Content(w) = c /\ w.size = n /\ NothingFreed(v, w)
<1> DEFINE m == v.mem
           g == Len(m)
<1>1. /\ m \in Seq(Seq(user_info)) /\ m # <<>> /\ g \in Nat \ {0}
      /\ DOMAIN m = 1 .. g /\ m[g] = Content(v)
      /\ DOMAIN m[g] = 1 .. Len(m[g]) /\ Len(m[g]) \in Nat
    BY VectorFacts DEF Content
<1>2. DOMAIN c = 1 .. Len(c) /\ Len(c) \in Nat
    OBVIOUS
<1>3. DOMAIN m[g] \subseteq DOMAIN c
    BY <1>1, <1>2
<1>4. CASE w = InPlace(v, c, n)
    <2>1. w.mem = [m EXCEPT ![g] = c] /\ w.size = n
          /\ w = [mem |-> w.mem, size |-> n]
        BY <1>4 DEF InPlace
    <2> HIDE DEF m
    <2>2. /\ w.mem \in Seq(Seq(user_info)) /\ Len(w.mem) = g /\ w.mem # <<>>
          /\ DOMAIN w.mem = 1 .. g /\ w.mem[g] = c
          /\ \A h \in 1 .. g : h # g => w.mem[h] = m[h]
        BY <1>1, <2>1, ReplaceFacts
    <2>3. VectorOK(w) /\ Content(w) = c
        BY <2>1, <2>2 DEF VectorOK, Vector, Content
    <2>4. NothingFreed(v, w)
        BY <1>1, <1>3, <2>2 DEF NothingFreed, m
    <2> QED
        BY <2>1, <2>3, <2>4
<1>5. CASE w = Moved(v, c, n)
    <2>1. w.mem = Append(m, c) /\ w.size = n
          /\ w = [mem |-> w.mem, size |-> n]
        BY <1>5 DEF Moved
    <2> HIDE DEF m
    <2>2. /\ w.mem \in Seq(Seq(user_info)) /\ Len(w.mem) = g + 1 /\ w.mem # <<>>
          /\ DOMAIN w.mem = 1 .. g + 1 /\ w.mem[g + 1] = c
          /\ \A h \in 1 .. g : h \in DOMAIN w.mem /\ w.mem[h] = m[h]
        <3> DEFINE S == Seq(user_info)
        <3>1. m \in Seq(S) /\ c \in S /\ w.mem = Append(m, c)
            BY <1>1, <2>1
        <3> HIDE DEF S
        <3>2. /\ w.mem \in Seq(S) /\ Len(w.mem) = Len(m) + 1 /\ w.mem # <<>>
              /\ DOMAIN w.mem = 1 .. Len(m) + 1 /\ w.mem[Len(m) + 1] = c
              /\ \A h \in 1 .. Len(m) : h \in DOMAIN w.mem /\ w.mem[h] = m[h]
            BY <3>1, AppendFacts, SMTT(30)
        <3> QED
            BY <3>2 DEF S
    <2>3. VectorOK(w) /\ Content(w) = c
        BY <2>1, <2>2 DEF VectorOK, Vector, Content
    <2>4. NothingFreed(v, w)
        BY <1>1, <2>2 DEF NothingFreed, m
    <2> QED
        BY <2>1, <2>3, <2>4
<1> QED
    BY <1>4, <1>5

\* The lists of all clients, typed and within their newest block.
ListsOK ==
    /\ usersList = [x \in Users |-> usersList[x]]
    /\ \A x \in Users : VectorOK(usersList[x])

LEMMA ListFacts ==
    ASSUME ListsOK, NEW u \in Users
    PROVE  LET v == usersList[u]
               b == Content(v)
           IN  /\ VectorOK(v) /\ Newest(u) = b /\ Elements(u) = 1 .. v.size
               /\ b \in Seq(user_info) /\ Len(b) \in Nat /\ DOMAIN b = 1 .. Len(b)
               /\ v.size \in Nat /\ v.size <= Len(b)
               /\ \A k \in 1 .. Len(b) : b[k] \in user_info
BY VectorFacts DEF ListsOK, Content, Newest, Elements

\* push_back adds one element behind the others.
LEMMA PushBackFacts ==
    ASSUME ListsOK, NEW u \in Users, NEW e \in user_info, PushBack(u, e)
    PROVE  \E w : /\ usersList' = [usersList EXCEPT ![u] = w]
                  /\ VectorOK(w) /\ NothingFreed(usersList[u], w)
                  /\ w.size = usersList[u].size + 1
                  /\ \A k \in Elements(u) : Content(w)[k] = Newest(u)[k]
                  /\ Content(w)[w.size] = e
<1> DEFINE v == usersList[u]
           b == Content(v)
           n == v.size + 1
<1>1. /\ VectorOK(v) /\ Newest(u) = b /\ Elements(u) = 1 .. v.size
      /\ b \in Seq(user_info) /\ Len(b) \in Nat /\ DOMAIN b = 1 .. Len(b)
      /\ v.size \in Nat /\ v.size <= Len(b) /\ n \in Nat
    BY ListFacts
<1>2. v.mem[Len(v.mem)] = b /\ Len(v.mem) \in DOMAIN v.mem
    BY <1>1, VectorFacts DEF Content
<1>3. CASE /\ v.size < Len(b)
           /\ usersList' = [usersList EXCEPT
                 ![u] = [mem |-> [v.mem EXCEPT ![Len(v.mem)][n] = e], size |-> n]]
    <2> DEFINE c == [b EXCEPT ![n] = e]
    <2>1. /\ c \in Seq(user_info) /\ Len(c) = Len(b) /\ c[n] = e
          /\ \A k \in 1 .. v.size : c[k] = b[k]
        BY <1>1, <1>3
    <2>2. [v.mem EXCEPT ![Len(v.mem)][n] = e] = [v.mem EXCEPT ![Len(v.mem)] = c]
        BY <1>2
    <2>3. usersList' = [usersList EXCEPT ![u] = InPlace(v, c, n)]
        BY <1>3, <2>2 DEF InPlace
    <2>4. n <= Len(c) /\ Len(b) <= Len(c)
        BY <1>1, <1>3, <2>1
    <2> DEFINE w == InPlace(v, c, n)
    <2> HIDE DEF c
    <2>5. VectorOK(w) /\ Content(w) = c /\ w.size = n /\ NothingFreed(v, w)
        BY <1>1, <2>1, <2>4, LastBlock
    <2> HIDE DEF w
    <2> QED
        BY <1>1, <2>1, <2>3, <2>5 DEF w
<1>4. CASE /\ v.size = Len(b)
           /\ \E mem \in {[v.mem EXCEPT ![Len(v.mem)] = Append(b, e)],
                          Append(v.mem, Append(b, e))} :
                usersList' = [usersList EXCEPT ![u] = [mem |-> mem, size |-> n]]
    <2> DEFINE c == Append(b, e)
    <2>1. /\ c \in Seq(user_info) /\ Len(c) = Len(b) + 1 /\ c[n] = e
          /\ \A k \in 1 .. v.size : c[k] = b[k]
        BY <1>1, <1>4
    <2>2. PICK w \in {InPlace(v, c, n), Moved(v, c, n)} :
             usersList' = [usersList EXCEPT ![u] = w]
        BY <1>4 DEF InPlace, Moved
    <2>3. n <= Len(c) /\ Len(b) <= Len(c)
        BY <1>1, <1>4, <2>1
    <2> HIDE DEF c
    <2>4. VectorOK(w) /\ Content(w) = c /\ w.size = n /\ NothingFreed(v, w)
        BY <1>1, <2>1, <2>3, LastBlock
    <2> QED
        BY <1>1, <2>1, <2>2, <2>4
<1> QED
    BY <1>2, <1>3, <1>4 DEF PushBack

\* erase takes out the element it is given, and the others keep their order.
LEMMA EraseFacts ==
    ASSUME ListsOK, NEW u \in Users, NEW k \in Elements(u), Erase(u, k)
    PROVE  \E w : /\ usersList' = [usersList EXCEPT ![u] = w]
                  /\ VectorOK(w) /\ NothingFreed(usersList[u], w)
                  /\ w.size = usersList[u].size - 1
                  /\ \A j \in 1 .. w.size :
                        Content(w)[j] = Newest(u)[IF j >= k THEN j + 1 ELSE j]
<1> DEFINE v == usersList[u]
           b == Content(v)
           n == v.size - 1
           c == [j \in DOMAIN b |-> b[IF j \in k .. n THEN j + 1 ELSE j]]
           w == InPlace(v, c, n)
<1>1. /\ VectorOK(v) /\ Newest(u) = b /\ k \in 1 .. v.size
      /\ b \in Seq(user_info) /\ Len(b) \in Nat /\ DOMAIN b = 1 .. Len(b)
      /\ v.size \in Nat /\ v.size <= Len(b)
      /\ \A j \in 1 .. Len(b) : b[j] \in user_info
    BY ListFacts
<1>2. n \in Nat /\ n <= Len(b)
    BY <1>1
<1>3. v.mem[Len(v.mem)] = b
    BY DEF Content
<1>4. c \in Seq(user_info) /\ Len(c) = Len(b)
    <2>1. \A j \in 1 .. Len(b) :
             (IF j \in k .. n THEN j + 1 ELSE j) \in 1 .. Len(b)
        BY <1>1, <1>2
    <2>2. c \in [1 .. Len(b) -> user_info]
        BY <1>1, <2>1
    <2> HIDE DEF c
    <2> QED
        BY <1>1, <2>2
<1>5. \A j \in 1 .. n : c[j] = b[IF j >= k THEN j + 1 ELSE j]
    BY <1>1, <1>2
<1>6. usersList' = [usersList EXCEPT ![u] = w]
    BY <1>3 DEF Erase, InPlace
<1> HIDE DEF c
<1>7. VectorOK(w) /\ Content(w) = c /\ w.size = n /\ NothingFreed(v, w)
    <2>1. n <= Len(c) /\ Len(b) <= Len(c)
        BY <1>1, <1>2, <1>4
    <2> QED
        BY <1>1, <1>2, <1>4, <2>1, LastBlock
<1>8. \A j \in 1 .. w.size :
         Content(w)[j] = Newest(u)[IF j >= k THEN j + 1 ELSE j]
    BY <1>1, <1>5, <1>7
<1> HIDE DEF w, n, b, v
<1> QED
    BY <1>6, <1>7, <1>8 DEF n, v

----------------------------------------------------------------------------
(* The list as a directory.                                                *)

OnceOnly(v) ==
    \A i, j \in 1 .. v.size : Content(v)[i].id = Content(v)[j].id => i = j

KnownIn(v) == {Content(v)[k] : k \in 1 .. v.size}

LEMMA KnownFacts ==
    ASSUME NEW u \in Users, ListsOK
    PROVE  Known(u) = KnownIn(usersList[u]) /\ Elements(u) = 1 .. usersList[u].size
BY DEF Known, KnownIn, Newest, Content, Elements

\* Start and JoinMember add the entry, unless the user is listed.
LEMMA JoinFacts ==
    ASSUME ListsOK, NEW u \in Users, OnceOnly(usersList[u]),
           NEW id \in Users \cup {Server}, NEW ip \in Addresses \cup {ServerIp},
           Join(u, id, ip), ~Lists(u, id)
    PROVE  \E w : /\ usersList' = [usersList EXCEPT ![u] = w]
                  /\ VectorOK(w) /\ NothingFreed(usersList[u], w) /\ OnceOnly(w)
                  /\ KnownIn(w) = KnownIn(usersList[u]) \cup {[id |-> id, ip |-> ip]}
<1> DEFINE v == usersList[u]
           b == Content(v)
           e == [id |-> id, ip |-> ip]
<1>1. e \in user_info /\ PushBack(u, e)
    BY DEF Join, user_info
<1>2. e.id = id
    OBVIOUS
<1> HIDE DEF e
<1>3. /\ Newest(u) = b /\ Elements(u) = 1 .. v.size /\ v.size \in Nat
    BY ListFacts
<1>4. PICK w : /\ usersList' = [usersList EXCEPT ![u] = w]
               /\ VectorOK(w) /\ NothingFreed(v, w)
               /\ w.size = v.size + 1
               /\ \A k \in 1 .. v.size : Content(w)[k] = b[k]
               /\ Content(w)[w.size] = e
    BY <1>1, <1>3, PushBackFacts
<1>5. \A k \in 1 .. v.size : b[k].id # id
    BY <1>3 DEF Lists, Known
<1>6. 1 .. w.size = (1 .. v.size) \cup {w.size} /\ w.size \notin 1 .. v.size
    BY <1>3, <1>4
<1>7. OnceOnly(w)
    <2>1. \A i, j \in 1 .. v.size : b[i].id = b[j].id => i = j
        BY DEF OnceOnly
    <2> HIDE DEF v, b
    <2> QED
        BY <1>2, <1>4, <1>5, <1>6, <2>1 DEF OnceOnly
<1> HIDE DEF v, b
<1>8. KnownIn(w) = KnownIn(v) \cup {e}
    BY <1>4, <1>6 DEF KnownIn, b
<1> QED
    BY <1>4, <1>7, <1>8 DEF e, v

\* LeftMember takes the user's entry out, and no other.
LEMMA EraseKnown ==
    ASSUME ListsOK, NEW u \in Users, OnceOnly(usersList[u]),
           NEW k \in Elements(u), Erase(u, k), NEW id, Newest(u)[k].id = id
    PROVE  \E w : /\ usersList' = [usersList EXCEPT ![u] = w]
                  /\ VectorOK(w) /\ NothingFreed(usersList[u], w) /\ OnceOnly(w)
                  /\ KnownIn(w) = {m \in KnownIn(usersList[u]) : m.id # id}
<1> DEFINE v == usersList[u]
           b == Content(v)
           F(j) == IF j >= k THEN j + 1 ELSE j
<1>1. /\ Newest(u) = b /\ Elements(u) = 1 .. v.size /\ v.size \in Nat
      /\ k \in 1 .. v.size
    BY ListFacts
<1>2. PICK w : /\ usersList' = [usersList EXCEPT ![u] = w]
               /\ VectorOK(w) /\ NothingFreed(v, w)
               /\ w.size = v.size - 1
               /\ \A j \in 1 .. w.size : Content(w)[j] = b[F(j)]
    BY <1>1, EraseFacts
<1>3. \A j \in 1 .. w.size : F(j) \in 1 .. v.size /\ F(j) # k
    BY <1>1, <1>2
<1>4. \A i, j \in 1 .. w.size : F(i) = F(j) => i = j
    BY <1>1, <1>2
<1>5. \A j \in 1 .. v.size : j # k => \E i \in 1 .. w.size : F(i) = j
    <2> TAKE j \in 1 .. v.size
    <2> HAVE j # k
    <2>1. CASE j < k
        BY <1>1, <1>2, <2>1
    <2>2. CASE j > k
        <3>1. j - 1 \in 1 .. w.size /\ F(j - 1) = j
            BY <1>1, <1>2, <2>2
        <3> QED
            BY <3>1
    <2> QED
        BY <1>1, <2>1, <2>2
<1> HIDE DEF F, v, b
<1>6. \A i, j \in 1 .. v.size : b[i].id = b[j].id => i = j
    BY DEF OnceOnly, v, b
<1>7. b[k].id = id
    BY <1>1
<1>8. OnceOnly(w)
    BY <1>2, <1>3, <1>4, <1>6 DEF OnceOnly
<1>9. KnownIn(v) = {b[j] : j \in 1 .. v.size}
    BY DEF KnownIn, b
<1>10. \A m : m \in KnownIn(w) <=> m \in KnownIn(v) /\ m.id # id
    <2>1. ASSUME NEW j \in 1 .. w.size
          PROVE  Content(w)[j] \in KnownIn(v) /\ Content(w)[j].id # id
        BY <1>1, <1>2, <1>3, <1>6, <1>7, <1>9, <2>1
    <2>2. ASSUME NEW j \in 1 .. v.size, b[j].id # id
          PROVE  b[j] \in KnownIn(w)
        <3>1. PICK i \in 1 .. w.size : F(i) = j
            BY <1>5, <1>7, <2>2
        <3>2. Content(w)[i] = b[j]
            BY <1>2, <3>1
        <3> QED
            BY <3>2 DEF KnownIn
    <2> QED
        BY <1>9, <2>1, <2>2 DEF KnownIn
<1>11. KnownIn(w) = {m \in KnownIn(v) : m.id # id}
    BY <1>10
<1> QED
    BY <1>2, <1>8, <1>11 DEF v

----------------------------------------------------------------------------
(* The invariant.                                                          *)

AtRest == {"idle", "terminated"}

\* A position kept over a wait is one that was written.
PositionsOK ==
    \A u \in Users : tun[u].pc \notin AtRest =>
        /\ tun[u].gen \in DOMAIN usersList[u].mem
        /\ tun[u].k \in DOMAIN usersList[u].mem[tun[u].gen]

RestOK ==
    /\ tunIp \in [Users -> Addresses \cup {NoIp}]
    /\ mtx_ready \in [Users -> BOOLEAN]
    /\ sys \in [Users -> [pc : {"idle", "started", "ready"}]
                           \cup [pc : {"received"}, ip : Addresses]]
    /\ tun \in [Users -> [pc : AtRest] \cup TunFound]

ListedOnce == \A u \in Users : OnceOnly(usersList[u])

\* The device is started before anybody is told that it is, and only then
\* does a packet get past the wait.
HandshakeFirst ==
    \A u \in Users :
        /\ mtx_ready[u] \/ sys[u].pc \in {"started", "ready"} => tunIp[u] # NoIp
        /\ tun[u].pc = "sending" => mtx_ready[u]

IInv == ListsOK /\ PositionsOK /\ RestOK /\ ListedOnce /\ HandshakeFirst

LEMMA IInvTypes == IInv => TypeOK
<1> SUFFICES ASSUME IInv PROVE TypeOK
    OBVIOUS
<1>1. usersList \in [Users -> Vector]
    BY DEF IInv, ListsOK, VectorOK
<1>2. \A u \in Users : usersList[u].size <= Len(Newest(u))
    BY DEF IInv, ListsOK, VectorOK, Content, Newest
<1> QED
    BY <1>1, <1>2 DEF IInv, TypeOK, Vector, PositionsOK, RestOK, AtRest

LEMMA InitIInv == Init => IInv
<1> SUFFICES ASSUME Init PROVE IInv
    OBVIOUS
<1> DEFINE v == [mem |-> << <<>> >>, size |-> 0]
<1>1. v \in Vector
    BY DEF Vector
<1>2. v.size = 0 /\ Content(v) = <<>> /\ Len(Content(v)) = 0
    BY DEF Content
<1>3. VectorOK(v) /\ OnceOnly(v)
    BY <1>1, <1>2 DEF VectorOK, OnceOnly
<1>4. usersList = [u \in Users |-> v]
    BY DEF Init
<1> HIDE DEF v
<1>5. ListsOK /\ ListedOnce
    BY <1>3, <1>4 DEF ListsOK, ListedOnce
<1>6. PositionsOK /\ RestOK /\ HandshakeFirst
    BY DEF Init, Idle, PositionsOK, RestOK, AtRest, HandshakeFirst
<1> QED
    BY <1>5, <1>6 DEF IInv

\* One list changes and frees nothing; nothing else changes.
LEMMA ListStep ==
    ASSUME IInv, NEW u \in Users, NEW w, VectorOK(w),
           NothingFreed(usersList[u], w), OnceOnly(w),
           usersList' = [usersList EXCEPT ![u] = w],
           UNCHANGED <<tunIp, mtx_ready, sys, tun>>
    PROVE  IInv'
<1>1. /\ usersList' = [x \in Users |-> usersList'[x]] /\ usersList'[u] = w
      /\ \A x \in Users : x # u => usersList'[x] = usersList[x]
    BY DEF IInv, ListsOK
<1>2. ListsOK' /\ ListedOnce'
    <2>1. \A x \in Users : VectorOK(usersList'[x]) /\ OnceOnly(usersList'[x])
        BY <1>1 DEF IInv, ListsOK, ListedOnce
    <2> QED
        BY <1>1, <2>1 DEF ListsOK, ListedOnce
<1>3. PositionsOK'
    BY <1>1 DEF IInv, PositionsOK, NothingFreed
<1> QED
    BY <1>2, <1>3 DEF IInv, RestOK, HandshakeFirst

LEMMA IInvJoin ==
    ASSUME IInv, NEW u \in Users, NEW id \in Users \cup {Server},
           NEW ip \in Addresses \cup {ServerIp}, Join(u, id, ip)
    PROVE  IInv'
<1>1. CASE Lists(u, id)
    BY <1>1 DEF Join, IInv, ListsOK, ListedOnce, PositionsOK, RestOK, HandshakeFirst
<1>2. CASE ~Lists(u, id)
    <2>1. PICK w : /\ usersList' = [usersList EXCEPT ![u] = w]
                   /\ VectorOK(w) /\ NothingFreed(usersList[u], w) /\ OnceOnly(w)
        BY <1>2, JoinFacts DEF IInv, ListedOnce
    <2> QED
        BY <2>1, ListStep DEF Join
<1> QED
    BY <1>1, <1>2

LEMMA IInvLeft ==
    ASSUME IInv, NEW u \in Users, NEW id \in Users, LeftMember(u, id)
    PROVE  IInv'
<1>1. CASE Lists(u, id)
    <2>1. PICK k \in Elements(u) : Newest(u)[k].id = id /\ Erase(u, k)
        BY <1>1 DEF LeftMember
    <2>2. PICK w : /\ usersList' = [usersList EXCEPT ![u] = w]
                   /\ VectorOK(w) /\ NothingFreed(usersList[u], w) /\ OnceOnly(w)
        BY <2>1, EraseKnown DEF IInv, ListedOnce
    <2> QED
        BY <2>2, ListStep DEF LeftMember
<1>2. CASE ~Lists(u, id)
    BY <1>2 DEF LeftMember, IInv, ListsOK, ListedOnce, PositionsOK, RestOK,
                HandshakeFirst
<1> QED
    BY <1>1, <1>2

\* The steps that leave every list alone.
Quiet(u) ==
    \/ \E ip \in Addresses : ReceiveHandshake(u, ip)
    \/ Ends(u)
    \/ System(u)
    \/ \E dest \in Addresses \cup {ServerIp} : TunPacket(u, dest)
    \/ Waiting(u)
    \/ Sending(u)

LEMMA QuietLists ==
    ASSUME NEW u \in Users, Quiet(u)
    PROVE  UNCHANGED usersList
BY DEF Quiet, ReceiveHandshake, Ends, System, StartDevice, SetReady, NotifyAll, TunPacket, Waiting,
       Pass, FindNotReady, Block, TimeOut, TunAt, TimeOutThrows, Sending, TunSend

LEMMA IInvHandshake ==
    ASSUME IInv, NEW u \in Users,
           (\E ip \in Addresses : ReceiveHandshake(u, ip)) \/ System(u)
    PROVE  RestOK' /\ PositionsOK' /\ HandshakeFirst'
<1> USE DEF IInv
<1>1. ASSUME NEW ip \in Addresses, ReceiveHandshake(u, ip)
      PROVE  RestOK' /\ PositionsOK' /\ HandshakeFirst'
    BY <1>1 DEF ReceiveHandshake, RestOK, PositionsOK, HandshakeFirst, Idle
<1>2. CASE SetReady(u)
    BY <1>2 DEF SetReady, RestOK, PositionsOK, HandshakeFirst
<1>3. CASE NotifyAll(u)
    <2>1. CASE tun[u].pc = "blocked"
        <3>1. tun' = [tun EXCEPT ![u].pc = "found"] /\ tun[u] \in TunFound
            BY <1>3, <2>1 DEF NotifyAll, RestOK, AtRest
        <3> QED
            BY <1>3, <2>1, <3>1
               DEF NotifyAll, RestOK, PositionsOK, HandshakeFirst, Idle, TunFound,
                   AtRest
    <2>2. CASE tun[u].pc # "blocked"
        <3>1. tun' = tun
            BY <1>3, <2>2 DEF NotifyAll, RestOK
        <3> QED
            BY <1>3, <3>1 DEF NotifyAll, RestOK, PositionsOK, HandshakeFirst, Idle
    <2> QED
        BY <2>1, <2>2
<1>4. CASE StartDevice(u)
    <2>1. sys[u].ip \in Addresses
        BY <1>4 DEF StartDevice, RestOK
    <2>2. tunIp' \in [Users -> Addresses \cup {NoIp}] /\ tunIp'[u] # NoIp
          /\ \A x \in Users : x # u => tunIp'[x] = tunIp[x]
        BY <1>4, <2>1, ClientAssumption DEF StartDevice, RestOK
    <2> QED
        BY <1>4, <2>2 DEF StartDevice, RestOK, PositionsOK, HandshakeFirst
<1> QED
    BY <1>1, <1>2, <1>3, <1>4 DEF System

LEMMA IInvTunAt ==
    ASSUME IInv, NEW u \in Users, NEW from, NEW to \in {"unready", "blocked", "sending"},
           from \in {"found", "unready", "blocked"},
           TunAt(u, from, to), to = "sending" => mtx_ready[u]
    PROVE  RestOK' /\ PositionsOK' /\ HandshakeFirst'
<1>1. tun[u] \in TunFound /\ tun' = [tun EXCEPT ![u].pc = to]
    BY DEF IInv, RestOK, TunAt, AtRest
<1>2. /\ tun'[u] \in TunFound /\ tun'[u].pc = to
      /\ tun'[u].gen = tun[u].gen /\ tun'[u].k = tun[u].k
      /\ \A x \in Users : x # u => tun'[x] = tun[x]
      /\ tun' = [x \in Users |-> tun'[x]]
    BY <1>1 DEF IInv, RestOK, TunFound
<1>3. tun[u].pc \notin AtRest
    BY DEF TunAt, AtRest
<1>4. RestOK'
    BY <1>2 DEF IInv, TunAt, RestOK
<1>5. PositionsOK'
    BY <1>2, <1>3 DEF IInv, TunAt, PositionsOK
<1>6. HandshakeFirst'
    BY <1>2 DEF IInv, TunAt, HandshakeFirst
<1> QED
    BY <1>4, <1>5, <1>6

LEMMA IInvTun ==
    ASSUME IInv, NEW u \in Users,
           \/ \E dest \in Addresses \cup {ServerIp} : TunPacket(u, dest)
           \/ Waiting(u)
           \/ Sending(u)
           \/ Ends(u)
    PROVE  RestOK' /\ PositionsOK' /\ HandshakeFirst'
<1> USE DEF IInv
<1>1. ASSUME NEW dest \in Addresses \cup {ServerIp}, TunPacket(u, dest)
      PROVE  RestOK' /\ PositionsOK' /\ HandshakeFirst'
    <2>1. PICK k \in Elements(u) :
             tun' = [tun EXCEPT ![u] =
                [pc |-> "found", dest |-> dest,
                 gen |-> Len(usersList[u].mem), k |-> k]]
        BY <1>1 DEF TunPacket
    <2>2. /\ Len(usersList[u].mem) \in DOMAIN usersList[u].mem
          /\ Len(usersList[u].mem) \in Nat /\ k \in Nat
          /\ k \in DOMAIN usersList[u].mem[Len(usersList[u].mem)]
        BY ListFacts, VectorFacts DEF ListsOK, Content
    <2> QED
        BY <1>1, <2>1, <2>2
           DEF TunPacket, RestOK, PositionsOK, HandshakeFirst, TunFound
<1>2. CASE TimeOutThrows(u)
    BY <1>2 DEF TimeOutThrows, RestOK, PositionsOK, HandshakeFirst, Idle, AtRest
<1>3. CASE Pass(u) \/ FindNotReady(u) \/ Block(u) \/ TimeOut(u)
    BY <1>3, IInvTunAt DEF Pass, FindNotReady, Block, TimeOut
<1>4. CASE Sending(u)
    BY <1>4
       DEF Sending, TunSend, RestOK, PositionsOK, HandshakeFirst, Idle, AtRest
<1>5. CASE Ends(u)
    BY <1>5 DEF Ends, RestOK, PositionsOK, HandshakeFirst, AtRest
<1> QED
    BY <1>1, <1>2, <1>3, <1>4, <1>5 DEF Waiting

LEMMA IInvStep == IInv /\ [Next]_vars => IInv'
<1> SUFFICES ASSUME IInv, [Next]_vars PROVE IInv'
    OBVIOUS
<1>1. CASE UNCHANGED vars
    BY <1>1 DEF vars, IInv, ListsOK, ListedOnce, PositionsOK, RestOK, HandshakeFirst
<1>2. ASSUME NEW u \in Users, Step(u) PROVE IInv'
    <2>1. CASE Start(u)
        BY <2>1, IInvJoin DEF Start
    <2>2. ASSUME NEW id \in Users, NEW ip \in Addresses, JoinMember(u, id, ip)
          PROVE  IInv'
        BY <2>2, IInvJoin DEF JoinMember
    <2>3. ASSUME NEW id \in Users, LeftMember(u, id) PROVE IInv'
        BY <2>3, IInvLeft
    <2>4. CASE Quiet(u)
        <3>1. RestOK' /\ PositionsOK' /\ HandshakeFirst'
            BY <2>4, IInvHandshake, IInvTun DEF Quiet
        <3>2. UNCHANGED usersList
            BY <2>4, QuietLists
        <3> QED
            BY <3>1, <3>2 DEF IInv, ListsOK, ListedOnce
    <2> QED
        BY <1>2, <2>1, <2>2, <2>3, <2>4 DEF Step, Quiet
<1> QED
    BY <1>1, <1>2 DEF Next

LEMMA InvariantIInv == Spec => []IInv
BY InitIInv, IInvStep, PTL DEF Spec

\* The state keeps its types, and no thread a position that was never written,
\* in clients of any number that hear of joins and departures in any order.
THEOREM ClientTypes == Spec => []TypeOK
BY InvariantIInv, IInvTypes, PTL

\* Whatever is sent is sent with the handshake handled: no order of handshake,
\* notification, wait and timeout lets a packet out before.
THEOREM NothingBeforeHandshake == Spec => BlockedUntilHandshake
<1>1. IInv => (\A u \in Users : Sending(u) => mtx_ready[u] /\ tunIp[u] # NoIp)
    BY DEF IInv, HandshakeFirst, Sending, TunSend
<1> QED
    BY <1>1, InvariantIInv, PTL DEF BlockedUntilHandshake

----------------------------------------------------------------------------
(* The clients implement Directory.                                        *)

known == [u \in Users |-> Known(u)]

LEMMA KnownStep ==
    ASSUME IInv, IInv', NEW u \in Users, NEW w,
           usersList' = [usersList EXCEPT ![u] = w]
    PROVE  known' = [known EXCEPT ![u] = KnownIn(w)]
<1>1. /\ usersList'[u] = w
      /\ \A x \in Users : x # u => usersList'[x] = usersList[x]
    BY DEF IInv, ListsOK
<1>2. \A x \in Users : Known(x) = KnownIn(usersList[x])
    BY KnownFacts DEF IInv
<1>3. \A x \in Users : Known(x)' = KnownIn(usersList'[x])
    BY DEF Known, KnownIn, Newest, Content, Elements
<1> QED
    BY <1>1, <1>2, <1>3, ZenonT(30) DEF known

LEMMA SameKnown == UNCHANGED usersList => UNCHANGED known
BY DEF known, Known, Newest, Elements

LEMMA DirectoryStep ==
    ASSUME IInv, IInv', [Next]_vars
    PROVE  [AsDirectory!Next]_known
<1>1. CASE UNCHANGED vars
    BY <1>1, SameKnown DEF vars
<1>2. ASSUME NEW u \in Users, Step(u) PROVE [AsDirectory!Next]_known
    <2>1. known[u] = KnownIn(usersList[u]) /\ known[u] = Known(u)
        BY KnownFacts DEF known, IInv
    <2>2. usersList[u].size \in Nat
        BY ListFacts DEF IInv
    <2>3. CASE Start(u)
        <3>1. known[u] = {} /\ ~Lists(u, Server) /\ Join(u, Server, ServerIp)
            BY <2>1, <2>3 DEF Start, KnownIn, Lists
        <3>2. PICK w : /\ usersList' = [usersList EXCEPT ![u] = w]
                       /\ KnownIn(w) = KnownIn(usersList[u])
                                          \cup {[id |-> Server, ip |-> ServerIp]}
            BY <3>1, JoinFacts DEF IInv, ListedOnce
        <3>3. KnownIn(w) = {[id |-> Server, ip |-> ServerIp]}
            BY <2>1, <3>1, <3>2
        <3>4. known' = [known EXCEPT ![u] = {[id |-> Server, ip |-> ServerIp]}]
            BY <3>2, <3>3, KnownStep
        <3>5. AsDirectory!Open(u)
            BY <3>1, <3>4 DEF AsDirectory!Open, known
        <3> QED
            BY <3>5 DEF AsDirectory!Next
    <2>4. ASSUME NEW id \in Users, NEW ip \in Addresses, Started(u),
                 JoinMember(u, id, ip)
          PROVE  [AsDirectory!Next]_known
        <3>1. CASE Lists(u, id)
            BY <2>4, <3>1, SameKnown DEF JoinMember, Join
        <3>2. CASE ~Lists(u, id)
            <4>1. PICK w : /\ usersList' = [usersList EXCEPT ![u] = w]
                           /\ KnownIn(w) = KnownIn(usersList[u])
                                              \cup {[id |-> id, ip |-> ip]}
                BY <2>4, <3>2, JoinFacts DEF IInv, ListedOnce, JoinMember
            <4>2. known[u] # {} /\ \A m \in known[u] : m.id # id
                BY <2>1, <2>2, <2>4, <3>2 DEF Started, KnownIn, Lists
            <4>3. known' = [known EXCEPT ![u] = @ \cup {[id |-> id, ip |-> ip]}]
                <5>1. KnownIn(w) = known[u] \cup {[id |-> id, ip |-> ip]}
                    BY <2>1, <4>1
                <5> QED
                    BY <4>1, <5>1, KnownStep
            <4>4. AsDirectory!Learn(u, id, ip)
                BY <4>2, <4>3 DEF AsDirectory!Learn, known
            <4> QED
                BY <4>4 DEF AsDirectory!Next
        <3> QED
            BY <3>1, <3>2
    <2>5. ASSUME NEW id \in Users, LeftMember(u, id)
          PROVE  [AsDirectory!Next]_known
        <3>1. CASE ~Lists(u, id)
            BY <2>5, <3>1, SameKnown DEF LeftMember
        <3>2. CASE Lists(u, id)
            <4>1. PICK k \in Elements(u) : Newest(u)[k].id = id /\ Erase(u, k)
                BY <2>5, <3>2 DEF LeftMember
            <4>2. PICK w : /\ usersList' = [usersList EXCEPT ![u] = w]
                           /\ KnownIn(w) = {m \in KnownIn(usersList[u]) : m.id # id}
                BY <4>1, EraseKnown DEF IInv, ListedOnce
            <4>3. AsDirectory!Forget(u, id)
                BY <2>1, <4>2, KnownStep, ZenonT(30) DEF AsDirectory!Forget, known
            <4> QED
                BY <4>3 DEF AsDirectory!Next
        <3> QED
            BY <3>1, <3>2
    <2>6. CASE Quiet(u)
        BY <2>6, QuietLists, SameKnown
    <2> QED
        BY <1>2, <2>3, <2>4, <2>5, <2>6 DEF Step, Quiet
<1> QED
    BY <1>1, <1>2 DEF Next

\* A client's list is a directory: whoever has joined and not left since, once,
\* with the address of its first join.
THEOREM ClientKeepsDirectory == Spec => KeepsDirectory
<1>1. Init => AsDirectory!Init
    BY DEF Init, AsDirectory!Init, Known, Elements
<1>2. IInv /\ IInv' /\ [Next]_vars => [AsDirectory!Next]_known
    BY DirectoryStep
<1> QED
    BY <1>1, <1>2, InvariantIInv, PTL
       DEF Spec, KeepsDirectory, AsDirectory!Spec, known

=============================================================================
