---------------------------- MODULE ServerProofs ----------------------------
(***************************************************************************)
(* Server: for any users, any pool and any ping times, the four threads    *)
(* keep the types of the state, one user per address and one place per     *)
(* address, and implement Membership.                                      *)
(***************************************************************************)
EXTENDS Server, QueueLemmas, FiniteSetTheorems

----------------------------------------------------------------------------
(* The list.                                                               *)

ListOK ==
    /\ blocks \in Seq(Seq(user_info)) \ {<<>>}
    /\ lastPing \in Seq(Age)
    /\ size <= Len(blocks[cur])

LEMMA ListFacts ==
    ASSUME ListOK
    PROVE  /\ cur \in Nat \ {0} /\ cur \in DOMAIN blocks
           /\ DOMAIN blocks = 1 .. cur
           /\ \A g \in DOMAIN blocks :
                /\ blocks[g] \in Seq(user_info)
                /\ Len(blocks[g]) \in Nat
                /\ DOMAIN blocks[g] = 1 .. Len(blocks[g])
                /\ \A k \in 1 .. Len(blocks[g]) : blocks[g][k] \in user_info
           /\ size \in Nat /\ DOMAIN lastPing = 1 .. size
           /\ \A k \in 1 .. size : lastPing[k] \in Age
           /\ \A k \in Elements : At(k) \in user_info /\ k \in DOMAIN blocks[cur]
BY DEF ListOK, cur, size, Elements, At

\* push_back keeps every element and adds one; no block gets shorter, and no
\* slot of any block holds anything but an old entry or the new one.
LEMMA PushBackFacts ==
    ASSUME ListOK, NEW e \in user_info, PushBack(e)
    PROVE  /\ ListOK'
           /\ size' = size + 1
           /\ \A k \in Elements : blocks'[cur'][k] = At(k)
           /\ blocks'[cur'][size + 1] = e
           /\ \A g \in DOMAIN blocks :
                g \in DOMAIN blocks' /\ Len(blocks'[g]) >= Len(blocks[g])
           /\ \A g \in DOMAIN blocks' : \A k \in DOMAIN blocks'[g] :
                \/ blocks'[g][k] = e
                \/ \E h \in DOMAIN blocks : \E j \in DOMAIN blocks[h] :
                      blocks'[g][k] = blocks[h][j]
<1> DEFINE b == blocks[cur]
           n == Len(blocks)
<1>1. /\ n \in Nat \ {0} /\ n = cur /\ DOMAIN blocks = 1 .. n /\ n \in DOMAIN blocks
      /\ \A g \in 1 .. n : /\ blocks[g] \in Seq(user_info) /\ Len(blocks[g]) \in Nat
                           /\ DOMAIN blocks[g] = 1 .. Len(blocks[g])
      /\ blocks \in Seq(Seq(user_info)) /\ size \in Nat /\ lastPing \in Seq(Age)
    BY ListFacts DEF cur, ListOK
<1>2. b \in Seq(user_info) /\ Len(b) \in Nat /\ size <= Len(b)
    BY <1>1 DEF ListOK
<1>3. Epoch \in Age
    BY PingAssumption DEF Epoch, Age
<1>4. lastPing' \in Seq(Age) /\ size' = size + 1
    BY <1>1, <1>3 DEF PushBack, size
<1>5. CASE size < Len(b) /\ blocks' = [blocks EXCEPT ![cur][size + 1] = e]
    <2> DEFINE c == [b EXCEPT ![size + 1] = e]
    <2>1. /\ c \in Seq(user_info) /\ Len(c) = Len(b) /\ DOMAIN c = DOMAIN b
          /\ c[size + 1] = e
          /\ \A k \in DOMAIN b : k # size + 1 => c[k] = b[k]
        BY <1>1, <1>2, <1>5
    <2> HIDE DEF c
    <2>2. blocks' = [blocks EXCEPT ![cur] = c]
        BY <1>1, <1>5 DEF c
    <2>3. /\ blocks' \in Seq(Seq(user_info)) /\ Len(blocks') = n
          /\ DOMAIN blocks' = 1 .. n /\ blocks'[n] = c
          /\ \A g \in 1 .. n : g # n => blocks'[g] = blocks[g]
        BY <1>1, <2>1, <2>2
    <2>4. cur' = cur
        BY <2>3, <1>1 DEF cur
    <2>5. blocks' # <<>>
        BY <2>3, <1>1
    <2>6. ListOK'
        BY <1>1, <1>2, <1>4, <1>5, <2>1, <2>3, <2>4, <2>5 DEF ListOK
    <2>7. (\A k \in Elements : blocks'[cur'][k] = At(k)) /\ blocks'[cur'][size + 1] = e
        BY <1>1, <1>2, <1>4, <1>5, <2>1, <2>3, <2>4, <2>5 DEF At, Elements
    <2>8. \A g \in DOMAIN blocks :
             g \in DOMAIN blocks' /\ Len(blocks'[g]) >= Len(blocks[g])
        BY <1>1, <1>2, <1>5, <2>1, <2>3, <2>4, <2>5
    <2>9. ASSUME NEW g \in DOMAIN blocks', NEW k \in DOMAIN blocks'[g]
          PROVE  \/ blocks'[g][k] = e
                 \/ \E h \in DOMAIN blocks : \E j \in DOMAIN blocks[h] :
                       blocks'[g][k] = blocks[h][j]
        <3>1. CASE g = n
            <4>1. blocks'[g][k] = c[k] /\ k \in DOMAIN c
                BY <3>1, <2>3, <2>9
            <4>2. c[k] = e \/ (k \in DOMAIN b /\ c[k] = b[k])
                BY <1>2, <2>1, <4>1
            <4> QED
                BY <1>1, <4>1, <4>2
        <3>2. CASE g # n
            <4>1. g \in DOMAIN blocks /\ blocks'[g] = blocks[g]
                BY <1>1, <3>2, <2>3, <2>9
            <4> QED
                BY <4>1, <2>9
        <3> QED
            BY <3>1, <3>2
    <2> QED
        BY <1>4, <2>6, <2>7, <2>8, <2>9
<1>6. CASE size = Len(b) /\ blocks' = [blocks EXCEPT ![cur] = Append(@, e)]
    <2> DEFINE c == Append(b, e)
    <2>1. /\ c \in Seq(user_info) /\ Len(c) = Len(b) + 1
          /\ DOMAIN c = 1 .. Len(b) + 1 /\ c[Len(b) + 1] = e
          /\ \A k \in 1 .. Len(b) : c[k] = b[k]
        BY <1>1, <1>2
    <2> HIDE DEF c
    <2>2. blocks' = [blocks EXCEPT ![cur] = c]
        BY <1>1, <1>6 DEF c
    <2>3. /\ blocks' \in Seq(Seq(user_info)) /\ Len(blocks') = n
          /\ DOMAIN blocks' = 1 .. n /\ blocks'[n] = c
          /\ \A g \in 1 .. n : g # n => blocks'[g] = blocks[g]
        BY <1>1, <2>1, <2>2
    <2>4. cur' = cur /\ blocks' # <<>>
        BY <2>3, <1>1 DEF cur
    <2>6. ListOK'
        BY <1>1, <1>2, <1>4, <1>6, <2>1, <2>3, <2>4 DEF ListOK
    <2>7. (\A k \in Elements : blocks'[cur'][k] = At(k)) /\ blocks'[cur'][size + 1] = e
        BY <1>1, <1>2, <1>4, <1>6, <2>1, <2>3, <2>4 DEF At, Elements
    <2>8. \A g \in DOMAIN blocks :
             g \in DOMAIN blocks' /\ Len(blocks'[g]) >= Len(blocks[g])
        BY <1>1, <1>2, <1>6, <2>1, <2>3, <2>4
    <2>9. ASSUME NEW g \in DOMAIN blocks', NEW k \in DOMAIN blocks'[g]
          PROVE  \/ blocks'[g][k] = e
                 \/ \E h \in DOMAIN blocks : \E j \in DOMAIN blocks[h] :
                       blocks'[g][k] = blocks[h][j]
        <3>1. CASE g = n
            <4>1. blocks'[g][k] = c[k] /\ k \in DOMAIN c
                BY <3>1, <2>3, <2>9
            <4>2. c[k] = e \/ (k \in DOMAIN b /\ c[k] = b[k])
                BY <1>2, <2>1, <4>1
            <4> QED
                BY <1>1, <4>1, <4>2
        <3>2. CASE g # n
            <4>1. g \in DOMAIN blocks /\ blocks'[g] = blocks[g]
                BY <1>1, <3>2, <2>3, <2>9
            <4> QED
                BY <4>1, <2>9
        <3> QED
            BY <3>1, <3>2
    <2> QED
        BY <1>4, <2>6, <2>7, <2>8, <2>9
<1>7. CASE size = Len(b) /\ blocks' = Append(blocks, Append(b, e))
    <2> DEFINE c == Append(b, e)
    <2>1. /\ c \in Seq(user_info) /\ Len(c) = Len(b) + 1
          /\ DOMAIN c = 1 .. Len(b) + 1 /\ c[Len(b) + 1] = e
          /\ \A k \in 1 .. Len(b) : c[k] = b[k]
        BY <1>1, <1>2
    <2> HIDE DEF c
    <2>2. blocks' = Append(blocks, c)
        BY <1>7 DEF c
    <2>3. /\ blocks' \in Seq(Seq(user_info)) /\ Len(blocks') = n + 1
          /\ DOMAIN blocks' = 1 .. n + 1 /\ blocks'[n + 1] = c
          /\ \A g \in 1 .. n : blocks'[g] = blocks[g]
        BY <1>1, <2>1, <2>2
    <2>4. cur' = n + 1 /\ blocks' # <<>>
        BY <2>3, <1>1 DEF cur
    <2>6. ListOK'
        BY <1>1, <1>2, <1>4, <1>7, <2>1, <2>3, <2>4 DEF ListOK
    <2>7. (\A k \in Elements : blocks'[cur'][k] = At(k)) /\ blocks'[cur'][size + 1] = e
        BY <1>1, <1>2, <1>4, <1>7, <2>1, <2>3, <2>4 DEF At, Elements
    <2>8. \A g \in DOMAIN blocks :
             g \in DOMAIN blocks' /\ Len(blocks'[g]) >= Len(blocks[g])
        BY <1>1, <1>2, <1>7, <2>1, <2>3, <2>4
    <2>9. ASSUME NEW g \in DOMAIN blocks', NEW k \in DOMAIN blocks'[g]
          PROVE  \/ blocks'[g][k] = e
                 \/ \E h \in DOMAIN blocks : \E j \in DOMAIN blocks[h] :
                       blocks'[g][k] = blocks[h][j]
        <3>1. CASE g = n + 1
            <4>1. blocks'[g][k] = c[k] /\ k \in DOMAIN c
                BY <3>1, <2>3, <2>9
            <4>2. c[k] = e \/ (k \in DOMAIN b /\ c[k] = b[k])
                BY <1>2, <2>1, <4>1
            <4> QED
                BY <1>1, <4>1, <4>2
        <3>2. CASE g # n + 1
            <4>1. g \in DOMAIN blocks /\ blocks'[g] = blocks[g]
                BY <1>1, <3>2, <2>3, <2>9
            <4> QED
                BY <4>1, <2>9
        <3> QED
            BY <3>1, <3>2
    <2> QED
        BY <1>4, <2>6, <2>7, <2>8, <2>9
<1> QED
    BY <1>5, <1>6, <1>7 DEF PushBack

\* A function on 1 .. n with values in S is a sequence over S.
LEMMA FunctionIsSequence ==
    ASSUME NEW S, NEW n \in Nat, NEW f, f = [k \in 1 .. n |-> f[k]],
           \A k \in 1 .. n : f[k] \in S
    PROVE  f \in Seq(S) /\ Len(f) = n
OBVIOUS

\* The erase keeps the chosen elements, each once, and reaches no other block;
\* no slot of any block holds anything but an old entry.
LEMMA KeepFacts ==
    ASSUME ListOK, NEW kept \in SUBSET Elements, Keep(kept)
    PROVE  /\ ListOK'
           /\ cur' = cur
           /\ size' = Cardinality(kept) /\ size' <= size
           /\ DOMAIN blocks' = DOMAIN blocks
           /\ \A g \in DOMAIN blocks : Len(blocks'[g]) = Len(blocks[g])
           /\ \A g \in DOMAIN blocks' : \A k \in DOMAIN blocks'[g] :
                \E h \in DOMAIN blocks : \E j \in DOMAIN blocks[h] :
                    blocks'[g][k] = blocks[h][j]
           /\ \E from \in [1 .. size' -> kept] :
                /\ \A i, j \in 1 .. size' : from[i] = from[j] => i = j
                /\ \A k \in 1 .. size' : blocks'[cur'][k] = At(from[k])
<1> DEFINE b == blocks[cur]
           n == Cardinality(kept)
<1>1. /\ cur \in Nat \ {0} /\ DOMAIN blocks = 1 .. cur /\ cur \in DOMAIN blocks
      /\ \A g \in 1 .. cur : /\ blocks[g] \in Seq(user_info)
                             /\ Len(blocks[g]) \in Nat
                             /\ DOMAIN blocks[g] = 1 .. Len(blocks[g])
      /\ blocks \in Seq(Seq(user_info)) /\ size \in Nat /\ lastPing \in Seq(Age)
    BY ListFacts DEF ListOK
<1>2. /\ b \in Seq(user_info) /\ Len(b) \in Nat /\ size <= Len(b)
      /\ DOMAIN b = 1 .. Len(b) /\ \A k \in 1 .. Len(b) : b[k] \in user_info
    BY <1>1 DEF ListOK
<1>3. n \in Nat /\ n <= size
    <2>1. size \in Nat
        BY <1>1
    <2>2. IsFiniteSet(1 .. size)
          /\ Cardinality(1 .. size) = (IF 1 > size THEN 0 ELSE size - 1 + 1)
        BY ONLY <2>1, FS_Interval
    <2>3. Cardinality(1 .. size) = size
        BY ONLY <2>1, <2>2
    <2>4. kept \in SUBSET (1 .. size)
        BY DEF Elements
    <2>5. IsFiniteSet(kept) /\ Cardinality(kept) <= Cardinality(1 .. size)
        BY ONLY <2>2, <2>4, FS_Subset
    <2>6. Cardinality(kept) \in Nat
        BY ONLY <2>5, FS_CardinalityType
    <2> QED
        BY <2>3, <2>5, <2>6
<1>4. PICK from \in [1 .. n -> kept] :
        /\ \A i, j \in 1 .. n : i < j => from[i] < from[j]
        /\ blocks' = [blocks EXCEPT ![cur] =
              [k \in DOMAIN @ |-> IF k <= n THEN @[from[k]] ELSE @[k]]]
        /\ lastPing' = [k \in 1 .. n |-> lastPing[from[k]]]
    BY DEF Keep
<1> HIDE DEF n
<1>5. \A i \in 1 .. n : from[i] \in 1 .. size /\ from[i] \in 1 .. Len(b)
    <2> TAKE i \in 1 .. n
    <2>1. from[i] \in Elements
        BY <1>4
    <2> QED
        BY <1>1, <1>2, <2>1 DEF Elements
<1>6. \A i, j \in 1 .. n : from[i] = from[j] => i = j
    BY <1>3, <1>4, <1>5
<1>7. lastPing' \in Seq(Age) /\ size' = n
    <2>1. \A k \in 1 .. n : lastPing[from[k]] \in Age
        BY <1>1, <1>5 DEF size
    <2>2. lastPing' \in Seq(Age) /\ Len(lastPing') = n
        BY <1>3, <1>4, <2>1
    <2> QED
        BY <2>2 DEF size
<1> DEFINE c == [k \in DOMAIN b |-> IF k <= n THEN b[from[k]] ELSE b[k]]
<1>8. /\ DOMAIN c = DOMAIN b
      /\ \A k \in 1 .. n : k \in DOMAIN b /\ c[k] = b[from[k]]
      /\ \A k \in DOMAIN b : \E j \in DOMAIN b : c[k] = b[j]
      /\ c \in Seq(user_info) /\ Len(c) = Len(b)
    <2>1. \A k \in DOMAIN b : k \in 1 .. n => c[k] = b[from[k]]
        BY <1>3
    <2>2. \A k \in DOMAIN b : k \notin 1 .. n => c[k] = b[k]
        BY <1>2, <1>3
    <2>3. \A k \in 1 .. n : k \in DOMAIN b
        BY <1>1, <1>2, <1>3
    <2>4. \A k \in DOMAIN b : \E j \in DOMAIN b : c[k] = b[j]
        BY <1>2, <1>5, <2>1, <2>2
    <2>5. \A k \in 1 .. Len(b) : c[k] \in user_info
        BY <1>2, <2>4
    <2>6. c \in Seq(user_info) /\ Len(c) = Len(b)
        <3>1. DOMAIN c = 1 .. Len(b) /\ c = [k \in 1 .. Len(b) |-> c[k]]
            BY <1>2
        <3> HIDE DEF c
        <3> QED
            BY <1>2, <2>5, <3>1, FunctionIsSequence
    <2> QED
        BY <2>1, <2>3, <2>4, <2>6
<1>9. blocks' = [blocks EXCEPT ![cur] = c]
    BY <1>4
<1> HIDE DEF c
<1>10. /\ blocks' \in Seq(Seq(user_info)) /\ Len(blocks') = Len(blocks)
       /\ DOMAIN blocks' = DOMAIN blocks /\ blocks'[cur] = c
       /\ \A g \in DOMAIN blocks : g # cur => blocks'[g] = blocks[g]
    BY <1>1, <1>8, <1>9
<1>11. cur' = cur /\ blocks' # <<>>
    BY <1>1, <1>10 DEF cur
<1>12. ListOK'
    BY <1>2, <1>3, <1>7, <1>8, <1>10, <1>11 DEF ListOK
<1>13. \A g \in DOMAIN blocks : Len(blocks'[g]) = Len(blocks[g])
    BY <1>8, <1>10
<1>14. ASSUME NEW g \in DOMAIN blocks', NEW k \in DOMAIN blocks'[g]
       PROVE  \E h \in DOMAIN blocks : \E j \in DOMAIN blocks[h] :
                  blocks'[g][k] = blocks[h][j]
    <2>1. CASE g = cur
        BY <1>1, <1>8, <1>10, <1>14, <2>1
    <2>2. CASE g # cur
        BY <1>10, <1>14, <2>2
    <2> QED
        BY <2>1, <2>2
<1>15. \A k \in 1 .. n : blocks'[cur'][k] = At(from[k])
    BY <1>8, <1>10, <1>11 DEF At
<1> QED
    BY <1>3, <1>6, <1>7, <1>10, <1>11, <1>12, <1>13, <1>14, <1>15 DEF n

\* What leaves the blocks alone and keeps one age per element keeps the list.
LEMMA SameList ==
    ASSUME ListOK, UNCHANGED blocks, lastPing' \in Seq(Age),
           Len(lastPing') = Len(lastPing)
    PROVE  /\ ListOK' /\ cur' = cur /\ size' = size
           /\ Elements' = Elements /\ Members' = Members
BY DEF ListOK, cur, size, Elements, Members, At

----------------------------------------------------------------------------
(* The pool, as the server uses it.                                        *)

LEMMA AddressFacts ==
    /\ \A h \in ipPool!InPool : htonl[h] \in Addresses /\ htonl[htonl[h]] = h
    /\ \A a \in Addresses : htonl[a] \in ipPool!InPool /\ htonl[htonl[a]] = a
<1>1. ipPool!start_ \in ipPool!uint32_t /\ ipPool!end_ \in ipPool!uint32_t
    BY ServerPoolAssumption
       DEF ipPool!IsByteSwap, ipPool!IsRange, ipPool!start_, ipPool!end_,
           ipPool!ntohl
<1>2. ipPool!InPool \subseteq ipPool!uint32_t
    BY <1>1, ServerPoolAssumption
       DEF ipPool!IsByteSwap, ipPool!InPool, ipPool!uint32_t
<1>3. \A h \in ipPool!InPool : htonl[htonl[h]] = h
    BY <1>2, ServerPoolAssumption DEF ipPool!IsByteSwap
<1> QED
    BY <1>3 DEF Addresses, ipPool!Addresses

PoolOK == ipPool!TypeOK /\ ipPool!Partition

LEMMA AllocateFacts ==
    ASSUME PoolOK, NEW ip, ipPool!Allocate(ip)
    PROVE  /\ PoolOK'
           /\ ip \in Addresses
           /\ htonl[ip] \notin used_
           /\ used_' = used_ \cup {htonl[ip]}
<1> USE DEF PoolOK, ipPool!TypeOK, ipPool!Partition, ipPool!InFree,
            Partitions, Elems
<1>1. Partitions(free_, used_, ipPool!InPool)
    OBVIOUS
<1>2. Head(free_) \in ipPool!InPool /\ Head(free_) \notin used_
    BY <1>1, HeadIsFree DEF ipPool!Allocate
<1>3. ip \in Addresses /\ htonl[ip] = Head(free_)
    BY <1>2, AddressFacts DEF ipPool!Allocate
<1>4. Partitions(Tail(free_), used_ \cup {Head(free_)}, ipPool!InPool)
    BY <1>1, TakeHead DEF ipPool!Allocate
<1>5. PoolOK'
    BY <1>4 DEF ipPool!Allocate, ipPool!InPool
<1> QED
    BY <1>2, <1>3, <1>5 DEF ipPool!Allocate

----------------------------------------------------------------------------
(* The types, thread by thread.                                            *)

SysOK ==
    /\ sys \in {Idle} \cup Announcing
    /\ sys.pc = "announcing" =>
          sys.gen \in DOMAIN blocks /\ sys.last <= Len(blocks[sys.gen])

TunOK ==
    /\ tun \in {Idle} \cup Found
    /\ tun.pc = "found" =>
          tun.gen \in DOMAIN blocks /\ tun.k \in DOMAIN blocks[tun.gen]

PingOK ==
    /\ ping \in {Sleeping(w) : w \in 0 .. PingPeriod} \cup Erased \cup Sending
    /\ ping.pc = "sending" =>
          /\ ping.gen \in DOMAIN blocks /\ ping.last <= Len(blocks[ping.gen])
          /\ ping.left \subseteq ping.gone /\ (ping.left # {} => ping.k <= ping.last)

HistoryOK ==
    /\ owner \in [Addresses -> Anyone]
    /\ telling \in [untold : SUBSET user_info, erased : Nat]

LEMMA TypeOKParts ==
    TypeOK <=> /\ ipPool!TypeOK /\ ListOK /\ SysOK /\ TunOK /\ PingOK
               /\ HistoryOK
BY DEF TypeOK, ListOK, SysOK, TunOK, PingOK, HistoryOK

LEMMA NextTypeOKParts ==
    TypeOK' <=> /\ ipPool!TypeOK' /\ ListOK' /\ SysOK' /\ TunOK' /\ PingOK'
                /\ HistoryOK'
BY DEF TypeOK, ListOK, SysOK, TunOK, PingOK, HistoryOK

\* A position stays within its block as long as no block gets shorter.
LEMMA PositionsStay ==
    ASSUME ListOK, ListOK', SysOK, TunOK, PingOK,
           \A g \in DOMAIN blocks :
               g \in DOMAIN blocks' /\ Len(blocks'[g]) >= Len(blocks[g])
    PROVE  /\ sys' = sys => SysOK'
           /\ tun' = tun => TunOK'
           /\ ping' = ping => PingOK'
<1>1. \A g \in DOMAIN blocks :
         /\ Len(blocks[g]) \in Nat /\ DOMAIN blocks[g] = 1 .. Len(blocks[g])
    BY ListFacts
<1>2. \A g \in DOMAIN blocks' :
         /\ Len(blocks'[g]) \in Nat /\ DOMAIN blocks'[g] = 1 .. Len(blocks'[g])
    BY DEF ListOK
<1>3. sys' = sys => SysOK'
    BY <1>1, <1>2 DEF SysOK, Announcing, Idle
<1>4. tun' = tun => TunOK'
    BY <1>1, <1>2 DEF TunOK, Found, Idle
<1>5. ping' = ping => PingOK'
    BY <1>1, <1>2 DEF PingOK, Sending, Erased, Sleeping
<1> QED
    BY <1>3, <1>4, <1>5

LEMMA MembersType == ASSUME ListOK PROVE Members \subseteq user_info
BY ListFacts DEF Members

LEMMA TypeReceivePassword ==
    ASSUME TypeOK, ipPool!Partition, NEW u \in Users, ReceivePassword(u)
    PROVE  TypeOK'
<1> USE TypeOKParts, NextTypeOKParts
<1>1. PICK ip \in Addresses :
        /\ ipPool!Allocate(ip)
        /\ owner' = [owner EXCEPT ![ip] = u]
        /\ sys' = [pc |-> "announcing", id |-> u, ip |-> ip,
                   gen |-> cur, k |-> 1, last |-> size]
    BY DEF ReceivePassword
<1>2. ipPool!TypeOK'
    BY <1>1, AllocateFacts DEF PoolOK
<1>3. ListOK' /\ UNCHANGED <<blocks, tun, ping>>
    BY DEF ReceivePassword, usersList, ListOK, cur, size
<1>4. TunOK' /\ PingOK'
    BY <1>3 DEF TunOK, PingOK
<1>5. SysOK'
    <2>1. cur \in DOMAIN blocks /\ size <= Len(blocks[cur])
          /\ cur \in Nat /\ size \in Nat
        BY ListFacts DEF ListOK
    <2>2. sys' \in Announcing
        BY <1>1, <2>1 DEF Announcing
    <2> QED
        BY <1>1, <1>3, <2>1, <2>2 DEF SysOK
<1>6. HistoryOK'
    BY <1>1, MembersType DEF HistoryOK, ReceivePassword, Anyone
<1> QED
    BY <1>2, <1>3, <1>4, <1>5, <1>6

LEMMA TypeAnnounceTo ==
    ASSUME TypeOK, NEW u, AnnounceTo(u)
    PROVE  TypeOK'
<1> USE TypeOKParts, NextTypeOKParts
<1>1. UNCHANGED <<free_, used_, blocks, lastPing, tun, ping, owner>>
    BY DEF AnnounceTo, pool, usersList
<1>2. sys \in Announcing /\ sys' = [sys EXCEPT !.k = @ + 1]
    BY DEF AnnounceTo, SysOK, Idle
<1>3. sys' \in Announcing /\ sys'.gen = sys.gen /\ sys'.last = sys.last
    BY <1>2 DEF Announcing
<1>4. SysOK'
    BY <1>1, <1>2, <1>3 DEF SysOK, Announcing
<1>5. HistoryOK'
    BY <1>1 DEF HistoryOK, AnnounceTo
<1>6. ipPool!TypeOK' /\ ListOK' /\ TunOK' /\ PingOK'
    BY <1>1 DEF ipPool!TypeOK, ListOK, cur, size, TunOK, PingOK
<1> QED
    BY <1>4, <1>5, <1>6

LEMMA TypeEnlist ==
    ASSUME TypeOK, Enlist
    PROVE  TypeOK'
<1> USE TypeOKParts, NextTypeOKParts
<1> DEFINE e == [id |-> sys.id, ip |-> sys.ip]
<1>1. e \in user_info /\ PushBack(e)
    BY DEF Enlist, SysOK, Announcing, Idle, user_info
<1>2. UNCHANGED <<free_, used_, tun, ping, owner>> /\ sys' = Idle
      /\ telling' = NothingToTell
    BY DEF Enlist, pool
<1>3. /\ ListOK'
      /\ \A g \in DOMAIN blocks :
            g \in DOMAIN blocks' /\ Len(blocks'[g]) >= Len(blocks[g])
    BY <1>1, PushBackFacts
<1>4. TunOK' /\ PingOK'
    BY <1>2, <1>3, PositionsStay
<1>5. SysOK' /\ HistoryOK'
    BY <1>2 DEF SysOK, Idle, HistoryOK, NothingToTell
<1>6. ipPool!TypeOK'
    BY <1>2 DEF ipPool!TypeOK
<1> QED
    BY <1>3, <1>4, <1>5, <1>6

\* The passes that only set ages.
LEMMA RefreshFacts ==
    ASSUME ListOK, NEW u, Refresh(u)
    PROVE  lastPing' \in Seq(Age) /\ Len(lastPing') = Len(lastPing)
<1>1. 0 \in Age /\ lastPing \in Seq(Age)
    BY PingAssumption DEF Age, Epoch, ListOK
<1>2. CASE UNCHANGED lastPing
    BY <1>1, <1>2
<1>3. ASSUME NEW k \in Elements, lastPing' = [lastPing EXCEPT ![k] = 0]
      PROVE  lastPing' \in Seq(Age) /\ Len(lastPing') = Len(lastPing)
    BY <1>1, <1>3 DEF Elements, size
<1> QED
    BY <1>2, <1>3 DEF Refresh

LEMMA TickFacts ==
    ASSUME ListOK, Tick
    PROVE  lastPing' \in Seq(Age) /\ Len(lastPing') = Len(lastPing)
<1>1. \A k \in 1 .. size : Older(lastPing[k]) \in Age
    BY ListFacts, PingAssumption DEF Older, Age, Epoch
<1>2. size \in Nat /\ lastPing' = [k \in 1 .. size |-> Older(lastPing[k])]
    BY ListFacts DEF Tick, Elements
<1> QED
    BY <1>1, <1>2 DEF size

LEMMA TypeReceiveSignOfLife ==
    ASSUME TypeOK, NEW u, ReceiveSignOfLife(u)
    PROVE  TypeOK'
<1> USE TypeOKParts, NextTypeOKParts
<1>1. UNCHANGED <<free_, used_, blocks, sys, tun, ping, owner, telling>>
    BY DEF ReceiveSignOfLife, pool, history
<1>2. ListOK'
    BY <1>1, RefreshFacts, SameList DEF ReceiveSignOfLife
<1>3. ipPool!TypeOK' /\ SysOK' /\ TunOK' /\ PingOK' /\ HistoryOK'
    BY <1>1 DEF ipPool!TypeOK, SysOK, TunOK, PingOK, HistoryOK
<1> QED
    BY <1>2, <1>3

LEMMA TypeTunPacket ==
    ASSUME TypeOK, NEW d \in Addresses, TunPacket(d)
    PROVE  TypeOK'
<1> USE TypeOKParts, NextTypeOKParts
<1>1. UNCHANGED <<free_, used_, blocks, lastPing, sys, ping, owner, telling>>
    BY DEF TunPacket, pool, usersList, history
<1>2. PICK k \in Elements :
          tun' = [pc |-> "found", dest |-> d, gen |-> cur, k |-> k]
    BY DEF TunPacket
<1>3. cur \in Nat /\ cur \in DOMAIN blocks /\ k \in DOMAIN blocks[cur] /\ k \in Nat
    BY ListFacts DEF Elements
<1>4. TunOK'
    BY <1>1, <1>2, <1>3 DEF TunOK, Found
<1>5. ipPool!TypeOK' /\ ListOK' /\ SysOK' /\ PingOK' /\ HistoryOK'
    BY <1>1 DEF ipPool!TypeOK, ListOK, cur, size, SysOK, PingOK, HistoryOK
<1> QED
    BY <1>4, <1>5

LEMMA TypeTunSend ==
    ASSUME TypeOK, NEW u, TunSend(u)
    PROVE  TypeOK'
<1> USE TypeOKParts, NextTypeOKParts
<1>1. UNCHANGED <<free_, used_, blocks, lastPing, sys, ping, owner, telling>>
      /\ tun' = Idle
    BY DEF TunSend, pool, usersList, history
<1>2. ipPool!TypeOK' /\ ListOK' /\ SysOK' /\ PingOK' /\ HistoryOK' /\ TunOK'
    BY <1>1 DEF ipPool!TypeOK, ListOK, cur, size, SysOK, PingOK, HistoryOK,
                TunOK, Idle
<1> QED
    BY <1>2

LEMMA TypeTick ==
    ASSUME TypeOK, Tick
    PROVE  TypeOK'
<1> USE TypeOKParts, NextTypeOKParts
<1>1. UNCHANGED <<free_, used_, blocks, sys, tun, owner, telling>>
    BY DEF Tick, pool, history
<1>2. ListOK'
    BY <1>1, TickFacts, SameList
<1>3. PingOK'
    <2>1. CASE ping.pc = "sleeping" /\ ping.wait > 0
        <3>1. ping' = Sleeping(ping.wait - 1)
            BY <2>1 DEF Tick
        <3>2. PICK w \in 0 .. PingPeriod : ping = Sleeping(w)
            BY <2>1 DEF PingOK, Sending, Erased
        <3>3. w - 1 \in 0 .. PingPeriod /\ ping' = Sleeping(w - 1)
            BY <2>1, <3>1, <3>2, PingAssumption DEF Sleeping
        <3> QED
            BY <3>3 DEF PingOK, Sleeping
    <2>2. CASE ping' = ping
        BY <1>1, <2>2 DEF PingOK
    <2> QED
        BY <2>1, <2>2 DEF Tick
<1>4. ipPool!TypeOK' /\ SysOK' /\ TunOK' /\ HistoryOK'
    BY <1>1 DEF ipPool!TypeOK, SysOK, TunOK, HistoryOK
<1> QED
    BY <1>2, <1>3, <1>4

LEMMA TypePingRound ==
    ASSUME TypeOK, PingRound
    PROVE  TypeOK'
<1> USE TypeOKParts, NextTypeOKParts
<1> DEFINE expired == {k \in Elements : Expired(lastPing[k])}
           kept == Elements \ expired
           gone == {At(k) : k \in expired}
<1>1. /\ UNCHANGED <<free_, used_, sys, tun, owner>>
      /\ Keep(kept)
      /\ ping' = [pc |-> "erased", gone |-> gone]
      /\ telling' = IF sys = Idle THEN telling
                    ELSE [untold |-> telling.untold \ gone,
                          erased |-> telling.erased + Cardinality(expired)]
    BY DEF PingRound, pool
<1>2. gone \subseteq user_info
    BY ListFacts
<1>3. Cardinality(expired) \in Nat
    <2>1. IsFiniteSet(Elements)
        BY ListFacts, FS_Interval DEF Elements
    <2> QED
        BY <2>1, FS_Subset, FS_CardinalityType
<1> HIDE DEF gone, kept, expired
<1>4. /\ ListOK' /\ cur' = cur /\ DOMAIN blocks' = DOMAIN blocks
      /\ \A g \in DOMAIN blocks :
            g \in DOMAIN blocks' /\ Len(blocks'[g]) = Len(blocks[g])
    BY <1>1, KeepFacts DEF ListOK, kept
<1>5. SysOK' /\ TunOK'
    <2>1. \A g \in DOMAIN blocks : Len(blocks[g]) \in Nat
        BY ListFacts
    <2>2. \A g \in DOMAIN blocks :
            g \in DOMAIN blocks' /\ Len(blocks'[g]) >= Len(blocks[g])
        BY <1>4, <2>1
    <2> QED
        BY <1>1, <1>4, <2>2, PositionsStay
<1>6. PingOK'
    BY <1>1, <1>2 DEF PingOK, Erased
<1>7. HistoryOK'
    BY <1>1, <1>3 DEF HistoryOK
<1>8. ipPool!TypeOK'
    BY <1>1 DEF ipPool!TypeOK
<1> QED
    BY <1>4, <1>5, <1>6, <1>7, <1>8

LEMMA TypePingStart ==
    ASSUME TypeOK, PingStart
    PROVE  TypeOK'
<1> USE TypeOKParts, NextTypeOKParts
<1>1. UNCHANGED <<free_, used_, blocks, lastPing, sys, tun, owner, telling>>
    BY DEF PingStart, pool, usersList, history
<1>2. ping \in Erased
    BY DEF PingStart, PingOK, Sending, Sleeping
<1>3. cur \in DOMAIN blocks /\ size <= Len(blocks[cur]) /\ cur \in Nat /\ size \in Nat
    BY ListFacts DEF ListOK
<1>4. ping' \in Sending /\ ping'.gen = cur /\ ping'.last = size /\ ping'.left = {}
    BY <1>2, <1>3 DEF PingStart, Erased, Sending
<1>5. PingOK'
    BY <1>1, <1>3, <1>4 DEF PingOK
<1>6. ipPool!TypeOK' /\ ListOK' /\ SysOK' /\ TunOK' /\ HistoryOK'
    BY <1>1 DEF ipPool!TypeOK, ListOK, cur, size, SysOK, TunOK, HistoryOK
<1> QED
    BY <1>5, <1>6

\* PingOn keeps the loop's range and its departures.
LEMMA PingOnFacts ==
    ASSUME PingOK, ping.pc = "sending", ping.k <= ping.last,
           NEW rest \in SUBSET ping.gone, PingOn(rest)
    PROVE  /\ ping \in Sending /\ ping' \in Sending
           /\ ping'.gen = ping.gen /\ ping'.last = ping.last
           /\ ping'.gone = ping.gone /\ ping'.left = rest
           /\ ping'.k = IF rest = {} THEN ping.k + 1 ELSE ping.k
<1>1. ping \in Sending
    BY DEF PingOK, Sleeping, Erased
<1>2. /\ ping' = [ping EXCEPT !.left = rest,
                             !.k = IF rest = {} THEN ping.k + 1 ELSE ping.k]
      /\ rest \in SUBSET user_info
    BY <1>1 DEF PingOn, Sending
<1>3. (IF rest = {} THEN ping.k + 1 ELSE ping.k) \in Nat \ {0}
    BY <1>1 DEF Sending
<1> QED
    BY <1>1, <1>2, <1>3 DEF Sending

\* The steps of the range-for's body: what is told next, and to whom.
LEMMA PingBody ==
    ASSUME PingOK, \/ \E u : PingTo(u)
                   \/ \E u, m : TellDeparture(u, m)
    PROVE  /\ UNCHANGED <<free_, used_, blocks, lastPing, sys, tun, owner, telling>>
           /\ ping \in Sending /\ ping.k <= ping.last
           /\ ping' \in Sending
           /\ ping'.gen = ping.gen /\ ping'.last = ping.last
           /\ ping'.gone = ping.gone /\ ping'.left \subseteq ping.gone
           /\ ping'.left # {} => ping'.k <= ping'.last
<1>1. ASSUME NEW rest \in SUBSET ping.gone, PingOn(rest),
             ping.pc = "sending", ping.k <= ping.last
      PROVE  /\ ping \in Sending /\ ping' \in Sending
             /\ ping'.gen = ping.gen /\ ping'.last = ping.last
             /\ ping'.gone = ping.gone /\ ping'.left \subseteq ping.gone
             /\ ping'.left # {} => ping'.k <= ping'.last
    BY <1>1, PingOnFacts
<1>2. ASSUME NEW u, PingTo(u)
      PROVE  PingOn(ping.gone) /\ ping.pc = "sending" /\ ping.k <= ping.last
    BY <1>2 DEF PingTo
<1>3. ASSUME NEW u, NEW m, TellDeparture(u, m)
      PROVE  /\ PingOn(ping.left \ {m}) /\ ping.left \ {m} \in SUBSET ping.gone
             /\ ping.pc = "sending" /\ ping.k <= ping.last
    BY <1>3 DEF TellDeparture, PingOK
<1>4. UNCHANGED <<free_, used_, blocks, lastPing, sys, tun, owner, telling>>
    BY DEF PingTo, TellDeparture, pool, usersList, history
<1>5. CASE \E u : PingTo(u)
    BY <1>1, <1>2, <1>4, <1>5
<1>6. CASE \E u, m : TellDeparture(u, m)
    BY <1>1, <1>3, <1>4, <1>6
<1> QED
    BY <1>5, <1>6

LEMMA TypePingBody ==
    ASSUME TypeOK, \/ \E u : PingTo(u)
                   \/ \E u, m : TellDeparture(u, m)
    PROVE  TypeOK'
<1> USE TypeOKParts, NextTypeOKParts
<1>1. /\ UNCHANGED <<free_, used_, blocks, lastPing, sys, tun, owner, telling>>
      /\ ping \in Sending /\ ping' \in Sending
      /\ ping'.gen = ping.gen /\ ping'.last = ping.last
      /\ ping'.left \subseteq ping'.gone
      /\ ping'.left # {} => ping'.k <= ping'.last
    BY PingBody
<1>2. PingOK'
    BY <1>1 DEF PingOK, Sending
<1>3. ipPool!TypeOK' /\ ListOK' /\ SysOK' /\ TunOK' /\ HistoryOK'
    BY <1>1 DEF ipPool!TypeOK, ListOK, cur, size, SysOK, TunOK, HistoryOK
<1> QED
    BY <1>2, <1>3

LEMMA TypePingSleep ==
    ASSUME TypeOK, PingSleep
    PROVE  TypeOK'
<1> USE TypeOKParts, NextTypeOKParts
<1>1. UNCHANGED <<free_, used_, blocks, lastPing, sys, tun, owner, telling>>
      /\ ping' = Sleeping(PingPeriod)
    BY DEF PingSleep, pool, usersList, history
<1>2. PingOK'
    BY <1>1, PingAssumption DEF PingOK, Sleeping
<1>3. ipPool!TypeOK' /\ ListOK' /\ SysOK' /\ TunOK' /\ HistoryOK'
    BY <1>1 DEF ipPool!TypeOK, ListOK, cur, size, SysOK, TunOK, HistoryOK
<1> QED
    BY <1>2, <1>3

----------------------------------------------------------------------------
(* The inductive invariant.  OneAddressOneUser alone is not inductive: that *)
(* a newly allocated address is nobody's needs the pool's partition and     *)
(* that every address with an owner is out of the pool.                     *)

LeasesUsed == \A a \in Addresses : owner[a] # NoUser => htonl[a] \in used_

Leases ==
    /\ ipPool!Partition
    /\ LeasesUsed
    /\ OneAddressOneUser
    /\ OnePlacePerAddress

IInv == TypeOK /\ Leases

LEMMA NamesFacts ==
    ASSUME TypeOK
    PROVE  /\ Members \subseteq user_info
           /\ Joining \subseteq user_info
           /\ Departed \subseteq user_info
           /\ \A g \in DOMAIN blocks : \A k \in DOMAIN blocks[g] :
                 blocks[g][k] \in user_info
<1>1. ListOK /\ SysOK /\ PingOK
    BY TypeOKParts
<1>2. Joining \subseteq user_info
    BY <1>1 DEF Joining, SysOK, Announcing, Idle, user_info
<1>3. Departed \subseteq user_info
    BY <1>1 DEF Departed, PingOK, Sending, Erased, Sleeping
<1> QED
    BY <1>1, <1>2, <1>3, MembersType, ListFacts

\* A step that changes neither the list's entries, nor the pool, nor who is
\* joining, and forgets departures at most.
LEMMA QuietStep ==
    ASSUME TypeOK, Leases, UNCHANGED <<free_, used_, blocks, owner>>,
           cur' = cur, Elements' = Elements, Members' = Members,
           Joining' = Joining, Departed' \subseteq Departed
    PROVE  Leases'
<1>1. ipPool!Partition' /\ LeasesUsed'
    BY DEF Leases, ipPool!Partition, ipPool!InFree, ipPool!InPool, LeasesUsed
<1>2. OneAddressOneUser'
    BY DEF Leases, OneAddressOneUser
<1>3. OnePlacePerAddress'
    BY DEF Leases, OnePlacePerAddress, At
<1> QED
    BY <1>1, <1>2, <1>3 DEF Leases

LEMMA LeasesReceivePassword ==
    ASSUME TypeOK, Leases, NEW u \in Users, ReceivePassword(u)
    PROVE  Leases'
<1>1. PICK ip \in Addresses :
        /\ ipPool!Allocate(ip)
        /\ owner' = [owner EXCEPT ![ip] = u]
        /\ sys' = [pc |-> "announcing", id |-> u, ip |-> ip,
                   gen |-> cur, k |-> 1, last |-> size]
    BY DEF ReceivePassword
<1>2. PoolOK
    BY DEF TypeOK, Leases, PoolOK
<1>3. /\ PoolOK' /\ htonl[ip] \notin used_
      /\ used_' = used_ \cup {htonl[ip]}
    BY <1>1, <1>2, AllocateFacts
<1>4. UNCHANGED <<blocks, lastPing, ping>> /\ sys = Idle
    BY DEF ReceivePassword, usersList
<1>5. /\ cur' = cur /\ Elements' = Elements /\ Members' = Members
      /\ Departed' = Departed
      /\ Joining' = {[id |-> u, ip |-> ip]} /\ Joining = {}
    BY <1>1, <1>4
       DEF cur, size, Elements, Members, At, Departed, Joining, Idle
<1>6. owner \in [Addresses -> Anyone] /\ owner[ip] = NoUser
    BY <1>3, TypeOKParts DEF Leases, LeasesUsed, HistoryOK
<1>7. ASSUME NEW m \in user_info, owner[m.ip] = m.id
      PROVE  owner'[m.ip] = m.id /\ m.ip # ip
    BY <1>1, <1>6, <1>7, UserAssumption DEF user_info
<1>8. OneAddressOneUser'
    <2>1. ASSUME NEW g \in DOMAIN blocks, NEW k \in DOMAIN blocks[g]
          PROVE  owner'[blocks[g][k].ip] = blocks[g][k].id
        BY <1>7, NamesFacts DEF Leases, OneAddressOneUser
    <2>2. ASSUME NEW m \in Departed PROVE owner'[m.ip] = m.id
        BY <1>7, NamesFacts DEF Leases, OneAddressOneUser
    <2>3. owner'[ip] = u
        BY <1>1, <1>6
    <2> QED
        BY <1>4, <1>5, <2>1, <2>2, <2>3 DEF OneAddressOneUser
<1>9. OnePlacePerAddress'
    <2>1. \A m \in Members \cup Departed : m.ip # ip /\ htonl[m.ip] \in used_
        BY <1>3 DEF Leases, OnePlacePerAddress
    <2>2. \A i, j \in Elements' : At(i).ip = At(j).ip => i = j
        BY <1>5 DEF Leases, OnePlacePerAddress
    <2>3. \A i \in Elements : blocks'[cur'][i] = At(i)
        BY <1>4, <1>5 DEF At
    <2> QED
        BY <1>3, <1>5, <2>1, <2>2, <2>3 DEF Leases, OnePlacePerAddress, At
<1>10. LeasesUsed'
    BY <1>1, <1>3, <1>6 DEF Leases, LeasesUsed
<1> QED
    BY <1>3, <1>8, <1>9, <1>10 DEF Leases, PoolOK

LEMMA LeasesEnlist ==
    ASSUME TypeOK, Leases, Enlist
    PROVE  Leases'
<1> DEFINE e == [id |-> sys.id, ip |-> sys.ip]
<1>1. e \in user_info /\ PushBack(e) /\ ListOK
    BY TypeOKParts
       DEF Enlist, SysOK, Announcing, Idle, user_info
<1>2. UNCHANGED <<free_, used_, ping, owner>> /\ sys' = Idle
      /\ Joining = {e} /\ Joining' = {} /\ Departed' = Departed
    BY DEF Enlist, pool, Joining, Departed, Idle
<1> HIDE DEF e
<1>3. /\ size' = size + 1 /\ size \in Nat
      /\ \A k \in Elements : blocks'[cur'][k] = At(k)
      /\ blocks'[cur'][size + 1] = e
      /\ \A g \in DOMAIN blocks' : \A k \in DOMAIN blocks'[g] :
            \/ blocks'[g][k] = e
            \/ \E h \in DOMAIN blocks : \E j \in DOMAIN blocks[h] :
                  blocks'[g][k] = blocks[h][j]
    BY <1>1, PushBackFacts, ListFacts
<1>4. Elements' = Elements \cup {size + 1} /\ size + 1 \notin Elements
    BY <1>3 DEF Elements
<1>5. Members' = Members \cup {e}
    BY <1>3, <1>4 DEF Members, At
<1>6. owner[e.ip] = e.id /\ htonl[e.ip] \in used_
    BY <1>2 DEF Leases, OneAddressOneUser, OnePlacePerAddress
<1>7. OneAddressOneUser'
    <2>1. ASSUME NEW g \in DOMAIN blocks', NEW k \in DOMAIN blocks'[g]
          PROVE  owner[blocks'[g][k].ip] = blocks'[g][k].id
        BY <1>3, <1>6 DEF Leases, OneAddressOneUser
    <2> QED
        BY <1>2, <2>1 DEF Leases, OneAddressOneUser
<1>8. OnePlacePerAddress'
    <2>1. \A m \in Members : m.ip # e.ip
        BY <1>2 DEF Leases, OnePlacePerAddress
    <2>2. \A m \in Departed : m.ip # e.ip
        BY <1>2 DEF Leases, OnePlacePerAddress
    <2>3. \A k \in Elements : At(k).ip # e.ip
        BY <2>1 DEF Members
    <2>4. \A i, j \in Elements' :
             blocks'[cur'][i].ip = blocks'[cur'][j].ip => i = j
        BY <1>3, <1>4, <2>3 DEF Leases, OnePlacePerAddress
    <2> QED
        BY <1>2, <1>5, <1>6, <2>1, <2>2, <2>4
           DEF Leases, OnePlacePerAddress, At
<1>9. ipPool!Partition' /\ LeasesUsed'
    BY <1>2 DEF Leases, ipPool!Partition, ipPool!InFree, ipPool!InPool,
                LeasesUsed
<1> QED
    BY <1>7, <1>8, <1>9 DEF Leases

LEMMA LeasesPingRound ==
    ASSUME TypeOK, Leases, PingRound
    PROVE  Leases' /\ Members' \subseteq Members
<1> DEFINE expired == {k \in Elements : Expired(lastPing[k])}
           kept == Elements \ expired
           gone == {At(k) : k \in expired}
<1>1. /\ UNCHANGED <<free_, used_, sys, owner>>
      /\ Keep(kept) /\ kept \in SUBSET Elements
      /\ ping'.pc = "erased" /\ ping'.gone = gone /\ ping.pc = "sleeping"
    BY DEF PingRound, pool, Sleeping
<1>2. Departed' = gone /\ Departed = {} /\ Joining' = Joining
    BY <1>1 DEF Departed, Joining
<1>3. ListOK
    BY TypeOKParts
<1>4. /\ size' = Cardinality(kept) /\ cur' = cur
      /\ \A g \in DOMAIN blocks' : \A k \in DOMAIN blocks'[g] :
            \E h \in DOMAIN blocks : \E j \in DOMAIN blocks[h] :
                blocks'[g][k] = blocks[h][j]
      /\ \E from \in [1 .. size' -> kept] :
            /\ \A i, j \in 1 .. size' : from[i] = from[j] => i = j
            /\ \A k \in 1 .. size' : blocks'[cur'][k] = At(from[k])
    <2> HIDE DEF kept
    <2> QED
        BY <1>1, <1>3, KeepFacts
<1>5. PICK from \in [1 .. size' -> kept] :
            /\ \A i, j \in 1 .. size' : from[i] = from[j] => i = j
            /\ \A k \in 1 .. size' : blocks'[cur'][k] = At(from[k])
    BY <1>4
<1>6. Elements' = 1 .. size'
    BY DEF Elements
<1>7. Members' = {blocks'[cur'][k] : k \in 1 .. size'}
    BY <1>6 DEF Members, At
<1>8. \A m \in Members' : \E k \in kept : m = At(k)
    BY <1>5, <1>7
<1>9. Members' \subseteq Members /\ gone \subseteq Members
    BY <1>8 DEF Members
<1>10. \A i, j \in Elements : At(i).ip = At(j).ip => i = j
    BY DEF Leases, OnePlacePerAddress
<1>11. OneAddressOneUser'
    <2>1. ASSUME NEW g \in DOMAIN blocks', NEW k \in DOMAIN blocks'[g]
          PROVE  owner[blocks'[g][k].ip] = blocks'[g][k].id
        BY <1>4 DEF Leases, OneAddressOneUser
    <2>2. \A k \in Elements : owner[At(k).ip] = At(k).id
        <3>1. \A k \in Elements : k \in DOMAIN blocks[cur] /\ cur \in DOMAIN blocks
            BY <1>3, ListFacts
        <3> QED
            BY <3>1 DEF Leases, OneAddressOneUser, At
    <2>3. \A m \in Departed' : owner[m.ip] = m.id
        BY <1>2, <2>2
    <2>4. \A m \in Joining' : owner[m.ip] = m.id
        BY <1>2 DEF Leases, OneAddressOneUser
    <2> QED
        BY <1>1, <2>1, <2>3, <2>4 DEF OneAddressOneUser
<1>12. OnePlacePerAddress'
    <2>1. \A i, j \in 1 .. size' :
             blocks'[cur'][i].ip = blocks'[cur'][j].ip => i = j
        <3>1. \A i \in 1 .. size' : from[i] \in Elements
            BY <1>5
        <3> QED
            BY <1>5, <1>10, <3>1
    <2>2. \A m \in Members' : \A d \in gone : m.ip # d.ip
        BY <1>8, <1>10
    <2>3. \A m \in Joining : \A d \in gone : m.ip # d.ip
        BY <1>9 DEF Leases, OnePlacePerAddress
    <2> QED
        BY <1>1, <1>2, <1>6, <1>9, <2>1, <2>2, <2>3
           DEF Leases, OnePlacePerAddress, At
<1>13. ipPool!Partition' /\ LeasesUsed'
    BY <1>1 DEF Leases, ipPool!Partition, ipPool!InFree, ipPool!InPool,
                LeasesUsed
<1> QED
    BY <1>9, <1>11, <1>12, <1>13 DEF Leases

\* The other actions are quiet ones.
LEMMA LeasesQuiet ==
    ASSUME TypeOK, Leases,
           \/ \E u \in Users : RefusePassword(u) \/ ReceiveSignOfLife(u)
           \/ \E u \in Anyone : AnnounceTo(u) \/ TunSend(u) \/ PingTo(u)
           \/ \E u \in Anyone, m \in Departed : TellDeparture(u, m)
           \/ \E dest \in Addresses : TunPacket(dest)
           \/ Tick
           \/ PingStart
           \/ PingSleep
           \/ UNCHANGED vars
    PROVE  /\ Leases'
           /\ owner' = owner /\ Joining' = Joining /\ Members' = Members
<1> DEFINE Quiet ==
        /\ UNCHANGED <<free_, used_, blocks, owner>>
        /\ lastPing' \in Seq(Age) /\ Len(lastPing') = Len(lastPing)
        /\ Joining' = Joining
        /\ Departed' \subseteq Departed
<1>1. ListOK /\ SysOK /\ PingOK
    BY TypeOKParts
<1>2. ASSUME Quiet
      PROVE  /\ Leases'
             /\ owner' = owner /\ Joining' = Joining /\ Members' = Members
    <2>1. cur' = cur /\ Elements' = Elements /\ Members' = Members
        BY <1>1, <1>2, SameList
    <2> QED
        BY <1>2, <2>1, QuietStep
<1>3. lastPing \in Seq(Age)
    BY <1>1 DEF ListOK
<1>4. CASE UNCHANGED vars
    <2>1. Quiet
        BY <1>3, <1>4 DEF vars, Joining, Departed
    <2> QED
        BY <1>2, <2>1
<1>5. ASSUME NEW u \in Users, RefusePassword(u)
      PROVE  Quiet
    BY <1>3, <1>5
       DEF RefusePassword, ipPool!AllocateThrows, ipPool!vars, usersList,
           history, Joining, Departed
<1>6. ASSUME NEW u \in Users, ReceiveSignOfLife(u)
      PROVE  Quiet
    <2>1. lastPing' \in Seq(Age) /\ Len(lastPing') = Len(lastPing)
        BY <1>1, <1>6, RefreshFacts DEF ReceiveSignOfLife
    <2> QED
        BY <1>6, <2>1
           DEF ReceiveSignOfLife, pool, history, Joining, Departed
<1>7. ASSUME NEW u, AnnounceTo(u)
      PROVE  Quiet
    <2>1. sys \in Announcing /\ sys' = [sys EXCEPT !.k = @ + 1]
        BY <1>1, <1>7 DEF AnnounceTo, SysOK, Idle
    <2>2. Joining' = Joining
        BY <2>1 DEF Joining, Announcing
    <2> QED
        BY <1>3, <1>7, <2>2 DEF AnnounceTo, pool, usersList, Departed
<1>8. ASSUME NEW u, TunSend(u)
      PROVE  Quiet
    BY <1>3, <1>8
       DEF TunSend, pool, usersList, history, Joining, Departed
<1>9. ASSUME \/ \E u : PingTo(u)
             \/ \E u, m : TellDeparture(u, m)
      PROVE  Quiet
    <2>1. /\ UNCHANGED <<free_, used_, blocks, lastPing, sys, tun, owner, telling>>
          /\ ping \in Sending /\ ping' \in Sending /\ ping'.gone = ping.gone
        BY <1>1, <1>9, PingBody
    <2>2. Departed' = Departed
        BY <2>1 DEF Departed, Sending
    <2> QED
        BY <1>3, <2>1, <2>2 DEF Joining
<1>10. ASSUME NEW dest, TunPacket(dest)
       PROVE  Quiet
    BY <1>3, <1>10
       DEF TunPacket, pool, usersList, history, Joining, Departed
<1>11. ASSUME Tick
       PROVE  Quiet
    <2>1. lastPing' \in Seq(Age) /\ Len(lastPing') = Len(lastPing)
        BY <1>1, <1>11, TickFacts
    <2>2. Departed' = Departed
        BY <1>11 DEF Tick, Departed, Sleeping
    <2> QED
        BY <1>11, <2>1, <2>2 DEF Tick, pool, history, Joining
<1>12. ASSUME PingSleep
       PROVE  Quiet
    BY <1>3, <1>12
       DEF PingSleep, pool, usersList, history, Joining, Departed, Sleeping
<1>13. ASSUME PingStart
       PROVE  Quiet
    BY <1>3, <1>13
       DEF PingStart, pool, usersList, history, Joining, Departed
<1> HIDE DEF Quiet
<1> QED
    BY <1>2, <1>4, <1>5, <1>6, <1>7, <1>8, <1>9, <1>10, <1>11, <1>12, <1>13

LEMMA InitIInv == Init => IInv
<1> SUFFICES ASSUME Init PROVE IInv
    OBVIOUS
<1> DEFINE n == ipPool!end_ - ipPool!start_ + 1
<1>1. n \in Nat /\ ipPool!start_ \in Int /\ ipPool!end_ \in Int
    BY ServerPoolAssumption
       DEF ipPool!IsByteSwap, ipPool!IsRange, ipPool!start_, ipPool!end_,
           ipPool!ntohl, ipPool!uint32_t
<1>2. free_ = [i \in 1 .. n |-> ipPool!start_ + i - 1] /\ used_ = {}
    BY DEF Init, ipPool!Init
<1>3. \A i \in 1 .. n : ipPool!start_ + i - 1 \in ipPool!InPool
    BY <1>1 DEF ipPool!InPool
<1>4. free_ \in Seq(ipPool!InPool) /\ DOMAIN free_ = 1 .. n
    BY <1>1, <1>2, <1>3
<1>5. \A a \in ipPool!InPool : a \in ipPool!InFree
    <2> TAKE a \in ipPool!InPool
    <2>1. a - ipPool!start_ + 1 \in 1 .. n
        BY <1>1 DEF ipPool!InPool
    <2>2. free_[a - ipPool!start_ + 1] = a
        BY <1>1, <1>2, <2>1 DEF ipPool!InPool
    <2> QED
        BY <1>4, <2>1, <2>2 DEF ipPool!InFree
<1>6. ipPool!TypeOK
    BY <1>2, <1>4 DEF ipPool!TypeOK
<1>7. ipPool!Partition
    <2>1. \A i, j \in DOMAIN free_ : free_[i] = free_[j] => i = j
        BY <1>1, <1>2, <1>4
    <2>2. ipPool!InFree \subseteq ipPool!InPool
        BY <1>2, <1>3, <1>4 DEF ipPool!InFree
    <2> QED
        BY <1>2, <1>5, <2>1, <2>2 DEF ipPool!Partition
<1>8. /\ blocks = << <<>> >> /\ lastPing = <<>> /\ sys = Idle /\ tun = Idle
      /\ ping = Sleeping(PingPeriod) /\ telling = NothingToTell
      /\ owner = [a \in Addresses |-> NoUser]
    BY DEF Init
<1>9. ListOK /\ cur = 1 /\ size = 0 /\ Elements = {} /\ blocks[1] = <<>>
      /\ DOMAIN blocks = {1}
    BY <1>8 DEF ListOK, cur, size, Elements
<1>10. SysOK /\ TunOK /\ PingOK /\ HistoryOK
    BY <1>8, PingAssumption
       DEF SysOK, TunOK, PingOK, HistoryOK, Idle, Sleeping, NothingToTell,
           Anyone
<1>11. Joining = {} /\ Departed = {} /\ Members = {}
    BY <1>8, <1>9 DEF Joining, Departed, Members, Idle, Sleeping
<1>12. LeasesUsed
    BY <1>8 DEF LeasesUsed
<1>13. OneAddressOneUser /\ OnePlacePerAddress
    BY <1>9, <1>11 DEF OneAddressOneUser, OnePlacePerAddress
<1> QED
    BY <1>6, <1>7, <1>9, <1>10, <1>12, <1>13, TypeOKParts DEF IInv, Leases

LEMMA IInvStep == IInv /\ [Next]_vars => IInv'
<1> SUFFICES ASSUME IInv, [Next]_vars PROVE IInv'
    OBVIOUS
<1> USE DEF IInv
<1>1. ASSUME NEW u \in Users, ReceivePassword(u) PROVE IInv'
    BY <1>1, TypeReceivePassword, LeasesReceivePassword DEF Leases
<1>2. ASSUME Enlist PROVE IInv'
    BY <1>2, TypeEnlist, LeasesEnlist
<1>3. ASSUME PingRound PROVE IInv'
    BY <1>3, TypePingRound, LeasesPingRound
<1>4. CASE \/ \E u \in Users : RefusePassword(u) \/ ReceiveSignOfLife(u)
           \/ \E u \in Anyone : AnnounceTo(u) \/ TunSend(u) \/ PingTo(u)
           \/ \E u \in Anyone, m \in Departed : TellDeparture(u, m)
           \/ \E dest \in Addresses : TunPacket(dest)
           \/ Tick
           \/ PingStart
           \/ PingSleep
           \/ UNCHANGED vars
    <2>1. Leases'
        BY <1>4, LeasesQuiet
    <2>2. ASSUME UNCHANGED vars PROVE TypeOK'
        BY <2>2 DEF vars, TypeOK, ipPool!TypeOK, cur, size
    <2>3. ASSUME NEW u, RefusePassword(u) PROVE TypeOK'
        BY <2>2, <2>3
           DEF RefusePassword, ipPool!AllocateThrows, ipPool!vars, vars,
               usersList, history
    <2>4. TypeOK'
        BY <1>4, <2>2, <2>3, TypeReceiveSignOfLife, TypeAnnounceTo,
           TypeTunSend, TypePingBody, TypeTunPacket, TypeTick, TypePingStart,
           TypePingSleep
    <2> QED
        BY <2>1, <2>4
<1> QED
    BY <1>1, <1>2, <1>3, <1>4 DEF Next

LEMMA InvariantIInv == Spec => []IInv
BY InitIInv, IInvStep, PTL DEF Spec

\* The state keeps its types: in particular no thread ever holds a position
\* behind the slots its block was written to.
THEOREM ServerTypes == Spec => []TypeOK
BY InvariantIInv, PTL DEF IInv

\* For any number of users and addresses, nothing the server holds or sends
\* names an address with another user than the one it was allocated for.
THEOREM OneUserPerAddress == Spec => []OneAddressOneUser
<1>1. IInv => OneAddressOneUser
    BY DEF IInv, Leases
<1> QED
    BY <1>1, InvariantIInv, PTL

\* Joins and erases, however interleaved, leave an address in one place.
THEOREM OneAddressOnePlace == Spec => []OnePlacePerAddress
<1>1. IInv => OnePlacePerAddress
    BY DEF IInv, Leases
<1> QED
    BY <1>1, InvariantIInv, PTL

----------------------------------------------------------------------------
(* The server implements Membership.                                       *)

LEMMA MembershipStep ==
    ASSUME IInv, [Next]_vars
    PROVE  [AsMembership!Next]_<<owner, Joining, Members>>
<1> USE DEF IInv
<1>1. ASSUME NEW u \in Users, ReceivePassword(u)
      PROVE  AsMembership!Next
    <2>1. PICK ip \in Addresses :
            /\ ipPool!Allocate(ip)
            /\ owner' = [owner EXCEPT ![ip] = u]
            /\ sys' = [pc |-> "announcing", id |-> u, ip |-> ip,
                       gen |-> cur, k |-> 1, last |-> size]
        BY <1>1 DEF ReceivePassword
    <2>2. htonl[ip] \notin used_
        BY <2>1, AllocateFacts DEF PoolOK, TypeOK, Leases
    <2>3. owner[ip] = NoUser
        BY <2>2 DEF Leases, LeasesUsed
    <2>4. UNCHANGED <<blocks, lastPing>> /\ sys = Idle
        BY <1>1 DEF ReceivePassword, usersList
    <2>5. /\ Members' = Members
          /\ Joining' = {[id |-> u, ip |-> ip]} /\ Joining = {}
        BY <2>1, <2>4 DEF cur, size, Elements, Members, At, Joining, Idle
    <2>6. AsMembership!Give(u, ip)
        BY <2>1, <2>3, <2>5 DEF AsMembership!Give
    <2> QED
        BY <2>6 DEF AsMembership!Next
<1>2. ASSUME Enlist
      PROVE  AsMembership!Next
    <2> DEFINE e == [id |-> sys.id, ip |-> sys.ip]
    <2>1. e \in user_info /\ PushBack(e) /\ ListOK
        BY <1>2, TypeOKParts
           DEF Enlist, SysOK, Announcing, Idle, user_info
    <2>2. owner' = owner /\ Joining = {e} /\ Joining' = {}
        BY <1>2 DEF Enlist, Joining, Idle
    <2> HIDE DEF e
    <2>3. /\ size' = size + 1 /\ size \in Nat
          /\ \A k \in Elements : blocks'[cur'][k] = At(k)
          /\ blocks'[cur'][size + 1] = e
        BY <2>1, PushBackFacts, ListFacts
    <2>4. Elements' = Elements \cup {size + 1}
        BY <2>3 DEF Elements
    <2>5. Members' = Members \cup {e}
        BY <2>3, <2>4 DEF Members, At
    <2>6. AsMembership!Admit
        BY <2>2, <2>5 DEF AsMembership!Admit
    <2> QED
        BY <2>6 DEF AsMembership!Next
<1>3. ASSUME PingRound
      PROVE  AsMembership!Next
    <2>1. Members' \subseteq Members
        BY <1>3, LeasesPingRound
    <2>2. owner' = owner /\ Joining' = Joining
        BY <1>3 DEF PingRound, Joining
    <2>3. Members' = Members \ (Members \ Members')
        BY <2>1
    <2>4. AsMembership!Expel(Members \ Members')
        BY <2>2, <2>3 DEF AsMembership!Expel
    <2> QED
        BY <2>4 DEF AsMembership!Next
<1>4. CASE \/ \E u \in Users : RefusePassword(u) \/ ReceiveSignOfLife(u)
           \/ \E u \in Anyone : AnnounceTo(u) \/ TunSend(u) \/ PingTo(u)
           \/ \E u \in Anyone, m \in Departed : TellDeparture(u, m)
           \/ \E dest \in Addresses : TunPacket(dest)
           \/ Tick
           \/ PingStart
           \/ PingSleep
           \/ UNCHANGED vars
    BY <1>4, LeasesQuiet
<1> QED
    BY <1>1, <1>2, <1>3, <1>4 DEF Next

\* Seen from outside, the four threads are a table of leases and members.
THEOREM ServerKeepsMembership == Spec => KeepsMembership
<1>1. Init => AsMembership!Init
    BY DEF Init, AsMembership!Init, Joining, Members, Idle, Elements, size
<1>2. IInv /\ [Next]_vars => [AsMembership!Next]_<<owner, Joining, Members>>
    BY MembershipStep
<1>3. AsMembership!vars = <<owner, Joining, Members>>
    BY DEF AsMembership!vars
<1> QED
    BY <1>1, <1>2, <1>3, InvariantIInv, PTL
       DEF Spec, KeepsMembership, AsMembership!Spec, AsMembership!vars

----------------------------------------------------------------------------
(* While PingLoop sends, nothing is erased: what its range-for reads, in a  *)
(* block freed or not, are elements of the list.                           *)

RangeKept ==
    ping.pc = "sending" =>
        /\ ping.last <= size
        /\ \A j \in 1 .. ping.last : blocks[ping.gen][j] = At(j)

LEMMA AppendKeepsOld ==
    ASSUME NEW T, NEW s \in Seq(T), NEW e \in T, NEW i \in DOMAIN s
    PROVE  Append(s, e)[i] = s[i]
OBVIOUS

LEMMA PushBackKeepsOld ==
    ASSUME ListOK, NEW e \in user_info, PushBack(e)
    PROVE  \A g \in DOMAIN blocks : \A j \in DOMAIN blocks[g] :
               j <= size => blocks'[g][j] = blocks[g][j]
<1> SUFFICES ASSUME NEW g \in DOMAIN blocks, NEW j \in DOMAIN blocks[g], j <= size
             PROVE  blocks'[g][j] = blocks[g][j]
    OBVIOUS
<1>1. /\ cur \in DOMAIN blocks /\ blocks \in Seq(Seq(user_info))
      /\ blocks[g] \in Seq(user_info) /\ blocks[cur] \in Seq(user_info)
      /\ DOMAIN blocks[g] = 1 .. Len(blocks[g]) /\ Len(blocks[g]) \in Nat
      /\ size \in Nat
    BY ListFacts DEF ListOK
<1>2. j # size + 1
    BY <1>1
<1>3. CASE blocks' = [blocks EXCEPT ![cur][size + 1] = e]
    <2>1. blocks'[g] = IF g = cur THEN [blocks[cur] EXCEPT ![size + 1] = e] ELSE blocks[g]
        BY <1>1, <1>3
    <2> QED
        BY <1>1, <1>2, <2>1
<1>4. CASE blocks' = [blocks EXCEPT ![cur] = Append(@, e)]
    <2>1. blocks'[g] = IF g = cur THEN Append(blocks[g], e) ELSE blocks[g]
        BY <1>1, <1>4
    <2>2. Append(blocks[g], e)[j] = blocks[g][j]
        BY <1>1
    <2> QED
        BY <2>1, <2>2
<1>5. CASE blocks' = Append(blocks, Append(blocks[cur], e))
    <2>1. Append(blocks[cur], e) \in Seq(user_info)
        BY <1>1
    <2>2. blocks'[g] = blocks[g]
        BY ONLY <1>1, <1>5, <2>1, AppendKeepsOld, g \in DOMAIN blocks
    <2> QED
        BY <2>2
<1> QED
    BY <1>3, <1>4, <1>5 DEF PushBack

\* A step that leaves the list's entries where they are, and the loop's range.
LEMMA RangeStays ==
    ASSUME ListOK, RangeKept, UNCHANGED blocks,
           lastPing' \in Seq(Age), Len(lastPing') = Len(lastPing),
           ping'.pc = "sending" =>
                ping.pc = "sending" /\ ping'.gen = ping.gen /\ ping'.last = ping.last
    PROVE  RangeKept'
BY DEF RangeKept, At, cur, size

LEMMA RangeKeptStep ==
    ASSUME IInv, RangeKept, [Next]_vars
    PROVE  RangeKept'
<1>1. ListOK /\ SysOK /\ PingOK /\ lastPing \in Seq(Age)
    BY TypeOKParts DEF IInv, ListOK
<1>2. ASSUME UNCHANGED <<blocks, lastPing, ping>> PROVE RangeKept'
    BY <1>1, <1>2, RangeStays
<1>3. CASE Enlist
    <2> DEFINE e == [id |-> sys.id, ip |-> sys.ip]
    <2>1. PushBack(e) /\ ping' = ping /\ e \in user_info
        BY <1>1, <1>3 DEF Enlist, SysOK, Idle, Announcing, user_info
    <2> HIDE DEF e
    <2>2. SUFFICES ASSUME ping.pc = "sending"
                   PROVE  /\ ping.last <= size'
                          /\ \A j \in 1 .. ping.last : blocks'[ping.gen][j] = At(j)'
        BY <2>1 DEF RangeKept
    <2>3. /\ ping.gen \in DOMAIN blocks /\ ping.last \in Nat
          /\ ping.last <= Len(blocks[ping.gen])
        BY <1>1, <2>2 DEF PingOK, Sending, Erased, Sleeping
    <2>4. /\ size' = size + 1 /\ size \in Nat /\ ping.last <= size
          /\ \A k \in Elements : blocks'[cur'][k] = At(k)
        BY <1>1, <2>1, <2>2, PushBackFacts, ListFacts DEF RangeKept
    <2>5. ASSUME NEW j \in 1 .. ping.last PROVE blocks'[ping.gen][j] = At(j)'
        <3>1. j \in DOMAIN blocks[ping.gen] /\ j <= size /\ j \in Elements
            BY <1>1, <2>3, <2>4, ListFacts DEF Elements
        <3>2. blocks'[ping.gen][j] = blocks[ping.gen][j]
            BY <1>1, <2>1, <2>3, <3>1, PushBackKeepsOld
        <3>3. At(j)' = At(j)
            BY <2>4, <3>1 DEF At
        <3> QED
            BY <2>2, <3>2, <3>3 DEF RangeKept
    <2> QED
        BY <2>3, <2>4, <2>5
<1>4. CASE PingRound
    BY <1>4 DEF PingRound, RangeKept
<1>5. ASSUME \/ \E u : PingTo(u)
             \/ \E u, m : TellDeparture(u, m)
      PROVE  RangeKept'
    <2>1. /\ UNCHANGED <<blocks, lastPing>> /\ ping \in Sending
          /\ ping'.gen = ping.gen /\ ping'.last = ping.last
        BY <1>1, <1>5, PingBody
    <2> QED
        BY <1>1, <2>1, RangeStays DEF Sending
<1>6. CASE PingSleep
    BY <1>6 DEF PingSleep, Sleeping, RangeKept
<1>7. CASE Tick
    <2>1. /\ UNCHANGED blocks
          /\ ping'.pc = "sending" => ping' = ping
        BY <1>7 DEF Tick, Sleeping
    <2>2. lastPing' \in Seq(Age) /\ Len(lastPing') = Len(lastPing)
        BY <1>1, <1>7, TickFacts
    <2> QED
        BY <1>1, <2>1, <2>2, RangeStays
<1>8. ASSUME NEW u \in Users, ReceiveSignOfLife(u) PROVE RangeKept'
    <2>1. lastPing' \in Seq(Age) /\ Len(lastPing') = Len(lastPing)
        BY <1>1, <1>8, RefreshFacts DEF ReceiveSignOfLife
    <2> QED
        BY <1>1, <1>8, <2>1, RangeStays DEF ReceiveSignOfLife
<1>9. CASE PingStart
    <2>1. /\ UNCHANGED <<blocks, lastPing>> /\ ping'.gen = cur /\ ping'.last = size
        BY <1>9 DEF PingStart, usersList
    <2>2. cur' = cur /\ size' = size /\ size \in Nat
        BY <1>1, <2>1, ListFacts DEF cur, size
    <2> QED
        BY <2>1, <2>2 DEF RangeKept, At
<1> QED
    BY <1>2, <1>3, <1>4, <1>5, <1>6, <1>7, <1>8, <1>9
       DEF Next, ReceivePassword, RefusePassword, AnnounceTo, TunPacket, TunSend,
           usersList, vars

\* Whatever joins while the loop sends, it pings members, and what it reports
\* as gone is listed no more.
THEOREM ServerPingLoopTellsMembers == Spec => PingLoopTellsMembers
<1>1. Init => RangeKept
    BY DEF Init, RangeKept, Sleeping
<1>2. IInv /\ RangeKept =>
        \A u \in Users :
          /\ PingTo(u) => Listed(u)
          /\ \A m \in Departed : TellDeparture(u, m) => Listed(u) /\ m \notin Members
    <2> SUFFICES ASSUME IInv, RangeKept, NEW u \in Users,
                        PingTo(u) \/ \E m \in Departed : TellDeparture(u, m)
                 PROVE  Listed(u) /\ Departed \cap Members = {}
        BY DEF Departed
    <2>1. PingOK /\ ListOK
        BY TypeOKParts DEF IInv
    <2>2. /\ ping \in Sending /\ ping.k <= ping.last
          /\ u \in Read(ping.gen, ping.k)
        BY <2>1, PingBody DEF PingTo, TellDeparture
    <2>3. ping.k \in 1 .. ping.last /\ ping.last <= size
        BY <2>2 DEF Sending, RangeKept
    <2>4. u = At(ping.k).id
        BY <2>2, <2>3, UserAssumption DEF Read, RangeKept, Sending
    <2>5. ping.k \in Elements
        BY <2>1, <2>2, <2>3, ListFacts DEF Elements, Sending
    <2>6. Departed \cap Members = {}
        BY DEF IInv, Leases, OnePlacePerAddress
    <2> QED
        BY <2>4, <2>5, <2>6 DEF Listed
<1>3. IInv /\ RangeKept /\ [Next]_vars => RangeKept'
    BY RangeKeptStep
<1> QED
    BY <1>1, <1>2, <1>3, InvariantIInv, PTL DEF Spec, PingLoopTellsMembers

----------------------------------------------------------------------------
(* Members passed over.  An erase moves entries to the front; those that    *)
(* come to lie in front of position k were behind it, and there are no more *)
(* of them than entries erased in front of k.                               *)

LEMMA FiniteImage ==
    ASSUME NEW S, IsFiniteSet(S), NEW f, DOMAIN f = S
    PROVE  LET T == {f[x] : x \in S}
           IN  IsFiniteSet(T) /\ Cardinality(T) <= Cardinality(S)
<1> DEFINE T == {f[x] : x \in S}
<1>1. [x \in S |-> f[x]] \in Surjection(S, T)
    BY DEF Surjection
<1> HIDE DEF T
<1> QED
    BY <1>1, FS_Surjection DEF T

LEMMA CountInterval ==
    ASSUME NEW x \in Nat
    PROVE  IsFiniteSet(1 .. x) /\ Cardinality(1 .. x) = x
<1>1. /\ IsFiniteSet(1 .. x)
      /\ Cardinality(1 .. x) = IF 1 > x THEN 0 ELSE x - 1 + 1
    BY FS_Interval
<1> QED
    BY <1>1

\* The places in front of k that take an element from k on.
Moved(n, from, k) == {j \in 1 .. n : j < k /\ from[j] >= k}

Increasing(n, from) == \A i, j \in 1 .. n : i < j => from[i] < from[j]

Chosen(N, kept, n, from) ==
    /\ N \in Nat /\ kept \in SUBSET (1 .. N)
    /\ n \in Nat /\ n = Cardinality(kept)
    /\ from \in [1 .. n -> kept] /\ Increasing(n, from)

LEMMA MovedInFront ==
    ASSUME NEW N, NEW kept, NEW n, NEW from, Chosen(N, kept, n, from),
           NEW k \in Nat \ {0}
    PROVE  /\ \A i \in kept : \E j \in 1 .. n : from[j] = i
           /\ IsFiniteSet(Moved(n, from, k))
           /\ Cardinality(Moved(n, from, k)) <= Cardinality((1 .. N) \ kept)
<1> USE DEF Increasing, Chosen
<1> DEFINE B == {j \in 1 .. n : j < k /\ from[j] >= k}
           A == {j \in 1 .. n : from[j] < k}
           L == 1 .. k - 1
           gone == (1 .. N) \ kept
<1>1. /\ IsFiniteSet(1 .. N) /\ IsFiniteSet(kept)
      /\ IsFiniteSet(1 .. n) /\ Cardinality(1 .. n) = n
      /\ IsFiniteSet(L) /\ Cardinality(L) = k - 1
      /\ IsFiniteSet(gone)
    <2>1. /\ IsFiniteSet(1 .. N)
          /\ IsFiniteSet(1 .. n) /\ Cardinality(1 .. n) = n
          /\ IsFiniteSet(1 .. k - 1) /\ Cardinality(1 .. k - 1) = k - 1
        <3>1. k - 1 \in Nat
            OBVIOUS
        <3> QED
            BY <3>1, CountInterval
    <2>2. kept \in SUBSET (1 .. N) /\ gone \in SUBSET (1 .. N)
        OBVIOUS
    <2>3. IsFiniteSet(kept) /\ IsFiniteSet(gone)
        BY ONLY <2>1, <2>2, FS_Subset
    <2> QED
        BY <2>1, <2>3
<1>2. \A j \in 1 .. n : from[j] \in kept /\ from[j] \in 1 .. N
    OBVIOUS
<1>3. \A i, j \in 1 .. n : from[i] = from[j] => i = j
    BY <1>2
<1>4. \A i \in kept : \E j \in 1 .. n : from[j] = i
    <2>1. from \in Injection(1 .. n, kept)
        BY <1>3 DEF Injection, IsInjective
    <2>2. from \in Surjection(1 .. n, kept)
        BY <1>1, <2>1, FS_Injection
    <2> QED
        BY <2>2 DEF Surjection
<1>5. /\ IsFiniteSet(B) /\ Cardinality(B) \in Nat
      /\ IsFiniteSet(A) /\ Cardinality(A) \in Nat
      /\ Cardinality(gone) \in Nat
    BY <1>1, FS_Subset, FS_CardinalityType
<1>6. CASE B = {}
    BY <1>4, <1>5, <1>6, FS_EmptySet DEF Moved
<1>7. CASE B # {}
    <2>1. PICK b \in B : TRUE
        BY <1>7
    <2>2. k <= N
        BY <1>2, <2>1
    <2>3. A \subseteq L
        <3> SUFFICES ASSUME NEW j \in A PROVE j < k
            OBVIOUS
        <3>1. ~(b < j)
            BY <1>2, <2>1
        <3> QED
            BY <2>1, <3>1
    <2>4. A \cup B \subseteq L /\ A \cap B = {}
        BY <1>2, <2>3
    <2>5. Cardinality(A) + Cardinality(B) <= k - 1
        <3>1. Cardinality(A \cup B) = Cardinality(A) + Cardinality(B) - Cardinality({})
            BY ONLY <1>5, <2>4, FS_Union
        <3>2. Cardinality(A \cup B) <= Cardinality(L)
            BY ONLY <1>1, <2>4, FS_Subset
        <3> HIDE DEF A, B, L
        <3> QED
            BY <1>1, <1>5, <3>1, <3>2, FS_EmptySet
    <2>6. Cardinality(L \cap kept) <= Cardinality(A)
        <3> DEFINE f == [j \in A |-> from[j]]
        <3>1. \A j \in A : from[j] \in L \cap kept
            BY <1>2
        <3>2. ASSUME NEW i \in L \cap kept PROVE \E j \in A : from[j] = i
            <4>1. PICK j \in 1 .. n : from[j] = i
                BY <1>4
            <4> QED
                BY <4>1
        <3>3. f \in Surjection(A, L \cap kept)
            BY <3>1, <3>2 DEF Surjection
        <3> HIDE DEF f, A, L
        <3> QED
            BY <1>5, <3>3, FS_Surjection
    <2>7. k - 1 = Cardinality(L \cap kept) + Cardinality(L \ kept)
        <3>1. /\ IsFiniteSet(L \cap kept) /\ IsFiniteSet(L \ kept)
              /\ L = (L \cap kept) \cup (L \ kept)
              /\ (L \cap kept) \cap (L \ kept) = {}
            BY <1>1, FS_Subset
        <3>2. /\ Cardinality(L \cap kept) \in Nat /\ Cardinality(L \ kept) \in Nat
            BY <3>1, FS_CardinalityType
        <3>3. Cardinality(L) = Cardinality(L \cap kept) + Cardinality(L \ kept)
                                 - Cardinality({})
            BY ONLY <3>1, FS_Union
        <3> HIDE DEF L
        <3> QED
            BY <1>1, <3>2, <3>3, FS_EmptySet
    <2>8. Cardinality(L \ kept) <= Cardinality(gone)
        <3>1. L \ kept \subseteq gone
            BY <2>2
        <3> QED
            BY ONLY <1>1, <3>1, FS_Subset
    <2>9. /\ Cardinality(L \cap kept) \in Nat /\ Cardinality(L \ kept) \in Nat
        BY <1>1, FS_Subset, FS_CardinalityType
    <2> HIDE DEF A, B, L, gone
    <2>10. Cardinality(B) <= Cardinality(gone)
        BY <1>5, <2>5, <2>6, <2>7, <2>8, <2>9
    <2> QED
        BY <1>4, <1>5, <2>10 DEF B, gone, Moved
<1> QED
    BY <1>6, <1>7

\* Who has not been told of the join and is not ahead of the loop's position.
Missed == {m \in telling.untold : \A j \in Elements : j >= sys.k => At(j) # m}

MissedFew ==
    sys.pc = "announcing" =>
        /\ sys.gen = cur /\ size <= sys.last
        /\ IsFiniteSet(telling.untold)
        /\ Cardinality(Missed) <= telling.erased

LEMMA MissedSmaller ==
    ASSUME NEW M, NEW T, IsFiniteSet(T), M \subseteq T, NEW b \in Int, Cardinality(T) <= b
    PROVE  Cardinality(M) <= b
<1>1. Cardinality(M) <= Cardinality(T) /\ Cardinality(M) \in Nat /\ Cardinality(T) \in Nat
    BY FS_Subset, FS_CardinalityType
<1> QED
    BY <1>1

\* A join begins with all members untold and ahead.
LEMMA MissedReceivePassword ==
    ASSUME IInv, NEW u, ReceivePassword(u)
    PROVE  MissedFew'
<1>1. /\ sys'.gen = cur /\ sys'.k = 1 /\ sys'.last = size
      /\ telling' = [untold |-> Members, erased |-> 0]
      /\ UNCHANGED <<blocks, lastPing>>
    BY DEF ReceivePassword, usersList
<1>2. size \in Nat /\ Elements = 1 .. size
    BY TypeOKParts, ListFacts DEF IInv, Elements
<1>3. cur' = cur /\ size' = size /\ \A j : At(j)' = At(j)
    BY <1>1 DEF cur, size, At
<1>4. Missed' = {}
    BY <1>1, <1>2, <1>3 DEF Missed, Members, Elements
<1>5. IsFiniteSet(Members)
    <2> DEFINE f == [k \in Elements |-> At(k)]
    <2>1. Members = {f[k] : k \in Elements} /\ DOMAIN f = Elements
        BY DEF Members
    <2>2. IsFiniteSet(Elements)
        BY <1>2, FS_Interval
    <2> HIDE DEF f
    <2> QED
        BY <2>1, <2>2, FiniteImage
<1> QED
    BY <1>1, <1>2, <1>3, <1>4, <1>5, FS_EmptySet DEF MissedFew

\* The loop tells who is at its position, and advances.
LEMMA MissedAnnounceTo ==
    ASSUME IInv, MissedFew, NEW u, AnnounceTo(u)
    PROVE  MissedFew'
<1>1. /\ sys \in Announcing /\ sys.pc = "announcing"
      /\ sys' = [sys EXCEPT !.k = @ + 1] /\ u \in Read(sys.gen, sys.k)
      /\ telling' = [telling EXCEPT !.untold = {m \in @ : m.id # u}]
      /\ UNCHANGED <<blocks, lastPing>>
    BY TypeOKParts DEF IInv, AnnounceTo, SysOK, Idle, usersList
<1>2. /\ sys'.pc = "announcing" /\ sys'.gen = sys.gen /\ sys'.last = sys.last
      /\ sys'.k = sys.k + 1 /\ sys.k \in Nat \ {0}
    BY <1>1 DEF Announcing
<1>3. /\ telling'.untold = {m \in telling.untold : m.id # u}
      /\ telling'.erased = telling.erased /\ telling.erased \in Nat
    BY <1>1, TypeOKParts DEF IInv, HistoryOK
<1>4. cur' = cur /\ size' = size /\ Elements' = Elements /\ \A j : At(j)' = At(j)
    BY <1>1 DEF cur, size, At, Elements
<1>5. u = At(sys.k).id
    BY <1>1 DEF MissedFew, Read, At
<1>6. Missed' \subseteq Missed
    <2> SUFFICES ASSUME NEW m \in Missed', NEW j \in Elements, j >= sys.k
                 PROVE  At(j) # m
        BY <1>3 DEF Missed
    <2>1. m.id # u /\ \A i \in Elements : i >= sys.k + 1 => At(i) # m
        BY <1>2, <1>3, <1>4 DEF Missed
    <2>2. j \in Nat
        BY DEF Elements
    <2> QED
        BY <1>2, <1>5, <2>1, <2>2
<1>7. IsFiniteSet(Missed) /\ IsFiniteSet(telling'.untold)
    <2>1. IsFiniteSet(telling.untold)
        BY <1>1 DEF MissedFew
    <2>2. Missed \in SUBSET telling.untold /\ telling'.untold \in SUBSET telling.untold
        BY <1>3 DEF Missed
    <2> QED
        BY ONLY <2>1, <2>2, FS_Subset
<1>8. Cardinality(Missed') <= telling'.erased
    <2>1. Cardinality(Missed) <= telling.erased
        BY <1>1 DEF MissedFew
    <2> QED
        BY <1>3, <1>6, <1>7, <2>1, MissedSmaller
<1> QED
    BY <1>1, <1>2, <1>4, <1>7, <1>8 DEF MissedFew

\* The erase keeps the order of what it keeps.
LEMMA KeepOrder ==
    ASSUME ListOK, NEW kept \in SUBSET Elements, Keep(kept)
    PROVE  \E from \in [1 .. size' -> kept] :
                /\ Increasing(size', from)
                /\ \A j \in 1 .. size' : At(j)' = At(from[j])
<1> DEFINE n == Cardinality(kept)
<1>1. /\ cur' = cur /\ size' = n /\ n <= size /\ n \in Nat /\ size \in Nat
      /\ cur \in DOMAIN blocks /\ DOMAIN blocks[cur] = 1 .. Len(blocks[cur])
      /\ size <= Len(blocks[cur]) /\ Len(blocks[cur]) \in Nat
    <2>1. size' \in Nat
        BY KeepFacts, ListFacts DEF ListOK, size
    <2> QED
        BY <2>1, KeepFacts, ListFacts DEF ListOK
<1>2. PICK from \in [1 .. n -> kept] :
        /\ \A i, j \in 1 .. n : i < j => from[i] < from[j]
        /\ blocks' = [blocks EXCEPT ![cur] =
              [k \in DOMAIN @ |-> IF k <= n THEN @[from[k]] ELSE @[k]]]
    BY DEF Keep
<1> HIDE DEF n
<1>3. blocks'[cur] = [k \in DOMAIN blocks[cur] |->
                        IF k <= n THEN blocks[cur][from[k]] ELSE blocks[cur][k]]
    BY <1>1, <1>2
<1>4. ASSUME NEW j \in 1 .. n PROVE At(j)' = At(from[j])
    <2>1. j \in DOMAIN blocks[cur] /\ j <= n
        BY <1>1
    <2>2. blocks'[cur][j] = blocks[cur][from[j]]
        BY <1>3, <2>1
    <2> QED
        BY <1>1, <2>2 DEF At
<1> QED
    BY <1>1, <1>2, <1>4 DEF Increasing

LEMMA MissedPingRound ==
    ASSUME IInv, MissedFew, PingRound
    PROVE  MissedFew'
<1> SUFFICES ASSUME sys.pc = "announcing" PROVE MissedFew'
    BY DEF PingRound, MissedFew
<1> DEFINE expired == {k \in Elements : Expired(lastPing[k])}
           kept == Elements \ expired
           gone == {At(k) : k \in expired}
<1>1. /\ Keep(kept) /\ sys' = sys
      /\ telling' = [untold |-> telling.untold \ gone,
                     erased |-> telling.erased + Cardinality(expired)]
    BY DEF PingRound, Idle
<1>2. /\ ListOK /\ sys \in Announcing /\ telling.erased \in Nat
      /\ size \in Nat /\ Elements = 1 .. size
    BY TypeOKParts, ListFacts DEF IInv, SysOK, HistoryOK, Idle, Elements
<1>3. kept \in SUBSET Elements /\ expired = (1 .. size) \ kept
    BY <1>2
<1>4. /\ cur' = cur /\ size' = Cardinality(kept) /\ size' <= size
      /\ size' \in Nat /\ Elements' = 1 .. size'
    <2>1. cur' = cur /\ size' = Cardinality(kept) /\ size' <= size /\ ListOK'
        BY <1>1, <1>2, <1>3, KeepFacts
    <2>2. size' \in Nat
        BY <2>1 DEF ListOK, size
    <2> QED
        BY <2>1, <2>2 DEF Elements
<1> HIDE DEF kept, expired
<1>5. PICK from \in [1 .. size' -> kept] :
        /\ Increasing(size', from)
        /\ \A j \in 1 .. size' : At(j)' = At(from[j])
    BY <1>1, <1>2, <1>3, KeepOrder
<1>6. sys.k \in Nat \ {0}
    BY <1>2 DEF Announcing
<1> DEFINE B == Moved(size', from, sys.k)
<1>7. /\ \A i \in kept : \E j \in 1 .. size' : from[j] = i
      /\ IsFiniteSet(B) /\ Cardinality(B) <= Cardinality(expired)
    <2>1. kept \in SUBSET (1 .. size)
        BY <1>2, <1>3
    <2>2. Chosen(size, kept, size', from)
        BY <1>2, <1>4, <1>5, <2>1 DEF Chosen
    <2>3. /\ \A i \in kept : \E j \in 1 .. size' : from[j] = i
          /\ IsFiniteSet(B) /\ Cardinality(B) <= Cardinality((1 .. size) \ kept)
        BY ONLY <1>6, <2>2, MovedInFront
    <2> QED
        BY <1>3, <2>3
<1>8. IsFiniteSet(telling.untold) /\ IsFiniteSet(Missed)
    <2>1. IsFiniteSet(telling.untold) /\ Missed \in SUBSET telling.untold
        BY DEF MissedFew, Missed
    <2> QED
        BY ONLY <2>1, FS_Subset
<1> DEFINE f == [j \in B |-> At(from[j])]
           moved == {f[j] : j \in B}
<1>9. Missed' \subseteq Missed \cup moved
    <2> SUFFICES ASSUME NEW m \in Missed', m \notin Missed
                 PROVE  m \in moved
        OBVIOUS
    <2>1. /\ m \in telling.untold /\ m \notin gone
          /\ \A j \in 1 .. size' : j >= sys.k => At(from[j]) # m
        BY <1>1, <1>4, <1>5 DEF Missed
    <2>2. PICK i \in Elements : i >= sys.k /\ At(i) = m
        BY <2>1 DEF Missed
    <2>3. i \in kept
        BY <1>2, <1>3, <2>1, <2>2
    <2>4. PICK j \in 1 .. size' : from[j] = i
        BY <1>7, <2>3
    <2>5. j < sys.k
        BY <1>6, <2>1, <2>2, <2>4
    <2>6. j \in B
        BY <2>2, <2>4, <2>5 DEF Moved
    <2> QED
        BY <2>2, <2>4, <2>6
<1>10. IsFiniteSet(moved) /\ Cardinality(moved) <= Cardinality(B)
    <2>1. DOMAIN f = B
        OBVIOUS
    <2> HIDE DEF f, B
    <2> QED
        BY <1>7, <2>1, FiniteImage
<1> HIDE DEF moved
<1>11. /\ IsFiniteSet(Missed \cup moved)
       /\ Cardinality(Missed \cup moved) <= telling.erased + Cardinality(expired)
    <2>1. /\ IsFiniteSet(Missed \cup moved) /\ IsFiniteSet(Missed \cap moved)
          /\ Cardinality(Missed \cup moved) =
                Cardinality(Missed) + Cardinality(moved) - Cardinality(Missed \cap moved)
        BY <1>8, <1>10, FS_Union, FS_Intersection
    <2>2. IsFiniteSet(expired)
        <3>1. IsFiniteSet(1 .. size) /\ expired \in SUBSET (1 .. size)
            BY <1>2, <1>3, FS_Interval
        <3> QED
            BY ONLY <3>1, FS_Subset
    <2>3. /\ Cardinality(Missed) \in Nat /\ Cardinality(moved) \in Nat
          /\ Cardinality(Missed \cap moved) \in Nat /\ Cardinality(expired) \in Nat
          /\ Cardinality(B) \in Nat
        BY <1>7, <1>8, <1>10, <2>1, <2>2, FS_CardinalityType
    <2>4. Cardinality(Missed) <= telling.erased
        BY DEF MissedFew
    <2> HIDE DEF B
    <2> QED
        BY <1>2, <1>7, <1>10, <2>1, <2>3, <2>4
<1>12. Cardinality(Missed') <= telling'.erased
    <2>1. telling'.erased = telling.erased + Cardinality(expired)
        BY <1>1
    <2>2. telling'.erased \in Int
        <3>1. IsFiniteSet(1 .. size) /\ expired \in SUBSET (1 .. size)
            BY <1>2, <1>3, FS_Interval
        <3>2. Cardinality(expired) \in Nat
            BY ONLY <3>1, FS_Subset, FS_CardinalityType
        <3> QED
            BY <1>2, <2>1, <3>2
    <2> QED
        BY <1>9, <1>11, <2>1, <2>2, MissedSmaller
<1>13. IsFiniteSet(telling'.untold)
    <2>1. telling'.untold \in SUBSET telling.untold
        BY <1>1
    <2> QED
        BY ONLY <1>8, <2>1, FS_Subset
<1>14. sys'.gen = cur' /\ size' <= sys'.last
    <2>1. sys.gen = cur /\ size <= sys.last /\ sys.last \in Nat
        BY <1>2 DEF MissedFew, Announcing
    <2> QED
        BY <1>1, <1>2, <1>4, <2>1
<1> QED
    BY <1>12, <1>13, <1>14 DEF MissedFew

LEMMA MissedFewStep ==
    ASSUME IInv, MissedFew, [Next]_vars
    PROVE  MissedFew'
<1>1. ASSUME UNCHANGED <<blocks, sys, telling>>, size' = size PROVE MissedFew'
    <2>1. cur' = cur /\ Elements' = Elements /\ \A j : At(j)' = At(j)
        BY <1>1 DEF cur, Elements, At
    <2>2. Missed' = Missed
        BY <1>1, <2>1 DEF Missed
    <2> QED
        BY <1>1, <2>1, <2>2 DEF MissedFew
<1>2. ListOK
    BY TypeOKParts DEF IInv
<1>3. CASE Enlist
    BY <1>3 DEF Enlist, MissedFew, Idle
<1>4. CASE Tick
    BY <1>1, <1>2, <1>4, TickFacts DEF Tick, history, size
<1>5. ASSUME NEW u \in Users, ReceiveSignOfLife(u) PROVE MissedFew'
    BY <1>1, <1>2, <1>5, RefreshFacts DEF ReceiveSignOfLife, history, size
<1>6. CASE \/ \E u \in Users : RefusePassword(u)
           \/ \E u \in Anyone : TunSend(u) \/ PingTo(u)
           \/ \E u \in Anyone, m \in Departed : TellDeparture(u, m)
           \/ \E dest \in Addresses : TunPacket(dest)
           \/ PingStart
           \/ PingSleep
           \/ UNCHANGED vars
    BY <1>1, <1>6 DEF RefusePassword, TunSend, PingTo, TellDeparture, TunPacket,
                      PingStart, PingSleep, vars, usersList, history, size
<1> QED
    BY <1>3, <1>4, <1>5, <1>6, MissedReceivePassword, MissedAnnounceTo, MissedPingRound
       DEF Next

\* A join misses no more of its members than entries were erased meanwhile.
THEOREM ServerPassedOverByErase == Spec => []PassedOverByErase
<1>1. Init => MissedFew
    BY DEF Init, MissedFew, Idle
<1>2. ASSUME IInv, MissedFew PROVE PassedOverByErase
    <2> SUFFICES ASSUME sys.pc = "announcing", sys.k > sys.last
                 PROVE  Cardinality(telling.untold) <= telling.erased
        BY DEF PassedOverByErase
    <2>1. /\ sys \in Announcing /\ size \in Nat /\ size <= sys.last
          /\ Cardinality(Missed) <= telling.erased
        BY <1>2, TypeOKParts, ListFacts DEF IInv, SysOK, Idle, MissedFew
    <2>2. \A j \in Elements : ~(j >= sys.k)
        BY <2>1 DEF Announcing, Elements
    <2>3. Missed = telling.untold
        BY <2>2 DEF Missed
    <2> QED
        BY <2>1, <2>3
<1>3. IInv /\ MissedFew /\ [Next]_vars => MissedFew'
    BY MissedFewStep
<1> QED
    BY <1>1, <1>2, <1>3, InvariantIInv, PTL DEF Spec

=============================================================================
