---------------------------- MODULE IpPoolProofs ----------------------------
(***************************************************************************)
(* IpPool: its two containers partition the range, and it implements       *)
(* AddressPool, for every range and every byte swap.                       *)
(***************************************************************************)
EXTENDS IpPool, QueueLemmas

\* The byte swap is one-to-one, so an address has one name on either side.
LEMMA SwapInjective ==
    ASSUME NEW a \in uint32_t, NEW b \in uint32_t, htonl[a] = htonl[b]
    PROVE  a = b
<1>1. htonl[htonl[a]] = a /\ htonl[htonl[b]] = b
    BY PoolAssumption DEF IsByteSwap
<1> QED
    BY <1>1

\* The range lies within uint32_t.
LEMMA InPoolIsUint32 == InPool \subseteq uint32_t /\ start_ \in Int /\ end_ \in Int
<1>1. start_ \in uint32_t /\ end_ \in uint32_t
    BY PoolAssumption DEF IsByteSwap, IsRange, start_, end_, ntohl
<1> QED
    BY <1>1, PoolAssumption DEF IsByteSwap, InPool, uint32_t

IInv == TypeOK /\ Partition

LEMMA InitIInv == Init => IInv
<1> SUFFICES ASSUME Init PROVE IInv
    OBVIOUS
<1> DEFINE n == end_ - start_ + 1
<1>1. n \in Nat /\ start_ \in Int /\ end_ \in Int
    BY InPoolIsUint32, PoolAssumption DEF IsRange
<1>2. /\ free_ = [i \in 1 .. n |-> start_ + i - 1]
      /\ used_ = {}
    BY DEF Init
<1>3. \A i \in 1 .. n : start_ + i - 1 \in InPool
    BY <1>1 DEF InPool
<1>4. free_ \in Seq(InPool)
    BY <1>1, <1>2, <1>3
<1>5. DOMAIN free_ = 1 .. n
    BY <1>2
<1>6. \A i, j \in DOMAIN free_ : free_[i] = free_[j] => i = j
    BY <1>1, <1>2, <1>5
<1>7. ASSUME NEW a \in InPool PROVE a \in InFree
    <2>1. a - start_ + 1 \in 1 .. n
        BY <1>1 DEF InPool
    <2>2. free_[a - start_ + 1] = a
        BY <1>1, <1>2, <2>1 DEF InPool
    <2> QED
        BY <1>5, <2>1, <2>2 DEF InFree
<1>8. InFree \subseteq InPool
    BY <1>2, <1>3, <1>5 DEF InFree
<1> QED
    BY <1>2, <1>4, <1>6, <1>7, <1>8 DEF IInv, TypeOK, Partition

\* The invariant is the partition QueueLemmas speaks of.
LEMMA IInvPartitions == IInv <=> Partitions(free_, used_, InPool)
BY DEF IInv, TypeOK, Partition, InFree, Partitions, Elems

LEMMA AllocateIInv == ASSUME IInv, NEW ip, Allocate(ip) PROVE IInv'
<1>1. Partitions(free_, used_, InPool)
    BY IInvPartitions
<1>2. Partitions(Tail(free_), used_ \cup {Head(free_)}, InPool)
    BY <1>1, TakeHead DEF Allocate
<1>3. Partitions(free_, used_, InPool)'
    BY <1>2 DEF Allocate, InPool
<1> QED
    BY <1>3 DEF IInv, TypeOK, Partition, InFree, Partitions, Elems

LEMMA ReleaseIInv == ASSUME IInv, NEW ip, Release(ip) PROVE IInv'
<1>1. Partitions(free_, used_, InPool)
    BY IInvPartitions
<1>2. Partitions(Append(free_, ntohl[ip]), used_ \ {ntohl[ip]}, InPool)
    BY <1>1, PutBack DEF Release
<1>3. Partitions(free_, used_, InPool)'
    BY <1>2 DEF Release, InPool
<1> QED
    BY <1>3 DEF IInv, TypeOK, Partition, InFree, Partitions, Elems

\* The containers stay a partition of the range, whatever is called.
THEOREM PoolPartition == Spec => [](TypeOK /\ Partition)
<1>1. IInv /\ [Next]_vars => IInv'
    <2> SUFFICES ASSUME IInv, [Next]_vars PROVE IInv'
        OBVIOUS
    <2>1. CASE UNCHANGED vars
        BY <2>1 DEF vars, IInv, TypeOK, Partition, InFree
    <2>2. CASE \E ip \in Addresses : Allocate(ip)
        BY <2>2, AllocateIInv
    <2>3. CASE \E ip \in uint32_t : Release(ip)
        BY <2>3, ReleaseIInv
    <2> QED
        BY <2>1, <2>2, <2>3 DEF Next, AllocateThrows, ReleaseThrows
<1>2. IInv => TypeOK /\ Partition
    BY DEF IInv
<1> QED
    BY InitIInv, <1>1, <1>2, PTL DEF Spec

\* The queue and the set hold addresses of the range and nothing else.
THEOREM PoolTypes == Spec => []TypeOK
BY PoolPartition, PTL

\* Every step of the pool is a step AddressPool allows, or changes nothing.
LEMMA PromiseStep ==
    ASSUME IInv, [Next]_vars
    PROVE  [AsPromised!Next]_Leased
<1>1. used_ \subseteq uint32_t /\ free_ \in Seq(InPool)
    BY InPoolIsUint32 DEF IInv, TypeOK
<1>2. CASE UNCHANGED vars
    BY <1>2 DEF vars, Leased
<1>3. ASSUME NEW ip \in Addresses, Allocate(ip)
      PROVE  AsPromised!Next
    <2>1. Head(free_) \in InPool /\ Head(free_) \notin used_
        BY <1>3, IInvPartitions, HeadIsFree DEF Allocate
    <2>2. Head(free_) \in uint32_t
        BY <2>1, InPoolIsUint32
    <2>3. ip = htonl[Head(free_)] /\ used_' = used_ \cup {Head(free_)}
        BY <1>3 DEF Allocate
    <2>4. ip \notin Leased
        BY <1>1, <2>1, <2>2, <2>3, SwapInjective DEF Leased
    <2>5. Leased' = Leased \cup {ip}
        BY <2>3 DEF Leased
    <2>6. AsPromised!Grant(ip)
        BY <2>4, <2>5 DEF AsPromised!Grant
    <2> QED
        BY <2>6 DEF AsPromised!Next
<1>4. ASSUME NEW ip \in uint32_t, Release(ip)
      PROVE  AsPromised!Next
    <2>1. ntohl[ip] \in used_ /\ used_' = used_ \ {ntohl[ip]}
        BY <1>4 DEF Release
    <2>2. htonl[ntohl[ip]] = ip
        BY PoolAssumption DEF IsByteSwap, ntohl
    <2>3. ip \in Leased /\ ip \in Addresses
        BY <1>4, <2>1, <2>2 DEF Addresses, Release, Leased
    <2>4. Leased' = Leased \ {ip}
        BY <1>1, <2>1, <2>2, SwapInjective DEF Leased
    <2>5. AsPromised!Return(ip)
        BY <2>3, <2>4 DEF AsPromised!Return
    <2> QED
        BY <2>3, <2>5 DEF AsPromised!Next
<1> QED
    BY <1>2, <1>3, <1>4 DEF Next, AllocateThrows, ReleaseThrows, vars, Leased

\* The pool implements its abstract specification: no address is handed out
\* while it is out, and only an address that is out is taken back.
THEOREM PoolKeepsPromise == Spec => KeepsPromise
<1>1. Init => AsPromised!Init
    BY DEF Init, AsPromised!Init, Leased
<1>2. IInv /\ [Next]_vars => [AsPromised!Next]_Leased
    BY PromiseStep
<1>3. Spec => []IInv
    BY PoolPartition, PTL DEF IInv
<1> QED
    BY <1>1, <1>2, <1>3, PTL DEF Spec, KeepsPromise, AsPromised!Spec

=============================================================================
