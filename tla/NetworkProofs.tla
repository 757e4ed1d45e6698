---------------------------- MODULE NetworkProofs ----------------------------
(***************************************************************************)
(* Network: for any number of users, any pool and any byte swap, all agree *)
(* on whose an address is, a client's handshake is the first it hears, and *)
(* who is told of a departure never knew who left.                         *)
(***************************************************************************)
EXTENDS Network, QueueLemmas, FiniteSetTheorems

----------------------------------------------------------------------------
(* The invariant.                                                          *)

\* What the server's book holds; what may be listed by a client; what may be
\* on its way to u.
Lease == {m \in S!user_info : owner[m.ip] = m.id}
Entry == Lease \cup {[id |-> Server, ip |-> ServerIp]}
Letter(u) == {Handshake(m.ip) : m \in {n \in Lease : n.id = u}}
                \cup {Connected(m.id, m.ip) : m \in Lease}
                \cup {Disconnected(m.id, m.ip) : m \in Lease}

HasLease(u) == \E a \in S!Addresses : owner[a] = u

\* An address goes from the pool to one owner, a user has one at most.
PoolInv ==
    /\ S!ipPool!TypeOK /\ S!ipPool!Partition
    /\ owner \in [S!Addresses -> S!Anyone]
    /\ \A a \in S!Addresses : owner[a] # NoUser => htonl[a] \in used_
    /\ \A a, b \in S!Addresses : owner[a] = owner[b] /\ owner[a] # NoUser => a = b

\* No member has shown a sign of life.
ListInv ==
    /\ blocks \in Seq(Seq(Lease)) \ {<<>>}
    /\ lastPing \in Seq({S!Epoch})
    /\ S!size <= Len(blocks[S!cur])

Position(g, k) == g \in DOMAIN blocks /\ k \in DOMAIN blocks[g]

\* PingLoop announces the departure of who had an address, and keeps to the
\* slots that were written when its range-for started.
PingInv ==
    \/ ping.pc = "sleeping"
    \/ ping = [pc |-> "erased", gone |-> ping.gone] /\ ping.gone \subseteq Lease
    \/ /\ ping = [pc |-> "sending", gen |-> ping.gen, k |-> ping.k,
                  last |-> ping.last, gone |-> ping.gone, left |-> ping.left]
       /\ ping.k \in Nat \ {0} /\ ping.last \in Nat
       /\ \A k \in 1 .. ping.last : Position(ping.gen, k)
       /\ ping.left \subseteq ping.gone /\ ping.gone \subseteq Lease
       /\ ping.left # {} => ping.k <= ping.last

\* The server's threads hold positions in written slots.
ThreadInv ==
    /\ \/ sys = S!Idle
       \/ /\ sys \in S!Announcing
          /\ [id |-> sys.id, ip |-> sys.ip] \in Lease
          /\ sys.gen \in DOMAIN blocks /\ sys.last <= Len(blocks[sys.gen])
    /\ \/ tun = S!Idle
       \/ tun.pc = "found" /\ Position(tun.gen, tun.k)
    /\ PingInv

\* A client's list only grows; its TUN receiver holds the place of an entry
\* with the packet's destination.
ClientInv ==
    /\ known \in [Users -> [mem : Seq(Seq(Entry)) \ {<<>>}, size : Nat]]
    /\ \A u \in Users : known[u].size = Len(C!Newest(u))
    /\ out \in [Users -> [pc : {"idle", "terminated"}] \cup C!TunFound]
    /\ \A u \in Users : out[u].pc \notin {"idle", "terminated"} =>
          /\ out[u].gen \in DOMAIN known[u].mem
          /\ out[u].k \in DOMAIN known[u].mem[out[u].gen]
          /\ known[u].mem[out[u].gen][out[u].k].ip = out[u].dest

\* What is under way.
ChannelInv ==
    /\ inbox = [u \in Users |-> inbox[u]]
    /\ \A u \in Users : inbox[u] \in Seq(Letter(u))
    /\ packets \in [Users \cup {Server} -> SUBSET (Users \cup {Server})]
    /\ tunIp = [u \in Users |-> tunIp[u]]
    /\ handshake = [u \in Users |-> handshake[u]]
    /\ mtx_ready \in [Users -> BOOLEAN]

\* u has not asked, or has not been answered.
Outside(u) ==
    /\ inbox[u] = <<>> /\ handshake[u] = C!Idle
    /\ tunIp[u] = NoIp
    /\ Server \notin packets[u]

\* u's handshake is the next message it will receive.
Answering(u) ==
    /\ u \notin passwords /\ known[u].size > 0
    /\ tunIp[u] = NoIp /\ handshake[u] = C!Idle
    /\ inbox[u] # <<>> /\ Head(inbox[u]).type = "handshake"

\* u's handshake is being handled, and its device not started.
Handling(u) ==
    /\ u \notin passwords /\ known[u].size > 0
    /\ tunIp[u] = NoIp
    /\ \E a \in S!Addresses : owner[a] = u /\ IsHandled(u, a)

\* u's device was started.
Inside(u) ==
    /\ u \notin passwords /\ known[u].size > 0
    /\ tunIp[u] \in S!Addresses /\ owner[tunIp[u]] = u
    /\ handshake[u].pc # "received"
    /\ handshake[u].pc = "started" \/ mtx_ready[u]

\* Until its device is started a client knows the server only.
Innocent(u) == \A m \in C!Known(u) : m.id = Server

\* u's way into the network, in four stages.
StageInv(u) ==
    /\ ~HasLease(u) => Outside(u)
    /\ HasLease(u) => Answering(u) \/ Handling(u) \/ Inside(u)
    /\ tunIp[u] = NoIp => Innocent(u)
    /\ u \in passwords => known[u].size > 0
    /\ \A i \in DOMAIN inbox[u] :
          inbox[u][i].type = "handshake" =>
              i = 1 /\ tunIp[u] = NoIp /\ handshake[u] = C!Idle

NetInv ==
    /\ PoolInv /\ ListInv /\ ThreadInv /\ ClientInv /\ ChannelInv
    /\ \A u \in Users : StageInv(u)

\* u's join is over: it will not be announced any more.
Settled(u) ==
    u \in Users /\ HasLease(u) /\ ~(sys.pc = "announcing" /\ sys.id = u)

\* Until then u has heard of nobody.
Newcomer(u) ==
    /\ Innocent(u)
    /\ \A i \in DOMAIN inbox[u] : inbox[u][i].type = "handshake"

\* u was not told of id, and will not be.
Strangers(u, id) ==
    /\ Settled(id) /\ ~C!Lists(u, id)
    /\ \A i \in DOMAIN inbox[u] : inbox[u][i].type = "connected" => inbox[u][i].id # id

\* Who is still to be told of the departures of a round.
Audience ==
    IF ping.pc = "erased" THEN {m.id : m \in S!Members}
    ELSE IF ping.pc = "sending"
         THEN {blocks[ping.gen][k].id : k \in ping.k .. ping.last} ELSE {}

\* id is in some slot; a departure of id is on its way to u.
InSlot(id) ==
    \E g \in DOMAIN blocks : \E k \in DOMAIN blocks[g] : blocks[g][k].id = id
HearsOf(u, id) ==
    \E i \in DOMAIN inbox[u] : inbox[u][i].type = "disconnected" /\ inbox[u][i].id = id

\* They were enlisted after the erase, and never hear of who was erased.
StrangerInv ==
    /\ \A id \in Users : InSlot(id) => Settled(id)
    /\ \A u \in Users : ~Settled(u) => Newcomer(u)
    /\ ping.pc = "sending" /\ ping.gen = S!cur => ping.last <= S!size
    /\ \A m \in S!Departed : Settled(m.id) /\ \A u \in Audience : Strangers(u, m.id)
    /\ \A u, id \in Users : HearsOf(u, id) => Strangers(u, id)

----------------------------------------------------------------------------
(* The pool.                                                               *)

LEMMA AddressFacts ==
    /\ \A h \in S!ipPool!InPool : htonl[h] \in S!Addresses /\ htonl[htonl[h]] = h
    /\ \A a \in S!Addresses : htonl[a] \in S!ipPool!InPool /\ htonl[htonl[a]] = a
<1>1. S!ipPool!start_ \in S!ipPool!uint32_t /\ S!ipPool!end_ \in S!ipPool!uint32_t
    BY NetworkAssumption
       DEF NetworkAssumption, S!ipPool!IsByteSwap, S!ipPool!IsRange,
           S!ipPool!start_, S!ipPool!end_, S!ipPool!ntohl
<1>2. S!ipPool!InPool \subseteq S!ipPool!uint32_t
    BY <1>1, NetworkAssumption
       DEF NetworkAssumption, S!ipPool!IsByteSwap, S!ipPool!InPool,
           S!ipPool!uint32_t
<1>3. \A h \in S!ipPool!InPool : htonl[htonl[h]] = h
    BY <1>2, NetworkAssumption DEF NetworkAssumption, S!ipPool!IsByteSwap
<1> QED
    BY <1>3 DEF S!Addresses, S!ipPool!Addresses

LEMMA AllocateFacts ==
    ASSUME S!ipPool!TypeOK, S!ipPool!Partition, NEW ip, S!ipPool!Allocate(ip)
    PROVE  /\ S!ipPool!TypeOK' /\ S!ipPool!Partition'
           /\ ip \in S!Addresses
           /\ htonl[ip] \notin used_
           /\ used_' = used_ \cup {htonl[ip]}
<1> USE DEF S!ipPool!TypeOK, S!ipPool!Partition, S!ipPool!InFree,
            Partitions, Elems
<1>1. Partitions(free_, used_, S!ipPool!InPool)
    OBVIOUS
<1>2. Head(free_) \in S!ipPool!InPool /\ Head(free_) \notin used_
    BY <1>1, HeadIsFree DEF S!ipPool!Allocate
<1>3. ip \in S!Addresses /\ htonl[ip] = Head(free_)
    BY <1>2, AddressFacts DEF S!ipPool!Allocate
<1>4. Partitions(Tail(free_), used_ \cup {Head(free_)}, S!ipPool!InPool)
    BY <1>1, TakeHead DEF S!ipPool!Allocate
<1>5. S!ipPool!TypeOK' /\ S!ipPool!Partition'
    BY <1>4 DEF S!ipPool!Allocate, S!ipPool!InPool
<1> QED
    BY <1>2, <1>3, <1>5 DEF S!ipPool!Allocate

\* An allocated address was nobody's, and is now u's only one.
LEMMA LeaseGiven ==
    ASSUME PoolInv, NEW u \in Users, ~HasLease(u),
           NEW ip \in S!Addresses, S!ipPool!Allocate(ip),
           owner' = [owner EXCEPT ![ip] = u]
    PROVE  /\ PoolInv'
           /\ owner[ip] = NoUser /\ owner'[ip] = u
           /\ \A a \in S!Addresses : a # ip => owner'[a] = owner[a]
<1>1. /\ S!ipPool!TypeOK' /\ S!ipPool!Partition'
      /\ htonl[ip] \notin used_ /\ used_' = used_ \cup {htonl[ip]}
    BY AllocateFacts DEF PoolInv
<1>2. owner[ip] = NoUser
    BY <1>1 DEF PoolInv
<1>3. /\ owner' \in [S!Addresses -> S!Anyone] /\ owner'[ip] = u
      /\ \A a \in S!Addresses : a # ip => owner'[a] = owner[a]
    BY DEF PoolInv, S!Anyone
<1>4. \A a \in S!Addresses : owner'[a] # NoUser => htonl[a] \in used_'
    BY <1>1, <1>3 DEF PoolInv
<1>5. \A a, b \in S!Addresses : owner'[a] = owner'[b] /\ owner'[a] # NoUser => a = b
    BY <1>3 DEF PoolInv, HasLease
<1> QED
    BY <1>1, <1>2, <1>3, <1>4, <1>5 DEF PoolInv, S!Addresses, S!ipPool!Addresses,
       S!ipPool!InPool

----------------------------------------------------------------------------
(* Steps that leave the leases alone.                                      *)

LEMMA SameLeases ==
    ASSUME owner' = owner
    PROVE  /\ Lease' = Lease /\ Entry' = Entry
           /\ \A u \in Users : Letter(u)' = Letter(u) /\ HasLease(u)' = HasLease(u)
BY DEF Lease, Entry, Letter, HasLease

LEMMA PoolStays ==
    ASSUME PoolInv, UNCHANGED <<free_, used_, owner>>
    PROVE  PoolInv'
BY DEF PoolInv, S!ipPool!TypeOK, S!ipPool!Partition, S!ipPool!InFree

LEMMA ListStays ==
    ASSUME ListInv, UNCHANGED <<blocks, lastPing, owner>>
    PROVE  ListInv'
BY SameLeases DEF ListInv, S!size, S!cur

\* PingLoop's slots stay where they are while it does nothing.
LEMMA PingStays ==
    ASSUME PingInv, Lease \subseteq Lease', UNCHANGED ping,
           \A g, k : Position(g, k) => Position(g, k)'
    PROVE  PingInv'
BY DEF PingInv

LEMMA ThreadStays ==
    ASSUME ThreadInv, UNCHANGED <<blocks, sys, tun, ping, owner>>
    PROVE  ThreadInv'
<1>1. Lease' = Lease /\ \A g, k : Position(g, k)' = Position(g, k)
    BY SameLeases DEF Position
<1>2. PingInv'
    BY <1>1, PingStays DEF ThreadInv
<1> QED
    BY <1>1, <1>2 DEF ThreadInv, Position

LEMMA ClientStays ==
    ASSUME ClientInv, UNCHANGED <<known, out, owner>>
    PROVE  ClientInv'
BY SameLeases DEF ClientInv, C!Newest

LEMMA ChannelStays ==
    ASSUME ChannelInv, UNCHANGED <<inbox, packets, tunIp, handshake, mtx_ready, owner>>
    PROVE  ChannelInv'
BY SameLeases DEF ChannelInv

\* A stage lasts while its variables do; a password may be taken, and the
\* server may send to who has a lease.
LEMMA StageStays ==
    ASSUME NEW u \in Users, StageInv(u),
           HasLease(u)' = HasLease(u),
           \A a \in S!Addresses : owner[a] = u => owner'[a] = u,
           u \in passwords' => u \in passwords,
           known'[u] = known[u], tunIp'[u] = tunIp[u], inbox'[u] = inbox[u],
           handshake'[u] = handshake[u], mtx_ready'[u] = mtx_ready[u],
           Server \in packets'[u] => Server \in packets[u] \/ HasLease(u)
    PROVE  StageInv(u)'
<1>1. /\ C!Known(u)' = C!Known(u)
      /\ \A a : IsHandled(u, a)' = IsHandled(u, a)
    BY DEF C!Known, C!Newest, C!Elements, IsHandled
<1>2. S!Addresses' = S!Addresses
    BY DEF S!Addresses, S!ipPool!Addresses, S!ipPool!InPool
<1>3. Handling(u) => Handling(u)'
    BY <1>1, <1>2 DEF Handling
<1>4. /\ Answering(u) => Answering(u)'
      /\ Inside(u) => Inside(u)'
      /\ Outside(u) /\ ~HasLease(u) => Outside(u)'
      /\ Innocent(u) => Innocent(u)'
    BY <1>1, <1>2 DEF Answering, Inside, Outside, Innocent
<1> QED
    BY <1>3, <1>4 DEF StageInv

----------------------------------------------------------------------------
(* A new lease.                                                            *)

LEMMA SequencesGrow ==
    ASSUME NEW T, NEW R, T \subseteq R
    PROVE  /\ \A s \in Seq(T) : s \in Seq(R)
           /\ \A s \in Seq(Seq(T)) : s \in Seq(Seq(R))
<1>1. \A s \in Seq(T) : s \in Seq(R)
    OBVIOUS
<1>2. Seq(T) \subseteq Seq(R)
    BY <1>1
<1> DEFINE ST == Seq(T)
           SR == Seq(R)
<1> HIDE DEF ST, SR
<1>3. \A s \in Seq(ST) : s \in Seq(SR)
    BY <1>2 DEF ST, SR
<1> QED
    BY <1>1, <1>3 DEF ST, SR

\* What was true of an address stays true.
LEMMA LeasesGrow ==
    ASSUME PoolInv, NEW u \in Users, NEW ip \in S!Addresses,
           owner[ip] = NoUser, owner'[ip] = u,
           \A a \in S!Addresses : a # ip => owner'[a] = owner[a]
    PROVE  /\ Lease \subseteq Lease' /\ Entry \subseteq Entry'
           /\ [id |-> u, ip |-> ip] \in Lease'
           /\ \A w \in Users : Letter(w) \subseteq Letter(w)'
           /\ \A w \in Users : w # u => HasLease(w)' = HasLease(w)
           /\ \A w \in Users : \A a \in S!Addresses : owner[a] = w => owner'[a] = w
           /\ HasLease(u)'
<1>1. NoUser \notin Users
    BY NetworkAssumption DEF NetworkAssumption
<1>2. S!Addresses' = S!Addresses /\ S!user_info' = S!user_info
    BY DEF S!Addresses, S!ipPool!Addresses, S!ipPool!InPool, S!user_info
<1>3. \A m \in S!user_info : owner[m.ip] = m.id => owner'[m.ip] = m.id
    <2> TAKE m \in S!user_info
    <2>1. m.ip \in S!Addresses /\ m.id \in Users
        BY DEF S!user_info
    <2> QED
        BY <1>1, <2>1
<1>4. Lease \subseteq Lease' /\ [id |-> u, ip |-> ip] \in Lease'
    BY <1>2, <1>3 DEF Lease, S!user_info
<1>5. \A w \in Users : \A a \in S!Addresses : owner[a] = w => owner'[a] = w
    BY <1>1
<1>6. HasLease(u)' /\ \A w \in Users : w # u => HasLease(w)' = HasLease(w)
    BY <1>1, <1>2 DEF HasLease
<1>7. Entry \subseteq Entry' /\ \A w \in Users : Letter(w) \subseteq Letter(w)'
    BY <1>4 DEF Entry, Letter, Handshake, Connected, Disconnected
<1> QED
    BY <1>4, <1>5, <1>6, <1>7

LEMMA ListFacts ==
    ASSUME ListInv
    PROVE  /\ S!cur \in Nat \ {0} /\ S!cur \in DOMAIN blocks
           /\ DOMAIN blocks = 1 .. S!cur /\ S!cur = Len(blocks)
           /\ \A g \in DOMAIN blocks :
                /\ blocks[g] \in Seq(Lease)
                /\ Len(blocks[g]) \in Nat
                /\ DOMAIN blocks[g] = 1 .. Len(blocks[g])
                /\ \A k \in DOMAIN blocks[g] : blocks[g][k] \in Lease
           /\ S!size \in Nat /\ S!size <= Len(blocks[S!cur])
           /\ DOMAIN lastPing = 1 .. S!size
           /\ \A k \in 1 .. S!size : lastPing[k] = S!Epoch
BY DEF ListInv, S!cur, S!size

LEMMA LeaseFacts ==
    /\ \A m \in Lease : /\ m.id \in Users /\ m.ip \in S!Addresses
                        /\ owner[m.ip] = m.id /\ HasLease(m.id)
                        /\ m = [id |-> m.id, ip |-> m.ip]
    /\ NoUser \notin Users /\ Server \notin Users /\ NoIp \notin S!Addresses
BY NetworkAssumption DEF NetworkAssumption, Lease, S!user_info, HasLease

LEMMA ListGrows ==
    ASSUME ListInv, Lease \subseteq Lease', UNCHANGED <<blocks, lastPing>>
    PROVE  ListInv'
<1>1. blocks' \in Seq(Seq(Lease'))
    BY SequencesGrow DEF ListInv
<1> QED
    BY <1>1 DEF ListInv, S!cur, S!size, S!Epoch

LEMMA ClientGrows ==
    ASSUME ClientInv, Entry \subseteq Entry', UNCHANGED <<known, out>>
    PROVE  ClientInv'
<1>1. \A u \in Users : known[u] \in [mem : Seq(Seq(Entry')) \ {<<>>}, size : Nat]
    <2> TAKE u \in Users
    <2>1. /\ known[u] = [mem |-> known[u].mem, size |-> known[u].size]
          /\ known[u].mem \in Seq(Seq(Entry)) \ {<<>>} /\ known[u].size \in Nat
        BY DEF ClientInv
    <2>2. known[u].mem \in Seq(Seq(Entry'))
        BY <2>1, SequencesGrow
    <2> QED
        BY <2>1, <2>2
<1>2. known' \in [Users -> [mem : Seq(Seq(Entry')) \ {<<>>}, size : Nat]]
    BY <1>1 DEF ClientInv
<1>3. C!TunFound' = C!TunFound
    BY DEF C!TunFound, S!Addresses, S!ipPool!Addresses, S!ipPool!InPool
<1> QED
    BY <1>2, <1>3 DEF ClientInv, C!Newest

----------------------------------------------------------------------------
(* The server's steps.                                                     *)

LEMMA AppendFacts ==
    ASSUME NEW T, NEW s \in Seq(T), NEW e \in T
    PROVE  LET a == Append(s, e)
           IN  /\ a \in Seq(T) /\ a # <<>> /\ Len(a) = Len(s) + 1
               /\ DOMAIN a = 1 .. Len(s) + 1 /\ DOMAIN s = 1 .. Len(s)
               /\ a[Len(s) + 1] = e
               /\ \A i \in 1 .. Len(s) : a[i] = s[i]
               /\ s # <<>> => Head(a) = Head(s)
               /\ s = <<>> => Head(a) = e
OBVIOUS

\* One more message for u, of those it may get.
LEMMA ChannelAppend ==
    ASSUME ChannelInv, \A w \in Users : Letter(w) \subseteq Letter(w)',
           NEW u \in Users, NEW m \in Letter(u)', SendSystem(u, m),
           UNCHANGED <<packets, tunIp, handshake, mtx_ready>>
    PROVE  /\ ChannelInv'
           /\ inbox'[u] = Append(inbox[u], m)
           /\ \A w \in Users : w # u => inbox'[w] = inbox[w]
<1>1. /\ inbox'[u] = Append(inbox[u], m)
      /\ \A w \in Users : w # u => inbox'[w] = inbox[w]
      /\ inbox' = [w \in Users |-> inbox'[w]]
    BY DEF ChannelInv, SendSystem
<1>2. \A w \in Users : inbox[w] \in Seq(Letter(w)')
    BY SequencesGrow DEF ChannelInv
<1>3. Append(inbox[u], m) \in Seq(Letter(u)')
    BY <1>2, AppendFacts
<1>4. \A w \in Users : inbox'[w] \in Seq(Letter(w)')
    BY <1>1, <1>2, <1>3
<1> QED
    BY <1>1, <1>4 DEF ChannelInv

LEMMA ReceivePasswordKeeps ==
    ASSUME NetInv, NEW u \in Users, ReceivePassword(u)
    PROVE  NetInv'
<1>1. PICK ip \in S!Addresses :
        /\ S!ipPool!Allocate(ip)
        /\ owner' = [owner EXCEPT ![ip] = u]
        /\ sys' = [pc |-> "announcing", id |-> u, ip |-> ip,
                   gen |-> S!cur, k |-> 1, last |-> S!size]
    BY DEF ReceivePassword, S!ReceivePassword
<1>2. /\ u \in passwords /\ passwords' = passwords \ {u}
      /\ SendSystem(u, Handshake(ip))
      /\ UNCHANGED <<blocks, lastPing, tun, ping, known, out, packets, tunIp,
                     handshake, mtx_ready>>
    BY <1>1 DEF ReceivePassword, S!ReceivePassword, S!usersList, clients
<1>3. /\ ~HasLease(u) /\ Outside(u) /\ tunIp[u] = NoIp /\ Innocent(u)
      /\ known[u].size > 0
    BY <1>2 DEF NetInv, StageInv, Answering, Handling, Inside, Outside
<1>4. /\ PoolInv' /\ owner[ip] = NoUser /\ owner'[ip] = u
      /\ \A a \in S!Addresses : a # ip => owner'[a] = owner[a]
    BY <1>1, <1>3, LeaseGiven DEF NetInv
<1>5. /\ Lease \subseteq Lease' /\ Entry \subseteq Entry'
      /\ [id |-> u, ip |-> ip] \in Lease'
      /\ \A w \in Users : Letter(w) \subseteq Letter(w)'
      /\ \A w \in Users : w # u => HasLease(w)' = HasLease(w)
      /\ \A w \in Users : \A a \in S!Addresses : owner[a] = w => owner'[a] = w
      /\ HasLease(u)'
    BY <1>4, LeasesGrow DEF NetInv
<1>6. ListInv' /\ ClientInv'
    BY <1>2, <1>5, ListGrows, ClientGrows DEF NetInv
<1>7. ThreadInv'
    <2>1. /\ sys' \in S!Announcing
          /\ sys'.gen \in DOMAIN blocks /\ sys'.last <= Len(blocks[sys'.gen])
          /\ sys'.id = u /\ sys'.ip = ip
        BY <1>1, ListFacts DEF NetInv, S!Announcing
    <2>2. S!Announcing' = S!Announcing
        BY DEF S!Announcing, S!Addresses, S!ipPool!Addresses, S!ipPool!InPool
    <2>3. PingInv'
        BY <1>2, <1>5, PingStays DEF NetInv, ThreadInv, Position
    <2> QED
        BY <1>2, <1>5, <2>1, <2>2, <2>3 DEF NetInv, ThreadInv, Position, S!Idle
<1>8. Handshake(ip) \in Letter(u)'
    BY <1>5 DEF Letter
<1>9. /\ ChannelInv'
      /\ inbox'[u] = Append(inbox[u], Handshake(ip))
      /\ \A w \in Users : w # u => inbox'[w] = inbox[w]
    BY <1>2, <1>5, <1>8, ChannelAppend DEF NetInv
<1>10. ASSUME NEW w \in Users PROVE StageInv(w)'
    <2>1. CASE w # u
        BY <1>2, <1>5, <1>9, <2>1, StageStays DEF NetInv
    <2>2. CASE w = u
        <3>1. /\ inbox'[u] # <<>> /\ Head(inbox'[u]) = Handshake(ip)
              /\ DOMAIN inbox'[u] = 1 .. 1
            BY <1>3, <1>9 DEF Outside
        <3>2. Answering(u)'
            BY <1>2, <1>3, <3>1 DEF Answering, Outside, Handshake
        <3>3. Innocent(u)' /\ tunIp'[u] = NoIp /\ u \notin passwords'
            BY <1>2, <1>3 DEF Innocent, C!Known, C!Newest, C!Elements
        <3> QED
            BY <1>5, <2>2, <3>1, <3>2, <3>3 DEF StageInv, Answering
    <2> QED
        BY <2>1, <2>2
<1> QED
    BY <1>4, <1>6, <1>7, <1>9, <1>10 DEF NetInv

LEMMA RefusePasswordKeeps ==
    ASSUME NetInv, NEW u \in Users, RefusePassword(u)
    PROVE  NetInv'
<1>1. /\ passwords' = passwords \ {u}
      /\ UNCHANGED <<free_, used_, owner, blocks, lastPing, sys, tun, ping,
                     known, out, inbox, packets, tunIp, handshake, mtx_ready>>
    BY DEF RefusePassword, S!RefusePassword, S!ipPool!AllocateThrows,
           S!ipPool!vars, S!usersList, S!history, clients
<1>2. \A w \in Users : StageInv(w)'
    BY <1>1, StageStays, SameLeases DEF NetInv
<1> QED
    BY <1>1, <1>2, PoolStays, ListStays, ThreadStays, ClientStays, ChannelStays
       DEF NetInv

\* Who is read in a written slot has a lease.
LEMMA ReadFacts ==
    ASSUME ListInv, NEW g, NEW k, Position(g, k),
           NEW u \in S!Read(g, k), u # NoUser
    PROVE  u \in Users /\ HasLease(u)
<1>1. blocks[g][k] \in Lease /\ u = blocks[g][k].id
    BY ListFacts DEF Position, S!Read
<1> QED
    BY <1>1, LeaseFacts

\* A message about another member disturbs no stage.
LEMMA LetterSent ==
    ASSUME NetInv, NEW u \in Users, HasLease(u), NEW m \in Letter(u),
           m.type # "handshake", SendSystem(u, m),
           UNCHANGED <<owner, known, out, passwords, packets, tunIp, handshake, mtx_ready>>
    PROVE  /\ ChannelInv' /\ \A w \in Users : StageInv(w)'
           /\ inbox'[u] = Append(inbox[u], m)
           /\ \A w \in Users : w # u => inbox'[w] = inbox[w]
<1>1. \A w \in Users : Letter(w)' = Letter(w) /\ HasLease(w)' = HasLease(w)
    BY SameLeases
<1>2. /\ ChannelInv'
      /\ inbox'[u] = Append(inbox[u], m)
      /\ \A w \in Users : w # u => inbox'[w] = inbox[w]
    BY <1>1, ChannelAppend DEF NetInv
<1>3. ASSUME NEW w \in Users PROVE StageInv(w)'
    <2>1. CASE w # u
        BY <1>1, <1>2, <2>1, StageStays DEF NetInv
    <2>2. CASE w = u
        <3>1. inbox[u] \in Seq(Letter(u))
            BY DEF NetInv, ChannelInv
        <3>2. /\ inbox'[u] # <<>>
              /\ DOMAIN inbox'[u] = 1 .. Len(inbox[u]) + 1
              /\ DOMAIN inbox[u] = 1 .. Len(inbox[u])
              /\ inbox'[u][Len(inbox[u]) + 1] = m
              /\ \A i \in 1 .. Len(inbox[u]) : inbox'[u][i] = inbox[u][i]
              /\ inbox[u] # <<>> => Head(inbox'[u]) = Head(inbox[u])
            BY <1>2, <3>1, AppendFacts
        <3>3. StageInv(u)
            BY DEF NetInv
        <3>4. \A i \in DOMAIN inbox'[u] :
                inbox'[u][i].type = "handshake" =>
                    i = 1 /\ tunIp[u] = NoIp /\ handshake[u] = C!Idle
            <4> TAKE i \in DOMAIN inbox'[u]
            <4>1. i = Len(inbox[u]) + 1 \/ i \in 1 .. Len(inbox[u])
                BY <3>1, <3>2
            <4> QED
                BY <3>2, <3>3, <4>1 DEF StageInv
        <3>5. Answering(u)' \/ Handling(u)' \/ Inside(u)'
            <4>1. S!Addresses' = S!Addresses
                BY DEF S!Addresses, S!ipPool!Addresses, S!ipPool!InPool
            <4>2. Answering(u) => Answering(u)'
                BY <3>2 DEF Answering
            <4>3. Handling(u) => Handling(u)'
                BY <4>1 DEF Handling, IsHandled
            <4>4. Inside(u) => Inside(u)'
                BY <4>1 DEF Inside
            <4> QED
                BY <3>3, <4>2, <4>3, <4>4 DEF StageInv
        <3>6. tunIp'[u] = NoIp => Innocent(u)'
            BY <3>3 DEF StageInv, Innocent, C!Known, C!Newest, C!Elements
        <3> QED
            BY <1>1, <2>2, <3>3, <3>4, <3>5, <3>6 DEF StageInv
    <2> QED
        BY <2>1, <2>2
<1> QED
    BY <1>2, <1>3

LEMMA AnnounceToKeeps ==
    ASSUME NetInv, NEW u \in S!Anyone, AnnounceTo(u)
    PROVE  NetInv'
<1>1. /\ sys.pc = "announcing" /\ sys.k <= sys.last
      /\ u \in S!Read(sys.gen, sys.k)
      /\ sys' = [sys EXCEPT !.k = @ + 1]
      /\ UNCHANGED <<free_, used_, owner, blocks, lastPing, tun, ping, known, out,
                     passwords, packets, tunIp, handshake, mtx_ready>>
    BY DEF AnnounceTo, S!AnnounceTo, S!pool, S!usersList, clients
<1>2. /\ sys \in S!Announcing /\ [id |-> sys.id, ip |-> sys.ip] \in Lease
      /\ sys.gen \in DOMAIN blocks /\ sys.last <= Len(blocks[sys.gen])
    BY <1>1 DEF NetInv, ThreadInv, S!Idle
<1>3. Position(sys.gen, sys.k)
    <2>1. sys.k \in Nat \ {0} /\ sys.last \in Nat
        BY <1>2 DEF S!Announcing
    <2> QED
        BY <1>1, <1>2, <2>1, ListFacts DEF Position, NetInv
<1>4. PoolInv' /\ ListInv' /\ ClientInv'
    BY <1>1, PoolStays, ListStays, ClientStays DEF NetInv
<1>5. ThreadInv'
    <2>1. /\ sys' \in S!Announcing /\ sys'.id = sys.id /\ sys'.ip = sys.ip
          /\ sys'.gen = sys.gen /\ sys'.last = sys.last
        BY <1>1, <1>2 DEF S!Announcing
    <2>2. Lease' = Lease /\ \A g, k : Position(g, k)' = Position(g, k)
        BY <1>1, SameLeases DEF Position
    <2>3. PingInv'
        BY <1>1, <2>2, PingStays DEF NetInv, ThreadInv
    <2> QED
        BY <1>1, <1>2, <2>1, <2>2, <2>3 DEF NetInv, ThreadInv
<1>6. CASE u = NoUser
    <2>1. UNCHANGED inbox
        BY <1>6 DEF AnnounceTo
    <2>2. ChannelInv' /\ \A w \in Users : StageInv(w)'
        BY <1>1, <2>1, ChannelStays, StageStays, SameLeases DEF NetInv
    <2> QED
        BY <1>4, <1>5, <2>2 DEF NetInv
<1>7. CASE u # NoUser
    <2> DEFINE m == Connected(sys.id, sys.ip)
    <2>1. u \in Users /\ HasLease(u) /\ SendSystem(u, m)
        BY <1>1, <1>3, <1>7, ReadFacts DEF NetInv, AnnounceTo
    <2>2. m \in Letter(u) /\ m.type # "handshake"
        BY <1>2, <2>1 DEF Letter, Connected
    <2> HIDE DEF m
    <2>3. ChannelInv' /\ \A w \in Users : StageInv(w)'
        BY <1>1, <2>1, <2>2, LetterSent
    <2> QED
        BY <1>4, <1>5, <2>3 DEF NetInv
<1> QED
    BY <1>6, <1>7

\* A step of the server that touches neither clients nor channels leaves the
\* clients where they are.
LEMMA Apart ==
    ASSUME NetInv, UNCHANGED <<owner, known, out, passwords, inbox, packets, tunIp,
                               handshake, mtx_ready>>
    PROVE  /\ ClientInv' /\ ChannelInv' /\ \A w \in Users : StageInv(w)'
           /\ Lease' = Lease
BY ClientStays, ChannelStays, StageStays, SameLeases DEF NetInv

\* No block is taken away or shortened.
PositionsStay ==
    \A g \in DOMAIN blocks :
        g \in DOMAIN blocks' /\ DOMAIN blocks[g] \subseteq DOMAIN blocks'[g]

LEMMA OverwriteFacts ==
    ASSUME NEW T, NEW s \in Seq(T), NEW e \in T, NEW i \in DOMAIN s
    PROVE  [s EXCEPT ![i] = e] \in Seq(T) /\ Len([s EXCEPT ![i] = e]) = Len(s)
OBVIOUS

LEMMA ReplaceLast ==
    ASSUME NEW T, NEW m \in Seq(T), m # <<>>, NEW c \in T
    PROVE  LET a == [m EXCEPT ![Len(m)] = c]
           IN  /\ a \in Seq(T) /\ Len(a) = Len(m) /\ a # <<>>
               /\ DOMAIN a = 1 .. Len(m) /\ a[Len(m)] = c
               /\ \A h \in 1 .. Len(m) : h # Len(m) => a[h] = m[h]
OBVIOUS

\* The newest block is replaced, or followed, by one that is not shorter and
\* has room for one element more.
LEMMA LastBlock ==
    ASSUME ListInv, Lease' = Lease, lastPing' = Append(lastPing, S!Epoch),
           NEW c \in Seq(Lease), Len(blocks[S!cur]) <= Len(c), S!size + 1 <= Len(c),
           blocks' \in {[blocks EXCEPT ![S!cur] = c], Append(blocks, c)}
    PROVE  ListInv' /\ PositionsStay
<1> DEFINE n == Len(blocks)
           T == Seq(Lease)
<1>1. /\ n \in Nat \ {0} /\ DOMAIN blocks = 1 .. n /\ S!cur = n
      /\ \A g \in 1 .. n : DOMAIN blocks[g] = 1 .. Len(blocks[g]) /\ Len(blocks[g]) \in Nat
      /\ DOMAIN c = 1 .. Len(c) /\ Len(c) \in Nat
      /\ blocks \in Seq(T) /\ blocks # <<>> /\ c \in T
    BY ListFacts DEF ListInv
<1>2. S!size' = S!size + 1 /\ lastPing' \in Seq({S!Epoch})
    BY DEF ListInv, S!size
<1> HIDE DEF T
<1>3. CASE blocks' = [blocks EXCEPT ![n] = c]
    <2> DEFINE a == [blocks EXCEPT ![n] = c]
    <2>0. /\ a \in Seq(T) /\ Len(a) = n /\ a # <<>>
          /\ DOMAIN a = 1 .. n /\ a[n] = c
          /\ \A h \in 1 .. n : h # n => a[h] = blocks[h]
        BY <1>1, ReplaceLast, ZenonT(30)
    <2> HIDE DEF a
    <2>1. /\ blocks' \in Seq(T) /\ blocks' # <<>> /\ Len(blocks') = n
          /\ DOMAIN blocks' = 1 .. n /\ blocks'[n] = c
          /\ \A g \in 1 .. n : g # n => blocks'[g] = blocks[g]
        BY <1>3, <2>0 DEF a
    <2>2. PositionsStay
        <3>1. DOMAIN blocks[n] \subseteq DOMAIN blocks'[n]
            <4> HIDE DEF n
            <4>1. blocks'[n] = c /\ n \in 1 .. n
                BY ONLY <1>1, <2>1
            <4>2. /\ Len(blocks[n]) <= Len(c) /\ Len(blocks[n]) \in Nat
                  /\ DOMAIN blocks[n] = 1 .. Len(blocks[n])
                BY <1>1, <4>1
            <4>3. 1 .. Len(blocks[n]) \subseteq 1 .. Len(c)
                BY ONLY <1>1, <4>2
            <4> QED
                BY <1>1, <4>1, <4>2, <4>3
        <3>2. \A g \in 1 .. n : g # n => DOMAIN blocks[g] \subseteq DOMAIN blocks'[g]
            BY <2>1
        <3>3. \A g \in 1 .. n : DOMAIN blocks[g] \subseteq DOMAIN blocks'[g]
            BY <3>1, <3>2
        <3> QED
            BY <1>1, <2>1, <3>3 DEF PositionsStay
    <2> QED
        BY <1>2, <2>1, <2>2 DEF ListInv, S!cur, S!Epoch, T
<1>4. CASE blocks' = Append(blocks, c)
    <2>1. /\ blocks' \in Seq(T) /\ blocks' # <<>> /\ Len(blocks') = n + 1
          /\ DOMAIN blocks' = 1 .. n + 1 /\ blocks'[n + 1] = c
          /\ \A g \in 1 .. n : blocks'[g] = blocks[g]
        BY <1>1, <1>4, AppendFacts
    <2>2. PositionsStay
        <3>1. \A g \in 1 .. n : g \in 1 .. n + 1
            BY <1>1
        <3> QED
            BY <1>1, <2>1, <3>1 DEF PositionsStay
    <2> QED
        BY <1>2, <2>1, <2>2 DEF ListInv, S!cur, S!Epoch, T
<1> QED
    BY <1>1, <1>3, <1>4

\* push_back adds a lease and takes no slot away.
LEMMA PushBackFacts ==
    ASSUME ListInv, NEW e \in Lease, S!PushBack(e), Lease' = Lease
    PROVE  ListInv' /\ PositionsStay
<1> DEFINE b == blocks[S!cur]
           over == [b EXCEPT ![S!size + 1] = e]
           grown == Append(b, e)
<1>1. b \in Seq(Lease) /\ Len(b) \in Nat /\ S!size \in Nat
    BY ListFacts
<1>2. \/ S!size < Len(b) /\ blocks' = [blocks EXCEPT ![S!cur] = over]
      \/ S!size = Len(b) /\ blocks' \in {[blocks EXCEPT ![S!cur] = grown],
                                         Append(blocks, grown)}
    BY DEF S!PushBack
<1>3. /\ S!size < Len(b) => over \in Seq(Lease) /\ Len(over) = Len(b)
      /\ grown \in Seq(Lease) /\ Len(grown) = Len(b) + 1
    <2>1. S!size < Len(b) => S!size + 1 \in DOMAIN b
        BY <1>1
    <2> QED
        BY <1>1, <2>1, AppendFacts, OverwriteFacts
<1>4. lastPing' = Append(lastPing, S!Epoch)
    BY DEF S!PushBack
<1> HIDE DEF over, grown
<1>5. \E c \in Seq(Lease) :
        /\ Len(b) <= Len(c) /\ S!size + 1 <= Len(c)
        /\ blocks' \in {[blocks EXCEPT ![S!cur] = c], Append(blocks, c)}
    <2>1. CASE S!size < Len(b) /\ blocks' = [blocks EXCEPT ![S!cur] = over]
        <3>1. Len(b) <= Len(over) /\ S!size + 1 <= Len(over)
            BY <1>1, <1>3, <2>1
        <3> QED
            BY <1>3, <2>1, <3>1
    <2>2. CASE S!size = Len(b) /\ blocks' \in {[blocks EXCEPT ![S!cur] = grown],
                                              Append(blocks, grown)}
        <3>1. Len(b) <= Len(grown) /\ S!size + 1 <= Len(grown)
            BY <1>1, <1>3, <2>2
        <3> QED
            BY <1>3, <2>2, <3>1
    <2> QED
        BY <1>2, <2>1, <2>2
<1> QED
    BY <1>4, <1>5, LastBlock

LEMMA EnlistKeeps ==
    ASSUME NetInv, Enlist
    PROVE  NetInv'
<1>1. /\ sys.pc = "announcing" /\ sys' = S!Idle
      /\ S!PushBack([id |-> sys.id, ip |-> sys.ip])
      /\ UNCHANGED <<free_, used_, owner, tun, ping, known, out, passwords, inbox,
                     packets, tunIp, handshake, mtx_ready>>
    BY DEF Enlist, S!Enlist, S!pool, clients
<1>2. [id |-> sys.id, ip |-> sys.ip] \in Lease
    BY <1>1 DEF NetInv, ThreadInv, S!Idle
<1>3. /\ ClientInv' /\ ChannelInv' /\ \A w \in Users : StageInv(w)'
      /\ Lease' = Lease
    BY <1>1, Apart
<1>4. ListInv' /\ PositionsStay
    BY <1>1, <1>2, <1>3, PushBackFacts DEF NetInv
<1>5. ThreadInv'
    <2>1. \A g, k : Position(g, k) => Position(g, k)'
        BY <1>4 DEF PositionsStay, Position
    <2>2. PingInv'
        BY <1>1, <1>3, <2>1, PingStays DEF NetInv, ThreadInv
    <2> QED
        BY <1>1, <2>1, <2>2 DEF NetInv, ThreadInv, S!Idle
<1> QED
    BY <1>1, <1>3, <1>4, <1>5, PoolStays DEF NetInv

\* Time does not change the age of who was never pinged.
LEMMA TickFacts ==
    ASSUME ListInv, S!Tick
    PROVE  lastPing' = lastPing
<1>1. S!Older(S!Epoch) = S!Epoch
    BY NetworkAssumption DEF NetworkAssumption, S!Older, S!Epoch
<1>2. lastPing' = [k \in 1 .. S!size |-> lastPing[k]]
    BY <1>1, ListFacts DEF S!Tick, S!Elements
<1> QED
    BY <1>2, ListFacts DEF ListInv

LEMMA TickKeeps ==
    ASSUME NetInv, PingLoop, S!Tick
    PROVE  NetInv'
<1>1. /\ ping' = ping \/ \E w : ping' = S!Sleeping(w)
      /\ UNCHANGED <<free_, used_, owner, blocks, sys, tun, known, out, passwords,
                     inbox, packets, tunIp, handshake, mtx_ready>>
    BY DEF PingLoop, S!Tick, S!pool, S!history, clients
<1>3. lastPing' = lastPing
    BY TickFacts DEF NetInv
<1>4. ThreadInv'
    <2>1. Lease' = Lease /\ \A g, k : Position(g, k)' = Position(g, k)
        BY <1>1, SameLeases DEF Position
    <2>2. PingInv'
        <3>1. CASE ping' = ping
            BY <2>1, <3>1, PingStays DEF NetInv, ThreadInv
        <3> QED
            BY <1>1, <3>1 DEF PingInv, S!Sleeping
    <2> QED
        BY <1>1, <2>1, <2>2 DEF NetInv, ThreadInv
<1> QED
    BY <1>1, <1>3, <1>4, Apart, PoolStays, ListStays DEF NetInv

\* A round finds all members expired, and erases them.
LEMMA RoundFacts ==
    ASSUME ListInv, S!PingRound
    PROVE  /\ blocks' = blocks /\ lastPing' = <<>>
           /\ ping' = [pc |-> "erased", gone |-> {S!At(k) : k \in S!Elements}]
<1> DEFINE expired == {k \in S!Elements : S!Expired(lastPing[k])}
           kept == S!Elements \ expired
<1>1. /\ S!Keep(kept)
      /\ ping' = [pc |-> "erased", gone |-> {S!At(k) : k \in expired}]
    BY DEF S!PingRound
<1>2. S!Expired(S!Epoch)
    BY NetworkAssumption DEF NetworkAssumption, S!Expired, S!Epoch
<1>3. expired = S!Elements /\ kept = {}
    BY <1>2, ListFacts DEF S!Elements
<1> HIDE DEF kept, expired
<1>4. S!Cardinality(kept) = 0
    BY <1>3, FS_EmptySet DEF S!Cardinality, Cardinality
<1>5. /\ lastPing' = <<>>
      /\ blocks' = [blocks EXCEPT ![S!cur] =
                       [k \in DOMAIN @ |-> blocks[S!cur][k]]]
    <2>0. PICK from :
            /\ blocks' = [blocks EXCEPT ![S!cur] =
                  [k \in DOMAIN @ |->
                      IF k <= S!Cardinality(kept) THEN @[from[k]] ELSE @[k]]]
            /\ lastPing' = [k \in 1 .. S!Cardinality(kept) |-> lastPing[from[k]]]
        BY ONLY <1>1 DEF S!Keep
    <2>1. /\ blocks' = [blocks EXCEPT ![S!cur] =
                  [k \in DOMAIN @ |-> IF k <= 0 THEN @[from[k]] ELSE @[k]]]
          /\ lastPing' = [k \in 1 .. 0 |-> lastPing[from[k]]]
        BY ONLY <1>4, <2>0
    <2>2. lastPing' = <<>>
        BY <2>1
    <2>3. [k \in DOMAIN blocks[S!cur] |->
              IF k <= 0 THEN blocks[S!cur][from[k]] ELSE blocks[S!cur][k]]
            = [k \in DOMAIN blocks[S!cur] |-> blocks[S!cur][k]]
        BY ListFacts
    <2> QED
        BY <2>1, <2>2, <2>3
<1>6. blocks' = blocks
    <2>1. blocks[S!cur] = [k \in DOMAIN blocks[S!cur] |-> blocks[S!cur][k]]
        BY ListFacts
    <2> QED
        BY <1>5, <2>1, ListFacts DEF ListInv
<1> QED
    BY <1>1, <1>3, <1>5, <1>6

\* Who is listed has a lease.
LEMMA ElementLeases ==
    ASSUME ListInv
    PROVE  \A k \in S!Elements : Position(S!cur, k) /\ S!At(k) \in Lease
BY ListFacts DEF Position, S!Elements, S!At

\* Of a step of PingLoop that leaves the pool, the list and the channels to
\* the others, its own position is what counts.
LEMMA PingLoopMoves ==
    ASSUME NetInv, PingInv',
           UNCHANGED <<free_, used_, owner, blocks, lastPing, sys, tun, known, out,
                       passwords, inbox, packets, tunIp, handshake, mtx_ready>>
    PROVE  NetInv'
<1>1. ThreadInv'
    BY SameLeases DEF NetInv, ThreadInv, Position
<1> QED
    BY <1>1, Apart, PoolStays, ListStays DEF NetInv

LEMMA PingRoundKeeps ==
    ASSUME NetInv, PingLoop, S!PingRound
    PROVE  NetInv'
<1>1. UNCHANGED <<free_, used_, owner, sys, tun, known, out, passwords,
                  inbox, packets, tunIp, handshake, mtx_ready>>
    BY DEF PingLoop, S!PingRound, S!pool, clients
<1>2. /\ blocks' = blocks /\ lastPing' = <<>>
      /\ ping' = [pc |-> "erased", gone |-> {S!At(k) : k \in S!Elements}]
    BY RoundFacts DEF NetInv
<1>3. /\ ClientInv' /\ ChannelInv' /\ \A w \in Users : StageInv(w)'
      /\ Lease' = Lease
    BY <1>1, Apart
<1>4. ListInv'
    <2>1. lastPing' \in Seq({S!Epoch}) /\ S!size' = 0 /\ S!Epoch' = S!Epoch
        BY <1>2 DEF S!size, S!Epoch
    <2> QED
        BY <1>2, <1>3, <2>1, ListFacts, SMTT(30) DEF NetInv, ListInv, S!cur
<1>5. ThreadInv'
    <2>1. PingInv'
        BY <1>2, <1>3, ElementLeases DEF NetInv, PingInv
    <2> QED
        BY <1>1, <1>2, <1>3, <2>1 DEF NetInv, ThreadInv, Position
<1> QED
    BY <1>1, <1>3, <1>4, <1>5, PoolStays DEF NetInv

\* The range-for goes on to the next message, or the next element.
LEMMA PingOnFacts ==
    ASSUME PingInv, ping.pc = "sending", ping.k <= ping.last,
           NEW rest, rest \subseteq ping.gone, S!PingOn(rest)
    PROVE  /\ ping' = [pc |-> "sending", gen |-> ping.gen, k |-> ping'.k,
                       last |-> ping.last, gone |-> ping.gone, left |-> rest]
           /\ ping'.k \in {ping.k, ping.k + 1} /\ ping'.k \in Nat \ {0}
           /\ rest # {} => ping'.k <= ping.last
<1>1. /\ ping = [pc |-> "sending", gen |-> ping.gen, k |-> ping.k,
                 last |-> ping.last, gone |-> ping.gone, left |-> ping.left]
      /\ ping.k \in Nat \ {0}
    BY DEF PingInv
<1> DEFINE j == IF rest = {} THEN ping.k + 1 ELSE ping.k
<1>2. ping' = [ping EXCEPT !.left = rest, !.k = j]
    BY <1>1 DEF S!PingOn
<1>3. j \in {ping.k, ping.k + 1} /\ j \in Nat \ {0} /\ (rest # {} => j = ping.k)
    BY <1>1
<1> HIDE DEF j
<1>4. ping' = [pc |-> "sending", gen |-> ping.gen, k |-> j,
               last |-> ping.last, gone |-> ping.gone, left |-> rest]
    BY <1>1, <1>2
<1>5. ping'.k = j
    BY <1>4
<1> QED
    BY <1>3, <1>4, <1>5

LEMMA PingStepKeeps ==
    ASSUME NetInv, ping.pc = "sending", ping.k <= ping.last,
           NEW rest, rest \subseteq ping.gone, S!PingOn(rest), UNCHANGED <<owner, blocks>>
    PROVE  PingInv'
<1>1. PingInv /\ Lease' = Lease /\ \A g, k : Position(g, k)' = Position(g, k)
    BY SameLeases DEF NetInv, ThreadInv, Position
<1>2. /\ ping' = [pc |-> "sending", gen |-> ping.gen, k |-> ping'.k,
                  last |-> ping.last, gone |-> ping.gone, left |-> rest]
      /\ ping'.k \in Nat \ {0} /\ (rest # {} => ping'.k <= ping.last)
    BY <1>1, PingOnFacts
<1>3. /\ ping'.gen = ping.gen /\ ping'.last = ping.last /\ ping'.gone = ping.gone
      /\ ping'.left = rest
    BY <1>2
<1> QED
    BY <1>1, <1>2, <1>3 DEF PingInv

LEMMA PingLoopKeeps ==
    ASSUME NetInv, PingLoop
    PROVE  NetInv'
<1>1. CASE S!PingSleep
    <2>1. /\ ping' = S!Sleeping(PingPeriod)
          /\ UNCHANGED <<free_, used_, owner, blocks, lastPing, sys, tun, known, out,
                         passwords, inbox, packets, tunIp, handshake, mtx_ready>>
        BY <1>1 DEF PingLoop, S!PingSleep, S!pool, S!usersList, S!history, clients
    <2>2. PingInv'
        BY <2>1 DEF PingInv, S!Sleeping
    <2> QED
        BY <2>1, <2>2, PingLoopMoves
<1>2. CASE S!PingStart
    <2>1. /\ ping.pc = "erased"
          /\ ping' = [pc |-> "sending", gen |-> S!cur, k |-> 1, last |-> S!size,
                      gone |-> ping.gone, left |-> {}]
          /\ UNCHANGED <<free_, used_, owner, blocks, lastPing, sys, tun, known, out,
                         passwords, inbox, packets, tunIp, handshake, mtx_ready>>
        BY <1>2 DEF PingLoop, S!PingStart, S!pool, S!usersList, S!history, clients
    <2>2. /\ ping.gone \subseteq Lease /\ Lease' = Lease
          /\ \A g, k : Position(g, k)' = Position(g, k)
        BY <2>1, SameLeases DEF NetInv, ThreadInv, PingInv, Position
    <2>3. S!size \in Nat /\ \A k \in 1 .. S!size : Position(S!cur, k)
        BY ListFacts, ElementLeases DEF NetInv, S!Elements
    <2>4. PingInv'
        BY <2>1, <2>2, <2>3 DEF PingInv
    <2> QED
        BY <2>1, <2>4, PingLoopMoves
<1>3. ASSUME NEW u \in S!Anyone, S!PingTo(u) PROVE NetInv'
    <2>1. /\ ping.pc = "sending" /\ ping.k <= ping.last /\ S!PingOn(ping.gone)
          /\ UNCHANGED <<free_, used_, owner, blocks, lastPing, sys, tun, known, out,
                         passwords, inbox, packets, tunIp, handshake, mtx_ready>>
        BY <1>3 DEF PingLoop, S!PingTo, S!pool, S!usersList, S!history, clients
    <2> QED
        BY <2>1, PingStepKeeps, PingLoopMoves
<1> QED
    BY <1>1, <1>2, <1>3, TickKeeps, PingRoundKeeps DEF PingLoop

\* Where PingLoop announces a departure from.
LEMMA TellingFacts ==
    ASSUME NetInv, NEW u \in S!Anyone, NEW m \in S!Departed, TellDeparture(u, m)
    PROVE  /\ ping.pc = "sending" /\ ping.k <= ping.last
           /\ m \in ping.left /\ m \in ping.gone /\ m \in Lease
           /\ u \in S!Read(ping.gen, ping.k) /\ Position(ping.gen, ping.k)
           /\ ping.k \in ping.k .. ping.last
           /\ S!PingOn(ping.left \ {m}) /\ ping.left \subseteq ping.gone
           /\ u # NoUser => SendSystem(u, Disconnected(m.id, m.ip))
           /\ u = NoUser => UNCHANGED inbox
           /\ UNCHANGED <<free_, used_, owner, blocks, lastPing, sys, tun, known, out,
                          passwords, packets, tunIp, handshake, mtx_ready>>
<1>1. /\ ping.pc = "sending" /\ m \in ping.left /\ u \in S!Read(ping.gen, ping.k)
      /\ S!PingOn(ping.left \ {m})
    BY DEF TellDeparture, S!TellDeparture
<1>2. /\ u # NoUser => SendSystem(u, Disconnected(m.id, m.ip))
      /\ u = NoUser => UNCHANGED inbox
      /\ UNCHANGED <<free_, used_, owner, blocks, lastPing, sys, tun, known, out,
                     passwords, packets, tunIp, handshake, mtx_ready>>
    BY DEF TellDeparture, S!TellDeparture, S!pool, S!usersList, S!history, clients
<1>3. /\ ping.k \in Nat \ {0} /\ ping.last \in Nat /\ ping.k <= ping.last
      /\ \A k \in 1 .. ping.last : Position(ping.gen, k)
      /\ ping.left \subseteq ping.gone /\ ping.gone \subseteq Lease
    BY <1>1 DEF NetInv, ThreadInv, PingInv
<1> QED
    BY <1>1, <1>2, <1>3

LEMMA TellDepartureKeeps ==
    ASSUME NetInv, NEW u \in S!Anyone, NEW m \in S!Departed, TellDeparture(u, m)
    PROVE  NetInv'
<1> DEFINE d == Disconnected(m.id, m.ip)
<1>1. /\ ping.pc = "sending" /\ ping.k <= ping.last /\ m \in Lease
      /\ u \in S!Read(ping.gen, ping.k) /\ Position(ping.gen, ping.k)
      /\ S!PingOn(ping.left \ {m}) /\ ping.left \subseteq ping.gone
      /\ u # NoUser => SendSystem(u, d)
      /\ u = NoUser => UNCHANGED inbox
      /\ UNCHANGED <<free_, used_, owner, blocks, lastPing, sys, tun, known, out,
                     passwords, packets, tunIp, handshake, mtx_ready>>
    BY TellingFacts
<1>2. PingInv'
    <2>1. ping.left \ {m} \subseteq ping.gone
        BY <1>1
    <2> QED
        BY <1>1, <2>1, PingStepKeeps
<1>3. CASE u = NoUser
    BY <1>1, <1>2, <1>3, PingLoopMoves
<1>4. CASE u # NoUser
    <2>1. u \in Users /\ HasLease(u) /\ SendSystem(u, d)
        BY <1>1, <1>4, ReadFacts DEF NetInv
    <2>2. d \in Letter(u) /\ d.type # "handshake"
        BY <1>1 DEF Letter, Disconnected
    <2> HIDE DEF d
    <2>3. ChannelInv' /\ \A w \in Users : StageInv(w)'
        BY <1>1, <2>1, <2>2, LetterSent
    <2>4. PoolInv' /\ ListInv' /\ ClientInv'
        BY <1>1, PoolStays, ListStays, ClientStays DEF NetInv
    <2>5. ThreadInv'
        BY <1>1, <1>2, SameLeases DEF NetInv, ThreadInv, Position
    <2> QED
        BY <2>3, <2>4, <2>5 DEF NetInv
<1> QED
    BY <1>3, <1>4

LEMMA ServerTunPacketKeeps ==
    ASSUME NetInv, NEW dest \in S!Addresses, ServerTunPacket(dest)
    PROVE  NetInv'
<1>1. PICK k \in S!Elements :
        tun' = [pc |-> "found", dest |-> dest, gen |-> S!cur, k |-> k]
    BY DEF ServerTunPacket, S!TunPacket
<1>2. UNCHANGED <<free_, used_, owner, blocks, lastPing, sys, ping, known, out,
                  passwords, inbox, packets, tunIp, handshake, mtx_ready>>
    BY DEF ServerTunPacket, S!TunPacket, S!pool, S!usersList, S!history, clients
<1>3. Position(S!cur, k)
    BY ListFacts DEF NetInv, Position, S!Elements
<1>4. ThreadInv'
    <2>1. Lease' = Lease /\ \A g, j : Position(g, j)' = Position(g, j)
        BY <1>2, SameLeases DEF Position
    <2>2. PingInv'
        BY <1>2, <2>1, PingStays DEF NetInv, ThreadInv
    <2> QED
        BY <1>1, <1>2, <1>3, <2>1, <2>2 DEF NetInv, ThreadInv
<1> QED
    BY <1>2, <1>4, Apart, PoolStays, ListStays DEF NetInv

LEMMA ServerTunSendKeeps ==
    ASSUME NetInv, NEW u \in S!Anyone, ServerTunSend(u)
    PROVE  NetInv'
<1>1. /\ tun.pc = "found" /\ u \in S!Read(tun.gen, tun.k) /\ tun' = S!Idle
      /\ IF u = NoUser THEN UNCHANGED packets ELSE SendPacket(Server, u)
      /\ UNCHANGED <<free_, used_, owner, blocks, lastPing, sys, ping, known, out,
                     passwords, inbox, tunIp, handshake, mtx_ready>>
    BY DEF ServerTunSend, S!TunSend, S!pool, S!usersList, S!history, clients
<1>2. u # NoUser => u \in Users /\ HasLease(u)
    <2>1. Position(tun.gen, tun.k)
        BY <1>1 DEF NetInv, ThreadInv, S!Idle
    <2> QED
        BY <1>1, <2>1, ReadFacts DEF NetInv
<1>3. ChannelInv'
    <2>1. packets \in [Users \cup {Server} -> SUBSET (Users \cup {Server})]
        BY DEF NetInv, ChannelInv
    <2>2. packets' \in [Users \cup {Server} -> SUBSET (Users \cup {Server})]
        BY <1>1, <1>2, <2>1 DEF SendPacket
    <2>3. \A w \in Users : Letter(w)' = Letter(w)
        BY <1>1, SameLeases
    <2> QED
        BY <1>1, <2>2, <2>3 DEF NetInv, ChannelInv
<1>4. \A w \in Users : Server \in packets'[w] => Server \in packets[w] \/ HasLease(w)
    BY <1>1, <1>2 DEF NetInv, ChannelInv, SendPacket
<1>5. \A w \in Users : StageInv(w)'
    BY <1>1, <1>4, StageStays, SameLeases DEF NetInv
<1>6. ThreadInv'
    <2>1. Lease' = Lease /\ \A g, k : Position(g, k)' = Position(g, k)
        BY <1>1, SameLeases DEF Position
    <2>2. PingInv'
        BY <1>1, <2>1, PingStays DEF NetInv, ThreadInv
    <2> QED
        BY <1>1, <2>1, <2>2 DEF NetInv, ThreadInv
<1> QED
    BY <1>1, <1>3, <1>5, <1>6, PoolStays, ListStays, ClientStays DEF NetInv

\* A packet that is received is under way no more.
LEMMA PacketTaken ==
    ASSUME NetInv, NEW r \in Users \cup {Server}, NEW from,
           packets' = [packets EXCEPT ![r] = @ \ {from}],
           UNCHANGED <<server, clients, passwords, inbox>>
    PROVE  NetInv'
<1>1. UNCHANGED <<free_, used_, owner, blocks, lastPing, sys, tun, ping, known, out,
                  passwords, inbox, tunIp, handshake, mtx_ready>>
    BY DEF server, clients
<1>2. /\ packets' \in [Users \cup {Server} -> SUBSET (Users \cup {Server})]
      /\ \A w \in Users : packets'[w] \subseteq packets[w]
    BY DEF NetInv, ChannelInv
<1>3. ChannelInv' /\ \A w \in Users : StageInv(w)'
    BY <1>1, <1>2, StageStays, SameLeases DEF NetInv, ChannelInv
<1> QED
    BY <1>1, <1>3, PoolStays, ListStays, ThreadStays, ClientStays DEF NetInv

----------------------------------------------------------------------------
(* The clients' steps.                                                     *)

\* A client's step leaves the server alone.
LEMMA ServerStays ==
    ASSUME NetInv, UNCHANGED server
    PROVE  /\ PoolInv' /\ ListInv' /\ ThreadInv'
           /\ owner' = owner /\ Lease' = Lease /\ Entry' = Entry
           /\ \A u \in Users : Letter(u)' = Letter(u) /\ HasLease(u)' = HasLease(u)
BY PoolStays, ListStays, ThreadStays, SameLeases DEF NetInv, server

LEMMA KnownFacts ==
    ASSUME ClientInv, NEW u \in Users
    PROVE  /\ known[u] = [mem |-> known[u].mem, size |-> known[u].size]
           /\ known[u].mem \in Seq(Seq(Entry)) /\ known[u].mem # <<>>
           /\ DOMAIN known[u].mem = 1 .. Len(known[u].mem)
           /\ Len(known[u].mem) \in Nat \ {0}
           /\ C!Newest(u) = known[u].mem[Len(known[u].mem)]
           /\ C!Newest(u) \in Seq(Entry) /\ Len(C!Newest(u)) \in Nat
           /\ DOMAIN C!Newest(u) = 1 .. Len(C!Newest(u))
           /\ known[u].size \in Nat /\ known[u].size = Len(C!Newest(u))
           /\ C!Elements(u) = DOMAIN C!Newest(u)
           /\ \A m \in C!Known(u) : m \in Entry
<1>1. /\ known[u] = [mem |-> known[u].mem, size |-> known[u].size]
      /\ known[u].mem \in Seq(Seq(Entry)) /\ known[u].mem # <<>>
      /\ known[u].size \in Nat /\ known[u].size = Len(C!Newest(u))
    BY DEF ClientInv
<1>2. /\ DOMAIN known[u].mem = 1 .. Len(known[u].mem)
      /\ Len(known[u].mem) \in Nat \ {0}
      /\ C!Newest(u) = known[u].mem[Len(known[u].mem)]
      /\ C!Newest(u) \in Seq(Entry)
    BY <1>1 DEF C!Newest
<1>5. Len(C!Newest(u)) \in Nat /\ DOMAIN C!Newest(u) = 1 .. Len(C!Newest(u))
    BY <1>2
<1>3. C!Elements(u) = DOMAIN C!Newest(u)
    BY <1>1, <1>2 DEF C!Elements
<1>4. \A m \in C!Known(u) : m \in Entry
    BY <1>2, <1>3 DEF C!Known
<1> QED
    BY <1>1, <1>2, <1>3, <1>4, <1>5

\* c holds what b holds, and may be longer.
Extends(b, c) == \A k \in DOMAIN b : k \in DOMAIN c /\ c[k] = b[k]

\* The last block is replaced by c, or followed by it.
Put(m, c) == {[m EXCEPT ![Len(m)] = c], Append(m, c)}

LEMMA PutFacts ==
    ASSUME NEW R, NEW m \in Seq(R), m # <<>>, NEW c \in R,
           Extends(m[Len(m)], c), NEW w \in Put(m, c)
    PROVE  /\ w \in Seq(R) /\ w # <<>> /\ w[Len(w)] = c
           /\ \A g \in DOMAIN m : g \in DOMAIN w /\ Extends(m[g], w[g])
<1> DEFINE n == Len(m)
<1>1. m \in Seq(R) /\ m # <<>> /\ c \in R /\ DOMAIN m = 1 .. n /\ n \in Nat \ {0}
    OBVIOUS
<1>2. Extends(m[n], c) /\ \A b : Extends(b, b)
    BY DEF Extends
<1>3. CASE w = [m EXCEPT ![n] = c]
    <2> DEFINE a == [m EXCEPT ![n] = c]
    <2>1. /\ a \in Seq(R) /\ Len(a) = n /\ a # <<>>
          /\ DOMAIN a = 1 .. n /\ a[n] = c
          /\ \A h \in 1 .. n : h # n => a[h] = m[h]
        BY ONLY <1>1, ReplaceLast
    <2> HIDE DEF a
    <2>2. /\ w \in Seq(R) /\ w # <<>> /\ Len(w) = n /\ DOMAIN w = 1 .. n /\ w[n] = c
          /\ \A h \in 1 .. n : h # n => w[h] = m[h]
        BY <1>3, <2>1 DEF a
    <2> HIDE DEF n
    <2>3. \A g \in 1 .. n : Extends(m[g], w[g])
        BY ONLY <1>2, <2>2
    <2> QED
        BY <1>1, <2>2, <2>3
<1>4. CASE w = Append(m, c)
    <2>1. /\ w \in Seq(R) /\ w # <<>> /\ Len(w) = n + 1 /\ DOMAIN w = 1 .. n + 1
          /\ w[n + 1] = c /\ \A h \in 1 .. n : w[h] = m[h]
        BY <1>1, <1>4, AppendFacts
    <2> HIDE DEF n
    <2>2. \A g \in 1 .. n : g \in 1 .. n + 1
        BY <1>1
    <2> QED
        BY <1>1, <1>2, <2>1, <2>2
<1> QED
    BY <1>3, <1>4 DEF Put

\* An entry is put behind the others; every place keeps what it holds.
LEMMA KnownGrows ==
    ASSUME ClientInv, Entry' = Entry, NEW u \in Users, NEW e \in Entry,
           C!PushBack(u, e), UNCHANGED out
    PROVE  /\ ClientInv'
           /\ known'[u].size > 0 /\ C!Known(u)' = C!Known(u) \cup {e}
           /\ \A w \in Users : w # u => known'[w] = known[w]
<1> DEFINE m == known[u].mem
           b == C!Newest(u)
           grown == Append(b, e)
<1>1. /\ m \in Seq(Seq(Entry)) /\ m # <<>> /\ e \in Entry
      /\ b = m[Len(m)] /\ b \in Seq(Entry) /\ known[u].size = Len(b)
      /\ Len(b) \in Nat /\ DOMAIN b = 1 .. Len(b)
    BY KnownFacts
<1>2. PICK mem \in Put(m, grown) :
        known' = [known EXCEPT ![u] = [mem |-> mem, size |-> Len(b) + 1]]
    <2>1. grown = Append(m[Len(m)], e) /\ known[u].size = Len(m[Len(m)])
        BY <1>1
    <2>2. ~(known[u].size < Len(m[Len(m)]))
        BY <1>1
    <2> HIDE DEF grown, b
    <2> QED
        BY <1>1, <2>1, <2>2 DEF C!PushBack, Put
<1>3. /\ grown \in Seq(Entry) /\ Len(grown) = Len(b) + 1
      /\ grown[Len(b) + 1] = e /\ \A i \in 1 .. Len(b) : grown[i] = b[i]
      /\ Extends(b, grown)
    <2> HIDE DEF b
    <2>1. /\ grown \in Seq(Entry) /\ Len(grown) = Len(b) + 1
          /\ DOMAIN grown = 1 .. Len(b) + 1
          /\ grown[Len(b) + 1] = e /\ \A i \in 1 .. Len(b) : grown[i] = b[i]
        BY ONLY <1>1, AppendFacts, SMTT(30)
    <2>2. Extends(b, grown)
        BY ONLY <1>1, <2>1 DEF Extends
    <2> QED
        BY <2>1, <2>2
<1>4. /\ mem \in Seq(Seq(Entry)) /\ mem # <<>> /\ mem[Len(mem)] = grown
      /\ \A g \in DOMAIN m : g \in DOMAIN mem /\ Extends(m[g], mem[g])
    <2> HIDE DEF m, grown, b
    <2> QED
        BY ONLY <1>1, <1>2, <1>3, PutFacts
<1> HIDE DEF grown, b
<1>6. /\ known'[u] = [mem |-> mem, size |-> Len(b) + 1]
      /\ \A w \in Users : w # u => known'[w] = known[w]
    BY <1>2 DEF ClientInv
<1>7. known' \in [Users -> [mem : Seq(Seq(Entry)) \ {<<>>}, size : Nat]]
    BY <1>1, <1>2, <1>4 DEF ClientInv
<1>8. known'[u].mem = mem /\ known'[u].size = Len(b) + 1
    BY <1>6
<1>9. C!Newest(u)' = grown /\ C!Elements(u)' = 1 .. Len(b) + 1
    BY <1>4, <1>8 DEF C!Newest, C!Elements
<1>10. \A w \in Users : w # u => C!Newest(w)' = C!Newest(w)
    BY <1>6 DEF C!Newest
<1>11. \A w \in Users : known'[w].size = Len(C!Newest(w)')
    BY <1>3, <1>6, <1>8, <1>9, <1>10 DEF ClientInv
<1>12. ASSUME NEW w \in Users, out[w].pc \notin {"idle", "terminated"}
       PROVE  /\ out[w].gen \in DOMAIN known'[w].mem
              /\ out[w].k \in DOMAIN known'[w].mem[out[w].gen]
              /\ known'[w].mem[out[w].gen][out[w].k].ip = out[w].dest
    <2>1. /\ out[w].gen \in DOMAIN known[w].mem
          /\ out[w].k \in DOMAIN known[w].mem[out[w].gen]
          /\ known[w].mem[out[w].gen][out[w].k].ip = out[w].dest
        BY <1>12 DEF ClientInv
    <2>2. CASE w = u
        BY <1>4, <1>8, <2>1, <2>2 DEF Extends
    <2> QED
        BY <1>6, <2>1, <2>2
<1>13. ClientInv'
    <2>1. C!TunFound' = C!TunFound
        BY DEF C!TunFound, S!Addresses, S!ipPool!Addresses, S!ipPool!InPool
    <2> QED
        BY <1>7, <1>11, <1>12, <2>1 DEF ClientInv
<1>14. C!Known(u)' = C!Known(u) \cup {e}
    <2>1. C!Known(u) = {b[k] : k \in 1 .. Len(b)}
        BY <1>1 DEF C!Known, C!Elements, b
    <2>2. C!Known(u)' = {grown[k] : k \in 1 .. Len(b) + 1}
        BY <1>9 DEF C!Known
    <2>3. Len(b) \in Nat
        BY <1>1
    <2>4. 1 .. Len(b) + 1 = (1 .. Len(b)) \cup {Len(b) + 1}
        BY ONLY <2>3
    <2>5. grown[Len(b) + 1] = e /\ \A k \in 1 .. Len(b) : grown[k] = b[k]
        BY <1>3
    <2> QED
        BY ONLY <2>1, <2>2, <2>4, <2>5
<1> QED
    BY <1>1, <1>6, <1>8, <1>13, <1>14

\* JoinMember's body, for an entry of the book.
LEMMA JoinFacts ==
    ASSUME ClientInv, Entry' = Entry, NEW u \in Users, NEW id, NEW ip,
           [id |-> id, ip |-> ip] \in Entry, C!Join(u, id, ip)
    PROVE  /\ ClientInv'
           /\ known'[u].size > 0
           /\ C!Known(u)' \subseteq C!Known(u) \cup {[id |-> id, ip |-> ip]}
           /\ \A w \in Users : w # u => known'[w] = known[w]
           /\ UNCHANGED <<tunIp, mtx_ready, handshake, out>>
<1>1. UNCHANGED <<tunIp, mtx_ready, handshake, out>>
    BY DEF C!Join
<1>2. CASE C!Lists(u, id) /\ UNCHANGED known
    <2>1. ClientInv' /\ C!Known(u)' = C!Known(u)
        BY <1>1, <1>2 DEF ClientInv, C!Newest, C!Known, C!Elements, C!TunFound,
           S!Addresses, S!ipPool!Addresses, S!ipPool!InPool
    <2>2. known[u].size > 0
        <3>1. PICK k \in C!Elements(u) : TRUE
            BY <1>2 DEF C!Lists, C!Known
        <3>2. known[u].size \in Nat
            BY KnownFacts
        <3> QED
            BY <3>1, <3>2 DEF C!Elements
    <2> QED
        BY <1>1, <1>2, <2>1, <2>2
<1>3. CASE C!PushBack(u, [id |-> id, ip |-> ip])
    <2> DEFINE e == [id |-> id, ip |-> ip]
    <2>1. C!PushBack(u, e) /\ e \in Entry /\ UNCHANGED out
        BY <1>1, <1>3
    <2> HIDE DEF e
    <2>2. /\ ClientInv'
          /\ known'[u].size > 0 /\ C!Known(u)' = C!Known(u) \cup {e}
          /\ \A w \in Users : w # u => known'[w] = known[w]
        BY <2>1, KnownGrows
    <2> QED
        BY <1>1, <2>2 DEF e
<1> QED
    BY <1>2, <1>3 DEF C!Join

LEMMA ClientStartKeeps ==
    ASSUME NetInv, NEW u \in Users, ClientStart(u)
    PROVE  NetInv'
<1>1. /\ known[u].size = 0 /\ C!Join(u, Server, ServerIp)
      /\ passwords' = passwords \cup {u}
      /\ UNCHANGED <<server, inbox, packets>>
    BY DEF ClientStart, C!Start
<1>2. /\ PoolInv' /\ ListInv' /\ ThreadInv'
      /\ owner' = owner /\ Lease' = Lease /\ Entry' = Entry
      /\ \A w \in Users : Letter(w)' = Letter(w) /\ HasLease(w)' = HasLease(w)
    BY <1>1, ServerStays
<1>3. /\ ClientInv'
      /\ known'[u].size > 0
      /\ C!Known(u)' \subseteq C!Known(u) \cup {[id |-> Server, ip |-> ServerIp]}
      /\ \A w \in Users : w # u => known'[w] = known[w]
      /\ UNCHANGED <<tunIp, mtx_ready, handshake, out>>
    <2>1. [id |-> Server, ip |-> ServerIp] \in Entry
        BY DEF Entry
    <2> QED
        BY <1>1, <1>2, <2>1, JoinFacts DEF NetInv
<1>4. ChannelInv'
    BY <1>1, <1>2, <1>3, ChannelStays DEF NetInv
<1>5. ~HasLease(u) /\ Outside(u) /\ Innocent(u) /\ tunIp[u] = NoIp
    BY <1>1 DEF NetInv, StageInv, Answering, Handling, Inside, Outside
<1>6. ASSUME NEW w \in Users PROVE StageInv(w)'
    <2>1. CASE w # u
        BY <1>1, <1>2, <1>3, <2>1, StageStays DEF NetInv
    <2>2. CASE w = u
        <3>1. Outside(u)' /\ ~HasLease(u)'
            BY <1>1, <1>2, <1>3, <1>5 DEF Outside
        <3>2. Innocent(u)'
            BY <1>3, <1>5 DEF Innocent
        <3>3. \A i \in DOMAIN inbox'[u] :
                inbox'[u][i].type = "handshake" =>
                    i = 1 /\ tunIp'[u] = NoIp /\ handshake'[u] = C!Idle
            BY <1>1, <1>3 DEF NetInv, StageInv
        <3> QED
            BY <1>3, <2>2, <3>1, <3>2, <3>3 DEF StageInv
    <2> QED
        BY <2>1, <2>2
<1> QED
    BY <1>2, <1>3, <1>4, <1>6 DEF NetInv

LEMMA LetterFacts ==
    ASSUME NEW u \in Users, NEW m \in Letter(u)
    PROVE  /\ m.type = "handshake" =>
                m = Handshake(m.ip) /\ m.ip \in S!Addresses /\ owner[m.ip] = u
           /\ m.type \in {"connected", "disconnected"} =>
                [id |-> m.id, ip |-> m.ip] \in Lease
           /\ m.type \in {"handshake", "connected", "disconnected"}
<1>1. CASE m \in {Handshake(n.ip) : n \in {l \in Lease : l.id = u}}
    BY <1>1, LeaseFacts DEF Handshake
<1>2. CASE m \in {Connected(n.id, n.ip) : n \in Lease}
    BY <1>2, LeaseFacts DEF Connected
<1>3. CASE m \in {Disconnected(n.id, n.ip) : n \in Lease}
    BY <1>3, LeaseFacts DEF Disconnected
<1> QED
    BY <1>1, <1>2, <1>3 DEF Letter

\* The first message is taken out; the others move one place to the front.
LEMMA TakeFacts ==
    ASSUME ChannelInv, NEW u \in Users, NEW type, TakeSystem(u, type),
           \A w \in Users : Letter(w)' = Letter(w)
    PROVE  /\ Head(inbox[u]) \in Letter(u) /\ Head(inbox[u]).type = type
           /\ inbox[u] # <<>> /\ 1 \in DOMAIN inbox[u]
           /\ Head(inbox[u]) = inbox[u][1]
           /\ inbox' = [w \in Users |-> inbox'[w]]
           /\ \A w \in Users : inbox'[w] \in Seq(Letter(w)')
           /\ \A w \in Users : w # u => inbox'[w] = inbox[w]
           /\ \A i \in DOMAIN inbox'[u] :
                /\ i + 1 \in DOMAIN inbox[u] /\ i + 1 # 1
                /\ inbox'[u][i] = inbox[u][i + 1]
<1>1. /\ inbox[u] # <<>> /\ Head(inbox[u]).type = type
      /\ inbox'[u] = Tail(inbox[u]) /\ inbox[u] \in Seq(Letter(u))
      /\ \A w \in Users : w # u => inbox'[w] = inbox[w]
      /\ inbox' = [w \in Users |-> inbox'[w]]
    BY DEF TakeSystem, ChannelInv
<1>2. /\ Tail(inbox[u]) \in Seq(Letter(u))
      /\ Head(inbox[u]) \in Letter(u) /\ Head(inbox[u]) = inbox[u][1]
      /\ 1 \in DOMAIN inbox[u]
      /\ \A i \in DOMAIN Tail(inbox[u]) :
            /\ i + 1 \in DOMAIN inbox[u] /\ i + 1 # 1
            /\ Tail(inbox[u])[i] = inbox[u][i + 1]
    BY <1>1
<1>3. \A w \in Users : inbox'[w] \in Seq(Letter(w)')
    BY <1>1, <1>2 DEF ChannelInv
<1> QED
    BY <1>1, <1>2, <1>3

LEMMA HandlingFacts ==
    ASSUME NEW u, Handling(u)
    PROVE  /\ handshake[u].pc = "received" /\ handshake[u] # C!Idle
           /\ handshake[u].ip \in S!Addresses /\ owner[handshake[u].ip] = u
<1>1. PICK a \in S!Addresses : owner[a] = u /\ handshake[u] = [pc |-> "received", ip |-> a]
    BY DEF Handling, IsHandled
<1>2. handshake[u].pc = "received" /\ handshake[u].ip = a
    BY <1>1
<1>3. C!Idle.pc = "idle"
    BY DEF C!Idle
<1> QED
    BY <1>1, <1>2, <1>3

LEMMA ReceiveHandshakeKeeps ==
    ASSUME NetInv, NEW u \in Users, ReceiveHandshake(u)
    PROVE  NetInv'
<1> DEFINE m == Head(inbox[u])
<1>1. /\ TakeSystem(u, "handshake")
      /\ handshake[u] = C!Idle
      /\ handshake' = [handshake EXCEPT ![u] = [pc |-> "received", ip |-> m.ip]]
      /\ UNCHANGED <<server, known, tunIp, mtx_ready, out, passwords, packets>>
    BY DEF ReceiveHandshake, C!ReceiveHandshake
<1>2. /\ PoolInv' /\ ListInv' /\ ThreadInv'
      /\ owner' = owner /\ Lease' = Lease /\ Entry' = Entry
      /\ \A w \in Users : Letter(w)' = Letter(w) /\ HasLease(w)' = HasLease(w)
    BY <1>1, ServerStays
<1>3. /\ m \in Letter(u) /\ m.type = "handshake"
      /\ inbox[u] # <<>> /\ 1 \in DOMAIN inbox[u] /\ m = inbox[u][1]
      /\ inbox' = [w \in Users |-> inbox'[w]]
      /\ \A w \in Users : inbox'[w] \in Seq(Letter(w)')
      /\ \A w \in Users : w # u => inbox'[w] = inbox[w]
      /\ \A i \in DOMAIN inbox'[u] :
            /\ i + 1 \in DOMAIN inbox[u] /\ i + 1 # 1
            /\ inbox'[u][i] = inbox[u][i + 1]
    BY <1>1, <1>2, TakeFacts DEF NetInv
<1>4. m.ip \in S!Addresses /\ owner[m.ip] = u
    BY <1>3, LetterFacts
<1> HIDE DEF m
<1>5. /\ HasLease(u) /\ tunIp[u] = NoIp /\ Answering(u) /\ Innocent(u)
    <2>1. HasLease(u)
        BY <1>3 DEF NetInv, StageInv, Outside
    <2>2. tunIp[u] = NoIp
        BY <1>3 DEF NetInv, StageInv
    <2>3. ~Handling(u)
        BY <1>1, HandlingFacts
    <2> QED
        BY <2>1, <2>2, <2>3, LeaseFacts DEF NetInv, StageInv, Inside
<1>6. /\ handshake'[u] = [pc |-> "received", ip |-> m.ip]
      /\ \A w \in Users : w # u => handshake'[w] = handshake[w]
      /\ handshake' = [w \in Users |-> handshake'[w]]
    BY <1>1 DEF NetInv, ChannelInv
<1>7. ChannelInv'
    BY <1>1, <1>3, <1>6 DEF NetInv, ChannelInv
<1>8. ClientInv'
    BY <1>1, <1>2, ClientStays DEF NetInv
<1>9. ASSUME NEW w \in Users PROVE StageInv(w)'
    <2>1. CASE w # u
        BY <1>1, <1>2, <1>3, <1>6, <2>1, StageStays DEF NetInv
    <2>2. CASE w = u
        <3>1. Handling(u)'
            <4>1. PICK a \in S!Addresses : a = m.ip
                BY <1>4
            <4>2. owner'[a] = u /\ IsHandled(u, a)'
                BY <1>2, <1>4, <1>6, <4>1 DEF IsHandled
            <4>3. \E b \in S!Addresses' : owner'[b] = u /\ IsHandled(u, b)'
                BY <4>2 DEF S!Addresses, S!ipPool!Addresses, S!ipPool!InPool
            <4>4. u \notin passwords' /\ known'[u].size > 0 /\ tunIp'[u] = NoIp
                BY <1>1, <1>5 DEF Answering
            <4> QED
                BY <4>3, <4>4 DEF Handling
        <3>2. Innocent(u)'
            BY <1>1, <1>5 DEF Innocent, C!Known, C!Newest, C!Elements
        <3>3. \A i \in DOMAIN inbox'[u] : inbox'[u][i].type # "handshake"
            BY <1>3 DEF NetInv, StageInv
        <3>4. u \notin passwords' /\ HasLease(u)'
            BY <1>1, <1>2, <1>5 DEF Answering
        <3> QED
            BY <2>2, <3>1, <3>2, <3>3, <3>4 DEF StageInv
    <2> QED
        BY <2>1, <2>2
<1> QED
    BY <1>2, <1>7, <1>8, <1>9 DEF NetInv

\* A message about another member is handled with the own handshake handled.
LEMMA NewsComesLater ==
    ASSUME NetInv, NEW u \in Users, inbox[u] # <<>>,
           Head(inbox[u]).type # "handshake"
    PROVE  /\ HasLease(u) /\ (Handling(u) \/ Inside(u))
           /\ handshake[u] = C!Idle => Inside(u)
<1>1. HasLease(u) /\ (Handling(u) \/ Inside(u))
    BY DEF NetInv, StageInv, Outside, Answering
<1>2. Handling(u) => handshake[u] # C!Idle
    BY HandlingFacts
<1> QED
    BY <1>1, <1>2

LEMMA NewsKeeps ==
    ASSUME NetInv, NEW u \in Users, NEW type, type # "handshake",
           TakeSystem(u, type), handshake[u] = C!Idle,
           ClientInv', known'[u].size > 0,
           \A w \in Users : w # u => known'[w] = known[w],
           UNCHANGED <<server, tunIp, mtx_ready, handshake, passwords, packets>>
    PROVE  NetInv'
<1>1. /\ PoolInv' /\ ListInv' /\ ThreadInv' /\ owner' = owner
      /\ \A w \in Users : Letter(w)' = Letter(w) /\ HasLease(w)' = HasLease(w)
    BY ServerStays
<1>2. /\ inbox[u] # <<>> /\ 1 \in DOMAIN inbox[u]
      /\ Head(inbox[u]).type # "handshake"
      /\ inbox' = [w \in Users |-> inbox'[w]]
      /\ \A w \in Users : inbox'[w] \in Seq(Letter(w)')
      /\ \A w \in Users : w # u => inbox'[w] = inbox[w]
      /\ \A i \in DOMAIN inbox'[u] :
            /\ i + 1 \in DOMAIN inbox[u] /\ i + 1 # 1
            /\ inbox'[u][i] = inbox[u][i + 1]
    BY <1>1, TakeFacts DEF NetInv
<1>3. HasLease(u) /\ Inside(u)
    BY <1>2, NewsComesLater
<1>4. ChannelInv'
    BY <1>2 DEF NetInv, ChannelInv
<1>5. ASSUME NEW w \in Users PROVE StageInv(w)'
    <2>1. CASE w # u
        BY <1>1, <1>2, <2>1, StageStays DEF NetInv
    <2>2. CASE w = u
        <3>1. Inside(u)'
            BY <1>1, <1>3
               DEF Inside, S!Addresses, S!ipPool!Addresses, S!ipPool!InPool
        <3>2. tunIp'[u] # NoIp
            BY <1>3, LeaseFacts DEF Inside
        <3>3. \A i \in DOMAIN inbox'[u] : inbox'[u][i].type # "handshake"
            BY <1>2 DEF NetInv, StageInv
        <3>4. u \notin passwords' /\ HasLease(u)'
            BY <1>1, <1>3 DEF Inside
        <3> QED
            BY <2>2, <3>1, <3>2, <3>3, <3>4 DEF StageInv
    <2> QED
        BY <2>1, <2>2
<1> QED
    BY <1>1, <1>4, <1>5 DEF NetInv

LEMMA ReceiveConnectedFacts ==
    ASSUME NetInv, NEW u \in Users, ReceiveConnected(u)
    PROVE  LET m == Head(inbox[u])
           IN  /\ TakeSystem(u, "connected") /\ handshake[u] = C!Idle
               /\ ClientInv' /\ known'[u].size > 0
               /\ C!Known(u)' \subseteq C!Known(u) \cup {[id |-> m.id, ip |-> m.ip]}
               /\ \A w \in Users : w # u => known'[w] = known[w]
               /\ UNCHANGED <<server, tunIp, mtx_ready, handshake, out, passwords, packets>>
<1> DEFINE m == Head(inbox[u])
<1>1. /\ TakeSystem(u, "connected") /\ handshake[u] = C!Idle
      /\ C!Join(u, m.id, m.ip)
      /\ UNCHANGED <<server, passwords, packets>>
    BY DEF ReceiveConnected, C!JoinMember
<1>2. Entry' = Entry /\ \A w \in Users : Letter(w)' = Letter(w)
    BY <1>1, ServerStays
<1>3. m \in Letter(u) /\ m.type = "connected"
    BY <1>1, <1>2, TakeFacts DEF NetInv
<1>4. [id |-> m.id, ip |-> m.ip] \in Entry
    BY <1>3, LetterFacts DEF Entry
<1> HIDE DEF m
<1>5. /\ ClientInv' /\ known'[u].size > 0
      /\ C!Known(u)' \subseteq C!Known(u) \cup {[id |-> m.id, ip |-> m.ip]}
      /\ \A w \in Users : w # u => known'[w] = known[w]
      /\ UNCHANGED <<tunIp, mtx_ready, handshake, out>>
    BY <1>1, <1>2, <1>4, JoinFacts DEF NetInv
<1> QED
    BY <1>1, <1>5 DEF m

LEMMA ReceiveConnectedKeeps ==
    ASSUME NetInv, NEW u \in Users, ReceiveConnected(u)
    PROVE  NetInv'
BY ReceiveConnectedFacts, NewsKeeps

\* The departure of a stranger changes nothing.
LEMMA ReceiveDisconnectedFacts ==
    ASSUME NetInv, StrangerInv, NEW u \in Users, ReceiveDisconnected(u)
    PROVE  /\ TakeSystem(u, "disconnected") /\ handshake[u] = C!Idle
           /\ ~C!Lists(u, Head(inbox[u]).id)
           /\ UNCHANGED <<server, clients, passwords, packets>>
<1>1. /\ TakeSystem(u, "disconnected")
      /\ C!LeftMember(u, Head(inbox[u]).id)
      /\ UNCHANGED <<server, passwords, packets>>
    BY DEF ReceiveDisconnected
<1>2. /\ 1 \in DOMAIN inbox[u] /\ Head(inbox[u]) = inbox[u][1]
      /\ Head(inbox[u]).type = "disconnected"
    BY <1>1, ServerStays, TakeFacts DEF NetInv
<1>3. ~C!Lists(u, Head(inbox[u]).id)
    <2>1. inbox[u][1] \in Letter(u)
        BY <1>1, <1>2, ServerStays, TakeFacts DEF NetInv
    <2>2. inbox[u][1].type = "disconnected"
        BY <1>2
    <2>3. [id |-> inbox[u][1].id, ip |-> inbox[u][1].ip] \in Lease
        BY <2>1, <2>2, LetterFacts
    <2>4. inbox[u][1].id \in Users
        BY <2>3, LeaseFacts
    <2> QED
        BY <1>2, <2>4 DEF StrangerInv, Strangers, HearsOf
<1> QED
    BY <1>1, <1>3 DEF C!LeftMember, clients

LEMMA ReceiveDisconnectedKeeps ==
    ASSUME NetInv, StrangerInv, NEW u \in Users, ReceiveDisconnected(u)
    PROVE  NetInv'
<1>1. /\ TakeSystem(u, "disconnected") /\ handshake[u] = C!Idle
      /\ UNCHANGED <<server, known, tunIp, mtx_ready, handshake, out, passwords, packets>>
    BY ReceiveDisconnectedFacts DEF clients
<1>2. inbox[u] # <<>> /\ Head(inbox[u]).type # "handshake"
    BY <1>1 DEF TakeSystem
<1>3. ClientInv' /\ known'[u].size > 0
    BY <1>1, <1>2, ServerStays, ClientStays, NewsComesLater DEF NetInv, Inside
<1> QED
    BY <1>1, <1>3, NewsKeeps

\* What a TUN receiver can hold next: nothing, or what it held.
Held(o) == o.pc \notin {"idle", "terminated"}

Later(o) ==
    {[pc |-> "idle"], [pc |-> "terminated"]} \cup
    {[o EXCEPT !.pc = to] : to \in {t \in {"found", "unready", "blocked", "sending"} :
                                       Held(o)}}

LEMMA HeldStays ==
    ASSUME ClientInv, owner' = owner, NEW u \in Users, NEW o \in Later(out[u]),
           out' = [out EXCEPT ![u] = o], UNCHANGED known
    PROVE  ClientInv'
<1>1. out[u] \in [pc : {"idle", "terminated"}] \cup C!TunFound
    BY DEF ClientInv
<1>2. /\ o \in [pc : {"idle", "terminated"}] \cup C!TunFound
      /\ Held(o) => /\ Held(out[u]) /\ o.gen = out[u].gen
                    /\ o.k = out[u].k /\ o.dest = out[u].dest
    <2>1. CASE o \in {[pc |-> "idle"], [pc |-> "terminated"]}
        BY <2>1 DEF Held
    <2>2. ASSUME Held(out[u]), NEW to \in {"found", "unready", "blocked", "sending"},
                 o = [out[u] EXCEPT !.pc = to]
          PROVE  /\ o \in C!TunFound
                 /\ o.gen = out[u].gen /\ o.k = out[u].k /\ o.dest = out[u].dest
        BY <1>1, <2>2 DEF Held, C!TunFound
    <2> QED
        BY <2>1, <2>2 DEF Later
<1>3. /\ out' \in [Users -> [pc : {"idle", "terminated"}] \cup C!TunFound]
      /\ out'[u] = o /\ \A w \in Users : w # u => out'[w] = out[w]
    BY <1>2 DEF ClientInv
<1>4. ASSUME NEW w \in Users, Held(out'[w])
      PROVE  /\ out'[w].gen \in DOMAIN known[w].mem
             /\ out'[w].k \in DOMAIN known[w].mem[out'[w].gen]
             /\ known[w].mem[out'[w].gen][out'[w].k].ip = out'[w].dest
    BY <1>2, <1>3, <1>4 DEF ClientInv, Held
<1>5. /\ known' = known /\ Entry' = Entry /\ C!TunFound' = C!TunFound
      /\ \A w \in Users : C!Newest(w)' = C!Newest(w)
    BY SameLeases DEF C!Newest, C!TunFound, S!Addresses, S!ipPool!Addresses,
       S!ipPool!InPool
<1> QED
    BY <1>3, <1>4, <1>5 DEF ClientInv, Held

\* A step that changes no more than what a TUN receiver holds and the packets
\* between clients.
LEMMA TunKeeps ==
    ASSUME NetInv, ClientInv',
           UNCHANGED <<server, known, tunIp, mtx_ready, handshake, passwords, inbox>>,
           packets' \in [Users \cup {Server} -> SUBSET (Users \cup {Server})],
           \A w \in Users : Server \in packets'[w] => Server \in packets[w]
    PROVE  NetInv'
<1>1. /\ PoolInv' /\ ListInv' /\ ThreadInv' /\ owner' = owner
      /\ \A w \in Users : Letter(w)' = Letter(w) /\ HasLease(w)' = HasLease(w)
    BY ServerStays
<1>2. ChannelInv'
    BY <1>1 DEF NetInv, ChannelInv
<1>3. \A w \in Users : StageInv(w)'
    BY <1>1, StageStays DEF NetInv
<1> QED
    BY <1>1, <1>2, <1>3 DEF NetInv

LEMMA SamePackets ==
    ASSUME NetInv, UNCHANGED packets
    PROVE  /\ packets' \in [Users \cup {Server} -> SUBSET (Users \cup {Server})]
           /\ \A w \in Users : Server \in packets'[w] => Server \in packets[w]
BY DEF NetInv, ChannelInv

\* With the device started, the handler goes on inside the network.
LEMMA DeviceFacts ==
    ASSUME NetInv, NEW u \in Users, handshake[u].pc \in {"started", "ready"}
    PROVE  tunIp[u] # NoIp /\ HasLease(u) /\ Inside(u)
<1>1. ~Outside(u) /\ ~Answering(u)
    BY DEF Outside, Answering, C!Idle
<1>2. ~Handling(u)
    BY HandlingFacts
<1> QED
    BY <1>1, <1>2, LeaseFacts DEF NetInv, StageInv, Inside

LEMMA ClientSystemKeeps ==
    ASSUME NetInv, NEW u \in Users, ClientSystem(u)
    PROVE  NetInv'
<1>1. UNCHANGED <<server, known, passwords, inbox, packets>>
    BY DEF ClientSystem, C!System, C!StartDevice, C!SetReady, C!NotifyAll
<1>2. /\ PoolInv' /\ ListInv' /\ ThreadInv' /\ owner' = owner
      /\ \A w \in Users : Letter(w)' = Letter(w) /\ HasLease(w)' = HasLease(w)
    BY <1>1, ServerStays
<1>3. CASE C!SetReady(u)
    <2>1. /\ handshake[u].pc = "started" /\ UNCHANGED <<tunIp, out>>
          /\ mtx_ready' = [mtx_ready EXCEPT ![u] = TRUE]
          /\ handshake' = [handshake EXCEPT ![u] = [pc |-> "ready"]]
        BY <1>3 DEF C!SetReady
    <2>2. /\ mtx_ready' \in [Users -> BOOLEAN] /\ mtx_ready'[u] = TRUE
          /\ handshake' = [w \in Users |-> handshake'[w]]
          /\ \A w \in Users : w # u =>
                mtx_ready'[w] = mtx_ready[w] /\ handshake'[w] = handshake[w]
        BY <2>1 DEF NetInv, ChannelInv
    <2>3. ClientInv' /\ ChannelInv'
        BY <1>1, <1>2, <2>1, <2>2, ClientStays DEF NetInv, ChannelInv
    <2>4. ASSUME NEW w \in Users PROVE StageInv(w)'
        <3>1. CASE w # u
            BY <1>1, <1>2, <2>1, <2>2, <3>1, StageStays DEF NetInv
        <3>2. CASE w = u
            <4>1. tunIp[u] # NoIp /\ HasLease(u) /\ Inside(u)
                BY <2>1, DeviceFacts
            <4>2. Inside(u)'
                BY <1>1, <1>2, <2>1, <2>2, <4>1
                   DEF Inside, S!Addresses, S!ipPool!Addresses, S!ipPool!InPool
            <4> QED
                BY <1>1, <1>2, <2>1, <3>2, <4>1, <4>2 DEF NetInv, StageInv
        <3> QED
            BY <3>1, <3>2
    <2> QED
        BY <1>2, <2>3, <2>4 DEF NetInv
<1>4. CASE C!NotifyAll(u)
    <2> DEFINE o == IF out[u].pc = "blocked" THEN [out[u] EXCEPT !.pc = "found"]
                    ELSE out[u]
    <2>1. /\ handshake[u].pc = "ready" /\ UNCHANGED <<tunIp, mtx_ready>>
          /\ out' = [out EXCEPT ![u] = o]
          /\ handshake' = [handshake EXCEPT ![u] = C!Idle]
        BY <1>4 DEF C!NotifyAll
    <2>2. ClientInv'
        <3>1. CASE out[u].pc = "blocked"
            <4>1. o \in Later(out[u])
                BY <3>1 DEF Later, Held
            <4> QED
                BY <1>1, <1>2, <2>1, <4>1, HeldStays DEF NetInv
        <3>2. CASE out[u].pc # "blocked"
            BY <1>1, <1>2, <2>1, <3>2, ClientStays DEF NetInv, ClientInv
        <3> QED
            BY <3>1, <3>2
    <2>3. /\ handshake' = [w \in Users |-> handshake'[w]] /\ handshake'[u] = C!Idle
          /\ \A w \in Users : w # u => handshake'[w] = handshake[w]
        BY <2>1 DEF NetInv, ChannelInv
    <2>4. ChannelInv'
        BY <1>1, <1>2, <2>1, <2>3 DEF NetInv, ChannelInv
    <2>5. ASSUME NEW w \in Users PROVE StageInv(w)'
        <3>1. CASE w # u
            BY <1>1, <1>2, <2>1, <2>3, <3>1, StageStays DEF NetInv
        <3>2. CASE w = u
            <4>1. tunIp[u] # NoIp /\ HasLease(u) /\ Inside(u)
                BY <2>1, DeviceFacts
            <4>2. mtx_ready[u]
                BY <2>1, <4>1 DEF Inside
            <4>3. Inside(u)'
                BY <1>1, <1>2, <2>1, <2>3, <4>1, <4>2
                   DEF C!Idle, Inside, S!Addresses, S!ipPool!Addresses, S!ipPool!InPool
            <4> QED
                BY <1>1, <1>2, <2>1, <3>2, <4>1, <4>3 DEF NetInv, StageInv
        <3> QED
            BY <3>1, <3>2
    <2> QED
        BY <1>2, <2>2, <2>4, <2>5 DEF NetInv
<1>5. CASE C!StartDevice(u)
    <2>1. /\ handshake[u].pc = "received" /\ UNCHANGED <<mtx_ready, out>>
          /\ tunIp' = [tunIp EXCEPT ![u] = IF @ = NoIp THEN handshake[u].ip ELSE @]
          /\ handshake' = [handshake EXCEPT ![u] = [pc |-> "started"]]
        BY <1>5 DEF C!StartDevice
    <2>2. /\ handshake' = [w \in Users |-> handshake'[w]]
          /\ tunIp' = [w \in Users |-> tunIp'[w]]
          /\ handshake'[u] = [pc |-> "started"]
          /\ \A w \in Users : w # u => tunIp'[w] = tunIp[w] /\ handshake'[w] = handshake[w]
        BY <2>1 DEF NetInv, ChannelInv
    <2>3. ClientInv' /\ ChannelInv'
        BY <1>1, <1>2, <2>1, <2>2, ClientStays DEF NetInv, ChannelInv
    <2>4. HasLease(u) /\ Handling(u)
        BY <2>1 DEF NetInv, StageInv, Outside, Answering, Inside, C!Idle
    <2>5. PICK a \in S!Addresses : owner[a] = u /\ IsHandled(u, a)
        BY <2>4 DEF Handling
    <2>6. tunIp'[u] = a
        BY <2>1, <2>4, <2>5 DEF NetInv, ChannelInv, Handling, IsHandled
    <2>7. ASSUME NEW w \in Users PROVE StageInv(w)'
        <3>1. CASE w # u
            BY <1>1, <1>2, <2>1, <2>2, <3>1, StageStays DEF NetInv
        <3>2. CASE w = u
            <4>1. Inside(u)'
                BY <1>1, <1>2, <2>2, <2>4, <2>5, <2>6
                   DEF Handling, Inside, S!Addresses, S!ipPool!Addresses, S!ipPool!InPool
            <4>2. tunIp'[u] # NoIp /\ u \notin passwords'
                BY <1>1, <2>4, <2>6, LeaseFacts DEF Handling
            <4>3. \A i \in DOMAIN inbox'[u] : inbox'[u][i].type # "handshake"
                BY <1>1, <2>1 DEF NetInv, StageInv, C!Idle
            <4> QED
                BY <1>2, <2>4, <3>2, <4>1, <4>2, <4>3 DEF StageInv
        <3> QED
            BY <3>1, <3>2
    <2> QED
        BY <1>2, <2>3, <2>7 DEF NetInv
<1> QED
    BY <1>3, <1>4, <1>5 DEF ClientSystem, C!System

LEMMA ClientWaitingKeeps ==
    ASSUME NetInv, NEW u \in Users, ClientWaiting(u)
    PROVE  NetInv'
<1>1. UNCHANGED <<server, known, tunIp, mtx_ready, handshake, passwords, inbox, packets>>
    BY DEF ClientWaiting, C!Waiting, C!Pass, C!FindNotReady, C!Block, C!TimeOut,
           C!TimeOutThrows, C!TunAt
<1>2. \E o \in Later(out[u]) : out' = [out EXCEPT ![u] = o]
    <2>1. ASSUME NEW from \in {"found", "unready", "blocked"},
                 NEW to \in {"unready", "blocked", "sending"}, C!TunAt(u, from, to)
          PROVE  \E o \in Later(out[u]) : out' = [out EXCEPT ![u] = o]
        <3> DEFINE o == [out[u] EXCEPT !.pc = to]
        <3>1. o \in Later(out[u])
            BY <2>1 DEF Later, Held, C!TunAt
        <3>2. out' = [out EXCEPT ![u] = o]
            BY <2>1 DEF C!TunAt
        <3> QED
            BY <3>1, <3>2
    <2>2. CASE C!TimeOutThrows(u)
        BY <2>2 DEF C!TimeOutThrows, C!Idle, Later
    <2> QED
        BY <2>1, <2>2
           DEF ClientWaiting, C!Waiting, C!Pass, C!FindNotReady, C!Block, C!TimeOut
<1>3. ClientInv'
    BY <1>1, <1>2, ServerStays, HeldStays DEF NetInv
<1> QED
    BY <1>1, <1>3, TunKeeps, SamePackets

LEMMA ClientEndsKeeps ==
    ASSUME NetInv, NEW u \in Users, ClientEnds(u)
    PROVE  NetInv'
<1>1. /\ out' = [out EXCEPT ![u] = [pc |-> "terminated"]]
      /\ UNCHANGED <<server, known, tunIp, mtx_ready, handshake, passwords, inbox,
                     packets>>
    BY DEF ClientEnds, C!Ends
<1>2. [pc |-> "terminated"] \in Later(out[u])
    BY DEF Later
<1>3. ClientInv'
    BY <1>1, <1>2, ServerStays, HeldStays DEF NetInv
<1> QED
    BY <1>1, <1>3, TunKeeps, SamePackets

LEMMA ElementFacts ==
    ASSUME NEW T, NEW s \in Seq(T), NEW i \in DOMAIN s
    PROVE  s[i] \in T
OBVIOUS

\* What is held is the place of an entry with the destination.
LEMMA HeldFacts ==
    ASSUME ClientInv, NEW u \in Users, Held(out[u])
    PROVE  LET e == known[u].mem[out[u].gen][out[u].k]
           IN  e \in Entry /\ e.ip = out[u].dest
<1>1. /\ out[u].gen \in DOMAIN known[u].mem
      /\ out[u].k \in DOMAIN known[u].mem[out[u].gen]
      /\ known[u].mem[out[u].gen][out[u].k].ip = out[u].dest
    BY DEF ClientInv, Held
<1>2. known[u].mem \in Seq(Seq(Entry))
    BY KnownFacts
<1>3. known[u].mem[out[u].gen] \in Seq(Entry)
    BY ONLY <1>1, <1>2, ElementFacts
<1>4. known[u].mem[out[u].gen][out[u].k] \in Entry
    BY ONLY <1>1, <1>3, ElementFacts
<1> QED
    BY <1>1, <1>4

LEMMA EntryFacts ==
    \A e \in Entry : \/ e.id \in Users /\ owner[e.ip] = e.id /\ e.ip \in S!Addresses
                     \/ e.id = Server /\ e.ip = ServerIp
BY LeaseFacts DEF Entry

LEMMA ClientTunSendKeeps ==
    ASSUME NetInv, NEW u \in Users, NEW id, ClientTunSend(u, id)
    PROVE  NetInv'
<1>1. /\ out[u].pc = "sending" /\ id \in C!Read(u, out[u].gen, out[u].k)
      /\ out' = [out EXCEPT ![u] = [pc |-> "idle"]]
      /\ IF id = NoUser THEN UNCHANGED packets ELSE SendPacket(u, id)
      /\ UNCHANGED <<server, known, tunIp, mtx_ready, handshake, passwords, inbox>>
    BY DEF ClientTunSend, C!TunSend, C!Idle
<1>2. [pc |-> "idle"] \in Later(out[u])
    BY DEF Later
<1>3. ClientInv'
    BY <1>1, <1>2, ServerStays, HeldStays DEF NetInv
<1>4. id # NoUser => id \in Users \cup {Server}
    BY <1>1, HeldFacts, EntryFacts DEF NetInv, Held, C!Read
<1>5. u # Server
    BY LeaseFacts
<1>6. /\ packets' \in [Users \cup {Server} -> SUBSET (Users \cup {Server})]
      /\ \A w \in Users : Server \in packets'[w] => Server \in packets[w]
    <2>1. CASE id = NoUser
        BY <1>1, <2>1, SamePackets
    <2>2. CASE id # NoUser
        <3>1. /\ packets' = [packets EXCEPT ![id] = @ \cup {u}]
              /\ packets \in [Users \cup {Server} -> SUBSET (Users \cup {Server})]
            BY <1>1, <2>2 DEF NetInv, ChannelInv, SendPacket
        <3> QED
            BY ONLY <1>4, <1>5, <2>2, <3>1, u \in Users
    <2> QED
        BY <2>1, <2>2
<1> QED
    BY <1>1, <1>3, <1>6, TunKeeps

LEMMA ClientTunPacketKeeps ==
    ASSUME NetInv, NEW u \in Users, NEW dest \in S!Addresses \cup {ServerIp},
           ClientTunPacket(u, dest)
    PROVE  NetInv'
<1>1. PICK k \in C!Elements(u) :
        /\ C!Newest(u)[k].ip = dest
        /\ out' = [out EXCEPT ![u] = [pc |-> "found", dest |-> dest,
                                      gen |-> Len(known[u].mem), k |-> k]]
    BY DEF ClientTunPacket, C!TunPacket
<1>2. UNCHANGED <<server, known, tunIp, mtx_ready, handshake, passwords, inbox, packets>>
    BY DEF ClientTunPacket, C!TunPacket
<1> DEFINE g == Len(known[u].mem)
           o == [pc |-> "found", dest |-> dest, gen |-> g, k |-> k]
<1>3. /\ g \in DOMAIN known[u].mem /\ g \in Nat /\ C!Newest(u) = known[u].mem[g]
      /\ k \in DOMAIN known[u].mem[g] /\ k \in Nat
    <2>1. /\ DOMAIN known[u].mem = 1 .. g /\ g \in Nat \ {0}
          /\ C!Newest(u) = known[u].mem[g] /\ k \in DOMAIN C!Newest(u)
        BY KnownFacts DEF NetInv
    <2>2. k \in Nat
        BY DEF C!Elements
    <2> QED
        BY ONLY <2>1, <2>2
<1>4. o \in C!TunFound
    BY <1>3 DEF C!TunFound
<1>5. /\ out' \in [Users -> [pc : {"idle", "terminated"}] \cup C!TunFound]
      /\ out'[u] = o /\ \A w \in Users : w # u => out'[w] = out[w]
    BY <1>1, <1>4 DEF NetInv, ClientInv
<1>6. /\ known' = known /\ Entry' = Entry /\ C!TunFound' = C!TunFound
      /\ \A w \in Users : C!Newest(w)' = C!Newest(w)
    BY <1>2, ServerStays DEF C!Newest, C!TunFound, S!Addresses, S!ipPool!Addresses,
       S!ipPool!InPool
<1>7. ASSUME NEW w \in Users, Held(out'[w])
      PROVE  /\ out'[w].gen \in DOMAIN known[w].mem
             /\ out'[w].k \in DOMAIN known[w].mem[out'[w].gen]
             /\ known[w].mem[out'[w].gen][out'[w].k].ip = out'[w].dest
    BY <1>1, <1>3, <1>5, <1>7 DEF NetInv, ClientInv, Held
<1>8. ClientInv'
    BY <1>5, <1>6, <1>7 DEF NetInv, ClientInv, Held
<1> QED
    BY <1>2, <1>8, TunKeeps, SamePackets

----------------------------------------------------------------------------
(* Who is told of whom.                                                    *)

\* What a step brings to u: of members, that one joins, to who has joined, or
\* that a stranger left.
News(u) ==
    /\ \A e \in C!Known(u)' :
          \/ e \in C!Known(u) \/ e.id = Server
          \/ \E i \in DOMAIN inbox[u] :
                inbox[u][i].type = "connected" /\ inbox[u][i].id = e.id
    /\ \A i \in DOMAIN inbox'[u] :
          \/ \E j \in DOMAIN inbox[u] : inbox'[u][i] = inbox[u][j]
          \/ inbox'[u][i].type = "handshake"
          \/ /\ Settled(u) /\ inbox'[u][i].type = "connected"
             /\ ~Settled(inbox'[u][i].id)
          \/ /\ Settled(u) /\ inbox'[u][i].type = "disconnected"
             /\ Strangers(u, inbox'[u][i].id)

LEMMA NewsFacts ==
    ASSUME StrangerInv, \A id : Settled(id) => Settled(id)',
           \A u \in Users : News(u)
    PROVE  /\ \A u \in Users : \A id : Strangers(u, id) => Strangers(u, id)'
           /\ \A u \in Users : ~Settled(u)' => Newcomer(u)'
           /\ \A u, id \in Users : HearsOf(u, id)' => Strangers(u, id)'
<1>1. ASSUME NEW u \in Users, NEW id, Strangers(u, id)
      PROVE  Strangers(u, id)'
    <2>1. Settled(id) /\ Settled(id)' /\ id # Server
        BY <1>1, LeaseFacts DEF Strangers, Settled
    <2>2. ~C!Lists(u, id)'
        BY <1>1, <2>1 DEF News, Strangers, C!Lists
    <2>3. \A i \in DOMAIN inbox'[u] :
            inbox'[u][i].type = "connected" => inbox'[u][i].id # id
        BY <1>1, <2>1 DEF News, Strangers
    <2> QED
        BY <2>1, <2>2, <2>3 DEF Strangers
<1>2. ASSUME NEW u \in Users, ~Settled(u)' PROVE Newcomer(u)'
    <2>1. ~Settled(u) /\ Newcomer(u)
        BY <1>2 DEF StrangerInv
    <2> QED
        BY <2>1 DEF News, Newcomer, Innocent
<1>3. ASSUME NEW u \in Users, NEW id \in Users, HearsOf(u, id)'
      PROVE  Strangers(u, id)'
    <2>1. PICK i \in DOMAIN inbox'[u] :
            inbox'[u][i].type = "disconnected" /\ inbox'[u][i].id = id
        BY <1>3 DEF HearsOf
    <2>2. HearsOf(u, id) \/ Strangers(u, id)
        BY <2>1 DEF News, HearsOf
    <2> QED
        BY <1>1, <2>2 DEF StrangerInv
<1> QED
    BY <1>1, <1>2, <1>3

LEMMA QuietNews ==
    ASSUME NEW u \in Users, known'[u] = known[u], inbox'[u] = inbox[u]
    PROVE  News(u)
BY DEF News, C!Known, C!Newest, C!Elements

\* A message that is taken brings no news but its own.
LEMMA TakenNews ==
    ASSUME NetInv, NEW u \in Users, NEW type, TakeSystem(u, type), UNCHANGED server,
           \A w \in Users : w # u => known'[w] = known[w],
           \A e \in C!Known(u)' : \/ e \in C!Known(u)
                                  \/ type = "connected" /\ e.id = Head(inbox[u]).id
    PROVE  \A w \in Users : News(w)
<1>1. /\ 1 \in DOMAIN inbox[u] /\ Head(inbox[u]) = inbox[u][1]
      /\ Head(inbox[u]).type = type
      /\ \A w \in Users : w # u => inbox'[w] = inbox[w]
      /\ \A i \in DOMAIN inbox'[u] :
            i + 1 \in DOMAIN inbox[u] /\ inbox'[u][i] = inbox[u][i + 1]
    BY ServerStays, TakeFacts DEF NetInv
<1>2. News(u)
    BY <1>1 DEF News
<1> QED
    BY <1>1, <1>2, QuietNews

\* Who is told belongs to the network.
LEMMA AudienceFacts ==
    ASSUME NetInv
    PROVE  /\ Audience \subseteq Users
           /\ \A g \in DOMAIN blocks : \A k \in DOMAIN blocks[g] : blocks[g][k].id \in Users
           /\ \A m \in S!Members : m.id \in Users
<1>1. \A g \in DOMAIN blocks : \A k \in DOMAIN blocks[g] : blocks[g][k].id \in Users
    BY ListFacts, LeaseFacts DEF NetInv
<1>2. \A m \in S!Members : m.id \in Users
    BY ElementLeases, LeaseFacts DEF NetInv, S!Members
<1>3. ASSUME ping.pc = "sending", NEW k \in ping.k .. ping.last
      PROVE  Position(ping.gen, k)
    BY <1>3 DEF NetInv, ThreadInv, PingInv
<1> QED
    BY <1>1, <1>2, <1>3 DEF Audience, Position

\* A step after which no more is to be told to no more users.
LEMMA StrangersStay ==
    ASSUME NetInv, StrangerInv, \A id : Settled(id) => Settled(id)',
           \A u \in Users : News(u),
           UNCHANGED <<blocks, lastPing>>,
           S!Departed' \subseteq S!Departed, Audience' \subseteq Audience,
           ping'.pc = "sending" =>
               \/ ping'.gen = S!cur /\ ping'.last <= S!size
               \/ ping.pc = "sending" /\ ping'.gen = ping.gen /\ ping'.last = ping.last
    PROVE  StrangerInv'
<1>1. /\ \A u \in Users : \A id : Strangers(u, id) => Strangers(u, id)'
      /\ \A u \in Users : ~Settled(u)' => Newcomer(u)'
      /\ \A u, id \in Users : HearsOf(u, id)' => Strangers(u, id)'
    BY NewsFacts
<1>2. \A id \in Users : InSlot(id)' => Settled(id)'
    BY DEF StrangerInv, InSlot
<1>3. ping'.pc = "sending" /\ ping'.gen = S!cur' => ping'.last <= S!size'
    BY DEF StrangerInv, S!cur, S!size
<1>4. ASSUME NEW m \in S!Departed'
      PROVE  Settled(m.id)' /\ \A u \in Audience' : Strangers(u, m.id)'
    <2>1. Settled(m.id) /\ \A u \in Audience : Strangers(u, m.id)
        BY <1>4 DEF StrangerInv
    <2> QED
        BY <1>1, <2>1, AudienceFacts
<1> QED
    BY <1>1, <1>2, <1>3, <1>4 DEF StrangerInv

\* Most steps do nothing in the loop.
LEMMA StrangersRest ==
    ASSUME NetInv, StrangerInv, \A id : Settled(id) => Settled(id)',
           \A u \in Users : News(u), UNCHANGED <<blocks, lastPing, ping>>
    PROVE  StrangerInv'
<1>1. S!Departed' = S!Departed /\ S!Members' = S!Members
    BY DEF S!Departed, S!Members, S!At, S!Elements, S!cur, S!size
<1>2. Audience' = Audience
    BY <1>1 DEF Audience
<1> QED
    BY <1>1, <1>2, StrangersStay

LEMMA SettledStays ==
    ASSUME UNCHANGED <<owner, sys>>
    PROVE  \A id : Settled(id)' = Settled(id)
BY DEF Settled, HasLease, S!Addresses, S!ipPool!Addresses, S!ipPool!InPool

LEMMA ReceivePasswordStrangers ==
    ASSUME NetInv, StrangerInv, NEW u \in Users, ReceivePassword(u)
    PROVE  StrangerInv'
<1>0. PICK ip \in S!Addresses :
        /\ S!ipPool!Allocate(ip)
        /\ owner' = [owner EXCEPT ![ip] = u]
        /\ sys' = [pc |-> "announcing", id |-> u, ip |-> ip,
                   gen |-> S!cur, k |-> 1, last |-> S!size]
    BY DEF ReceivePassword, S!ReceivePassword
<1>1. /\ S!ipPool!Allocate(ip)
      /\ owner' = [owner EXCEPT ![ip] = u]
      /\ sys'.id = u
      /\ SendSystem(u, Handshake(ip))
      /\ UNCHANGED <<blocks, lastPing, ping, known>>
      /\ u \in passwords
    BY <1>0 DEF ReceivePassword, S!ReceivePassword, S!usersList, clients
<1>2. ~HasLease(u) /\ Outside(u)
    BY <1>1 DEF NetInv, StageInv, Answering, Handling, Inside, Outside
<1>3. ASSUME NEW id, Settled(id) PROVE Settled(id)'
    <2>1. id \in Users /\ id # u /\ HasLease(id)
        BY <1>2, <1>3 DEF Settled
    <2>2. owner[ip] = NoUser /\ \A a \in S!Addresses : a # ip => owner'[a] = owner[a]
        BY <1>1, <1>2, LeaseGiven DEF NetInv
    <2>3. HasLease(id)'
        BY <2>1, <2>2, LeaseFacts
           DEF HasLease, S!Addresses, S!ipPool!Addresses, S!ipPool!InPool
    <2> QED
        BY <1>1, <2>1, <2>3 DEF Settled
<1>4. ASSUME NEW w \in Users PROVE News(w)
    <2>1. inbox'[w] = IF w = u THEN Append(inbox[w], Handshake(ip)) ELSE inbox[w]
        BY <1>1 DEF SendSystem, NetInv, ChannelInv
    <2>2. CASE w = u
        <3>1. \A i \in DOMAIN inbox'[u] : inbox'[u][i] = Handshake(ip)
            BY <1>2, <2>1, <2>2 DEF Outside
        <3> QED
            BY <1>1, <2>2, <3>1
               DEF News, Handshake, C!Known, C!Newest, C!Elements
    <2> QED
        BY <1>1, <2>1, <2>2, QuietNews
<1> QED
    BY <1>1, <1>3, <1>4, StrangersRest

\* One more message in a channel.
LEMMA SentNews ==
    ASSUME NetInv, NEW u \in Users, NEW m, SendSystem(u, m), UNCHANGED known, Settled(u),
           \/ m.type = "connected" /\ ~Settled(m.id)
           \/ m.type = "disconnected" /\ Strangers(u, m.id)
    PROVE  \A w \in Users : News(w)
<1> TAKE w \in Users
<1>1. inbox'[w] = IF w = u THEN Append(inbox[w], m) ELSE inbox[w]
    BY DEF SendSystem, NetInv, ChannelInv
<1>2. CASE w = u
    <2>1. inbox[u] \in Seq(Letter(u))
        BY DEF NetInv, ChannelInv
    <2>2. \A i \in DOMAIN inbox'[u] :
            inbox'[u][i] = m \/ (i \in DOMAIN inbox[u] /\ inbox'[u][i] = inbox[u][i])
        BY <1>1, <1>2, <2>1
    <2>3. C!Known(u)' = C!Known(u)
        BY DEF C!Known, C!Newest, C!Elements
    <2> QED
        BY <1>2, <2>2, <2>3 DEF News
<1> QED
    BY <1>1, <1>2, QuietNews

LEMMA AnnounceToStrangers ==
    ASSUME NetInv, StrangerInv, NEW u \in S!Anyone, AnnounceTo(u)
    PROVE  StrangerInv'
<1>1. /\ sys.pc = "announcing" /\ sys.k <= sys.last
      /\ u \in S!Read(sys.gen, sys.k)
      /\ sys' = [sys EXCEPT !.k = @ + 1]
      /\ UNCHANGED <<owner, blocks, lastPing, ping, known>>
    BY DEF AnnounceTo, S!AnnounceTo, S!pool, S!usersList, clients
<1>2. /\ sys \in S!Announcing
      /\ sys.gen \in DOMAIN blocks /\ sys.last <= Len(blocks[sys.gen])
    BY <1>1 DEF NetInv, ThreadInv, S!Idle
<1>3. \A id : Settled(id)' = Settled(id)
    <2>1. sys'.pc = sys.pc /\ sys'.id = sys.id
        BY <1>1, <1>2 DEF S!Announcing
    <2> QED
        BY <1>1, <2>1
           DEF Settled, HasLease, S!Addresses, S!ipPool!Addresses, S!ipPool!InPool
<1>4. CASE u = NoUser
    <2>1. \A w \in Users : News(w)
        BY <1>1, <1>4, QuietNews DEF AnnounceTo
    <2> QED
        BY <1>1, <1>3, <2>1, StrangersRest
<1>5. CASE u # NoUser
    <2> DEFINE m == Connected(sys.id, sys.ip)
    <2>1. sys.k \in DOMAIN blocks[sys.gen]
        <3>1. sys.k \in Nat \ {0} /\ sys.last \in Nat
            BY <1>2 DEF S!Announcing
        <3> QED
            BY <1>1, <1>2, <3>1, ListFacts DEF NetInv
    <2>2. Settled(u) /\ u \in Users
        BY <1>1, <1>2, <1>5, <2>1, AudienceFacts DEF S!Read, StrangerInv, InSlot
    <2>3. m.type = "connected" /\ ~Settled(m.id) /\ SendSystem(u, m)
        BY <1>1, <1>5 DEF Connected, Settled, AnnounceTo
    <2> HIDE DEF m
    <2>4. \A w \in Users : News(w)
        BY <1>1, <2>2, <2>3, SentNews
    <2> QED
        BY <1>1, <1>3, <2>4, StrangersRest
<1> QED
    BY <1>4, <1>5

\* push_back moves nothing but what is behind the elements.
LEMMA PushBackContents ==
    ASSUME ListInv, NEW e \in Lease, S!PushBack(e)
    PROVE  /\ \A g \in DOMAIN blocks' : \A k \in DOMAIN blocks'[g] :
                 \/ blocks'[g][k] = e
                 \/ \E h \in DOMAIN blocks : k \in DOMAIN blocks[h]
                                             /\ blocks'[g][k] = blocks[h][k]
           /\ \A g \in DOMAIN blocks : \A k \in DOMAIN blocks[g] :
                 (g = S!cur => k <= S!size) => blocks'[g][k] = blocks[g][k]
           /\ S!size' = S!size + 1 /\ S!cur' \in {S!cur, S!cur + 1}
           /\ S!Members' \subseteq S!Members \cup {e}
<1> DEFINE n == S!cur
           b == blocks[n]
           z == S!size
           over == [b EXCEPT ![z + 1] = e]
           grown == Append(b, e)
<1>1. /\ n \in Nat \ {0} /\ n \in DOMAIN blocks /\ n = Len(blocks) /\ DOMAIN blocks = 1 .. n
      /\ b \in Seq(Lease) /\ Len(b) \in Nat /\ DOMAIN b = 1 .. Len(b)
      /\ z \in Nat /\ z <= Len(b)
    BY ListFacts
<1>2. z' = z + 1
    BY DEF S!PushBack, S!size, ListInv
<1>3. PICK c : /\ blocks' = [blocks EXCEPT ![n] = c] \/ blocks' = Append(blocks, c)
               /\ c \in Seq(Lease) /\ z + 1 \in DOMAIN c /\ c[z + 1] = e
               /\ \A k \in DOMAIN c : c[k] = e \/ (k \in DOMAIN b /\ c[k] = b[k])
               /\ \A k \in 1 .. z : c[k] = b[k]
    <2>1. CASE z < Len(b) /\ blocks' = [blocks EXCEPT ![n] = over]
        <3>1. /\ over \in Seq(Lease) /\ DOMAIN over = 1 .. Len(b) /\ z + 1 \in 1 .. Len(b)
              /\ over[z + 1] = e /\ \A k \in 1 .. Len(b) : k # z + 1 => over[k] = b[k]
            <4> HIDE DEF b, z
            <4> QED
                BY <1>1, <2>1
        <3>2. \A k \in 1 .. z : k \in 1 .. Len(b) /\ k # z + 1
            BY <1>1
        <3> HIDE DEF over, b, z, n
        <3>3. /\ over \in Seq(Lease) /\ z + 1 \in DOMAIN over /\ over[z + 1] = e
              /\ \A k \in DOMAIN over : over[k] = e \/ (k \in DOMAIN b /\ over[k] = b[k])
              /\ \A k \in 1 .. z : over[k] = b[k]
            BY <1>1, <3>1, <3>2
        <3> QED
            BY ONLY <2>1, <3>3
    <2>2. CASE z = Len(b) /\ (\/ blocks' = [blocks EXCEPT ![n] = grown]
                              \/ blocks' = Append(blocks, grown))
        <3> HIDE DEF b, z
        <3>1. /\ grown \in Seq(Lease) /\ DOMAIN grown = 1 .. Len(b) + 1
              /\ grown[Len(b) + 1] = e /\ \A k \in 1 .. Len(b) : grown[k] = b[k]
            BY <1>1, AppendFacts
        <3>2. \A k \in 1 .. Len(b) + 1 : k = Len(b) + 1 \/ k \in 1 .. Len(b)
            BY <1>1
        <3>3. Len(b) + 1 \in 1 .. Len(b) + 1
            BY <1>1
        <3> HIDE DEF grown, n
        <3>4. /\ grown \in Seq(Lease) /\ z + 1 \in DOMAIN grown /\ grown[z + 1] = e
              /\ \A k \in DOMAIN grown : grown[k] = e \/ (k \in DOMAIN b /\ grown[k] = b[k])
              /\ \A k \in 1 .. z : grown[k] = b[k]
            BY <1>1, <2>2, <3>1, <3>2, <3>3
        <3> QED
            BY ONLY <2>2, <3>4
    <2> QED
        BY <2>1, <2>2 DEF S!PushBack
<1> HIDE DEF b, z, n
<1>4. /\ \A g \in DOMAIN blocks' :
            blocks'[g] = c \/ (g \in DOMAIN blocks /\ blocks'[g] = blocks[g])
      /\ \A g \in DOMAIN blocks : g # n => blocks'[g] = blocks[g]
      /\ blocks'[n] = c \/ blocks'[n] = b
      /\ Len(blocks') \in {n, n + 1} /\ blocks'[Len(blocks')] = c
    <2>0. blocks \in Seq(Seq(Lease))
        BY DEF ListInv
    <2>1. CASE blocks' = [blocks EXCEPT ![n] = c]
        BY <1>1, <2>0, <2>1
    <2>2. CASE blocks' = Append(blocks, c)
        <3>1. /\ Len(blocks') = n + 1 /\ DOMAIN blocks' = 1 .. n + 1
              /\ blocks'[n + 1] = c /\ \A g \in 1 .. n : blocks'[g] = blocks[g]
            BY <1>1, <1>3, <2>0, <2>2, AppendFacts
        <3>2. \A g \in 1 .. n + 1 : g = n + 1 \/ g \in 1 .. n
            BY <1>1
        <3> QED
            BY <1>1, <3>1, <3>2 DEF b
    <2> QED
        BY <1>3, <2>1, <2>2
<1>5. S!Members' \subseteq S!Members \cup {e}
    <2>1. S!Members' = {c[k] : k \in 1 .. z + 1}
        BY <1>2, <1>4 DEF S!Members, S!At, S!Elements, S!cur, z
    <2>2. S!Members = {b[k] : k \in 1 .. z}
        BY DEF S!Members, S!At, S!Elements, b, n, z
    <2>3. \A k \in 1 .. z + 1 : k = z + 1 \/ k \in 1 .. z
        BY <1>1
    <2> QED
        BY <1>3, <2>1, <2>2, <2>3
<1>6. ASSUME NEW g \in DOMAIN blocks', NEW k \in DOMAIN blocks'[g]
      PROVE  \/ blocks'[g][k] = e
             \/ \E h \in DOMAIN blocks : k \in DOMAIN blocks[h]
                                         /\ blocks'[g][k] = blocks[h][k]
    <2>1. CASE blocks'[g] = c
        BY <1>1, <1>3, <1>6, <2>1 DEF b
    <2>2. CASE g \in DOMAIN blocks /\ blocks'[g] = blocks[g]
        BY <1>6, <2>2
    <2> QED
        BY <1>4, <2>1, <2>2
<1>7. ASSUME NEW g \in DOMAIN blocks, NEW k \in DOMAIN blocks[g], g = n => k <= z
      PROVE  blocks'[g][k] = blocks[g][k]
    <2>1. CASE g = n
        <3>1. k \in 1 .. z
            BY <1>1, <1>7, <2>1 DEF b
        <3> QED
            BY <1>3, <1>4, <2>1, <3>1 DEF b
    <2> QED
        BY <1>4, <2>1
<1> QED
    BY <1>2, <1>4, <1>5, <1>6, <1>7 DEF S!cur, n, z

\* Who is enlisted between the erase and the range-for has heard of nobody.
LEMMA EnlistStrangers ==
    ASSUME NetInv, StrangerInv, Enlist
    PROVE  StrangerInv'
<1> DEFINE e == [id |-> sys.id, ip |-> sys.ip]
<1>1. /\ sys.pc = "announcing" /\ sys' = S!Idle /\ S!PushBack(e)
      /\ UNCHANGED <<owner, ping, known, inbox>>
    BY DEF Enlist, S!Enlist, S!pool, clients
<1>2. PICK x : e \in Lease /\ x = sys.id /\ e.id = x
    BY <1>1 DEF NetInv, ThreadInv, S!Idle
<1> HIDE DEF e
<1>3. \A id : Settled(id) => Settled(id)'
    BY <1>1
       DEF Settled, HasLease, S!Idle, S!Addresses, S!ipPool!Addresses, S!ipPool!InPool
<1>4. x \in Users /\ ~Settled(x) /\ Settled(x)'
    <2>1. x \in Users /\ HasLease(x)
        BY <1>2, LeaseFacts
    <2> QED
        BY <1>1, <1>2, <2>1
           DEF Settled, HasLease, S!Idle, S!Addresses, S!ipPool!Addresses, S!ipPool!InPool
<1>5. Newcomer(x)
    BY <1>4 DEF StrangerInv
<1>6. \A u \in Users : News(u)
    BY <1>1, QuietNews
<1>7. /\ \A u \in Users : \A id : Strangers(u, id) => Strangers(u, id)'
      /\ \A u \in Users : ~Settled(u)' => Newcomer(u)'
      /\ \A u, id \in Users : HearsOf(u, id)' => Strangers(u, id)'
    BY <1>3, <1>6, NewsFacts
<1>8. /\ \A g \in DOMAIN blocks' : \A k \in DOMAIN blocks'[g] :
            \/ blocks'[g][k] = e
            \/ \E h \in DOMAIN blocks : k \in DOMAIN blocks[h]
                                        /\ blocks'[g][k] = blocks[h][k]
      /\ \A g \in DOMAIN blocks : \A k \in DOMAIN blocks[g] :
            (g = S!cur => k <= S!size) => blocks'[g][k] = blocks[g][k]
      /\ S!size' = S!size + 1 /\ S!cur' \in {S!cur, S!cur + 1}
      /\ S!Members' \subseteq S!Members \cup {e}
    BY <1>1, <1>2, PushBackContents DEF NetInv
<1>9. ASSUME NEW id \in Users, InSlot(id)' PROVE Settled(id)'
    <2>1. id = x \/ InSlot(id)
        BY <1>2, <1>8, <1>9 DEF InSlot
    <2> QED
        BY <1>3, <1>4, <2>1 DEF StrangerInv
<1>10. ASSUME ping.pc = "sending"
       PROVE  /\ ping.last \in Nat /\ ping.k \in Nat \ {0}
              /\ ping.last > 0 => ping.gen \in 1 .. S!cur
              /\ \A k \in ping.k .. ping.last : Position(ping.gen, k)
              /\ ping.gen = S!cur => ping.last <= S!size
    <2>1. /\ ping.k \in Nat \ {0} /\ ping.last \in Nat
          /\ \A k \in 1 .. ping.last : Position(ping.gen, k)
        BY <1>10 DEF NetInv, ThreadInv, PingInv
    <2>2. ping.last > 0 => ping.gen \in 1 .. S!cur
        BY <2>1, ListFacts DEF NetInv, Position
    <2> QED
        BY <1>10, <2>1, <2>2 DEF StrangerInv
<1>11. ping'.pc = "sending" /\ ping'.gen = S!cur' => ping'.last <= S!size'
    BY <1>1, <1>8, <1>10, ListFacts DEF NetInv
<1>12. Audience' \subseteq Audience \cup {x}
    <2>1. CASE ping.pc = "erased"
        BY <1>1, <1>2, <1>8, <2>1 DEF Audience
    <2>2. CASE ping.pc = "sending"
        <3>1. \A k \in ping.k .. ping.last : blocks'[ping.gen][k] = blocks[ping.gen][k]
            <4> TAKE k \in ping.k .. ping.last
            <4>1. Position(ping.gen, k) /\ (ping.gen = S!cur => k <= S!size)
                <5>1. k <= ping.last /\ k \in Int
                    BY <1>10, <2>2
                <5> QED
                    BY <1>10, <2>2, <5>1, ListFacts DEF NetInv
            <4> QED
                BY <1>8, <4>1 DEF Position
        <3> QED
            BY <1>1, <2>2, <3>1 DEF Audience
    <2>3. CASE ping.pc \notin {"erased", "sending"}
        BY <1>1, <2>3 DEF Audience
    <2> QED
        BY <2>1, <2>2, <2>3
<1>13. ASSUME NEW m \in S!Departed'
       PROVE  Settled(m.id)' /\ \A u \in Audience' : Strangers(u, m.id)'
    <2>1. Settled(m.id) /\ \A u \in Audience : Strangers(u, m.id)
        BY <1>1, <1>13 DEF StrangerInv, S!Departed
    <2>2. Strangers(x, m.id)
        <3>1. ~C!Lists(x, m.id)
            BY <1>5, <2>1, LeaseFacts DEF Newcomer, Innocent, C!Lists, Settled
        <3> QED
            BY <1>5, <2>1, <3>1 DEF Newcomer, Strangers
    <2> QED
        BY <1>3, <1>4, <1>7, <1>12, <2>1, <2>2, AudienceFacts
<1> QED
    BY <1>7, <1>9, <1>11, <1>13 DEF StrangerInv

LEMMA PingRoundStrangers ==
    ASSUME NetInv, StrangerInv, PingLoop, S!PingRound
    PROVE  StrangerInv'
<1>1. UNCHANGED <<owner, sys, known, inbox>>
    BY DEF PingLoop, S!PingRound, S!pool, clients
<1>2. /\ blocks' = blocks /\ lastPing' = <<>>
      /\ ping' = [pc |-> "erased", gone |-> {S!At(k) : k \in S!Elements}]
    BY RoundFacts DEF NetInv
<1>3. \A id : Settled(id)' = Settled(id)
    BY <1>1, SettledStays
<1>4. /\ \A u \in Users : ~Settled(u)' => Newcomer(u)'
      /\ \A u, id \in Users : HearsOf(u, id)' => Strangers(u, id)'
    BY <1>1, <1>3, NewsFacts, QuietNews
<1>5. S!Departed' = {S!At(k) : k \in S!Elements}
    BY <1>2 DEF S!Departed
<1>6. Audience' = {}
    BY <1>2 DEF Audience, S!Members, S!Elements, S!size
<1>7. \A m \in S!Departed' : Settled(m.id)'
    BY <1>3, <1>5, ElementLeases, LeaseFacts
       DEF NetInv, StrangerInv, InSlot, S!At, Position
<1>8. \A id \in Users : InSlot(id)' => Settled(id)'
    BY <1>2, <1>3 DEF StrangerInv, InSlot
<1> QED
    BY <1>2, <1>4, <1>6, <1>7, <1>8 DEF StrangerInv

LEMMA AudienceShrinks ==
    ASSUME NetInv, ping.pc = "sending", ping.k <= ping.last,
           NEW rest, rest \subseteq ping.gone, S!PingOn(rest), UNCHANGED blocks
    PROVE  /\ S!Departed' = S!Departed /\ Audience' \subseteq Audience
           /\ ping'.gen = ping.gen /\ ping'.last = ping.last
<1>1. /\ ping' = [pc |-> "sending", gen |-> ping.gen, k |-> ping'.k,
                  last |-> ping.last, gone |-> ping.gone, left |-> rest]
      /\ ping'.k \in {ping.k, ping.k + 1}
    BY PingOnFacts DEF NetInv, ThreadInv
<1>2. /\ ping'.pc = "sending" /\ ping'.gen = ping.gen /\ ping'.last = ping.last
      /\ ping'.gone = ping.gone
    BY <1>1
<1>3. ping'.k .. ping.last \subseteq ping.k .. ping.last
    BY <1>1 DEF NetInv, ThreadInv, PingInv
<1> QED
    BY <1>2, <1>3 DEF S!Departed, Audience

LEMMA PingLoopStrangers ==
    ASSUME NetInv, StrangerInv, PingLoop
    PROVE  StrangerInv'
<1>1. CASE S!PingRound
    BY <1>1, PingRoundStrangers
<1>2. ASSUME UNCHANGED <<owner, sys, blocks, lastPing, known, inbox>>,
             S!Departed' \subseteq S!Departed, Audience' \subseteq Audience,
             ping'.pc = "sending" =>
                 \/ ping'.gen = S!cur /\ ping'.last <= S!size
                 \/ ping.pc = "sending" /\ ping'.gen = ping.gen /\ ping'.last = ping.last
      PROVE  StrangerInv'
    BY <1>2, SettledStays, QuietNews, StrangersStay
<1>3. CASE S!Tick
    <2>1. /\ ping' = ping \/ \E w : ping' = S!Sleeping(w)
          /\ UNCHANGED <<owner, sys, blocks, known, inbox>>
        BY <1>3 DEF PingLoop, S!Tick, S!history, clients
    <2>2. lastPing' = lastPing
        BY <1>3, TickFacts DEF NetInv
    <2>3. CASE ping' = ping
        BY <2>1, <2>2, <2>3, SettledStays, QuietNews, StrangersRest
    <2>4. CASE \E w : ping' = S!Sleeping(w)
        <3>1. S!Departed' = {} /\ Audience' = {} /\ ping'.pc # "sending"
            BY <2>4 DEF S!Departed, Audience, S!Sleeping
        <3> QED
            BY <1>2, <2>1, <2>2, <3>1
    <2> QED
        BY <2>1, <2>3, <2>4
<1>4. CASE S!PingSleep
    <2>1. /\ ping' = S!Sleeping(PingPeriod)
          /\ UNCHANGED <<owner, sys, blocks, lastPing, known, inbox>>
        BY <1>4 DEF PingLoop, S!PingSleep, S!usersList, S!history, clients
    <2>2. S!Departed' = {} /\ Audience' = {} /\ ping'.pc # "sending"
        BY <2>1 DEF S!Departed, Audience, S!Sleeping
    <2> QED
        BY <1>2, <2>1, <2>2
<1>5. CASE S!PingStart
    <2>1. /\ ping.pc = "erased"
          /\ ping' = [pc |-> "sending", gen |-> S!cur, k |-> 1, last |-> S!size,
                      gone |-> ping.gone, left |-> {}]
          /\ UNCHANGED <<owner, sys, blocks, lastPing, known, inbox>>
        BY <1>5 DEF PingLoop, S!PingStart, S!usersList, S!history, clients
    <2>2. S!Departed' = S!Departed
        BY <2>1 DEF S!Departed
    <2>3. Audience' = Audience
        <3>1. Audience' = {blocks[S!cur][k].id : k \in 1 .. S!size}
            BY <2>1 DEF Audience
        <3> QED
            BY <2>1, <3>1 DEF Audience, S!Members, S!At, S!Elements
    <2>4. ping'.gen = S!cur /\ ping'.last <= S!size
        BY <2>1, ListFacts DEF NetInv
    <2> QED
        BY <1>2, <2>1, <2>2, <2>3, <2>4
<1>6. ASSUME NEW u \in S!Anyone, S!PingTo(u) PROVE StrangerInv'
    <2>1. /\ ping.pc = "sending" /\ ping.k <= ping.last /\ S!PingOn(ping.gone)
          /\ UNCHANGED <<owner, sys, blocks, lastPing, known, inbox>>
        BY <1>6 DEF PingLoop, S!PingTo, S!usersList, S!history, clients
    <2>2. /\ S!Departed' = S!Departed /\ Audience' \subseteq Audience
          /\ ping'.gen = ping.gen /\ ping'.last = ping.last
        BY <2>1, AudienceShrinks
    <2> QED
        BY <1>2, <2>1, <2>2
<1> QED
    BY <1>1, <1>3, <1>4, <1>5, <1>6 DEF PingLoop

LEMMA TellDepartureStrangers ==
    ASSUME NetInv, StrangerInv, NEW u \in S!Anyone, NEW m \in S!Departed,
           TellDeparture(u, m)
    PROVE  StrangerInv'
<1>1. /\ ping.pc = "sending" /\ ping.k <= ping.last /\ m \in ping.gone
      /\ u \in S!Read(ping.gen, ping.k) /\ Position(ping.gen, ping.k)
      /\ ping.k \in ping.k .. ping.last
      /\ S!PingOn(ping.left \ {m}) /\ ping.left \subseteq ping.gone
      /\ u # NoUser => SendSystem(u, Disconnected(m.id, m.ip))
      /\ u = NoUser => UNCHANGED inbox
      /\ UNCHANGED <<owner, sys, blocks, lastPing, known>>
    BY TellingFacts
<1>2. /\ S!Departed' = S!Departed /\ Audience' \subseteq Audience
      /\ ping'.gen = ping.gen /\ ping'.last = ping.last
    <2>1. ping.left \ {m} \subseteq ping.gone
        BY <1>1
    <2> QED
        BY <1>1, <2>1, AudienceShrinks
<1>3. \A w \in Users : News(w)
    <2>1. CASE u = NoUser
        BY <1>1, <2>1, QuietNews
    <2>2. CASE u # NoUser
        <3> DEFINE d == Disconnected(m.id, m.ip)
        <3>1. u = blocks[ping.gen][ping.k].id
            BY <1>1, <2>2 DEF S!Read
        <3>2. Settled(u) /\ u \in Users
            BY <1>1, <3>1, AudienceFacts DEF StrangerInv, InSlot, Position
        <3>3. Strangers(u, m.id)
            BY <1>1, <3>1 DEF StrangerInv, Audience
        <3>4. d.type = "disconnected" /\ d.id = m.id /\ SendSystem(u, d)
            BY <1>1, <2>2 DEF Disconnected
        <3> HIDE DEF d
        <3> QED
            BY <1>1, <3>2, <3>3, <3>4, SentNews
    <2> QED
        BY <2>1, <2>2
<1> QED
    BY <1>1, <1>2, <1>3, SettledStays, StrangersStay

\* A client's step, if it hears of nobody but by its messages.
LEMMA ClientStrangers ==
    ASSUME NetInv, StrangerInv, UNCHANGED server, \A u \in Users : News(u)
    PROVE  StrangerInv'
BY SettledStays, StrangersRest DEF server

LEMMA ClientControlStrangers ==
    ASSUME NetInv, StrangerInv, NEW u \in Users, ClientControl(u)
    PROVE  StrangerInv'
<1>1. CASE ClientStart(u)
    <2>1. C!Join(u, Server, ServerIp) /\ UNCHANGED <<server, inbox>>
        BY <1>1 DEF ClientStart, C!Start
    <2>2. /\ C!Known(u)' \subseteq C!Known(u) \cup {[id |-> Server, ip |-> ServerIp]}
          /\ \A w \in Users : w # u => known'[w] = known[w]
        <3>1. [id |-> Server, ip |-> ServerIp] \in Entry
            BY DEF Entry
        <3> QED
            BY <2>1, <3>1, JoinFacts, ServerStays DEF NetInv
    <2>3. News(u)
        BY <2>1, <2>2 DEF News
    <2> QED
        BY <2>1, <2>2, <2>3, QuietNews, ClientStrangers
<1>2. CASE ReceiveHandshake(u)
    <2>1. TakeSystem(u, "handshake") /\ UNCHANGED <<server, known>>
        BY <1>2 DEF ReceiveHandshake, C!ReceiveHandshake
    <2>2. C!Known(u)' = C!Known(u)
        BY <2>1 DEF C!Known, C!Newest, C!Elements
    <2> QED
        BY <2>1, <2>2, TakenNews, ClientStrangers
<1>3. CASE ReceiveConnected(u)
    <2> DEFINE m == Head(inbox[u])
    <2>1. /\ TakeSystem(u, "connected") /\ UNCHANGED server
          /\ C!Known(u)' \subseteq C!Known(u) \cup {[id |-> m.id, ip |-> m.ip]}
          /\ \A w \in Users : w # u => known'[w] = known[w]
        BY <1>3, ReceiveConnectedFacts
    <2>2. \A e \in C!Known(u)' : e \in C!Known(u) \/ e.id = m.id
        BY <2>1
    <2> QED
        BY <2>1, <2>2, TakenNews, ClientStrangers
<1>4. CASE ReceiveDisconnected(u)
    <2>1. TakeSystem(u, "disconnected") /\ UNCHANGED <<server, known>>
        BY <1>4, ReceiveDisconnectedFacts DEF clients
    <2>2. C!Known(u)' = C!Known(u)
        BY <2>1 DEF C!Known, C!Newest, C!Elements
    <2> QED
        BY <2>1, <2>2, TakenNews, ClientStrangers
<1>5. CASE ClientSystem(u) \/ ClientEnds(u)
    <2>1. UNCHANGED <<server, known, inbox>>
        BY <1>5 DEF ClientSystem, C!System, C!StartDevice, C!SetReady, C!NotifyAll,
                    ClientEnds, C!Ends
    <2> QED
        BY <2>1, QuietNews, ClientStrangers
<1> QED
    BY <1>1, <1>2, <1>3, <1>4, <1>5 DEF ClientControl

----------------------------------------------------------------------------
(* The invariant holds.                                                    *)

\* The constructor's loop queues every address of the range once.
LEMMA FullPool ==
    ASSUME S!ipPool!Init
    PROVE  S!ipPool!TypeOK /\ S!ipPool!Partition
<1> DEFINE a0 == S!ipPool!start_
           a1 == S!ipPool!end_
           n == a1 - a0 + 1
           P == S!ipPool!InPool
<1>1. n \in Nat /\ a0 \in Int /\ a1 \in Int /\ P = a0 .. a1
    BY NetworkAssumption
       DEF NetworkAssumption, S!ipPool!IsByteSwap, S!ipPool!IsRange, S!ipPool!start_,
           S!ipPool!end_, S!ipPool!ntohl, S!ipPool!uint32_t, S!ipPool!InPool
<1>2. free_ = [i \in 1 .. n |-> a0 + i - 1] /\ used_ = {}
    BY DEF S!ipPool!Init
<1> HIDE DEF a0, a1, P
<1>3. \A i \in 1 .. n : a0 + i - 1 \in P
    BY <1>1
<1>4. free_ \in Seq(P) /\ DOMAIN free_ = 1 .. n
    BY <1>1, <1>2, <1>3
<1>5. \A i, j \in DOMAIN free_ : free_[i] = free_[j] => i = j
    BY <1>1, <1>2, <1>4
<1>6. ASSUME NEW a \in P PROVE \E i \in DOMAIN free_ : free_[i] = a
    <2>1. a - a0 + 1 \in 1 .. n /\ a0 + (a - a0 + 1) - 1 = a
        BY <1>1
    <2> QED
        BY <1>2, <1>4, <2>1
<1>7. \A i \in DOMAIN free_ : free_[i] \in P
    BY <1>2, <1>3, <1>4
<1> QED
    BY <1>2, <1>4, <1>5, <1>6, <1>7
       DEF S!ipPool!TypeOK, S!ipPool!Partition, S!ipPool!InFree, P

LEMMA InitNetInv == Init => NetInv
<1> SUFFICES ASSUME Init PROVE NetInv
    OBVIOUS
<1>1. PoolInv
    <2>1. owner = [a \in S!Addresses |-> NoUser] /\ S!ipPool!Init
        BY DEF Init, S!Init
    <2> QED
        BY <2>1, FullPool DEF PoolInv, S!Anyone
<1>2. ListInv
    <2>1. blocks = << <<>> >> /\ lastPing = <<>>
        BY DEF Init, S!Init
    <2> QED
        BY <2>1 DEF ListInv, S!size, S!cur
<1>3. ThreadInv
    BY DEF Init, S!Init, S!Sleeping, ThreadInv, PingInv
<1>4. /\ known = [u \in Users |-> [mem |-> << <<>> >>, size |-> 0]]
      /\ out = [u \in Users |-> [pc |-> "idle"]]
      /\ tunIp = [u \in Users |-> NoIp] /\ mtx_ready = [u \in Users |-> FALSE]
      /\ handshake = [u \in Users |-> C!Idle]
      /\ passwords = {} /\ inbox = [u \in Users |-> <<>>]
      /\ packets = [r \in Users \cup {Server} |-> {}]
    BY DEF Init, C!Init, C!Idle
<1>5. ClientInv
    <2>1. << <<>> >> \in Seq(Seq(Entry)) \ {<<>>}
        OBVIOUS
    <2>2. [mem |-> << <<>> >>, size |-> 0] \in [mem : Seq(Seq(Entry)) \ {<<>>}, size : Nat]
        BY <2>1
    <2>3. known \in [Users -> [mem : Seq(Seq(Entry)) \ {<<>>}, size : Nat]]
        BY <1>4, <2>2
    <2>4. \A u \in Users : known[u].size = Len(C!Newest(u))
        BY <1>4 DEF C!Newest
    <2>5. /\ out \in [Users -> [pc : {"idle", "terminated"}] \cup C!TunFound]
          /\ \A u \in Users : out[u].pc = "idle"
        BY <1>4
    <2> QED
        BY <2>3, <2>4, <2>5 DEF ClientInv
<1>6. ChannelInv
    BY <1>4 DEF ChannelInv
<1>7. ASSUME NEW u \in Users PROVE StageInv(u)
    <2>1. ~HasLease(u)
        BY LeaseFacts DEF Init, S!Init, HasLease
    <2>2. Outside(u) /\ Innocent(u)
        BY <1>4 DEF Outside, Innocent, C!Known, C!Elements
    <2> QED
        BY <1>4, <2>1, <2>2 DEF StageInv
<1> QED
    BY <1>1, <1>2, <1>3, <1>5, <1>6, <1>7 DEF NetInv

LEMMA InitStrangerInv == Init => StrangerInv
<1> SUFFICES ASSUME Init PROVE StrangerInv
    OBVIOUS
<1>1. /\ blocks = << <<>> >> /\ ping = S!Sleeping(PingPeriod)
      /\ known = [u \in Users |-> [mem |-> << <<>> >>, size |-> 0]]
      /\ inbox = [u \in Users |-> <<>>]
    BY DEF Init, S!Init, C!Init
<1>2. \A u \in Users : Newcomer(u)
    BY <1>1 DEF Newcomer, Innocent, C!Known, C!Elements
<1> QED
    BY <1>1, <1>2 DEF StrangerInv, Audience, InSlot, HearsOf, S!Departed, S!Sleeping

LEMMA NetInvStep == NetInv /\ StrangerInv /\ [Next]_vars => NetInv'
<1> SUFFICES ASSUME NetInv, StrangerInv, [Next]_vars PROVE NetInv'
    OBVIOUS
<1>1. CASE ServerControl
    BY <1>1, ReceivePasswordKeeps, RefusePasswordKeeps, AnnounceToKeeps, EnlistKeeps,
       PingLoopKeeps, TellDepartureKeeps DEF ServerControl
<1>2. ASSUME NEW u \in Users, ClientControl(u) PROVE NetInv'
    BY <1>2, ClientStartKeeps, ReceiveHandshakeKeeps, ReceiveConnectedKeeps,
       ReceiveDisconnectedKeeps, ClientSystemKeeps, ClientEndsKeeps DEF ClientControl
<1>3. CASE ServerTraffic
    <2>1. ASSUME NEW u \in Users, ServerReceivePacket(u) PROVE NetInv'
        BY <2>1, PacketTaken DEF ServerReceivePacket
    <2> QED
        BY <1>3, <2>1, ServerTunPacketKeeps, ServerTunSendKeeps DEF ServerTraffic
<1>4. ASSUME NEW u \in Users, ClientTraffic(u) PROVE NetInv'
    <2>1. ASSUME NEW from, ClientReceivePacket(u, from) PROVE NetInv'
        BY <2>1, PacketTaken DEF ClientReceivePacket
    <2> QED
        BY <1>4, <2>1, ClientTunPacketKeeps, ClientWaitingKeeps, ClientTunSendKeeps
           DEF ClientTraffic
<1>5. CASE UNCHANGED vars
    <2>1. UNCHANGED <<server, known, tunIp, mtx_ready, handshake, out, passwords, inbox,
                      packets>>
        BY <1>5 DEF vars, clients
    <2>2. ClientInv'
        BY <2>1, ServerStays, ClientStays DEF NetInv
    <2> QED
        BY <2>1, <2>2, TunKeeps, SamePackets
<1> QED
    BY <1>1, <1>2, <1>3, <1>4, <1>5 DEF Next, Control

LEMMA StrangerInvStep == NetInv /\ StrangerInv /\ [Next]_vars => StrangerInv'
<1> SUFFICES ASSUME NetInv, StrangerInv, [Next]_vars PROVE StrangerInv'
    OBVIOUS
<1>0. ASSUME UNCHANGED <<owner, sys, blocks, lastPing, ping, known, inbox>>
      PROVE  StrangerInv'
    BY <1>0, SettledStays, QuietNews, StrangersRest
<1>1. CASE ServerControl
    <2>1. ASSUME NEW u \in Users, RefusePassword(u) PROVE StrangerInv'
        BY <1>0, <2>1 DEF RefusePassword, S!RefusePassword, S!usersList, S!history, clients
    <2> QED
        BY <1>1, <2>1, ReceivePasswordStrangers, AnnounceToStrangers, EnlistStrangers,
           PingLoopStrangers, TellDepartureStrangers DEF ServerControl
<1>2. ASSUME NEW u \in Users, ClientControl(u) PROVE StrangerInv'
    BY <1>2, ClientControlStrangers
<1>3. CASE ServerTraffic
    BY <1>0, <1>3 DEF ServerTraffic, ServerTunPacket, S!TunPacket, ServerTunSend,
       S!TunSend, ServerReceivePacket, S!usersList, S!history, server, clients
<1>4. ASSUME NEW u \in Users, ClientTraffic(u) PROVE StrangerInv'
    <2>1. UNCHANGED <<server, known, inbox>>
        BY <1>4 DEF ClientTraffic, ClientTunPacket, C!TunPacket, ClientTunSend, C!TunSend,
           ClientReceivePacket, clients, ClientWaiting, C!Waiting, C!Pass, C!FindNotReady,
           C!Block, C!TimeOut, C!TimeOutThrows, C!TunAt
    <2> QED
        BY <1>0, <2>1 DEF server
<1>5. CASE UNCHANGED vars
    BY <1>0, <1>5 DEF vars, server, clients
<1> QED
    BY <1>1, <1>2, <1>3, <1>4, <1>5 DEF Next, Control

LEMMA NetInvariant == Spec => [](NetInv /\ StrangerInv)
BY InitNetInv, InitStrangerInv, NetInvStep, StrangerInvStep, PTL DEF Spec

----------------------------------------------------------------------------
(* What it says of the network.                                            *)

\* Whoever is told of a departure was enlisted after the erase, and does not
\* know who left.
THEOREM NetworkDeparturesNameStrangers == Spec => DeparturesNameStrangers
<1>1. NetInv /\ StrangerInv =>
          \A u \in Users : ReceiveDisconnected(u) => ~C!Lists(u, Head(inbox[u]).id)
    BY ReceiveDisconnectedFacts
<1> QED
    BY <1>1, NetInvariant, PTL DEF DeparturesNameStrangers

\* The server's book, the clients' lists, the devices and the messages under
\* way agree on whose an address is.
THEOREM NetworkAddressAgreement == Spec => []AddressAgreement
<1>1. ASSUME NetInv PROVE AddressAgreement
    <2> SUFFICES ASSUME NEW u \in Users
                 PROVE  /\ \A m \in C!Known(u) : m.id # Server => owner[m.ip] = m.id
                        /\ tunIp[u] # NoIp => owner[tunIp[u]] = u
                        /\ handshake[u].pc = "received" => owner[handshake[u].ip] = u
                        /\ \A i \in DOMAIN inbox[u] :
                              LET m == inbox[u][i]
                              IN  owner[m.ip] = IF m.type = "handshake" THEN u ELSE m.id
        BY DEF AddressAgreement
    <2>1. \A m \in C!Known(u) : m.id # Server => owner[m.ip] = m.id
        BY <1>1, KnownFacts, EntryFacts DEF NetInv
    <2>2. tunIp[u] # NoIp => owner[tunIp[u]] = u
        BY <1>1 DEF NetInv, StageInv, Outside, Answering, Handling, Inside
    <2>4. handshake[u].pc = "received" => owner[handshake[u].ip] = u
        <3>1. handshake[u].pc = "received" => Handling(u)
            BY <1>1 DEF NetInv, StageInv, Outside, Answering, Inside, C!Idle
        <3> QED
            BY <3>1, HandlingFacts
    <2>3. ASSUME NEW i \in DOMAIN inbox[u]
          PROVE  owner[inbox[u][i].ip] =
                    IF inbox[u][i].type = "handshake" THEN u ELSE inbox[u][i].id
        <3>1. inbox[u] \in Seq(Letter(u))
            BY <1>1 DEF NetInv, ChannelInv
        <3>2. inbox[u][i] \in Letter(u)
            BY ONLY <2>3, <3>1, ElementFacts
        <3> QED
            BY <3>2, LetterFacts, LeaseFacts, ZenonT(30)
    <2> QED
        BY <2>1, <2>2, <2>3, <2>4
<1> QED
    BY <1>1, NetInvariant, PTL

\* A member's device runs with the address it is listed with, or the handshake
\* that brings it is the next message to come or is being handled.
THEOREM NetworkMembersAreConfigured == Spec => []MembersAreConfigured
<1>1. ASSUME NetInv PROVE MembersAreConfigured
    <2> SUFFICES ASSUME NEW m \in S!Members
                 PROVE  \/ tunIp[m.id] = m.ip
                        \/ /\ tunIp[m.id] = NoIp
                           /\ ComesNext(m.id, m.ip) \/ IsHandled(m.id, m.ip)
        BY DEF MembersAreConfigured
    <2>1. m \in Lease
        <3>1. PICK k \in S!Elements : m = S!At(k)
            BY DEF S!Members
        <3>2. k \in DOMAIN blocks[S!cur]
            BY <1>1, ListFacts DEF NetInv, S!Elements
        <3> QED
            BY <1>1, <3>1, <3>2, ListFacts DEF NetInv, S!At
    <2>2. /\ m.id \in Users /\ m.ip \in S!Addresses /\ owner[m.ip] = m.id
          /\ HasLease(m.id) /\ m.id # NoUser
        BY <2>1, LeaseFacts
    <2>3. \A a \in S!Addresses : owner[a] = m.id => a = m.ip
        BY <1>1, <2>2 DEF NetInv, PoolInv
    <2>4. CASE Answering(m.id)
        <3>1. inbox[m.id] \in Seq(Letter(m.id)) /\ inbox[m.id] # <<>>
            BY <1>1, <2>2, <2>4 DEF NetInv, ChannelInv, Answering
        <3>2. Head(inbox[m.id]) \in Letter(m.id)
            BY ONLY <3>1
        <3>3. Head(inbox[m.id]) = Handshake(m.ip)
            BY <2>2, <2>3, <2>4, <3>2, LetterFacts, ZenonT(30) DEF Answering
        <3> QED
            BY <2>4, <3>1, <3>3 DEF Answering, ComesNext
    <2>5. CASE Handling(m.id)
        BY <2>3, <2>5 DEF Handling
    <2>6. CASE Inside(m.id)
        BY <2>3, <2>6 DEF Inside
    <2> QED
        BY <1>1, <2>2, <2>4, <2>5, <2>6 DEF NetInv, StageInv
<1> QED
    BY <1>1, NetInvariant, PTL

\* A client hears of other members with its own handshake behind it.
THEOREM NetworkHandshakeComesFirst == Spec => HandshakeComesFirst
<1>1. NetInv => \A u \in Users :
          ReceiveConnected(u) \/ ReceiveDisconnected(u) => mtx_ready[u]
    <2> SUFFICES ASSUME NetInv, NEW u \in Users,
                        ReceiveConnected(u) \/ ReceiveDisconnected(u)
                 PROVE  mtx_ready[u]
        OBVIOUS
    <2>1. /\ inbox[u] # <<>> /\ Head(inbox[u]).type # "handshake"
          /\ handshake[u] = C!Idle
        BY DEF ReceiveConnected, ReceiveDisconnected, TakeSystem, C!JoinMember, C!LeftMember
    <2> QED
        BY <2>1, NewsComesLater DEF Inside, C!Idle
<1> QED
    BY <1>1, NetInvariant, PTL DEF HandshakeComesFirst

\* A client's packet goes to the user its destination belongs to.
THEOREM NetworkClientPacketsReachOwner == Spec => ClientPacketsReachOwner
<1>1. NetInv => \A u, id \in Users : ClientTunSend(u, id) => owner[out[u].dest] = id
    <2> SUFFICES ASSUME NetInv, NEW u \in Users, NEW id \in Users, ClientTunSend(u, id)
                 PROVE  owner[out[u].dest] = id
        OBVIOUS
    <2> DEFINE e == known[u].mem[out[u].gen][out[u].k]
    <2>1. out[u].pc = "sending" /\ id \in C!Read(u, out[u].gen, out[u].k)
        BY DEF ClientTunSend, C!TunSend
    <2>2. id = e.id
        BY <2>1, LeaseFacts DEF C!Read
    <2>3. e \in Entry /\ e.ip = out[u].dest
        BY <2>1, HeldFacts DEF NetInv, Held
    <2> QED
        BY <2>2, <2>3, EntryFacts, LeaseFacts
<1> QED
    BY <1>1, NetInvariant, PTL DEF ClientPacketsReachOwner

\* A listed sender's packet is lost to a device not started only if the server
\* sent it, and the handshake is the next message to come or is being handled.
THEOREM NetworkLostOnlyBeforeHandshake == Spec => LostOnlyBeforeHandshake
<1> DEFINE Lost(u, from) ==
        ClientReceivePacket(u, from) /\ C!Lists(u, from) /\ tunIp[u] = NoIp
<1>1. NetInv => \A u \in Users, from \in Users \cup {Server} :
            Lost(u, from) =>
                /\ from = Server
                /\ \E ip \in S!Addresses :
                      owner[ip] = u /\ (ComesNext(u, ip) \/ IsHandled(u, ip))
    <2> SUFFICES ASSUME NetInv, NEW u \in Users, NEW from \in Users \cup {Server},
                        ClientReceivePacket(u, from), C!Lists(u, from), tunIp[u] = NoIp
                 PROVE  /\ from = Server
                        /\ \E ip \in S!Addresses :
                              owner[ip] = u /\ (ComesNext(u, ip) \/ IsHandled(u, ip))
        OBVIOUS
    <2>1. from = Server
        BY DEF NetInv, StageInv, Innocent, C!Lists
    <2>2. from \in packets[u]
        BY DEF ClientReceivePacket
    <2>3. HasLease(u)
        BY <2>1, <2>2 DEF NetInv, StageInv, Outside
    <2>4. CASE Answering(u)
        <3>1. inbox[u] \in Seq(Letter(u)) /\ inbox[u] # <<>>
            BY <2>4 DEF NetInv, ChannelInv, Answering
        <3>2. Head(inbox[u]) \in Letter(u)
            BY ONLY <3>1
        <3>3. /\ Head(inbox[u]) = Handshake(Head(inbox[u]).ip)
              /\ Head(inbox[u]).ip \in S!Addresses /\ owner[Head(inbox[u]).ip] = u
            BY <2>4, <3>2, LetterFacts DEF Answering
        <3> QED
            BY <2>1, <3>1, <3>3 DEF ComesNext
    <2>5. CASE Handling(u)
        BY <2>1, <2>5 DEF Handling
    <2>6. ~Inside(u)
        BY LeaseFacts DEF Inside
    <2> QED
        BY <2>3, <2>4, <2>5, <2>6 DEF NetInv, StageInv
<1> QED
    BY <1>1, NetInvariant, PTL DEF LostOnlyBeforeHandshake

\* The server among its clients is the Server that is checked alone: Steam and
\* the clients make it do nothing it would not do for some users.
THEOREM NetworkServerIsServer == Spec => S!Spec
<1>1. Init => S!Init
    BY DEF Init
<1>2. ASSUME [Next]_vars PROVE [S!Next]_S!vars
    <2>1. CASE ServerControl
        BY <2>1 DEF ServerControl, ReceivePassword, RefusePassword, AnnounceTo, Enlist,
                    PingLoop, TellDeparture, S!Next
    <2>2. CASE ServerTraffic
        BY <2>2 DEF ServerTraffic, ServerTunPacket, ServerTunSend, ServerReceivePacket,
                    server, S!vars, S!Next
    <2>3. ASSUME NEW u \in Users, ClientControl(u) \/ ClientTraffic(u)
          PROVE  UNCHANGED server
        BY <2>3 DEF ClientControl, ClientTraffic, ClientStart, ReceiveHandshake,
                    ReceiveConnected, ReceiveDisconnected, ClientSystem, ClientEnds,
                    ClientTunPacket, ClientWaiting, ClientTunSend, ClientReceivePacket
    <2>4. UNCHANGED server => UNCHANGED S!vars
        BY DEF server, S!vars
    <2> QED
        BY <1>2, <2>1, <2>2, <2>3, <2>4 DEF Next, Control, vars
<1> QED
    BY <1>1, <1>2, PTL DEF Spec, S!Spec

\* The messages a client finds are those Client is ready for.
LEMMA ClientMessages ==
    ASSUME NetInv, NEW u \in Users,
           ReceiveHandshake(u) \/ ReceiveConnected(u) \/ ReceiveDisconnected(u)
    PROVE  C!Step(u)
<1> DEFINE m == Head(inbox[u])
<1>1. m \in Letter(u) /\ inbox[u] # <<>>
    BY DEF ReceiveHandshake, ReceiveConnected, ReceiveDisconnected, TakeSystem, NetInv,
           ChannelInv
<1>2. C!Started(u)
    BY <1>1 DEF NetInv, StageInv, Outside, Answering, Handling, Inside, C!Started
<1>3. CASE ReceiveHandshake(u)
    <2>1. m.type = "handshake" /\ C!ReceiveHandshake(u, m.ip)
        BY <1>3 DEF ReceiveHandshake, TakeSystem
    <2>2. m.ip \in S!Addresses
        BY <1>1, <2>1, LetterFacts
    <2> QED
        BY <1>2, <2>1, <2>2 DEF C!Step
<1>4. CASE ReceiveConnected(u)
    <2>1. m.type = "connected" /\ C!JoinMember(u, m.id, m.ip)
        BY <1>4 DEF ReceiveConnected, TakeSystem
    <2>2. m.id \in Users /\ m.ip \in S!Addresses
        BY <1>1, <2>1, LetterFacts, LeaseFacts
    <2> QED
        BY <1>2, <2>1, <2>2 DEF C!Step
<1>5. CASE ReceiveDisconnected(u)
    <2>1. m.type = "disconnected" /\ C!LeftMember(u, m.id)
        BY <1>5 DEF ReceiveDisconnected, TakeSystem
    <2>2. m.id \in Users
        BY <1>1, <2>1, LetterFacts, LeaseFacts
    <2> QED
        BY <1>2, <2>1, <2>2 DEF C!Step
<1> QED
    BY <1>3, <1>4, <1>5

\* The clients around the server are the Clients that are checked alone: what
\* reaches them is what a Client expects, never before it has asked.
THEOREM NetworkClientsAreClients == Spec => C!Spec
<1>1. Init => C!Init
    BY DEF Init
<1>2. ASSUME NetInv, [Next]_vars PROVE [C!Next]_C!vars
    <2>1. CASE ServerControl \/ ServerTraffic \/ UNCHANGED vars
        <3>1. UNCHANGED clients
            BY <2>1 DEF ServerControl, ReceivePassword, RefusePassword, AnnounceTo, Enlist,
                        PingLoop, TellDeparture, ServerTraffic, ServerTunPacket, ServerTunSend,
                        ServerReceivePacket, vars
        <3> QED
            BY <3>1 DEF clients, C!vars
    <2>2. ASSUME NEW u \in Users, ClientControl(u)
          PROVE  [C!Next]_C!vars
        <3>1. C!Alive(u)
            BY <2>2 DEF ClientControl
        <3>2. C!Step(u)
            BY <1>2, <2>2, ClientMessages
               DEF ClientControl, ClientStart, ClientSystem, ClientEnds, C!Step
        <3> QED
            BY <3>1, <3>2 DEF C!Next
    <2>3. ASSUME NEW u \in Users, ClientTraffic(u)
          PROVE  [C!Next]_C!vars
        <3>1. C!Alive(u)
            BY <2>3 DEF ClientTraffic
        <3>2. CASE \E from \in Users \cup {Server} : ClientReceivePacket(u, from)
            BY <3>2 DEF ClientReceivePacket, clients, C!vars
        <3>3. CASE \/ \E dest \in S!Addresses \cup {ServerIp} : ClientTunPacket(u, dest)
                   \/ ClientWaiting(u)
                   \/ \E id \in S!Anyone \cup {Server} : ClientTunSend(u, id)
            <4>1. C!Step(u)
                BY <3>3 DEF ClientTunPacket, ClientWaiting, ClientTunSend, S!Anyone,
                            C!Sending, C!Step
            <4> QED
                BY <3>1, <4>1 DEF C!Next
        <3> QED
            BY <2>3, <3>2, <3>3 DEF ClientTraffic
    <2> QED
        BY <1>2, <2>1, <2>2, <2>3 DEF Next, Control
<1> QED
    BY <1>1, <1>2, NetInvariant, PTL DEF Spec, C!Spec

=============================================================================
