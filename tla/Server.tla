------------------------------- MODULE Server -------------------------------
(***************************************************************************)
(* lib/Server: the members of the network, and the threads that work on    *)
(* usersList without a lock:                                               *)
(*   - the receiver of Steam's system channel (sys): passwords, pings and  *)
(*     pongs; the only thread that adds entries;                           *)
(*   - the receiver of the TUN device (tun): looks up who owns an address; *)
(*   - PingLoop (ping): the only thread that removes entries.              *)
(*                                                                         *)
(* A pass over the list that calls nothing outside the class (find_if,     *)
(* remove_if with erase, push_back) is one step.  A thread that holds an   *)
(* iterator or a range-for position across a call to Steam keeps it in its *)
(* own variable while the others run.  An action that sends has the        *)
(* identity it sends to as its parameter.                                  *)
(***************************************************************************)
EXTENDS Integers, Sequences, FiniteSets

CONSTANTS
    Users, NoUser,           \* Steam identities, and no identity at all
    PingPeriod,              \* minutes PingLoop sleeps (2)
    PingTimeout,             \* minutes after which a member is removed (5)
    UINT32_MAX, htonl, start, end    \* see IpPool

ASSUME UserAssumption == NoUser \notin Users
ASSUME PingAssumption == PingPeriod \in Nat \ {0} /\ PingTimeout \in Nat

VARIABLES
    free_, used_,   \* the member ipPool
    blocks,         \* every memory block usersList has had, newest last
    lastPing,       \* the age of lastPingTime, for each element of usersList
    sys,            \* the system receiver: idle, or announcing a new member
    tun,            \* the TUN receiver: idle, or holding a found iterator
    ping,           \* PingLoop: sleeping, done erasing, or sending to members
    owner,          \* history: the user an address was allocated for
    telling         \* history: who the join announcement has not reached

ipPool == INSTANCE IpPool

ASSUME ServerPoolAssumption == ipPool!IsByteSwap /\ ipPool!IsRange

pool == <<free_, used_>>
usersList == <<blocks, lastPing>>
history == <<owner, telling>>
vars == <<free_, used_, blocks, lastPing, sys, tun, ping, owner, telling>>

Addresses == ipPool!Addresses
Anyone == Users \cup {NoUser}

----------------------------------------------------------------------------
(* lastPingTime is kept as the minutes since it: PingTimeout + 1 stands    *)
(* for any later age, Epoch for the value-initialised time_point.          *)

Epoch == PingTimeout + 2
Age == 0 .. Epoch

Older(age) == IF age <= PingTimeout THEN age + 1 ELSE age

\* Slip: who never pinged does not expire.
ExpiredOncePinged(age) == age = PingTimeout + 1

\* lastPingTime < now - 5 min
Expired(age) == age > PingTimeout

(* std::vector<user_info>: a block is a sequence of slots, written at least *)
(* once, of which the newest block's first `size' are the elements.         *)

user_info == [id : Users, ip : Addresses]

cur == Len(blocks)
size == Len(lastPing)
Elements == 1 .. size
At(k) == blocks[cur][k]

Members == {At(k) : k \in Elements}
Listed(u) == \E k \in Elements : At(k).id = u

\* find_if on the identity or on the address returns the first such element.
FirstById(k, u) == At(k).id = u /\ \A j \in 1 .. k - 1 : At(j).id # u
FirstByIp(k, d) == At(k).ip = d /\ \A j \in 1 .. k - 1 : At(j).ip # d

\* The identity a thread reads through a position in block g.  A block that
\* was replaced is freed memory: its old content, or no user's identity.
Read(g, k) ==
    {blocks[g][k].id} \cup (IF g = cur THEN {} ELSE {NoUser})

\* push_back: over an old slot, in a slot never used, or in a new block.  The
\* new lastPingTime is value-initialised.
PushBack(e) ==
    /\ lastPing' = Append(lastPing, Epoch)
    /\ \/ /\ size < Len(blocks[cur])
          /\ blocks' = [blocks EXCEPT ![cur][size + 1] = e]
       \/ /\ size = Len(blocks[cur])
          /\ blocks' = [blocks EXCEPT ![cur] = Append(@, e)]
       \/ /\ size = Len(blocks[cur])
          /\ blocks' = Append(blocks, Append(blocks[cur], e))

\* Slip: the block is cut to the kept elements.
KeepShrinking(kept) ==
    LET n == Cardinality(kept) IN
    \E from \in [1 .. n -> kept] :
        /\ \A i, j \in 1 .. n : i < j => from[i] < from[j]
        /\ blocks' = [blocks EXCEPT ![cur] = [k \in 1 .. n |-> @[from[k]]]]
        /\ lastPing' = [k \in 1 .. n |-> lastPing[from[k]]]

\* erase(remove_if(...)): the kept elements move to the front in their order,
\* the slots behind them keep what they held.
Keep(kept) ==
    LET n == Cardinality(kept) IN
    \E from \in [1 .. n -> kept] :
        /\ \A i, j \in 1 .. n : i < j => from[i] < from[j]
        /\ blocks' = [blocks EXCEPT ![cur] =
              [k \in DOMAIN @ |-> IF k <= n THEN @[from[k]] ELSE @[k]]]
        /\ lastPing' = [k \in 1 .. n |-> lastPing[from[k]]]

\* lastPingTime = now, for the first entry of u if there is one.
Refresh(u) ==
    IF Listed(u)
    THEN \E k \in Elements :
            FirstById(k, u) /\ lastPing' = [lastPing EXCEPT ![k] = 0]
    ELSE UNCHANGED lastPing

NothingToTell == [untold |-> {}, erased |-> 0]

Idle == [pc |-> "idle"]
Sleeping(wait) == [pc |-> "sleeping", wait |-> wait]

Init ==
    /\ ipPool!Init
    /\ blocks = << <<>> >>
    /\ lastPing = <<>>
    /\ sys = Idle
    /\ tun = Idle
    /\ ping = Sleeping(PingPeriod)
    /\ owner = [a \in Addresses |-> NoUser]
    /\ telling = NothingToTell

----------------------------------------------------------------------------
(* SteamSystemMessageReceiver.  Messages of the types a server does not    *)
(* expect, ill-formed ones and wrong passwords change nothing and have no  *)
(* action.                                                                 *)

\* The right password: u gets a handshake, then the range-for over the present
\* members starts.  Nothing asks whether u is a member already.
ReceivePassword(u) ==
    /\ sys = Idle
    /\ \E ip \in Addresses :
        /\ ipPool!Allocate(ip)
        /\ owner' = [owner EXCEPT ![ip] = u]
        /\ sys' = [pc |-> "announcing", id |-> u, ip |-> ip,
                   gen |-> cur, k |-> 1, last |-> size]
    /\ telling' = [untold |-> Members, erased |-> 0]
    /\ UNCHANGED <<usersList, tun, ping>>

\* The right password, but Allocate throws: logged, and u gets no answer.
RefusePassword(u) ==
    /\ sys = Idle
    /\ ipPool!AllocateThrows
    /\ UNCHANGED <<usersList, sys, tun, ping, history>>

\* Slip: the loop advances twice.
AnnounceToEverySecond(u) ==
    /\ sys.pc = "announcing"
    /\ sys.k <= sys.last
    /\ u \in Read(sys.gen, sys.k)
    /\ sys' = [sys EXCEPT !.k = @ + 2]
    /\ telling' = [telling EXCEPT !.untold = {m \in @ : m.id # u}]
    /\ UNCHANGED <<pool, usersList, tun, ping, owner>>

\* The body of the range-for: u, if it is anyone, is told of the new member.
AnnounceTo(u) ==
    /\ sys.pc = "announcing"
    /\ sys.k <= sys.last
    /\ u \in Read(sys.gen, sys.k)
    /\ sys' = [sys EXCEPT !.k = @ + 1]
    /\ telling' = [telling EXCEPT !.untold = {m \in @ : m.id # u}]
    /\ UNCHANGED <<pool, usersList, tun, ping, owner>>

\* Slip: a user that is listed already is not listed with its new address.
EnlistOnce ==
    /\ sys.pc = "announcing"
    /\ sys.k > sys.last
    /\ IF Listed(sys.id) THEN UNCHANGED usersList
       ELSE PushBack([id |-> sys.id, ip |-> sys.ip])
    /\ sys' = Idle
    /\ telling' = NothingToTell
    /\ UNCHANGED <<pool, tun, ping, owner>>

\* Slip: the new member is pushed on reaching the last one, not after it.
EnlistAtLast ==
    /\ sys.pc = "announcing"
    /\ sys.k = sys.last
    /\ PushBack([id |-> sys.id, ip |-> sys.ip])
    /\ sys' = Idle
    /\ telling' = NothingToTell
    /\ UNCHANGED <<pool, tun, ping, owner>>

\* push_back({ user, ip })
Enlist ==
    /\ sys.pc = "announcing"
    /\ sys.k > sys.last
    /\ PushBack([id |-> sys.id, ip |-> sys.ip])
    /\ sys' = Idle
    /\ telling' = NothingToTell
    /\ UNCHANGED <<pool, tun, ping, owner>>

\* A pong, or a ping, from u (who is sent a pong in return, member or not).
ReceiveSignOfLife(u) ==
    /\ sys = Idle
    /\ Refresh(u)
    /\ UNCHANGED <<pool, blocks, sys, tun, ping, history>>

----------------------------------------------------------------------------
(* TUNDataReceiver: find_if, then SendMessage(it->identity, ...).  A packet *)
(* for an address nobody is listed with is dropped.  SteamMessageReceiver   *)
(* passes a listed user's packets to the TUN and changes nothing.           *)

TunPacket(dest) ==
    /\ tun = Idle
    /\ \E k \in Elements :
        /\ FirstByIp(k, dest)
        /\ tun' = [pc |-> "found", dest |-> dest, gen |-> cur, k |-> k]
    /\ UNCHANGED <<pool, usersList, sys, ping, history>>

TunSend(u) ==
    /\ tun.pc = "found"
    /\ u \in Read(tun.gen, tun.k)
    /\ tun' = Idle
    /\ UNCHANGED <<pool, usersList, sys, ping, history>>

----------------------------------------------------------------------------
(* PingLoop, and time.                                                     *)

\* A minute goes by.  sleep_for sleeps at least as long as it was told.
Tick ==
    /\ lastPing' = [k \in Elements |-> Older(lastPing[k])]
    /\ ping' = IF ping.pc = "sleeping" /\ ping.wait > 0
               THEN Sleeping(ping.wait - 1) ELSE ping
    /\ UNCHANGED <<pool, blocks, sys, tun, history>>

\* Slip: the range-for's end is taken before the erase.
PingRoundOldEnd ==
    /\ ping = Sleeping(0)
    /\ LET expired == {k \in Elements : Expired(lastPing[k])}
       IN /\ Keep(Elements \ expired)
          /\ ping' = [pc |-> "sending", gen |-> cur, k |-> 1, last |-> size,
                      gone |-> {At(k) : k \in expired}, left |-> {}]
    /\ UNCHANGED <<pool, sys, tun, history>>

\* Slip: the loop releases the addresses of the members it removes, while
\* their departure has still to be announced.
PingRoundReleasing ==
    /\ ping = Sleeping(0)
    /\ LET expired == {k \in Elements : Expired(lastPing[k])}
           kept == Elements \ expired
           ips == {htonl[At(k).ip] : k \in expired}
       IN /\ Keep(kept)
          /\ ping' = [pc |-> "erased", gone |-> {At(k) : k \in expired}]
          /\ used_' = used_ \ ips
          /\ \E order \in [1 .. Cardinality(ips) -> ips] :
                /\ \A a \in ips : \E i \in DOMAIN order : order[i] = a
                /\ free_' = free_ \o order
    /\ UNCHANGED <<sys, tun, history>>

\* The loop wakes: erase the expired entries and note who they were.  Their
\* addresses are not released, and they are not told.
PingRound ==
    /\ ping = Sleeping(0)
    /\ LET expired == {k \in Elements : Expired(lastPing[k])}
           kept == Elements \ expired
           gone == {At(k) : k \in expired}
       IN /\ Keep(kept)
          /\ ping' = [pc |-> "erased", gone |-> gone]
          /\ telling' =
                IF sys = Idle THEN telling
                ELSE [untold |-> telling.untold \ gone,
                      erased |-> telling.erased + Cardinality(expired)]
    /\ UNCHANGED <<pool, sys, tun, owner>>

\* The range-for reads begin() and end(): who was enlisted since the erase is
\* in its range.
PingStart ==
    /\ ping.pc = "erased"
    /\ ping' = [pc |-> "sending", gen |-> cur, k |-> 1, last |-> size,
                gone |-> ping.gone, left |-> {}]
    /\ UNCHANGED <<pool, usersList, sys, tun, history>>

\* The next element, or the one that is told the departures in `rest' next.
PingOn(rest) ==
    ping' = [ping EXCEPT !.left = rest, !.k = IF rest = {} THEN @ + 1 ELSE @]

\* The body of the range-for: u, if it is anyone, is sent a ping, ...
PingTo(u) ==
    /\ ping.pc = "sending"
    /\ ping.k <= ping.last
    /\ ping.left = {}
    /\ u \in Read(ping.gen, ping.k)
    /\ PingOn(ping.gone)
    /\ UNCHANGED <<pool, usersList, sys, tun, history>>

\* ... and then told of the departures, one after the other.
TellDeparture(u, m) ==
    /\ ping.pc = "sending"
    /\ m \in ping.left
    /\ u \in Read(ping.gen, ping.k)
    /\ PingOn(ping.left \ {m})
    /\ UNCHANGED <<pool, usersList, sys, tun, history>>

PingSleep ==
    /\ ping.pc = "sending"
    /\ ping.k > ping.last
    /\ ping' = Sleeping(PingPeriod)
    /\ UNCHANGED <<pool, usersList, sys, tun, history>>

----------------------------------------------------------------------------

Departed == IF ping.pc = "sleeping" THEN {} ELSE ping.gone

Next ==
    \/ \E u \in Users :
          ReceivePassword(u) \/ RefusePassword(u) \/ ReceiveSignOfLife(u)
    \/ \E u \in Anyone : AnnounceTo(u) \/ TunSend(u) \/ PingTo(u)
    \/ \E u \in Anyone, m \in Departed : TellDeparture(u, m)
    \/ \E dest \in Addresses : TunPacket(dest)
    \/ Enlist
    \/ Tick
    \/ PingRound
    \/ PingStart
    \/ PingSleep

Spec == Init /\ [][Next]_vars

\* A thread that has work goes on with it, and time passes.  What users and
\* the TUN device send is up to them.
FairSpec ==
    /\ Spec
    /\ WF_vars(Enlist \/ \E u \in Anyone : AnnounceTo(u))
    /\ WF_vars(\/ PingRound \/ PingStart \/ PingSleep
               \/ \E u \in Anyone : PingTo(u) \/ \E m \in Departed : TellDeparture(u, m))
    /\ WF_vars(Tick)

----------------------------------------------------------------------------
(* What must hold.                                                         *)

Announcing ==
    [pc : {"announcing"}, id : Users, ip : Addresses,
     gen : Nat, k : Nat \ {0}, last : Nat]
Found == [pc : {"found"}, dest : Addresses, gen : Nat, k : Nat]
Erased == [pc : {"erased"}, gone : SUBSET user_info]
Sending ==
    [pc : {"sending"}, gen : Nat, k : Nat \ {0}, last : Nat,
     gone : SUBSET user_info, left : SUBSET user_info]

\* Every variable has its type, and every position a thread holds lies in a
\* block that was written up to it: no iterator or range-for bound ever points
\* behind the slots usersList had, however erase and push_back interleave.
TypeOK ==
    /\ ipPool!TypeOK
    /\ blocks \in Seq(Seq(user_info)) \ {<<>>}
    /\ lastPing \in Seq(Age)
    /\ size <= Len(blocks[cur])
    /\ sys \in {Idle} \cup Announcing
    /\ sys.pc = "announcing" =>
          sys.gen \in DOMAIN blocks /\ sys.last <= Len(blocks[sys.gen])
    /\ tun \in {Idle} \cup Found
    /\ tun.pc = "found" =>
          tun.gen \in DOMAIN blocks /\ tun.k \in DOMAIN blocks[tun.gen]
    /\ ping \in {Sleeping(w) : w \in 0 .. PingPeriod} \cup Erased \cup Sending
    /\ ping.pc = "sending" =>
          /\ ping.gen \in DOMAIN blocks /\ ping.last <= Len(blocks[ping.gen])
          /\ ping.left \subseteq ping.gone /\ (ping.left # {} => ping.k <= ping.last)
    /\ owner \in [Addresses -> Anyone]
    /\ telling \in [untold : SUBSET user_info, erased : Nat]

Joining ==
    IF sys.pc = "announcing" THEN {[id |-> sys.id, ip |-> sys.ip]} ELSE {}

\* One address, one user.  Whatever names an address with a user (an entry in
\* any block, current or freed; the member being announced; a departure being
\* announced) names the user the address was allocated for, and so does every
\* message that carries both, since it is made from one of these.
OneAddressOneUser ==
    /\ \A g \in DOMAIN blocks : \A k \in DOMAIN blocks[g] :
          owner[blocks[g][k].ip] = blocks[g][k].id
    /\ \A m \in Joining \cup Departed : owner[m.ip] = m.id

\* An address is in one place at most: once in the list, or with the member
\* being announced, or with a departure being announced; and it is out of the
\* pool in each.  The erase of PingLoop between the steps of a join neither
\* doubles nor revives an entry.
OnePlacePerAddress ==
    /\ \A i, j \in Elements : At(i).ip = At(j).ip => i = j
    /\ \A m \in Members : m.ip \notin {n.ip : n \in Joining \cup Departed}
    /\ \A m \in Joining : m.ip \notin {n.ip : n \in Departed}
    /\ \A m \in Members \cup Joining \cup Departed : htonl[m.ip] \in used_

\* PingLoop talks to members only, even through a block push_back has freed
\* under it, and what it reports as disconnected is not listed any more, though
\* joins go on between its erase, its range-for and each of its messages.
PingLoopTellsMembers ==
    [][\A u \in Users :
          /\ PingTo(u) => Listed(u)
          /\ \A m \in Departed : TellDeparture(u, m) => Listed(u) /\ m \notin Members]_vars

\* When a join has been announced, a member that was there all the time can
\* only have been passed over because an erase moved it in front of the loop's
\* position: no more members are passed over than entries were erased.
PassedOverByErase ==
    sys.pc = "announcing" /\ sys.k > sys.last =>
        Cardinality(telling.untold) <= telling.erased

\* The server as a table of leases and members.
AsMembership == INSTANCE Membership
    WITH Pool <- Addresses, lease <- owner, joining <- Joining,
         members <- Members

KeepsMembership == AsMembership!Spec

\* A user that was given an address becomes a member, whatever the other
\* threads do meanwhile.
JoinCompletes ==
    \A u \in Users : Joining # {} /\ sys.id = u ~> Listed(u)

\* A user that falls silent does not stay listed: the loop removes every entry
\* it has, the ones a second password left behind included.
SilentUserIsRemoved ==
    \A u \in Users :
        <>[][~ReceiveSignOfLife(u)]_vars => <>[]~Listed(u)

----------------------------------------------------------------------------
(* What the repository says and the code does not do.                      *)

\* Server.cpp:292: "remove if last ping time more than 5 min".  Whoever is
\* removed had a last ping, more than PingTimeout minutes ago.
RemovedForOldPing ==
    [][\A k \in Elements :
          At(k) \notin Members' => lastPing[k] = PingTimeout + 1]_vars

\* IpPool.cpp:31 refuses a join with "No available IPs": then every address is
\* some member's.
RefusalMeansFull ==
    free_ = <<>> => \A a \in Addresses : \E m \in Members \cup Joining : m.ip = a

\* README.md:29: "Reliable packet delivery is ensured".  A packet from the TUN
\* device goes to no user but the one its destination address belongs to.
PacketReachesOwner ==
    [][\A u \in Users : TunSend(u) => u = owner[tun.dest]]_vars

=============================================================================
