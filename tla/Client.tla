------------------------------- MODULE Client -------------------------------
(***************************************************************************)
(* lib/Client: what each client process knows of the network, and its      *)
(* threads:                                                                *)
(*   - main calls Start, which asks the server to be let in;               *)
(*   - the receiver of Steam's system channel (sys) handles the handshake, *)
(*     joins and departures, and is the only other thread that changes     *)
(*     usersList;                                                          *)
(*   - the receiver of the TUN device (tun), started by the handshake,     *)
(*     sends packets to the listed user their destination belongs to.      *)
(*                                                                         *)
(* usersList is a vector without a lock, modelled as in Server.  The       *)
(* message received is the parameter of its action.                        *)
(***************************************************************************)
EXTENDS Integers, Sequences

CONSTANTS
    Users, NoUser,         \* Steam identities, and no identity at all
    Server, ServerIp,      \* the server's identity, and Config::ServerIp
    Addresses, NoIp        \* the addresses clients are given; a TUN not started

ASSUME ClientAssumption ==
    /\ NoUser \notin Users
    /\ Server \notin Users \cup {NoUser}
    /\ ServerIp \notin Addresses
    /\ NoIp \notin Addresses \cup {ServerIp}

VARIABLES
    usersList,   \* mem: the blocks it has had, newest last; size: its length
    tunIp,       \* the address tunMessageProcessor was started with, or NoIp
    mtx_ready,
    sys,         \* where the system receiver is in the handshake's handler
    tun          \* where the TUN receiver is in TUNDataReceiver

vars == <<usersList, tunIp, mtx_ready, sys, tun>>

----------------------------------------------------------------------------

user_info == [id : Users \cup {Server}, ip : Addresses \cup {ServerIp}]

Newest(u) == usersList[u].mem[Len(usersList[u].mem)]
Elements(u) == 1 .. usersList[u].size
Known(u) == {Newest(u)[k] : k \in Elements(u)}
Lists(u, id) == \E m \in Known(u) : m.id = id

\* The identity read through a position in block g: of a freed block, its old
\* content or no user's identity.
Read(u, g, k) ==
    {usersList[u].mem[g][k].id}
        \cup (IF g = Len(usersList[u].mem) THEN {} ELSE {NoUser})

PushBack(u, e) ==
    LET v == usersList[u]
        g == Len(v.mem)
        grown == Append(v.mem[g], e)
    IN  \/ /\ v.size < Len(v.mem[g])
           /\ usersList' = [usersList EXCEPT
                ![u] = [mem |-> [v.mem EXCEPT ![g][v.size + 1] = e],
                        size |-> v.size + 1]]
        \/ /\ v.size = Len(v.mem[g])
           /\ \E mem \in {[v.mem EXCEPT ![g] = grown], Append(v.mem, grown)} :
                usersList' = [usersList EXCEPT
                    ![u] = [mem |-> mem, size |-> v.size + 1]]

\* Slip: the block is cut to the elements that stay.
EraseShrinking(u, k) ==
    LET v == usersList[u]
        g == Len(v.mem)
        stay == [j \in 1 .. v.size - 1 |->
                    v.mem[g][IF j >= k THEN j + 1 ELSE j]]
    IN  usersList' = [usersList EXCEPT
            ![u] = [mem |-> [v.mem EXCEPT ![g] = stay], size |-> v.size - 1]]

\* erase(it): what follows moves one place to the front.
Erase(u, k) ==
    LET v == usersList[u]
        g == Len(v.mem)
        moved == [j \in DOMAIN v.mem[g] |->
                    v.mem[g][IF j \in k .. v.size - 1 THEN j + 1 ELSE j]]
    IN  usersList' = [usersList EXCEPT
            ![u] = [mem |-> [v.mem EXCEPT ![g] = moved], size |-> v.size - 1]]

Idle == [pc |-> "idle"]

Init ==
    /\ usersList = [u \in Users |-> [mem |-> << <<>> >>, size |-> 0]]
    /\ tunIp = [u \in Users |-> NoIp]
    /\ mtx_ready = [u \in Users |-> FALSE]
    /\ sys = [u \in Users |-> Idle]
    /\ tun = [u \in Users |-> Idle]

----------------------------------------------------------------------------
(* usersList.                                                              *)

\* Slip: a user that is listed is listed once more.
JoinTwice(u, id, ip) ==
    /\ PushBack(u, [id |-> id, ip |-> ip])
    /\ UNCHANGED <<tunIp, mtx_ready, sys, tun>>

\* The body of JoinMember: who is listed already keeps its entry.  The password
\* it sends to whoever it lists at the server's address is Network's.
Join(u, id, ip) ==
    /\ IF Lists(u, id) THEN UNCHANGED usersList
       ELSE PushBack(u, [id |-> id, ip |-> ip])
    /\ UNCHANGED <<tunIp, mtx_ready, sys, tun>>

\* Start, called once: the server is the first entry.
Start(u) ==
    /\ usersList[u].size = 0
    /\ Join(u, Server, ServerIp)

\* A connected-member message.
JoinMember(u, id, ip) ==
    /\ sys[u] = Idle
    /\ Join(u, id, ip)

\* A disconnected-member message.
LeftMember(u, id) ==
    /\ sys[u] = Idle
    /\ IF Lists(u, id)
       THEN \E k \in Elements(u) :
                /\ Newest(u)[k].id = id
                /\ \A j \in 1 .. k - 1 : Newest(u)[j].id # id
                /\ Erase(u, k)
       ELSE UNCHANGED usersList
    /\ UNCHANGED <<tunIp, mtx_ready, sys, tun>>

----------------------------------------------------------------------------
(* The handshake.  mtx belongs to the Client from its constructor on: the   *)
(* handler sets mtx_ready and notifies without it.                         *)

\* The handler is called, and calls back: that only wakes client_start.
ReceiveHandshake(u, ip) ==
    /\ sys[u] = Idle
    /\ sys' = [sys EXCEPT ![u] = [pc |-> "received", ip |-> ip]]
    /\ UNCHANGED <<usersList, tunIp, mtx_ready, tun>>

\* tunMessageProcessor.Start(ip), which a running device ignores.
StartDevice(u) ==
    /\ sys[u].pc = "received"
    /\ tunIp' = [tunIp EXCEPT ![u] = IF @ = NoIp THEN sys[u].ip ELSE @]
    /\ sys' = [sys EXCEPT ![u] = [pc |-> "started"]]
    /\ UNCHANGED <<usersList, mtx_ready, tun>>

SetReady(u) ==
    /\ sys[u].pc = "started"
    /\ mtx_ready' = [mtx_ready EXCEPT ![u] = TRUE]
    /\ sys' = [sys EXCEPT ![u] = [pc |-> "ready"]]
    /\ UNCHANGED <<usersList, tunIp, tun>>

\* notify_all: a thread blocked in wait_for looks at the predicate again.
NotifyAll(u) ==
    /\ sys[u].pc = "ready"
    /\ tun' = [tun EXCEPT ![u] =
                  IF @.pc = "blocked" THEN [@ EXCEPT !.pc = "found"] ELSE @]
    /\ sys' = [sys EXCEPT ![u] = Idle]
    /\ UNCHANGED <<usersList, tunIp, mtx_ready>>

----------------------------------------------------------------------------
(* TUNDataReceiver.                                                        *)

TunAt(u, from, to) ==
    /\ tun[u].pc = from
    /\ tun' = [tun EXCEPT ![u].pc = to]
    /\ UNCHANGED <<usersList, tunIp, mtx_ready, sys>>

\* A packet for an address somebody is listed with.
TunPacket(u, dest) ==
    /\ tunIp[u] # NoIp
    /\ tun[u] = Idle
    /\ \E k \in Elements(u) :
        /\ Newest(u)[k].ip = dest
        /\ \A j \in 1 .. k - 1 : Newest(u)[j].ip # dest
        /\ tun' = [tun EXCEPT ![u] =
              [pc |-> "found", dest |-> dest,
               gen |-> Len(usersList[u].mem), k |-> k]]
    /\ UNCHANGED <<usersList, tunIp, mtx_ready, sys>>

\* Slip: nothing is waited for.
PassUnasked(u) == TunAt(u, "found", "sending")

\* wait_for's predicate is true before it blocks, or when it wakes.
Pass(u) == mtx_ready[u] /\ TunAt(u, "found", "sending")

\* It is false; then the thread blocks, and a notification in between is lost.
FindNotReady(u) == ~mtx_ready[u] /\ TunAt(u, "found", "unready")
Block(u) == TunAt(u, "unready", "blocked")

\* Slip: cv.wait, without the 15 seconds.
NeverTimeOut(u) == FALSE /\ TunAt(u, "blocked", "sending")

\* The 15 seconds are over, wait_for returns the predicate.
TimeOut(u) == mtx_ready[u] /\ TunAt(u, "blocked", "sending")

\* It is false: the receiver throws.  TUNWindows catches and drops the packet,
\* TUNLinux does not catch and the process ends.
TimeOutThrows(u) ==
    /\ ~mtx_ready[u]
    /\ tun[u].pc = "blocked"
    /\ \E after \in {Idle, [pc |-> "terminated"]} :
          tun' = [tun EXCEPT ![u] = after]
    /\ UNCHANGED <<usersList, tunIp, mtx_ready, sys>>

TunSend(u, id) ==
    /\ tun[u].pc = "sending"
    /\ id \in Read(u, tun[u].gen, tun[u].k)
    /\ tun' = [tun EXCEPT ![u] = Idle]
    /\ UNCHANGED <<usersList, tunIp, mtx_ready, sys>>

----------------------------------------------------------------------------

Started(u) == usersList[u].size > 0
Alive(u) == tun[u].pc # "terminated"

\* The process ends, on a key, for want of a handshake or killed.
Ends(u) ==
    /\ Started(u)
    /\ tun' = [tun EXCEPT ![u] = [pc |-> "terminated"]]
    /\ UNCHANGED <<usersList, tunIp, mtx_ready, sys>>

System(u) == StartDevice(u) \/ SetReady(u) \/ NotifyAll(u)
Waiting(u) == Pass(u) \/ FindNotReady(u) \/ Block(u) \/ TimeOut(u) \/ TimeOutThrows(u)
Sending(u) == \E id \in Users \cup {Server, NoUser} : TunSend(u, id)

\* Messages are received once Start has been called, and are what a server
\* sends: a handshake, and joins and departures of users.
Step(u) ==
    \/ Start(u)
    \/ /\ Started(u)
       /\ \/ \E ip \in Addresses : ReceiveHandshake(u, ip)
          \/ \E id \in Users, ip \in Addresses : JoinMember(u, id, ip)
          \/ \E id \in Users : LeftMember(u, id)
    \/ Ends(u)
    \/ System(u)
    \/ \E dest \in Addresses \cup {ServerIp} : TunPacket(u, dest)
    \/ Waiting(u)
    \/ Sending(u)

Next == \E u \in Users : Alive(u) /\ Step(u)

Spec == Init /\ [][Next]_vars

\* Handlers and waits go on; what is received, and when, is up to others.
Fairness(u) ==
    WF_vars(Alive(u) /\ System(u)) /\ WF_vars(Waiting(u)) /\ WF_vars(Sending(u))

FairSpec == Spec /\ \A u \in Users : Fairness(u)

----------------------------------------------------------------------------
(* What must hold.                                                         *)

TunFound ==
    [pc : {"found", "unready", "blocked", "sending"},
     dest : Addresses \cup {ServerIp}, gen : Nat, k : Nat]

\* Every variable has its type, and the position the TUN receiver keeps over
\* its wait lies in a slot that was written, whatever joined or left meanwhile.
TypeOK ==
    /\ usersList \in [Users -> [mem : Seq(Seq(user_info)) \ {<<>>}, size : Nat]]
    /\ tunIp \in [Users -> Addresses \cup {NoIp}]
    /\ mtx_ready \in [Users -> BOOLEAN]
    /\ sys \in [Users -> [pc : {"idle", "started", "ready"}]
                           \cup [pc : {"received"}, ip : Addresses]]
    /\ tun \in [Users -> [pc : {"idle", "terminated"}] \cup TunFound]
    /\ \A u \in Users :
        /\ usersList[u].size <= Len(Newest(u))
        /\ tun[u].pc \notin {"idle", "terminated"} =>
              /\ tun[u].gen \in DOMAIN usersList[u].mem
              /\ tun[u].k \in DOMAIN usersList[u].mem[tun[u].gen]

\* Joins and departures in any order, repeated ones included, make usersList a
\* directory: one entry per user, with the address of the first join since its
\* last departure, none after a departure, and the server's entry for good.
\* (Client.cpp:42 promises the last join's address: see MCHearing.)
AsDirectory == INSTANCE Directory WITH known <- [u \in Users |-> Known(u)]

KeepsDirectory == AsDirectory!Spec

\* Client.h:33, "Block all messages from TUN before handshake": what leaves does
\* so with the handshake handled up to the device's start and mtx_ready set,
\* whichever way the thread got past wait_for.
BlockedUntilHandshake ==
    [][\A u \in Users : Sending(u) => mtx_ready[u] /\ tunIp[u] # NoIp]_vars

\* No wake-up is lost for good: once mtx_ready is set, a packet that was held
\* back is sent, also when notify_all came before its thread had blocked.
HandshakeUnblocks ==
    \A u \in Users :
        mtx_ready[u] /\ tun[u].pc \notin {"idle", "terminated"}
            ~> tun[u].pc \in {"idle", "terminated"}

=============================================================================
