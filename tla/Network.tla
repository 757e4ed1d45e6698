------------------------------ MODULE Network -------------------------------
(***************************************************************************)
(* The server, its clients and the Steam channels between them.            *)
(*                                                                         *)
(* Steam delivers the reliable messages of one channel between two users   *)
(* in the order they were sent, and promises no order between channels:    *)
(* system messages are a queue for each client, packets a set of pending   *)
(* senders for each receiver.                                              *)
(*                                                                         *)
(* A client of this repository answers no ping and sends none: the system  *)
(* receiver of Client drops what is not of types 1 to 5.  Pings therefore  *)
(* are no messages of the model, the server's members show no sign of      *)
(* life, and every ping round finds all of them expired.                   *)
(***************************************************************************)
EXTENDS Integers, Sequences, FiniteSets

CONSTANTS
    Users, NoUser, Server,           \* Steam identities
    ServerIp, NoIp,
    PingPeriod, PingTimeout, UINT32_MAX, htonl, start, end

VARIABLES
    free_, used_, blocks, lastPing, sys, tun, ping, owner, telling,  \* server
    known, tunIp, mtx_ready, handshake, out,                         \* clients
    passwords,   \* users whose password is on its way to the server
    inbox,       \* inbox[u]: the system messages on their way to u
    packets      \* packets[r]: the users (or Server) with a packet under way to r

S == INSTANCE Server
C == INSTANCE Client WITH Addresses <- S!Addresses, usersList <- known,
                          sys <- handshake, tun <- out

ASSUME NetworkAssumption ==
    /\ S!ipPool!IsByteSwap /\ S!ipPool!IsRange
    /\ PingTimeout \in Nat
    /\ NoUser \notin Users
    /\ Server \notin Users \cup {NoUser}
    /\ ServerIp \notin S!Addresses
    /\ NoIp \notin S!Addresses \cup {ServerIp}

server == <<free_, used_, blocks, lastPing, sys, tun, ping, owner, telling>>
clients == <<known, tunIp, mtx_ready, handshake, out>>
vars == <<server, clients, passwords, inbox, packets>>

----------------------------------------------------------------------------

Init ==
    /\ S!Init
    /\ C!Init
    /\ passwords = {}
    /\ inbox = [u \in Users |-> <<>>]
    /\ packets = [r \in Users \cup {Server} |-> {}]

Handshake(ip) == [type |-> "handshake", ip |-> ip]
Connected(id, ip) == [type |-> "connected", id |-> id, ip |-> ip]
Disconnected(id, ip) == [type |-> "disconnected", id |-> id, ip |-> ip]

\* Slip: sent without k_nSteamNetworkingSend_Reliable, messages overtake.
SendSystemOvertaking(u, m) == inbox' = [inbox EXCEPT ![u] = <<m>> \o @]

\* SendSystemMessage to u.  Its result is ignored.
SendSystem(u, m) == inbox' = [inbox EXCEPT ![u] = Append(@, m)]

\* SendMessage from one to another.
SendPacket(from, to) == packets' = [packets EXCEPT ![to] = @ \cup {from}]

----------------------------------------------------------------------------
(* The server.                                                             *)

\* Slip: the password stays to be received again.
ReceivePasswordAgain(u) ==
    /\ u \in passwords
    /\ S!ReceivePassword(u)
    /\ SendSystem(u, Handshake(sys'.ip))
    /\ UNCHANGED <<clients, passwords, packets>>

ReceivePassword(u) ==
    /\ u \in passwords
    /\ S!ReceivePassword(u)
    /\ passwords' = passwords \ {u}
    /\ SendSystem(u, Handshake(sys'.ip))
    /\ UNCHANGED <<clients, packets>>

RefusePassword(u) ==
    /\ u \in passwords
    /\ S!RefusePassword(u)
    /\ passwords' = passwords \ {u}
    /\ UNCHANGED <<clients, inbox, packets>>

\* Slip: `user' is announced where `userID' is meant.
AnnounceItself(u) ==
    /\ S!AnnounceTo(u)
    /\ IF u = NoUser THEN UNCHANGED inbox
       ELSE SendSystem(u, Connected(u, sys.ip))
    /\ UNCHANGED <<clients, passwords, packets>>

AnnounceTo(u) ==
    /\ S!AnnounceTo(u)
    /\ IF u = NoUser THEN UNCHANGED inbox
       ELSE SendSystem(u, Connected(sys.id, sys.ip))
    /\ UNCHANGED <<clients, passwords, packets>>

Enlist ==
    /\ S!Enlist
    /\ UNCHANGED <<clients, passwords, inbox, packets>>

PingLoop ==
    /\ \/ S!Tick \/ S!PingRound \/ S!PingStart \/ S!PingSleep
       \/ \E u \in S!Anyone : S!PingTo(u)
    /\ UNCHANGED <<clients, passwords, inbox, packets>>

TellDeparture(u, m) ==
    /\ S!TellDeparture(u, m)
    /\ IF u = NoUser THEN UNCHANGED inbox
       ELSE SendSystem(u, Disconnected(m.id, m.ip))
    /\ UNCHANGED <<clients, passwords, packets>>

ServerTunPacket(dest) ==
    /\ S!TunPacket(dest)
    /\ UNCHANGED <<clients, passwords, inbox, packets>>

ServerTunSend(u) ==
    /\ S!TunSend(u)
    /\ IF u = NoUser THEN UNCHANGED packets ELSE SendPacket(Server, u)
    /\ UNCHANGED <<clients, passwords, inbox>>

\* SteamMessageReceiver: a listed user's packet goes to the TUN.
ServerReceivePacket(from) ==
    /\ from \in packets[Server]
    /\ packets' = [packets EXCEPT ![Server] = @ \ {from}]
    /\ UNCHANGED <<server, clients, passwords, inbox>>

----------------------------------------------------------------------------
(* A client.                                                               *)

\* JoinMember(server, ServerIp) sends the password.  No other member is listed
\* at that address.
ClientStart(u) ==
    /\ C!Start(u)
    /\ passwords' = passwords \cup {u}
    /\ UNCHANGED <<server, inbox, packets>>

TakeSystem(u, type) ==
    /\ inbox[u] # <<>>
    /\ Head(inbox[u]).type = type
    /\ inbox' = [inbox EXCEPT ![u] = Tail(@)]

ReceiveHandshake(u) ==
    /\ TakeSystem(u, "handshake")
    /\ C!ReceiveHandshake(u, Head(inbox[u]).ip)
    /\ UNCHANGED <<server, passwords, packets>>

ReceiveConnected(u) ==
    /\ TakeSystem(u, "connected")
    /\ C!JoinMember(u, Head(inbox[u]).id, Head(inbox[u]).ip)
    /\ UNCHANGED <<server, passwords, packets>>

ReceiveDisconnected(u) ==
    /\ TakeSystem(u, "disconnected")
    /\ C!LeftMember(u, Head(inbox[u]).id)
    /\ UNCHANGED <<server, passwords, packets>>

ClientSystem(u) ==
    /\ C!System(u)
    /\ UNCHANGED <<server, passwords, inbox, packets>>

ClientWaiting(u) ==
    /\ C!Waiting(u)
    /\ UNCHANGED <<server, passwords, inbox, packets>>

ClientTunPacket(u, dest) ==
    /\ C!TunPacket(u, dest)
    /\ UNCHANGED <<server, passwords, inbox, packets>>

ClientTunSend(u, id) ==
    /\ C!TunSend(u, id)
    /\ IF id = NoUser THEN UNCHANGED packets ELSE SendPacket(u, id)
    /\ UNCHANGED <<server, passwords, inbox>>

\* SteamMessageReceiver: a known user's packet goes to the TUN, others are
\* dropped.
ClientReceivePacket(u, from) ==
    /\ from \in packets[u]
    /\ packets' = [packets EXCEPT ![u] = @ \ {from}]
    /\ UNCHANGED <<server, clients, passwords, inbox>>

\* Nobody is told.  Steam gives the next process an identity of its own:
\* another user.
ClientEnds(u) ==
    /\ C!Ends(u)
    /\ UNCHANGED <<server, passwords, inbox, packets>>

----------------------------------------------------------------------------

ServerControl ==
    \/ \E u \in Users : ReceivePassword(u) \/ RefusePassword(u)
    \/ \E u \in S!Anyone : AnnounceTo(u)
    \/ Enlist
    \/ PingLoop
    \/ \E u \in S!Anyone, m \in S!Departed : TellDeparture(u, m)

ClientControl(u) ==
    /\ C!Alive(u)
    /\ \/ ClientStart(u)
       \/ ReceiveHandshake(u)
       \/ ReceiveConnected(u)
       \/ ReceiveDisconnected(u)
       \/ ClientSystem(u)
       \/ ClientEnds(u)

ServerTraffic ==
    \/ \E dest \in S!Addresses : ServerTunPacket(dest)
    \/ \E u \in S!Anyone : ServerTunSend(u)
    \/ \E u \in Users : ServerReceivePacket(u)

ClientTraffic(u) ==
    /\ C!Alive(u)
    /\ \/ \E dest \in S!Addresses \cup {ServerIp} : ClientTunPacket(u, dest)
       \/ ClientWaiting(u)
       \/ \E id \in S!Anyone \cup {Server} : ClientTunSend(u, id)
       \/ \E from \in Users \cup {Server} : ClientReceivePacket(u, from)

Control == ServerControl \/ \E u \in Users : ClientControl(u)
Next == Control \/ ServerTraffic \/ \E u \in Users : ClientTraffic(u)

Spec == Init /\ [][Next]_vars

\* What system receivers have to do.
SystemWork ==
    \/ Enlist
    \/ \E u \in S!Anyone : AnnounceTo(u)
    \/ \E u \in Users :
          \/ ReceivePassword(u) \/ RefusePassword(u)
          \/ /\ C!Alive(u)
             /\ \/ ReceiveHandshake(u) \/ ReceiveConnected(u)
                \/ ReceiveDisconnected(u) \/ ClientSystem(u)

\* System receivers go on with what they have, and Steam delivers.  That one of
\* them goes on when one can is enough: users ask once, so the work is finite.
Fairness == WF_vars(SystemWork)

FairSpec == Spec /\ Fairness

----------------------------------------------------------------------------
(* What must hold.                                                         *)

\* One address, one user, in the whole network: the server's book, what every
\* client knows of every other, the address every TUN device runs with, or is
\* being started with, and every message under way agree on whose an address
\* is, however late they are.  In particular no two devices run with the same
\* address.
AddressAgreement ==
    \A u \in Users :
        /\ \A m \in C!Known(u) : m.id # Server => owner[m.ip] = m.id
        /\ tunIp[u] # NoIp => owner[tunIp[u]] = u
        /\ handshake[u].pc = "received" => owner[handshake[u].ip] = u
        /\ \A i \in DOMAIN inbox[u] :
              LET m == inbox[u][i]
              IN  owner[m.ip] = IF m.type = "handshake" THEN u ELSE m.id

\* What brings u its address: the next message, or the one being handled.
ComesNext(u, ip) == inbox[u] # <<>> /\ Head(inbox[u]) = Handshake(ip)
IsHandled(u, ip) == handshake[u] = [pc |-> "received", ip |-> ip]

\* A member's device runs, or will run, with the address the server lists it
\* with: it does, or the handshake that says so is next or is being handled.
MembersAreConfigured ==
    \A m \in S!Members :
        \/ tunIp[m.id] = m.ip
        \/ tunIp[m.id] = NoIp /\ (ComesNext(m.id, m.ip) \/ IsHandled(m.id, m.ip))

\* A client hears of other members only when its own handshake is behind it.
HandshakeComesFirst ==
    [][\A u \in Users :
          ReceiveConnected(u) \/ ReceiveDisconnected(u) => mtx_ready[u]]_vars

\* A client's packet goes to no user but the one its destination belongs to,
\* though a position is kept over the wait for the handshake.
ClientPacketsReachOwner ==
    [][\A u, id \in Users :
          ClientTunSend(u, id) => owner[out[u].dest] = id]_vars

\* Departures are announced to users that were enlisted between the erase and
\* the range-for of one round, and to nobody else.  Those were never told of
\* who was erased: a client that knows a user never learns that it left, and no
\* entry of a client's list is ever erased.
DeparturesNameStrangers ==
    [][\A u \in Users :
          ReceiveDisconnected(u) => ~C!Lists(u, Head(inbox[u]).id)]_vars

\* Packets and system messages travel apart.  What a listed sender's packet can
\* find is a device that is not started: then the packet is the server's, and
\* the handshake that starts the device is the next message or being handled.
LostOnlyBeforeHandshake ==
    [][\A u \in Users, from \in Users \cup {Server} :
          ClientReceivePacket(u, from) /\ C!Lists(u, from) /\ tunIp[u] = NoIp =>
              /\ from = Server
              /\ \E ip \in S!Addresses :
                    owner[ip] = u /\ (ComesNext(u, ip) \/ IsHandled(u, ip))]_vars

\* Who asks to be let in gets an address and can send, unless the pool has run
\* out or the client has ended: again and again, nobody is left waiting.
Refused(u) == free_ = <<>> /\ \A a \in S!Addresses : owner[a] # u

Answered(u) == mtx_ready[u] \/ Refused(u) \/ out[u].pc = "terminated"

PasswordIsAnswered ==
    []<>(\A u \in Users : C!Started(u) => Answered(u))

----------------------------------------------------------------------------
(* What the repository says and the code does not do.                      *)

Quiet ==
    /\ passwords = {}
    /\ sys = S!Idle
    /\ \A u \in Users : inbox[u] = <<>> /\ handshake[u] = C!Idle

\* README.md:5: "allows devices to be connected into a single virtual
\* network".  With every message received, any two members know each other.
MembersKnowEachOther ==
    Quiet => \A m, n \in S!Members :
        m.id # n.id => [id |-> n.id, ip |-> n.ip] \in C!Known(m.id)

=============================================================================
