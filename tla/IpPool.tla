------------------------------- MODULE IpPool -------------------------------
(***************************************************************************)
(* lib/IpPool: the pool of IPv4 addresses the server hands to its members. *)
(* The object keeps host-order numbers; its callers hold network-order     *)
(* ones, and every operation converts at its border.                       *)
(*                                                                         *)
(* A method's result is the parameter of its action; a method that throws  *)
(* changes nothing and has an action of its own.                           *)
(***************************************************************************)
EXTENDS Integers, Sequences

CONSTANTS
    UINT32_MAX,  \* the largest value of uint32_t
    htonl,       \* the byte swap between host and network order
    start, end   \* the constructor's arguments, in network order

uint32_t == 0 .. UINT32_MAX

\* htonl and ntohl are the same swap: a big-endian host has the identity.
IsByteSwap ==
    /\ UINT32_MAX \in Nat
    /\ htonl \in [uint32_t -> uint32_t]
    /\ \A a \in uint32_t : htonl[htonl[a]] = a

ntohl == htonl
start_ == ntohl[start]
end_ == ntohl[end]

\* The constructor throws "Invalid IP range" on start_ > end_, and its loop
\* "ip <= end_; ++ip" never ends when end_ is the largest uint32_t.
IsRange ==
    /\ start \in uint32_t
    /\ end \in uint32_t
    /\ start_ <= end_
    /\ end_ < UINT32_MAX

ASSUME PoolAssumption == IsByteSwap /\ IsRange

VARIABLES
    free_,       \* std::queue: the addresses that can be handed out
    used_        \* std::unordered_set: the addresses that are out

vars == <<free_, used_>>

InPool == start_ .. end_                  \* host order
Addresses == {htonl[a] : a \in InPool}    \* as callers see them

----------------------------------------------------------------------------

Init ==
    /\ free_ = [i \in 1 .. end_ - start_ + 1 |-> start_ + i - 1]
    /\ used_ = {}

\* Slip: used_ is given the address in network order.
AllocateNetworkOrder(ip) ==
    /\ free_ # <<>>
    /\ ip = htonl[Head(free_)]
    /\ free_' = Tail(free_)
    /\ used_' = used_ \cup {ip}

\* Slip: front() without pop().
AllocateWithoutPop(ip) ==
    /\ free_ # <<>>
    /\ ip = htonl[Head(free_)]
    /\ used_' = used_ \cup {Head(free_)}
    /\ UNCHANGED free_

\* Allocate() returns ip.
Allocate(ip) ==
    /\ free_ # <<>>
    /\ ip = htonl[Head(free_)]
    /\ free_' = Tail(free_)
    /\ used_' = used_ \cup {Head(free_)}

\* Allocate() throws "No available IPs".
AllocateThrows ==
    /\ free_ = <<>>
    /\ UNCHANGED vars

\* Slip: the address is queued again but stays in used_.
ReleaseWithoutErase(ip) ==
    /\ ntohl[ip] \in used_
    /\ free_' = Append(free_, ntohl[ip])
    /\ UNCHANGED used_

\* Slip: erase(it, end()) where erase(it) is meant.
ReleaseErasingAll(ip) ==
    /\ ntohl[ip] \in used_
    /\ used_' = {}
    /\ free_' = Append(free_, ntohl[ip])

\* Slip: the address goes to the front of the queue.
ReleaseToFront(ip) ==
    /\ ntohl[ip] \in used_
    /\ used_' = used_ \ {ntohl[ip]}
    /\ free_' = <<ntohl[ip]>> \o free_

\* Release(ip) returns.
Release(ip) ==
    /\ ntohl[ip] \in InPool
    /\ ntohl[ip] \in used_
    /\ used_' = used_ \ {ntohl[ip]}
    /\ free_' = Append(free_, ntohl[ip])

\* Release(ip) throws: "IP out of pool range" or "IP not allocated".
ReleaseThrows(ip) ==
    /\ ntohl[ip] \notin InPool \/ ntohl[ip] \notin used_
    /\ UNCHANGED vars

\* Callers pass whatever address they hold: any uint32_t.
Next ==
    \/ \E ip \in Addresses : Allocate(ip)
    \/ AllocateThrows
    \/ \E ip \in uint32_t : Release(ip) \/ ReleaseThrows(ip)

Spec == Init /\ [][Next]_vars

----------------------------------------------------------------------------

\* free_ queues host-order addresses of the range, used_ is a set of them.
TypeOK ==
    /\ free_ \in Seq(InPool)
    /\ used_ \subseteq InPool

InFree == {free_[i] : i \in DOMAIN free_}

\* No address is queued twice, none is both free and out, and none is lost:
\* whatever the order of Allocate and Release calls, the two containers
\* partition the range the constructor was given.
Partition ==
    /\ \A i, j \in DOMAIN free_ : free_[i] = free_[j] => i = j
    /\ InFree \cap used_ = {}
    /\ InFree \cup used_ = InPool

\* Seen through the byte swap, the pool keeps the promise of AddressPool.
Leased == {htonl[a] : a \in used_}
AsPromised == INSTANCE AddressPool WITH Pool <- Addresses, leased <- Leased

KeepsPromise == AsPromised!Spec

\* The queue is first-in first-out, so an address that was given back is
\* handed out again as long as addresses are: no fast join-and-leave of other
\* members can keep it out of use.
NoAddressStarves ==
    \A a \in InPool :
        []<><<\E ip \in Addresses : Allocate(ip)>>_vars
            => (a \in InFree ~> a \in used_)

=============================================================================
