------------------------------- MODULE Startup -------------------------------
(***************************************************************************)
(* What a process makes of its settings: the server's pool of addresses    *)
(* (lib/IpPool's constructor) and its own address, the client's first      *)
(* JoinMember.  Addresses are texts in Config, numbers in IpPool; the      *)
(* conversions are those of Utils.                                         *)
(***************************************************************************)
EXTENDS Config, Utils, Integers, Sequences

CONSTANTS
    Servers, Clients,    \* of Processes
    Memory               \* how many addresses a queue can hold

ASSUME StartupAssumption ==
    /\ {"ServerIp", "IpPoolFrom", "IpPoolTo"} \subseteq Keys
    /\ Servers \cup Clients \subseteq Processes
    /\ Servers \cap Clients = {}
    /\ Texts \subseteq Spellings
    /\ Memory \in Nat /\ Memory > UINT32_MAX + 1

VARIABLES
    at,       \* at[p]: "main", in the pool's loop (pushing), with its pool
              \* (built), started (up), or behind an exception (failed)
    ip,       \* ip[p]: the loop's variable
    end_,     \* end_[p]: the pool's last address, as ip in host order
    free_,    \* free_[p]: the pool's queue
    asked     \* asked[p]: the client has sent its password

ownVars == <<at, ip, end_, free_, asked>>
vars == <<configVars, ownVars>>

uint32_t == 0 .. UINT32_MAX
ntohl == htonl
Address(p, key) == FromString(settings[p][key])

----------------------------------------------------------------------------

Init ==
    /\ ConfigInit
    /\ at = [p \in Processes |-> "main"]
    /\ ip = [p \in Servers |-> 0]
    /\ end_ = [p \in Servers |-> 0]
    /\ free_ = [p \in Servers |-> <<>>]
    /\ asked = [p \in Clients |-> FALSE]

Step(p, from, to) ==
    /\ proc[p] = "ready"
    /\ at[p] = from
    /\ at' = [at EXCEPT ![p] = to]

\* The pool's constructor, up to its loop.
ConstructThrows(p) ==
    \/ Invalid \in {Address(p, "IpPoolFrom"), Address(p, "IpPoolTo")}
    \/ ntohl[Address(p, "IpPoolFrom")] > ntohl[Address(p, "IpPoolTo")]

Construct(p) ==
    /\ Step(p, "main", IF ConstructThrows(p) THEN "failed" ELSE "pushing")
    /\ IF ConstructThrows(p) THEN UNCHANGED <<ip, end_>>
       ELSE /\ ip' = [ip EXCEPT ![p] = ntohl[Address(p, "IpPoolFrom")]]
            /\ end_' = [end_ EXCEPT ![p] = ntohl[Address(p, "IpPoolTo")]]
    /\ UNCHANGED <<configVars, free_, asked>>

\* Slip: ip < end_.
InRangeShort(p) == ip[p] < end_[p]

\* The loop's condition.
InRange(p) == ip[p] <= end_[p]

\* A round of the loop; ++ip wraps around.
Push(p) ==
    /\ Step(p, "pushing", "pushing")
    /\ InRange(p)
    /\ Len(free_[p]) < Memory
    /\ free_' = [free_ EXCEPT ![p] = Append(@, ip[p])]
    /\ ip' = [ip EXCEPT ![p] = (@ + 1) % (UINT32_MAX + 1)]
    /\ UNCHANGED <<configVars, end_, asked>>

\* std::bad_alloc: nothing else ends the loop of a pool that ends at the
\* largest uint32_t.
PushThrows(p) ==
    /\ Step(p, "pushing", "failed")
    /\ Len(free_[p]) = Memory
    /\ UNCHANGED <<configVars, ip, end_, free_, asked>>

Constructed(p) ==
    /\ Step(p, "pushing", "built")
    /\ ~InRange(p)
    /\ UNCHANGED <<configVars, ip, end_, free_, asked>>

\* Server::Start: FromString(ServerIp) may throw.
StartServer(p) ==
    /\ Step(p, "built", IF Address(p, "ServerIp") = Invalid THEN "failed" ELSE "up")
    /\ UNCHANGED <<configVars, ip, end_, free_, asked>>

\* Slip: JoinMember is given the address in host order.
AsksInHostOrder(p) ==
    ToString(ntohl[Address(p, "ServerIp")]) = settings[p]["ServerIp"]

\* JoinMember's comparison of texts.
Asks(p) == ToString(Address(p, "ServerIp")) = settings[p]["ServerIp"]

\* Client::Start: JoinMember(serverUserId, FromString(ServerIp)).
StartClient(p) ==
    /\ Step(p, "main", IF Address(p, "ServerIp") = Invalid THEN "failed" ELSE "up")
    /\ asked' = [asked EXCEPT ![p] = Address(p, "ServerIp") # Invalid /\ Asks(p)]
    /\ UNCHANGED <<configVars, ip, end_, free_>>

\* The process ends, and with it what it has in memory.
EndProcess(p) ==
    /\ End(p)
    /\ at' = [at EXCEPT ![p] = "main"]
    /\ ip' = IF p \in Servers THEN [ip EXCEPT ![p] = 0] ELSE ip
    /\ end_' = IF p \in Servers THEN [end_ EXCEPT ![p] = 0] ELSE end_
    /\ free_' = IF p \in Servers THEN [free_ EXCEPT ![p] = <<>>] ELSE free_
    /\ asked' = IF p \in Clients THEN [asked EXCEPT ![p] = FALSE] ELSE asked

Next ==
    \/ \E p \in Processes : InitProcess(p) /\ UNCHANGED ownVars
    \/ \E p \in Processes : EndProcess(p)
    \/ \E k \in Keys, text \in Texts \cup {Missing} : Edit(k, text) /\ UNCHANGED ownVars
    \/ \E p \in Servers :
          Construct(p) \/ Push(p) \/ PushThrows(p) \/ Constructed(p) \/ StartServer(p)
    \/ \E p \in Clients : StartClient(p)

Spec == Init /\ [][Next]_vars

----------------------------------------------------------------------------
(* What must hold.                                                         *)

Pool(p, start, end) == INSTANCE IpPool WITH free_ <- free_[p], used_ <- {}

\* A server that has come up has the pool IpPool starts with, for a range it
\* can work on: whatever the file said, in both byte orders, and though a loop
\* over unsigned numbers cannot reach beyond the last of them.
ServerHasItsPool ==
    \A p \in Servers : at[p] = "up" =>
        \E start, end \in uint32_t :
            /\ start = Address(p, "IpPoolFrom")
            /\ end = Address(p, "IpPoolTo")
            /\ Pool(p, start, end)!IsRange
            /\ Pool(p, start, end)!Init

\* A client asks to be let in if and only if the server's address is spelt the
\* way ToString spells it: any other spelling is accepted as the address, and
\* the client then waits for an answer to a question it never asked.
AsksIfPlain ==
    \A p \in Clients : at[p] = "up" =>
        (asked[p] <=> Plain(settings[p]["ServerIp"]))

\* Every text there may be in the file reads as Utils says, whatever else the
\* processes do.  (Nothing in it changes, so the first state is enough.)
AddressesReadBack == Init => ReadsWhatIsPrinted

=============================================================================
