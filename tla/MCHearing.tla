----------------------------- MODULE MCHearing ------------------------------
(***************************************************************************)
(* MCClient with what its client was last told of each user.               *)
(***************************************************************************)
EXTENDS MCClient

VARIABLE heard    \* heard[id]: the address of the last join message about id

HearingInit == Init /\ heard = [id \in Users |-> NoIp]

Hear(id, ip) ==
    /\ Alive(u1) /\ Started(u1)
    /\ JoinMember(u1, id, ip)
    /\ heard' = [heard EXCEPT ![id] = ip]

HearingSpec ==
    /\ HearingInit
    /\ [][\/ \E id \in Users, ip \in Addresses : Hear(id, ip)
          \/ Alive(u1) /\ Start(u1) /\ UNCHANGED heard]_<<vars, heard>>

\* Client.cpp:42: "ip %s already present in map, replacing entry".  A user is
\* listed with the address of the last join message about it.
ReplacesEntry == \A m \in Known(u1) : m.id # Server => m.ip = heard[m.id]

=============================================================================
