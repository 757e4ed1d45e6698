----------------------------- MODULE Membership -----------------------------
(***************************************************************************)
(* What lib/Server promises about its members: an address is given to one  *)
(* user, for good; a user is admitted with exactly the address it was      *)
(* given; once expelled it does not come back under that address.          *)
(***************************************************************************)

CONSTANTS
    Users, NoUser,   \* Steam identities, and the absence of one
    Pool             \* the addresses the server may give

VARIABLES
    lease,           \* lease[a]: the user a was given to, or NoUser
    joining,         \* at most one [id, ip]: given an address, not yet listed
    members          \* the listed [id, ip]

vars == <<lease, joining, members>>

Init ==
    /\ lease = [a \in Pool |-> NoUser]
    /\ joining = {}
    /\ members = {}

Give(u, a) ==
    /\ joining = {}
    /\ lease[a] = NoUser
    /\ lease' = [lease EXCEPT ![a] = u]
    /\ joining' = {[id |-> u, ip |-> a]}
    /\ UNCHANGED members

Admit ==
    /\ joining # {}
    /\ members' = members \cup joining
    /\ joining' = {}
    /\ UNCHANGED lease

Expel(S) ==
    /\ members' = members \ S
    /\ UNCHANGED <<lease, joining>>

Next ==
    \/ \E u \in Users, a \in Pool : Give(u, a)
    \/ Admit
    \/ \E S \in SUBSET members : Expel(S)

Spec == Init /\ [][Next]_vars

=============================================================================
