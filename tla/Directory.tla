----------------------------- MODULE Directory ------------------------------
(***************************************************************************)
(* What lib/Client promises about the users each client knows: the server  *)
(* from the start and for good, and one address for each user it was told  *)
(* of, kept until it is told that the user left.                           *)
(***************************************************************************)

CONSTANTS Users, Server, ServerIp, Addresses

VARIABLE known       \* known[u]: the [id, ip] that client u knows

Init == known = [u \in Users |-> {}]

Open(u) ==
    /\ known[u] = {}
    /\ known' = [known EXCEPT ![u] = {[id |-> Server, ip |-> ServerIp]}]

Learn(u, id, ip) ==
    /\ known[u] # {}
    /\ \A m \in known[u] : m.id # id
    /\ known' = [known EXCEPT ![u] = @ \cup {[id |-> id, ip |-> ip]}]

Forget(u, id) ==
    known' = [known EXCEPT ![u] = {m \in @ : m.id # id}]

Next ==
    \E u \in Users :
        \/ Open(u)
        \/ \E id \in Users, ip \in Addresses : Learn(u, id, ip)
        \/ \E id \in Users : Forget(u, id)

Spec == Init /\ [][Next]_known

=============================================================================
