---------------------------- MODULE AddressPool ----------------------------
(***************************************************************************)
(* What lib/IpPool promises its caller: an address is handed out to one    *)
(* holder at a time, an allocation is refused only when every address of   *)
(* the pool is out, and only an address that is out can be given back.     *)
(* Nothing is said of the order in which free addresses are handed out.    *)
(***************************************************************************)

CONSTANT Pool           \* the addresses of the pool, as callers see them

VARIABLE leased         \* the addresses that are out

Init == leased = {}

Grant(ip) ==
    /\ ip \in Pool \ leased
    /\ leased' = leased \cup {ip}

Return(ip) ==
    /\ ip \in leased
    /\ leased' = leased \ {ip}

Next == \E ip \in Pool : Grant(ip) \/ Return(ip)

Spec == Init /\ [][Next]_leased

=============================================================================
