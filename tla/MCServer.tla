------------------------------ MODULE MCServer ------------------------------
(***************************************************************************)
(* Server on small instances.  Addresses are two base-3 digits, swapped by *)
(* htonl.                                                                  *)
(***************************************************************************)
EXTENDS Server, TLC

CONSTANTS u1, u2, u3

MCSwap == [a \in 0 .. 8 |-> (a % 3) * 3 + a \div 3]

Symmetry == Permutations(Users)

\* The TUN receiver only reads the list: for the properties of the others it
\* may stay idle.
NoTunSpec == Init /\ [][Next /\ UNCHANGED tun]_vars

=============================================================================
