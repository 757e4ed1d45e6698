------------------------------ MODULE MCClient ------------------------------
(***************************************************************************)
(* One Client, u1, and what it hears of the users; the others do nothing.  *)
(***************************************************************************)
EXTENDS Client, TLC

CONSTANTS u1, u2, u3, a1, a2

OneClient == Init /\ [][Alive(u1) /\ Step(u1)]_vars
OneFairClient == OneClient /\ Fairness(u1)

=============================================================================
