------------------------------ MODULE MCIpPool ------------------------------
(***************************************************************************)
(* IpPool on addresses of two base-4 digits: the byte swap exchanges the   *)
(* digits, so host order and network order differ and sort differently.    *)
(***************************************************************************)
EXTENDS IpPool

Digits == 4

MCSwap == [a \in 0 .. Digits * Digits - 1 |->
              (a % Digits) * Digits + a \div Digits]

=============================================================================
