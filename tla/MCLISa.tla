------------------------------- MODULE MCLISa -------------------------------
(* Two hosts, a and b.                                                     *)
EXTENDS LISa
=============================================================================
