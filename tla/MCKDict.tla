------------------------------- MODULE MCKDict -------------------------------
(* Constants for model checking KDict.                                     *)
EXTENDS KDict

CONSTANTS j1, j2, j3, s1, s2
=============================================================================
