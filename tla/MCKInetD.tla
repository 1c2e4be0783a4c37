------------------------------ MODULE MCKInetD ------------------------------
(* Constants for model checking KInetD.                                    *)
EXTENDS KInetD

CONSTANTS krfb, other

MCBase == [s \in Services |-> IF s = krfb THEN 1 ELSE 2]
MCBaseRange == [s \in Services |-> IF s = krfb THEN 2 ELSE 0]
=============================================================================
