------------------------------- MODULE MCKGet -------------------------------
(* Constants for model checking KGet: small lists of transfers.            *)
EXTENDS KGet

CONSTANTS t1, t2, t3

MCOrder1 == <<t1>>
MCOrder2 == <<t1, t2>>
MCOrder3 == <<t1, t2, t3>>
=============================================================================
