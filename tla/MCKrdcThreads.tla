--------------------------- MODULE MCKrdcThreads ---------------------------
(* Constants for model checking KrdcThreads.                               *)
EXTENDS KrdcThreads
=============================================================================
