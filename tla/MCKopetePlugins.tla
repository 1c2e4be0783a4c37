--------------------------- MODULE MCKopetePlugins ---------------------------
EXTENDS KopetePlugins, TLC

CONSTANTS p, m, a, b

MCOwner == (a :> m) @@ (b :> m)
=============================================================================
