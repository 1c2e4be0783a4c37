--------------------------- MODULE MCKpfWebServer ---------------------------
(* Small requests: a header takes two bytes, a resource at most one.  One   *)
(* client asks for resources, among them an empty one and one whose file is *)
(* cut to nothing when it is opened, or in vain; the other only for headers. *)
EXTENDS KpfWebServer, TLC

CONSTANTS c1, c2

Get(size, avail, persist) ==
    [v |-> 11, method |-> "GET", outcome |-> "ok", size |-> size, avail |-> avail, persist |-> persist]

Resources ==
    {Get(1, 1, TRUE), Get(0, 0, TRUE), Get(1, 0, FALSE),
     [Get(1, 1, FALSE) EXCEPT !.outcome = "error"]}

Headers == {[Get(1, 1, TRUE) EXCEPT !.method = "HEAD"]}

MCRequests == Resources \cup Headers

MCAsks == c1 :> Resources @@ c2 :> Headers
=============================================================================
