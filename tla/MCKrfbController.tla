------------------------- MODULE MCKrfbController -------------------------
(* One session: at most two queued events.                               *)
EXTENDS KrfbController
============================================================================
