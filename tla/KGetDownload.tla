---------------------------- MODULE KGetDownload ----------------------------
(***************************************************************************)
(* What a KGet slave promises, without threads, commands or events: every  *)
(* transfer has at most one download at a time, and a download exists only *)
(* while the transfer's worker thread is alive to control it.  KGetSlave   *)
(* implements this specification.                                          *)
(***************************************************************************)
CONSTANT Transfers

VARIABLES
    alive,        \* alive[t]: the worker thread of t exists
    downloading   \* downloading[t]: a KIO job fetches the file of t

dvars == <<alive, downloading>>

DInit ==
    /\ alive = [t \in Transfers |-> FALSE]
    /\ downloading = [t \in Transfers |-> FALSE]

(* The first command for a transfer without a thread starts one. *)
Launch(t) ==
    /\ ~alive[t]
    /\ alive' = [alive EXCEPT ![t] = TRUE]
    /\ UNCHANGED downloading

(* A download begins: never a second one beside the first. *)
Begin(t) ==
    /\ alive[t] /\ ~downloading[t]
    /\ downloading' = [downloading EXCEPT ![t] = TRUE]
    /\ UNCHANGED alive

(* A download ends: it was killed, it failed or it completed. *)
End(t) ==
    /\ downloading[t]
    /\ downloading' = [downloading EXCEPT ![t] = FALSE]
    /\ UNCHANGED alive

(* The thread ends: never with a download behind it. *)
Leave(t) ==
    /\ alive[t] /\ ~downloading[t]
    /\ alive' = [alive EXCEPT ![t] = FALSE]
    /\ UNCHANGED downloading

DNext == \E t \in Transfers : Launch(t) \/ Begin(t) \/ End(t) \/ Leave(t)

DSpec == DInit /\ [][DNext]_dvars
=============================================================================
