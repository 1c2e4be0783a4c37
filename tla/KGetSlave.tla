----------------------------- MODULE KGetSlave ------------------------------
(***************************************************************************)
(* The slave of a KGet transfer (kget/slave.cpp): a worker thread that     *)
(* owns the transfer's KIO job, driven by commands the main thread pushes  *)
(* on a stack, answering with events posted to the main window.            *)
(*                                                                         *)
(* All slaves share one main thread, so a single Op is in progress at a    *)
(* time (variable op), and a single job signal (variable emitting).        *)
(*                                                                         *)
(* Abstractions.  nPendingCommand is the length of the stack: both change  *)
(* under the same lock, and a reader that sees the old count between the   *)
(* two updates of Op() is a reader that came before Op's critical section. *)
(* Progress, size and log events carry data only and are left out.  An     *)
(* assertion that fails, or a null job that is dereferenced, stops the     *)
(* program: "crashed" names the line and disables every action.            *)
(***************************************************************************)
EXTENDS Naturals, Sequences

CONSTANTS
    Transfers,       \* the transfers, one slave each
    NoTransfer,      \* no transfer
    SpuriousWakeups, \* may a condition wait return unsignalled?  POSIX: yes
    MaxStack,        \* bound: commands a client leaves on a stack
    MaxEvents        \* bound: events a client leaves in the event queue

ASSUME SlaveAssumption ==
    /\ NoTransfer \notin Transfers
    /\ SpuriousWakeups \in BOOLEAN
    /\ MaxStack \in Nat \ {0}
    /\ MaxEvents \in Nat \ {0}

VARIABLES
    stack,     \* stack[t]: pending commands, the top is the head
    pc,        \* pc[t]: where Slave::run stands
    cmd,       \* cmd[t]: the command being executed, NOOP between commands
    copyjob,   \* copyjob[t]: "none", "new" (size unknown) or "sized"
    events,    \* the main thread's event queue, oldest first
    op,        \* the Op() the main thread is inside of
    emitting,  \* the job whose result signal the main thread is delivering
    crashed    \* the line that stopped the program, "no" while it runs

svars == <<stack, pc, cmd, copyjob, events, op, emitting, crashed>>

(* Commands that begin a download, end it, or end the thread with it. *)
Retrieving == {"RETR", "RETR_CACHE", "RESTART"}
Stopping   == {"PAUSE", "SCHEDULE", "DELAY"}
Leaving    == {"KILL", "REMOVE", "NOOP"}
Commands   == (Retrieving \cup Stopping \cup Leaving) \ {"NOOP"}

(* A bug: a thread that leaves without a command leaves the job behind. *)
KillingCommanded == Stopping \cup (Leaving \ {"NOOP"}) \cup {"RESTART"}

Killing    == Stopping \cup Leaving \cup {"RESTART"}

(* Events a command is answered with; the others are answered by none. *)
Answer ==
    [ RETR |-> "SLV_RESUMED", RESTART |-> "SLV_RESUMED",
      PAUSE |-> "SLV_PAUSED", SCHEDULE |-> "SLV_SCHEDULED",
      DELAY |-> "SLV_DELAYED", REMOVE |-> "SLV_REMOVED" ]

Results == {"SLV_FINISHED", "SLV_NOTINCACHE", "SLV_ERROR", "SLV_BROKEN",
            "SLV_DELAYED"}
EventKinds == {Answer[c] : c \in DOMAIN Answer} \cup Results \cup {"SLV_CONNECTED"}
Lines == {"no", "slave.cpp:slotResult", "slave.cpp:RETR", "slave.cpp:kill",
          "transfer.cpp:slotResume", "transfer.cpp:slotRequestPause", "transfer.cpp:slotQueue",
          "transfer.cpp:slotRequestDelay", "transfer.cpp:slotRequestSchedule",
          "kmainwidget.cpp:customEvent"}

NoOp == [t |-> NoTransfer, cmd |-> "NOOP"]
NoEmission == [t |-> NoTransfer, valid |-> FALSE]

SInit ==
    /\ stack = [t \in Transfers |-> <<>>]
    /\ pc = [t \in Transfers |-> "none"]
    /\ cmd = [t \in Transfers |-> "NOOP"]
    /\ copyjob = [t \in Transfers |-> "none"]
    /\ events = <<>>
    /\ op = NoOp
    /\ emitting = NoEmission
    /\ crashed = "no"

Running(t) == pc[t] # "none"     \* QThread::running()
MainIdle == op = NoOp /\ emitting = NoEmission
Post(t, kind) == events' = Append(events, [t |-> t, kind |-> kind])

----------------------------------------------------------------------------
(* The main thread: Slave::Op and the signals of the job.                  *)

(* Op(c), first half: start the thread unless it is (still) running.  The  *)
(* test and start() are outside the critical section.                      *)
OpStart(t, c) ==
    /\ crashed = "no" /\ MainIdle
    /\ op' = [t |-> t, cmd |-> c]
    /\ pc' = [pc EXCEPT ![t] = IF Running(t) THEN @ ELSE "check"]
    /\ UNCHANGED <<stack, cmd, copyjob, events, emitting, crashed>>

(* Op(c), second half, under the mutex: push, count, wake one waiter.  A   *)
(* thread that is not yet blocked in worker.wait() does not see the wake.  *)
OpPush(t) ==
    /\ crashed = "no" /\ op.t = t
    /\ stack' = [stack EXCEPT ![t] = <<op.cmd>> \o @]
    /\ pc' = [pc EXCEPT ![t] = IF @ = "wait" THEN "fetch" ELSE @]
    /\ op' = NoOp
    /\ UNCHANGED <<cmd, copyjob, events, emitting, crashed>>

(* The job reports the size of the file: slotTotalSize.  "answers" is what *)
(* it posts, SLV_CONNECTED except for a transfer still in mode MD_NEW.     *)
SlotTotalSize(t, connects) ==
    /\ crashed = "no" /\ MainIdle
    /\ copyjob[t] = "new"
    /\ copyjob' = [copyjob EXCEPT ![t] = "sized"]
    /\ IF connects THEN Post(t, "SLV_CONNECTED") ELSE UNCHANGED events
    /\ UNCHANGED <<stack, pc, cmd, op, emitting, crashed>>

(* The job ends and starts to deliver its result signal ... *)
EmitResult(t) ==
    /\ crashed = "no" /\ MainIdle
    /\ copyjob[t] # "none"
    /\ emitting' = [t |-> t, valid |-> TRUE]
    /\ UNCHANGED <<stack, pc, cmd, copyjob, events, op, crashed>>

(* ... and slotResult runs: the job must still be the slave's.  KillJob of *)
(* the worker may have taken it away in between.                           *)
SlotResult(t, kind) ==
    /\ crashed = "no" /\ emitting.t = t
    /\ emitting' = NoEmission
    /\ IF emitting.valid
       THEN /\ copyjob' = [copyjob EXCEPT ![t] = "none"]
            /\ Post(t, kind)
            /\ UNCHANGED crashed
       ELSE /\ crashed' = "slave.cpp:slotResult"
            /\ UNCHANGED <<copyjob, events>>
    /\ UNCHANGED <<stack, pc, cmd, op>>

----------------------------------------------------------------------------
(* The worker thread: Slave::run.                                          *)

(* if (!nPendingCommand): read without the lock. *)
CheckPending(t) ==
    /\ crashed = "no" /\ pc[t] = "check"
    /\ pc' = [pc EXCEPT ![t] = IF stack[t] = <<>> THEN "enter" ELSE "fetch"]
    /\ UNCHANGED <<stack, cmd, copyjob, events, op, emitting, crashed>>

(* worker.wait(): from here on a wake is seen. *)
Sleep(t) ==
    /\ crashed = "no" /\ pc[t] = "enter"
    /\ pc' = [pc EXCEPT ![t] = "wait"]
    /\ UNCHANGED <<stack, cmd, copyjob, events, op, emitting, crashed>>

SpuriousWake(t) ==
    /\ crashed = "no" /\ SpuriousWakeups /\ pc[t] = "wait"
    /\ pc' = [pc EXCEPT ![t] = "fetch"]
    /\ UNCHANGED <<stack, cmd, copyjob, events, op, emitting, crashed>>

(* fetch_cmd(): the newest command, NOOP if there is none. *)
FetchCmd(t) ==
    /\ crashed = "no" /\ pc[t] = "fetch"
    /\ IF stack[t] = <<>>
       THEN cmd' = [cmd EXCEPT ![t] = "NOOP"] /\ UNCHANGED stack
       ELSE /\ cmd' = [cmd EXCEPT ![t] = Head(stack[t])]
            /\ stack' = [stack EXCEPT ![t] = Tail(@)]
    /\ pc' = [pc EXCEPT ![t] = "dispatch"]
    /\ UNCHANGED <<copyjob, events, op, emitting, crashed>>

(* A bug: the job is killed only once its size is known. *)
DispatchSized(t) ==
    /\ crashed = "no" /\ pc[t] = "dispatch"
    /\ pc' = [pc EXCEPT ![t] =
                 IF cmd[t] \in Killing /\ copyjob[t] = "sized"
                 THEN "kill" ELSE "act"]
    /\ UNCHANGED <<stack, cmd, copyjob, events, op, emitting, crashed>>

(* if (copyjob) of the commands that end a download. *)
Dispatch(t) ==
    /\ crashed = "no" /\ pc[t] = "dispatch"
    /\ pc' = [pc EXCEPT ![t] =
                 IF cmd[t] \in Killing /\ copyjob[t] # "none"
                 THEN "kill" ELSE "act"]
    /\ UNCHANGED <<stack, cmd, copyjob, events, op, emitting, crashed>>

(* copyjob->kill(true); copyjob = 0L.  The main thread may have cleared    *)
(* copyjob since the test, or be on the way to slotResult with this job.   *)
KillJob(t) ==
    /\ crashed = "no" /\ pc[t] = "kill"
    /\ IF copyjob[t] = "none"
       THEN /\ crashed' = "slave.cpp:kill"
            /\ UNCHANGED <<copyjob, pc, emitting>>
       ELSE /\ copyjob' = [copyjob EXCEPT ![t] = "none"]
            /\ pc' = [pc EXCEPT ![t] = "act"]
            /\ emitting' = [emitting EXCEPT
                               !.valid = @ /\ emitting.t # t]
            /\ UNCHANGED crashed
    /\ UNCHANGED <<stack, cmd, events, op>>

Done(t) == cmd' = [cmd EXCEPT ![t] = "NOOP"]

(* RETR, RETR_CACHE and the end of RESTART: assert(!copyjob), a new job. *)
Retrieve(t) ==
    /\ crashed = "no" /\ pc[t] = "act" /\ cmd[t] \in Retrieving
    /\ IF copyjob[t] # "none"
       THEN /\ crashed' = "slave.cpp:RETR"
            /\ UNCHANGED <<copyjob, pc, cmd, events>>
       ELSE /\ copyjob' = [copyjob EXCEPT ![t] = "new"]
            /\ pc' = [pc EXCEPT ![t] = "check"]
            /\ IF cmd[t] = "RETR_CACHE" THEN UNCHANGED events
               ELSE Post(t, Answer[cmd[t]])
            /\ Done(t)
            /\ UNCHANGED crashed
    /\ UNCHANGED <<stack, op, emitting>>

(* PAUSE, SCHEDULE, DELAY: the thread stays. *)
AnswerStop(t) ==
    /\ crashed = "no" /\ pc[t] = "act" /\ cmd[t] \in Stopping
    /\ pc' = [pc EXCEPT ![t] = "check"]
    /\ Post(t, Answer[cmd[t]])
    /\ Done(t)
    /\ UNCHANGED <<stack, copyjob, op, emitting, crashed>>

(* KILL and NOOP post nothing, REMOVE posts; the loop ends. *)
LeaveLoop(t) ==
    /\ crashed = "no" /\ pc[t] = "act" /\ cmd[t] \in Leaving
    /\ pc' = [pc EXCEPT ![t] = "exit"]
    /\ IF cmd[t] = "REMOVE" THEN Post(t, Answer[cmd[t]]) ELSE UNCHANGED events
    /\ Done(t)
    /\ UNCHANGED <<stack, copyjob, op, emitting, crashed>>

(* After the final assert(!copyjob) the thread is gone. *)
Exit(t) ==
    /\ crashed = "no" /\ pc[t] = "exit"
    /\ pc' = [pc EXCEPT ![t] = "none"]
    /\ UNCHANGED <<stack, cmd, copyjob, events, op, emitting, crashed>>

Worker(t) ==
    \/ CheckPending(t) \/ Sleep(t) \/ SpuriousWake(t) \/ FetchCmd(t)
    \/ Dispatch(t) \/ KillJob(t) \/ Retrieve(t) \/ AnswerStop(t)
    \/ LeaveLoop(t) \/ Exit(t)

----------------------------------------------------------------------------
(* A client that sends any command at any time and reads its events: the   *)
(* weakest assumption on the transfers.                                    *)

ClientOp(t) ==
    /\ Len(stack[t]) < MaxStack
    /\ \E c \in Commands : OpStart(t, c)

ClientResult(t) ==
    /\ Len(events) < MaxEvents
    /\ \E connects \in BOOLEAN : SlotTotalSize(t, connects)

ClientRead ==
    /\ crashed = "no" /\ MainIdle /\ events # <<>>
    /\ events' = Tail(events)
    /\ UNCHANGED <<stack, pc, cmd, copyjob, op, emitting, crashed>>

(* A worker posts without limit in the code: the bound holds it back. *)
BoundedWorker(t) == Len(events) < MaxEvents /\ Worker(t)

SlaveNext ==
    \/ \E t \in Transfers :
          \/ ClientOp(t) \/ OpPush(t) \/ ClientResult(t) \/ EmitResult(t)
          \/ \E kind \in Results : SlotResult(t, kind)
          \/ BoundedWorker(t)
    \/ ClientRead

SlaveSpec == SInit /\ [][SlaveNext]_svars

----------------------------------------------------------------------------
PCs == {"none", "check", "enter", "wait", "fetch", "dispatch", "kill", "act",
        "exit"}

(* Types of the slave's variables (slave.h, slaveevent.h). *)
SlaveTypeOK ==
    /\ stack \in [Transfers -> Seq(Commands)]
    /\ pc \in [Transfers -> PCs]
    /\ cmd \in [Transfers -> Commands \cup {"NOOP"}]
    /\ copyjob \in [Transfers -> {"none", "new", "sized"}]
    /\ events \in Seq([t : Transfers, kind : EventKinds])
    /\ op \in [t : Transfers \cup {NoTransfer}, cmd : Commands \cup {"NOOP"}]
    /\ op.t \in Transfers => op.cmd \in Commands
    /\ emitting \in [t : Transfers \cup {NoTransfer}, valid : BOOLEAN]
    /\ crashed \in Lines

(* A download never outlives the thread that controls it, however commands *)
(* pile up and whenever the job ends by itself: Slave::run is left only    *)
(* with assert(!copyjob).                                                  *)
JobHasThread ==
    \A t \in Transfers : copyjob[t] # "none" => pc[t] \notin {"exit", "none"}

(* Once run() has tested copyjob for a command that ends the download, no  *)
(* download is left when it acts on the command, whatever signals the main *)
(* thread delivers in between.                                             *)
KilledWhenActing ==
    \A t \in Transfers :
        pc[t] = "act" /\ cmd[t] \in Killing => copyjob[t] = "none"

(* The result being delivered is that of the slave's job, or the job was   *)
(* killed under it.                                                        *)
EmissionIsCurrent ==
    emitting.valid => emitting.t \in Transfers /\ copyjob[emitting.t] # "none"

SlaveInv == SlaveTypeOK /\ JobHasThread /\ KilledWhenActing /\ EmissionIsCurrent

(* A slave is a download with at most one job, ended before its thread. *)
Download == INSTANCE KGetDownload WITH
    alive <- [t \in Transfers |-> pc[t] # "none"],
    downloading <- [t \in Transfers |-> copyjob[t] # "none"]
ImplementsDownload == Download!DSpec
=============================================================================
