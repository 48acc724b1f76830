------------------------------- MODULE BnDlms -------------------------------
(***************************************************************************)
(* The messages of the DLMS over TCP server that runs inside the base node *)
(* manager: src/primeBN_linux/base_node_dlmsotcp.c.  Unlike the gateway of *)
(* DlmsGateway it has two threads, one that reads the concentrator ("rx")  *)
(* and the usi thread that runs the callbacks ("usi"), and a list of       *)
(* messages whose operations lock a mutex; its count is read without.      *)
(***************************************************************************)
EXTENDS Naturals, Sequences, FiniteSets

CONSTANTS
    Capacity,      \* NUM_MAX_DLMSOTCP_MSG
    MaxMsgs,       \* bound: messages of the concentrator
    Env            \* "late": a confirm may take more than 40 seconds

VARIABLES
    queue,         \* prime_dlmsotcp_pending_cfm_msg_list
    mutex,         \* prime_dlmsotcp_mutex is "free", or left "locked"
    rx, usi,       \* where the two threads are
    taken,         \* messages read from the concentrator
    out,           \* external: the requests the base node will confirm
    handed,        \* history: the requests made of it; 0 is none's
    dropped        \* history: messages for which the list had no room

vars == <<queue, mutex, rx, usi, taken, out, handed, dropped>>

Init ==
    /\ queue = <<>> /\ mutex = "free"
    /\ rx = "read" /\ usi = "idle"
    /\ taken = 0 /\ out = {} /\ handed = {} /\ dropped = {}

(* prime_cl_432_dl_data_request *)
Request(id) == out' = out \cup {id} /\ handed' = handed \cup {id}

(* prime_dlmsotcp_pop_dlms_msg and prime_dlmsotcp_get_dlms_msg: on an      *)
(* empty list they return with the mutex locked.                           *)
LockFor(q) == mutex = "free" /\ mutex' = IF q = <<>> THEN "locked" ELSE "free"
Pop == LockFor(queue) /\ queue' = IF queue = <<>> THEN queue ELSE Tail(queue)

(* _send_queued_432_data sends the message it takes out of the list, or    *)
(* what its uninitialised buffer holds.                                    *)
SendQueued == Pop /\ Request(IF queue = <<>> THEN 0 ELSE Head(queue).id)

-----------------------------------------------------------------------------
(* dlmsotcp_RxProcess, in the thread of the server *)
RxData ==
    /\ rx = "read" /\ taken < MaxMsgs
    /\ taken' = taken + 1
    /\ IF queue = <<>> THEN Request(taken') ELSE UNCHANGED <<out, handed>>
    /\ rx' = "push"
    /\ UNCHANGED <<queue, mutex, usi, dropped>>

RxPush ==
    /\ rx = "push" /\ mutex = "free"
    /\ IF Len(queue) = Capacity
         THEN dropped' = dropped \cup {taken} /\ UNCHANGED queue
         ELSE queue' = Append(queue, [id |-> taken, old |-> FALSE]) /\ UNCHANGED dropped
    /\ rx' = "check"
    /\ UNCHANGED <<mutex, usi, taken, out, handed>>

RxCheck ==
    /\ rx = "check"
    /\ rx' = IF Len(queue) > 1 THEN "get" ELSE "read"
    /\ UNCHANGED <<queue, mutex, usi, taken, out, handed, dropped>>

RxGet ==
    /\ rx = "get" /\ LockFor(queue)
    /\ rx' = IF queue # <<>> /\ Head(queue).old THEN "giveup" ELSE "read"
    /\ UNCHANGED <<queue, usi, taken, out, handed, dropped>>

RxGiveUp ==
    /\ rx = "giveup" /\ Pop
    /\ rx' = "send"
    /\ UNCHANGED <<usi, taken, out, handed, dropped>>

RxSend ==
    /\ rx = "send" /\ SendQueued
    /\ rx' = "read"
    /\ UNCHANGED <<usi, taken, dropped>>

(* More than 40 seconds pass. *)
Age ==
    /\ "late" \in Env
    /\ \E i \in DOMAIN queue : ~queue[i].old
    /\ queue' = [i \in DOMAIN queue |-> [queue[i] EXCEPT !.old = TRUE]]
    /\ UNCHANGED <<mutex, rx, usi, taken, out, handed, dropped>>

-----------------------------------------------------------------------------
(* _dlmsotcp_cl_432_dl_data_cfm_cb, in the usi thread *)
Confirm(id) ==
    /\ usi = "idle" /\ id \in out
    /\ out' = out \ {id}
    /\ usi' = IF queue = <<>> THEN "idle" ELSE "pop"
    /\ UNCHANGED <<queue, mutex, rx, taken, handed, dropped>>

ConfirmPop ==
    /\ usi = "pop" /\ Pop
    /\ usi' = "more"
    /\ UNCHANGED <<rx, taken, out, handed, dropped>>

ConfirmMore ==
    /\ usi = "more"
    /\ usi' = IF queue = <<>> THEN "idle" ELSE "send"
    /\ UNCHANGED <<queue, mutex, rx, taken, out, handed, dropped>>

ConfirmSend ==
    /\ usi = "send" /\ SendQueued
    /\ usi' = "idle"
    /\ UNCHANGED <<rx, taken, dropped>>

Next ==
    \/ RxData \/ RxPush \/ RxCheck \/ RxGet \/ RxGiveUp \/ RxSend \/ Age
    \/ \E id \in out : Confirm(id)
    \/ ConfirmPop \/ ConfirmMore \/ ConfirmSend

Spec == Init /\ [][Next]_vars

-----------------------------------------------------------------------------
Queued == {queue[i].id : i \in DOMAIN queue}
Arrived == {m \in 1 .. taken : m < taken \/ rx # "push"}

(* The pending messages are sent when a confirm has come, as               *)
(* base_node_dlmsotcp.c:628 says: a message that had room in the list is   *)
(* there or has been handed to the base node.                              *)
PendingAreSent == \A m \in Arrived \ dropped : m \in Queued \/ m \in handed
=============================================================================
