---------------------------- MODULE DlmsGateway ----------------------------
(***************************************************************************)
(* The DLMS over TCP gateway (src/dlmsotcp): one thread that stands        *)
(* between one concentrator, on a TCP connection, and the 4-32 layer of a  *)
(* PRIME base node, on the serial line.  It keeps a table of the nodes     *)
(* that are connected, and sends one message at a time to the base node.   *)
(* The base node and the concentrator are external.                        *)
(***************************************************************************)
EXTENDS Integers, Sequences, FiniteSets

CONSTANTS
    N,             \* MAX_NUM_NODES_CONNECTED
    Buffers,       \* MAX_MSG_LIST
    MaxRecords,    \* MNGP_PRIME_ENHANCED_LIST_MAX_RECORDS
    Env,           \* what the base node and the concentrator may do, see below
    MaxEvents      \* bound: connections, messages, joins, departures, restarts

(* "loss": a confirm may not come.  "late": it may come after 40 seconds.  *)
(* "reboot": the base node may restart.  "twice": the concentrator may     *)
(* enable the automatic close of a node that has it; "unknown": of a node  *)
(* it has not been told of.                                                *)
ASSUME GatewayAssumption ==
    /\ N \in Nat /\ Buffers \in Nat \ {0} /\ MaxRecords \in Nat \ {0}
    /\ Env \subseteq {"loss", "late", "reboot", "twice", "unknown"}
    /\ MaxEvents \in Nat

Nodes == 0 .. N - 1

VARIABLES
    session,       \* g_concentrator_fd: "none" (0), "open", "closed" (by a
                   \* reboot, with the number kept), "ended" (main returned)
    zero,          \* what descriptor 0 is: "stdin", "free", a "client", or
                   \* "dead" (closed by a reboot, but still selected)
    notify,        \* i_enable_notifications
    conn, auto,    \* x_list_nodes_connected: valid dst_address, autoclose_enabled
    iterator,      \* of the query of the connected nodes; N + 1 when it is over
    tx,            \* the two lists of messages and what they lead to:
                   \*   spare, queue, old (the head's time is over 40 s ago),
                   \*   out (external: requests the base node will confirm)
                   \*   and handed (history: the requests made of it)
    link,          \* external: the node has a 4-32 connection
    releasing,     \* external: it has been asked to release these
    asked, known,  \* external: the concentrator asked for the nodes, was told of
    wish,          \* external: it wants these closed when it goes
    accepted,      \* history: messages that were given a buffer
    givenUp,       \* history: messages given up after 40 s
    events

nodeVars   == <<notify, conn, auto, iterator, link, releasing>>
clientVars == <<asked, known, wish>>
msgVars    == <<tx, accepted, givenUp>>
vars == <<session, zero, nodeVars, clientVars, msgVars, events>>

Connected == {n \in Nodes : conn[n]}

Init ==
    /\ session = "none" /\ zero = "stdin"
    /\ notify = FALSE
    /\ conn = [n \in Nodes |-> FALSE] /\ auto = [n \in Nodes |-> 0]
    /\ iterator = 0
    /\ tx = [spare |-> Buffers, queue |-> <<>>, old |-> FALSE, out |-> {}, handed |-> <<>>]
    /\ link \in [Nodes -> BOOLEAN]
    /\ releasing = {}
    /\ asked = "no" /\ known = {} /\ wish = {}
    /\ accepted = 0 /\ givenUp = 0 /\ events = 0

Running == session # "ended"
Event == Running /\ events < MaxEvents /\ events' = events + 1

-----------------------------------------------------------------------------
(* The messages *)

(* Mistake: the last message of the pending list is not put back. *)
GiveBackAllButLast(t) ==
    [t EXCEPT !.queue = Tail(@), !.spare = IF Len(t.queue) > 1 THEN @ + 1 ELSE @]

(* The head of the pending list is put back in the list of free ones. *)
GiveBack(t) == [t EXCEPT !.queue = Tail(@), !.spare = @ + 1]

(* A request of the base node, which makes the message's time begin. *)
Requested(t, m) ==
    [t EXCEPT !.out = @ \cup {m}, !.handed = Append(@, m), !.old = FALSE]

(* _send_queued_432_data *)
SendQueued(t) == Requested(t, Head(t.queue))

(* Mistake: a confirm does not send the next message. *)
ConfirmedOnly(t) == IF t.queue = <<>> THEN t ELSE GiveBack(t)

(* _dlmsotcp_cl_432_dl_data_cfm_cb: whichever request is confirmed, it is  *)
(* the head that goes, and the next one is sent.                           *)
Confirmed(t) ==
    LET rest == GiveBack(t)
    IN  IF t.queue = <<>> THEN t
        ELSE IF rest.queue = <<>> THEN rest ELSE SendQueued(rest)

(* Mistake: a message is sent at once though others wait. *)
TakenSendsAlways(t, m) ==
    [Requested(t, m) EXCEPT !.spare = @ - 1, !.queue = Append(@, m)]

(* A message of the concentrator is sent at once when none waits for its   *)
(* confirm, and put in the pending list.                                   *)
Taken(t, m) ==
    LET sent == IF t.queue = <<>> THEN Requested(t, m) ELSE t
    IN  [sent EXCEPT !.spare = @ - 1, !.queue = Append(@, m)]

TooOld(t) == Len(t.queue) > 1 /\ t.old

(* Mistake: after a message that is given up the next is not sent. *)
WithoutOldForgets(t) == IF TooOld(t) THEN GiveBack(t) ELSE t

(* The head is given up when it is old and others wait. *)
WithoutOld(t) == IF TooOld(t) THEN SendQueued(GiveBack(t)) ELSE t

(* dlmsotcp_RxProcess, a message to be sent on: without a free buffer it   *)
(* is dropped, but the age of the head is looked at all the same.          *)
RxData ==
    LET t == IF tx.spare > 0 THEN Taken(tx, accepted + 1) ELSE tx
    IN  /\ Event /\ session = "open"
        /\ accepted' = IF tx.spare > 0 THEN accepted + 1 ELSE accepted
        /\ tx' = WithoutOld(t)
        /\ givenUp' = IF TooOld(t) THEN givenUp + 1 ELSE givenUp
        /\ UNCHANGED <<session, zero, nodeVars, clientVars>>

Confirm(id) ==
    /\ Running /\ id \in tx.out
    /\ tx' = Confirmed([tx EXCEPT !.out = @ \ {id}])
    /\ UNCHANGED <<session, zero, nodeVars, clientVars, accepted, givenUp, events>>

LoseConfirm(id) ==
    /\ Running /\ "loss" \in Env /\ id \in tx.out
    /\ tx' = [tx EXCEPT !.out = @ \ {id}]
    /\ UNCHANGED <<session, zero, nodeVars, clientVars, accepted, givenUp, events>>

(* More than 40 seconds pass since the head was sent. *)
Age ==
    /\ Running /\ tx.queue # <<>> /\ ~tx.old
    /\ "late" \in Env \/ tx.out = {}
    /\ tx' = [tx EXCEPT !.old = TRUE]
    /\ UNCHANGED <<session, zero, nodeVars, clientVars, accepted, givenUp, events>>

-----------------------------------------------------------------------------
(* The commands of the concentrator *)

(* What the concentrator knows of when a notification is written to the    *)
(* descriptor that is now g_concentrator_fd.                               *)
Told(nodes)     == known' = IF notify /\ session = "open" THEN known \cup nodes ELSE known
ToldGone(nodes) == known' = IF notify /\ session = "open" THEN known \ nodes ELSE known

(* Command 3: notify, and send the list of connected nodes. *)
RxNotify ==
    /\ Event /\ session = "open"
    /\ notify' = TRUE
    /\ known' = known \cup Connected
    /\ asked' = IF iterator > N THEN "listed" ELSE "early"
    /\ UNCHANGED <<session, zero, conn, auto, iterator, link, releasing, wish, msgVars>>

(* prime_cl_432_release_request *)
Release(nodes) == releasing' = releasing \cup {n \in nodes : link[n]}

(* Command 4: delete a node. *)
RxDelete(n) ==
    /\ Event /\ session = "open"
    /\ auto' = [auto EXCEPT ![n] = 0]
    /\ Release({n})
    /\ wish' = wish \ {n}
    /\ UNCHANGED <<session, zero, notify, conn, iterator, link, asked, known, msgVars>>

(* Command 5, _add_device_auto_close *)
RxAuto(n) ==
    /\ Event /\ session = "open"
    /\ n \in known \/ "unknown" \in Env
    /\ auto[n] = 0 \/ "twice" \in Env
    /\ auto' = [auto EXCEPT ![n] = (@ + 1) % 256]
    /\ wish' = wish \cup {n}
    /\ UNCHANGED <<session, zero, notify, conn, iterator, link, releasing, asked, known, msgVars>>

(* Command 6, _remove_device_auto_close *)
RxNoAuto(n) ==
    /\ Event /\ session = "open"
    /\ auto' = [auto EXCEPT ![n] = 0]
    /\ wish' = wish \ {n}
    /\ UNCHANGED <<session, zero, notify, conn, iterator, link, releasing, asked, known, msgVars>>

-----------------------------------------------------------------------------
(* The indications of the base node *)

(* _dlmsotcp_cl_432_join_ind_cb *)
Join(n) ==
    /\ Event /\ ~link[n]
    /\ link' = [link EXCEPT ![n] = TRUE]
    /\ conn' = [conn EXCEPT ![n] = TRUE]
    /\ IF auto[n] = 0 THEN Told({n}) ELSE UNCHANGED known
    /\ UNCHANGED <<session, zero, notify, auto, iterator, releasing, asked, wish, msgVars>>

(* Mistake: it is looked whether the flag is set before it is cleared. *)
TellOfLeaveUnlessAuto(n) == IF auto[n] = 0 THEN ToldGone({n}) ELSE UNCHANGED known

(* _dlmsotcp_cl_432_leave_ind_cb clears the flag before it looks whether   *)
(* it is set.                                                              *)
TellOfLeave(n) == ToldGone({n})

Leave(n) ==
    /\ Event /\ link[n]
    /\ link' = [link EXCEPT ![n] = FALSE]
    /\ releasing' = releasing \ {n}
    /\ conn' = [conn EXCEPT ![n] = FALSE]
    /\ auto' = [auto EXCEPT ![n] = 0]
    /\ TellOfLeave(n)
    /\ wish' = wish \ {n}
    /\ UNCHANGED <<session, zero, notify, iterator, asked, msgVars>>

(* A release that the base node does not report as a departure: no         *)
(* callback is set for its confirm.                                        *)
ReleaseSilently(n) ==
    /\ Running /\ n \in releasing
    /\ link' = [link EXCEPT ![n] = FALSE]
    /\ releasing' = releasing \ {n}
    /\ UNCHANGED <<session, zero, notify, conn, auto, iterator, clientVars, msgVars, events>>

(* _dlmsotcp_mngp_rsp_cb: the next records of the base node's list; one    *)
(* that is full is followed by a query from the record after the last.     *)
ListRsp ==
    LET open    == {n \in Nodes : link[n] /\ n >= iterator}
        records == {n \in open : Cardinality({m \in open : m < n}) < MaxRecords}
    IN  /\ Running /\ iterator <= N
        /\ conn' = [n \in Nodes |-> conn[n] \/ n \in records]
        /\ IF Cardinality(records) < MaxRecords
           THEN iterator' = N + 1
           ELSE \E last \in records : (\A n \in records : n <= last) /\ iterator' = last + 1
        /\ UNCHANGED <<session, zero, notify, auto, link, releasing, clientVars, msgVars, events>>

-----------------------------------------------------------------------------
(* The descriptors: main and _bmng_network_event_msg_cb *)

(* dlmsotcp_close_432: a release goes to the address that the table has,   *)
(* where the automatic close was enabled once.                             *)
Close432 ==
    /\ auto' = [n \in Nodes |-> IF auto[n] = 1 THEN 0 ELSE auto[n]]
    /\ conn' = [n \in Nodes |-> conn[n] /\ auto[n] # 1]
    /\ Release({n \in Nodes : conn[n] /\ auto[n] = 1})

(* A connection is accepted.  It gets descriptor 0 where that is free, and *)
(* then it is as if there were none.                                       *)
Connect ==
    /\ Event /\ session = "none"
    /\ IF zero \in {"free", "dead"} THEN zero' = "client" /\ UNCHANGED session
                                    ELSE session' = "open" /\ UNCHANGED zero
    /\ asked' = "no" /\ known' = {} /\ wish' = {}
    /\ UNCHANGED <<nodeVars, msgVars>>

(* The concentrator closes its connection, or it is found closed in the    *)
(* round of the reboot.                                                    *)
Disconnect ==
    /\ Running
    /\ \/ session \in {"open", "closed"} /\ session' = "none" /\ UNCHANGED zero
       \/ session = "none" /\ zero = "client" /\ zero' = "free" /\ UNCHANGED session
    /\ Close432
    /\ asked' = "no" /\ known' = {} /\ wish' = {}
    /\ UNCHANGED <<notify, iterator, link, msgVars, events>>

(* BMNG_NET_EVENT_REBOOT: whatever g_concentrator_fd is gets closed.  A    *)
(* descriptor that is selected stays so.                                   *)
Reboot ==
    /\ Event /\ "reboot" \in Env
    /\ session' = IF session = "open" THEN "closed" ELSE session
    /\ \/ session # "none" /\ UNCHANGED zero
       \/ session = "none" /\ zero \in {"stdin", "free"} /\ zero' = "free"
       \/ session = "none" /\ zero \in {"client", "dead"} /\ zero' = "dead"
    /\ conn' = [n \in Nodes |-> FALSE] /\ auto' = [n \in Nodes |-> 0]
    /\ link' = [n \in Nodes |-> FALSE] /\ releasing' = {}
    /\ tx' = [tx EXCEPT !.out = {}]
    /\ asked' = "no" /\ known' = {} /\ wish' = {}
    /\ UNCHANGED <<notify, iterator, accepted, givenUp>>

(* select fails on a descriptor that is closed, and main returns. *)
SelectFails ==
    /\ \/ session = "closed"
       \/ session = "none" /\ zero = "dead"
    /\ session' = "ended"
    /\ UNCHANGED <<zero, nodeVars, clientVars, msgVars, events>>

-----------------------------------------------------------------------------
Confirms == \E id \in tx.out : Confirm(id)

Next ==
    \/ RxData
    \/ Confirms
    \/ \E id \in tx.out : LoseConfirm(id)
    \/ Age
    \/ RxNotify
    \/ \E n \in Nodes : RxDelete(n) \/ RxAuto(n) \/ RxNoAuto(n)
                        \/ Join(n) \/ Leave(n) \/ ReleaseSilently(n)
    \/ ListRsp
    \/ Connect \/ Disconnect \/ Reboot \/ SelectFails

Spec == Init /\ [][Next]_vars

(* The base node confirms what it is asked, where the confirm is not lost. *)
FairSpec == Spec /\ WF_vars(Confirms)

-----------------------------------------------------------------------------
(* The types; every buffer is in one of the two lists, as the buffers of   *)
(* _dlms_msg_get and _dlms_msg_put are never freed.                        *)
TypeOK ==
    /\ session \in {"none", "open", "closed", "ended"}
    /\ zero \in {"stdin", "free", "client", "dead"} /\ notify \in BOOLEAN
    /\ conn \in [Nodes -> BOOLEAN] /\ auto \in [Nodes -> 0 .. 255]
    /\ iterator \in 0 .. N + 1 /\ link \in [Nodes -> BOOLEAN]
    /\ releasing \subseteq {n \in Nodes : link[n]}
    /\ asked \in {"no", "early", "listed"} /\ known \subseteq Nodes /\ wish \subseteq Nodes
    /\ accepted \in Nat /\ givenUp \in Nat /\ events \in 0 .. MaxEvents
    /\ tx \in [spare : Nat, queue : Seq(1 .. accepted), old : BOOLEAN,
               out : SUBSET (1 .. accepted), handed : Seq(1 .. accepted)]
    /\ tx.spare + Len(tx.queue) = Buffers

(* A message that was given a buffer is handed to the base node once, in   *)
(* the order of arrival, before its buffer is free again: whatever         *)
(* confirms are lost, late or of another message, the head of the pending  *)
(* list is the last message handed over.                                   *)
HandedInOrder ==
    /\ Len(tx.handed) = accepted - Len(tx.queue) + (IF tx.queue = <<>> THEN 0 ELSE 1)
    /\ \A i \in DOMAIN tx.handed : tx.handed[i] = i
    /\ \A i \in DOMAIN tx.queue : tx.queue[i] = accepted - Len(tx.queue) + i

(* The base node has one message to confirm at a time, none when the       *)
(* pending list is empty, and one more for each that the gateway gave up   *)
(* after 40 seconds.                                                       *)
OneAtATime == Cardinality(tx.out) <= givenUp + (IF tx.queue = <<>> THEN 0 ELSE 1)

(* A concentrator that asked for the nodes when the gateway had the whole  *)
(* list knows exactly the nodes in the gateway's table, though joins are   *)
(* not notified where the automatic close is enabled, and a node for which *)
(* it was enabled twice keeps its entry when the concentrator goes.        *)
ClientUpToDate == session = "open" /\ asked = "listed" => known = Connected

(* "Close 432 connections where auto_close status has been set": when the  *)
(* connection ends, the base node is asked to release every node that the  *)
(* concentrator wanted closed with it (dlmsotcp.c:866).                    *)
AutoClosed ==
    [][session = "open" /\ session' = "none"
         => \A n \in wish : link[n] => n \in releasing']_vars

(* A message that has a buffer is handed to the base node, unless the      *)
(* confirm of one before it does not come, or the gateway ends.            *)
MessagesMoveOn ==
    \A i \in 1 .. MaxEvents :
        accepted >= i ~> \/ Len(tx.handed) >= i
                         \/ tx.queue # <<>> /\ tx.out = {}
                         \/ ~Running
=============================================================================
