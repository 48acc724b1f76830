------------------------------ MODULE CoordApp ------------------------------
(***************************************************************************)
(* The G3 coordinator application: main.c and app_adp_mng.c of             *)
(* src/g3coordd_linux.  The main thread sets the parameters of the modem,  *)
(* one synchronous request after the other, then goes round its loop:      *)
(* adp_process, which starts the network and calls bs_process, and the     *)
(* packets of the TUN device.  The usi thread runs the callbacks.          *)
(***************************************************************************)
EXTENDS AdpSync, Sequences

CONSTANTS
    Params,        \* g_MibSettings: a sequence of the types and attributes set
    Prefix, Hops,  \* ADP_IB_PREFIX_TABLE, ADP_IB_MAX_HOPS
    MaxPackets,    \* bound: packets from the TUN device
    MaxIndications,\* bound: buffer indications of the modem
    MaxNested      \* bound: synchronous calls of the usi thread

ASSUME AppAssumption ==
    /\ Params \in Seq([type : {"set", "macset"}, attr : Attributes])
    /\ Prefix \in Attributes /\ Hops \in Attributes
    /\ MaxPackets \in Nat /\ MaxIndications \in Nat /\ MaxNested \in Nat

VARIABLES
    main,          \* where the main thread is
    mibIndex,      \* g_u8MibInitIndex
    available,     \* s_b_write_available
    blocking,      \* the file /tmp/G3_AdpData_blocking exists
    joinStatus, startStatus,    \* g_u8NetworkJoinStatus, g_u8NetworkStartStatus
    network,       \* external: what the modem has been asked about the network
    packets,       \* packets read from the TUN device and sent
    said,          \* external: what the modem has last said of its buffers
    unready,       \* packets sent since it has said so
    indications, nested

appVars == <<main, mibIndex, available, blocking, joinStatus, startStatus, network,
             packets, said, unready, indications, nested>>
vars == <<syncVars, appVars>>

Places == {"mib", "mibWait", "prefixWait", "unlink", "loop", "poll", "tun",
           "process", "startWait", "request", "pending", "bs"}

Init ==
    /\ SyncInit
    /\ main = [at |-> "mib", pass |-> "loop"]
    /\ mibIndex = 1
    /\ available = TRUE
    /\ blocking \in BOOLEAN     \* it may be left from a run before
    /\ joinStatus = "not joined" /\ startStatus = "not started"
    /\ network = "none"
    /\ packets = 0 /\ said = "ready" /\ unready = 0 /\ indications = 0 /\ nested = 0

Goto(place) == main' = [main EXCEPT !.at = place]
At(place)   == main.at = place

-----------------------------------------------------------------------------
(* adp_init *)

(* InitializeModemParameters: what a call returns is not looked at. *)
SetMib ==
    /\ At("mib") /\ mibIndex <= Len(Params)
    /\ CallSync("main", Params[mibIndex].type, Params[mibIndex].attr)
    /\ Goto("mibWait")
    /\ UNCHANGED <<mibIndex, available, blocking, joinStatus, startStatus, network,
                   packets, said, unready, indications, nested>>

MibSet ==
    /\ At("mibWait") /\ ReturnSync("main")
    /\ mibIndex' = mibIndex + 1
    /\ Goto("mib")
    /\ UNCHANGED <<available, blocking, joinStatus, startStatus, network,
                   packets, said, unready, indications, nested>>

(* InitializeNetworkParameters.  The buffers count as available, whatever  *)
(* the modem has said while its parameters were set.                       *)
SetPrefix ==
    /\ At("mib") /\ mibIndex > Len(Params)
    /\ available' = TRUE
    /\ said' = IF said = "not ready" THEN "forgotten" ELSE said
    /\ CallSync("main", "set", Prefix)
    /\ Goto("prefixWait")
    /\ UNCHANGED <<mibIndex, blocking, joinStatus, startStatus, network,
                   packets, unready, indications, nested>>

PrefixSet ==
    /\ At("prefixWait") /\ ReturnSync("main")
    /\ Goto("unlink")
    /\ UNCHANGED <<mibIndex, available, blocking, joinStatus, startStatus, network,
                   packets, said, unready, indications, nested>>

(* Mistake: the file of an earlier run is left. *)
KeepsFile ==
    /\ At("unlink")
    /\ Goto("loop")
    /\ UNCHANGED <<syncVars, mibIndex, available, blocking, joinStatus, startStatus,
                   network, packets, said, unready, indications, nested>>

RemoveFile ==
    /\ At("unlink")
    /\ blocking' = FALSE
    /\ Goto("loop")
    /\ UNCHANGED <<syncVars, mibIndex, available, joinStatus, startStatus, network,
                   packets, said, unready, indications, nested>>

-----------------------------------------------------------------------------
(* The loop of main *)

(* Mistake: the loop goes on although the buffers of the ADP are full. *)
LoopRegardless ==
    /\ At("loop")
    /\ main' = [at |-> "poll", pass |-> "loop"]
    /\ UNCHANGED <<syncVars, mibIndex, available, blocking, joinStatus, startStatus,
                   network, packets, said, unready, indications, nested>>

(* With no buffers in the ADP the loop goes round, doing nothing. *)
LoopTop ==
    /\ At("loop") /\ available
    /\ main' = [at |-> "poll", pass |-> "loop"]
    /\ UNCHANGED <<syncVars, mibIndex, available, blocking, joinStatus, startStatus,
                   network, packets, said, unready, indications, nested>>

(* poll returns for a packet, or after 20 ms; adp_process is called.       *)
Poll(ready) ==
    /\ At("poll")
    /\ ready => packets < MaxPackets
    /\ main' = [at |-> "process", pass |-> IF ready THEN "tun" ELSE "loop"]
    /\ UNCHANGED <<syncVars, mibIndex, available, blocking, joinStatus, startStatus,
                   network, packets, said, unready, indications, nested>>

(* adp_send_ipv6_message and AdpDataRequest. *)
SendPacket ==
    /\ At("tun")
    /\ packets' = packets + 1
    /\ unready' = IF said = "ready" THEN 0 ELSE unready + 1
    /\ main' = [at |-> "process", pass |-> "loop"]
    /\ UNCHANGED <<syncVars, mibIndex, available, blocking, joinStatus, startStatus,
                   network, said, indications, nested>>

-----------------------------------------------------------------------------
(* adp_process *)

JoinNetwork ==
    /\ At("process") /\ joinStatus = "not joined"
    /\ joinStatus' = "joined"
    /\ Goto("bs")
    /\ UNCHANGED <<syncVars, mibIndex, available, blocking, startStatus, network,
                   packets, said, unready, indications, nested>>

(* Mistake: the number of hops is not waited for. *)
StartsAtOnce ==
    /\ At("process") /\ joinStatus = "joined" /\ startStatus = "not started"
    /\ CallSync("main", "get", Hops)
    /\ Goto("request")
    /\ UNCHANGED <<mibIndex, available, blocking, joinStatus, startStatus, network,
                   packets, said, unready, indications, nested>>

(* StartCoordinator: the number of hops, bs_init, the request. *)
StartCoordinator ==
    /\ At("process") /\ joinStatus = "joined" /\ startStatus = "not started"
    /\ CallSync("main", "get", Hops)
    /\ Goto("startWait")
    /\ UNCHANGED <<mibIndex, available, blocking, joinStatus, startStatus, network,
                   packets, said, unready, indications, nested>>

HopsGot ==
    /\ At("startWait") /\ ReturnSync("main")
    /\ Goto("request")
    /\ UNCHANGED <<mibIndex, available, blocking, joinStatus, startStatus, network,
                   packets, said, unready, indications, nested>>

NetworkStartRequest ==
    /\ At("request")
    /\ network' = "asked"
    /\ Goto("pending")
    /\ UNCHANGED <<syncVars, mibIndex, available, blocking, joinStatus, startStatus,
                   packets, said, unready, indications, nested>>

(* The status is set after the request has gone. *)
StartPending ==
    /\ At("pending")
    /\ startStatus' = "pending"
    /\ Goto("bs")
    /\ UNCHANGED <<syncVars, mibIndex, available, blocking, joinStatus, network,
                   packets, said, unready, indications, nested>>

(* Waiting for the confirm.  Its 10 seconds may be past when it has been   *)
(* lost or refused, or where answers are late.                             *)
StartIsLate == "late" \in Modem \/ network # "asked"

StillPending ==
    /\ At("process") /\ joinStatus = "joined" /\ startStatus = "pending"
    /\ Goto("bs")
    /\ UNCHANGED <<syncVars, mibIndex, available, blocking, joinStatus, startStatus,
                   network, packets, said, unready, indications, nested>>

(* "Something was wrong - Reset the Network".  Both statuses are compared, *)
(* not set: they stay as they are, and the reset is sent in every pass.    *)
ResetNetwork ==
    /\ At("process") /\ joinStatus = "joined" /\ startStatus = "pending"
    /\ StartIsLate
    /\ network' = "reset"
    /\ Goto("bs")
    /\ UNCHANGED <<syncVars, mibIndex, available, blocking, joinStatus, startStatus,
                   packets, said, unready, indications, nested>>

(* Mistake: adp_process returns early when the network runs. *)
RunsReturns ==
    /\ At("process") /\ joinStatus = "joined" /\ startStatus = "started"
    /\ Goto(main.pass)
    /\ UNCHANGED <<syncVars, mibIndex, available, blocking, joinStatus, startStatus,
                   network, packets, said, unready, indications, nested>>

NetworkRuns ==
    /\ At("process") /\ joinStatus = "joined" /\ startStatus = "started"
    /\ Goto("bs")
    /\ UNCHANGED <<syncVars, mibIndex, available, blocking, joinStatus, startStatus,
                   network, packets, said, unready, indications, nested>>

(* bs_process: always, at the end of adp_process. *)
BsProcess ==
    /\ At("bs")
    /\ Goto(main.pass)
    /\ UNCHANGED <<syncVars, mibIndex, available, blocking, joinStatus, startStatus,
                   network, packets, said, unready, indications, nested>>

-----------------------------------------------------------------------------
(* The callbacks, in the usi thread *)

Callback == UsiIsFree

(* AppAdpNetworkStartConfirm.  A failure changes nothing. *)
NetworkStartConfirm(ok) ==
    /\ Callback /\ network = "asked"
    /\ network' = IF ok THEN "started" ELSE "refused"
    /\ startStatus' = IF ok THEN "started" ELSE startStatus
    /\ UNCHANGED <<syncVars, main, mibIndex, available, blocking, joinStatus,
                   packets, said, unready, indications, nested>>

(* AppAdpBufferIndication: the modem says so; what does not change         *)
(* s_b_write_available is ignored.                                         *)
BufferIndication(ready) ==
    /\ Callback
    /\ said # (IF ready THEN "ready" ELSE "not ready")
    /\ ready \/ indications < MaxIndications
    /\ said' = IF ready THEN "ready" ELSE "not ready"
    /\ available' = ready
    /\ blocking' = IF available # ready THEN ~ready ELSE blocking
    /\ indications' = IF ready THEN indications ELSE indications + 1
    /\ unready' = 0
    /\ UNCHANGED <<syncVars, main, mibIndex, joinStatus, startStatus, network,
                   packets, nested>>

LoseStartConfirm ==
    /\ "drop" \in Modem /\ network = "asked"
    /\ network' = "lost"
    /\ UNCHANGED <<syncVars, main, mibIndex, available, blocking, joinStatus, startStatus,
                   packets, said, unready, indications, nested>>

(* An LBP confirm that goes on with a rekeying asks for the hops too, when *)
(* the network runs: the main thread makes no call of its own any more.    *)
RekeyCall ==
    /\ startStatus = "started" /\ nested < MaxNested
    /\ CallSync("usi", "get", Hops)
    /\ nested' = nested + 1
    /\ UNCHANGED <<main, mibIndex, available, blocking, joinStatus, startStatus,
                   network, packets, said, unready, indications>>

RekeyReturn ==
    /\ ReturnSync("usi")
    /\ UNCHANGED appVars

Asking == \E t \in {"main", "usi"} : AskModem(t) /\ UNCHANGED appVars

Answering == ModemStep /\ UNCHANGED appVars

-----------------------------------------------------------------------------
MainStep ==
    \/ SetMib \/ MibSet \/ SetPrefix \/ PrefixSet \/ RemoveFile
    \/ LoopTop \/ (\E ready \in BOOLEAN : Poll(ready)) \/ SendPacket
    \/ JoinNetwork \/ StartCoordinator \/ HopsGot \/ NetworkStartRequest
    \/ StartPending \/ StillPending \/ ResetNetwork \/ NetworkRuns \/ BsProcess

UsiStep ==
    \/ \E ok \in BOOLEAN : NetworkStartConfirm(ok)
    \/ \E ready \in BOOLEAN : BufferIndication(ready)
    \/ LoseStartConfirm \/ RekeyCall \/ RekeyReturn

Next == MainStep \/ UsiStep \/ Asking \/ Answering

(* The threads run, the modem answers or loses the answer, it has buffers  *)
(* again some time, and 10 seconds of a pending start will be past.        *)
Fairness ==
    /\ WF_vars(MainStep) /\ WF_vars(Asking) /\ WF_vars(Answering)
    /\ WF_vars(RekeyReturn)
    /\ SF_vars(BufferIndication(TRUE))
    /\ SF_vars(ResetNetwork)

Spec == Init /\ [][Next]_vars
FairSpec == Spec /\ Fairness

-----------------------------------------------------------------------------
TypeOK ==
    /\ sync.attr \in Attributes \cup {NoAttribute}
    /\ \A t \in {"main", "usi"} : call[t].op \in {"none", "begun", "waiting"}
    /\ main.at \in Places /\ main.pass \in Places
    /\ mibIndex \in 1 .. Len(Params) + 1
    /\ call["main"].op # "none" <=> main.at \in {"mibWait", "prefixWait", "startWait"}
    /\ network \in {"none", "asked", "started", "refused", "lost", "reset"}
    /\ said \in {"ready", "not ready", "forgotten"}

Returns(t) == call[t].op = "waiting" /\ call'[t] = NoCall

(* AdpSetRequestSync: a set that succeeds has been answered itself, not by *)
(* the late answer of an earlier request, unless that was about the same   *)
(* attribute.                                                              *)
SetIsAnswered ==
    [][\A t \in {"main", "usi"} :
          Returns(t) /\ sync.res /\ call[t].clean /\ call[t].type \notin GetTypes
          => Answer(t) = call[t].n]_vars

(* AppAdpBufferIndication: "modem is not ready, stop sending data frame":  *)
(* after that one packet at most goes out, which may be on its way         *)
(* already.  This is not so of what the modem has said before adp_init has *)
(* set s_b_write_available: that is forgotten, and packets go on.          *)
StopsSending == said = "not ready" => unready <= 1

(* The programs that look for the blocking file are not held up for ever:  *)
(* once the coordinator runs, the file is there only while the modem is    *)
(* not ready, whatever an earlier run has left.                            *)
FileMeansNotReady ==
    main.at \notin {"mib", "mibWait", "prefixWait", "unlink"} /\ blocking => ~available

(* bs_api.h asks for bs_process to be called periodically: it is, whatever *)
(* the modem answers, as long as it has buffers again and again.           *)
BsProcessGoesOn == []<><<BsProcess>>_vars

(* "Something was wrong - Reset the Network": a start that is not          *)
(* confirmed does not stay pending.                                        *)
StartIsRetried == startStatus = "pending" ~> startStatus # "pending"
=============================================================================
