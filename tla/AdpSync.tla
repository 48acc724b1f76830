------------------------------- MODULE AdpSync -------------------------------
(***************************************************************************)
(* Synchronous requests to the ADP: AdpGetRequestSync, AdpSetRequestSync   *)
(* and their MAC counterparts in src/src/ifaceG3Adp.c.  A call sets the    *)
(* flags of g_adp_sync_mgmt, sends its request and waits, for 3 seconds at *)
(* most, until the usi thread has got a confirm about the same attribute.  *)
(*                                                                         *)
(* There is one g_adp_sync_mgmt for all threads.  The main thread calls;   *)
(* so does the usi thread, from within the callback of an LBP confirm, and *)
(* then nobody is left to receive its answer.                              *)
(***************************************************************************)
EXTENDS Naturals, FiniteSets

CONSTANTS
    Attributes,    \* attribute identifiers
    NoAttribute,   \* m_u32AttributeId before the first call
    Modem          \* what the modem may do with an answer: be late, lose it

Types     == {"get", "set", "macget", "macset"}
GetTypes  == {"get", "macget"}

ASSUME SyncAssumption ==
    /\ NoAttribute \notin Attributes
    /\ Modem \subseteq {"late", "drop"}

VARIABLES
    sync,      \* g_adp_sync_mgmt; got: per type, the request that the confirm it
               \* holds has answered
    call,      \* per thread, the call it is in
    asked,     \* external: requests the modem has not answered
    requests   \* requests so far

syncVars == <<sync, call, asked, requests>>

(* clean: when the call began, no earlier request about its attribute was  *)
(* unanswered                                                              *)
NoCall == [op |-> "none", type |-> "get", attr |-> NoAttribute, n |-> 0, clean |-> TRUE]
Request(n, type, attr) == [n |-> n, type |-> type, attr |-> attr]

SyncInit ==
    /\ sync = [req |-> FALSE, res |-> FALSE, attr |-> NoAttribute,
               got |-> [type \in Types |-> 0]]
    /\ call = [t \in {"main", "usi"} |-> NoCall]
    /\ asked = {}
    /\ requests = 0

(* The first assignments of a call.  A get clears the flag of an earlier   *)
(* result before it names its attribute, a set after.                      *)
CallSync(t, type, attr) ==
    /\ call[t] = NoCall
    /\ call' = [call EXCEPT ![t] = [op |-> "begun", type |-> type, attr |-> attr,
                                    n |-> requests + 1,
                                    clean |-> \A r \in asked : r.attr # attr]]
    /\ sync' = IF type \in GetTypes
               THEN [sync EXCEPT !.req = TRUE, !.res = FALSE]
               ELSE [sync EXCEPT !.req = TRUE, !.attr = attr]
    /\ requests' = requests + 1
    /\ UNCHANGED asked

(* The other assignment, and the request goes to the modem. *)
AskModem(t) ==
    LET c == call[t]
    IN  /\ c.op = "begun"
        /\ sync' = IF c.type \in GetTypes THEN [sync EXCEPT !.attr = c.attr]
                                          ELSE [sync EXCEPT !.res = FALSE]
        /\ call' = [call EXCEPT ![t].op = "waiting"]
        /\ asked' = asked \cup {Request(c.n, c.type, c.attr)}
        /\ UNCHANGED requests

(* Where answers are never late, the time of a call runs out only when its *)
(* answer has been lost, or when the usi thread itself is waiting.         *)
TimeIsPast(t) ==
    \/ "late" \in Modem \/ call["usi"].op # "none"
    \/ \A r \in asked : r.n # call[t].n

Answered(t) == sync.res
Answer(t)   == sync.got[call[t].type]

(* addUsi_WaitProcessing ends; the flags are cleared and the call returns. *)
ReturnSync(t) ==
    /\ call[t].op = "waiting"
    /\ Answered(t) \/ TimeIsPast(t)
    /\ sync' = [sync EXCEPT !.req = FALSE, !.res = FALSE]
    /\ call' = [call EXCEPT ![t] = NoCall]
    /\ UNCHANGED <<asked, requests>>

UsiIsFree == call["usi"] = NoCall

(* Mistake: a confirm is taken whatever attribute it is about. *)
ConfirmAny(r) ==
    /\ UsiIsFree /\ r \in asked
    /\ sync' = IF sync.req THEN [sync EXCEPT !.res = TRUE, !.got[r.type] = r.n] ELSE sync
    /\ asked' = asked \ {r}
    /\ UNCHANGED <<call, requests>>

(* A confirm reaches the usi thread: of any of the four types, it ends the *)
(* call that waits for its attribute.                                      *)
ConfirmOf(r) ==
    /\ UsiIsFree /\ r \in asked
    /\ sync' = IF sync.req /\ sync.attr = r.attr
               THEN [sync EXCEPT !.res = TRUE, !.got[r.type] = r.n] ELSE sync
    /\ asked' = asked \ {r}
    /\ UNCHANGED <<call, requests>>

GetConfirm(r)    == r.type = "get"    /\ ConfirmOf(r)
SetConfirm(r)    == r.type = "set"    /\ ConfirmOf(r)
MacGetConfirm(r) == r.type = "macget" /\ ConfirmOf(r)
MacSetConfirm(r) == r.type = "macset" /\ ConfirmOf(r)

LoseAnswer(r) ==
    /\ "drop" \in Modem /\ r \in asked
    /\ asked' = asked \ {r}
    /\ UNCHANGED <<sync, call, requests>>

SyncStep(t) == AskModem(t) \/ ReturnSync(t)
ModemStep   == \E r \in asked : \/ GetConfirm(r) \/ SetConfirm(r) \/ MacGetConfirm(r)
                                \/ MacSetConfirm(r) \/ LoseAnswer(r)
=============================================================================
