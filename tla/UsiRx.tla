------------------------------- MODULE UsiRx -------------------------------
(***************************************************************************)
(* The receive side of Usi.c: usi_RxProcess takes the bytes there are off  *)
(* the line through a state machine, usi_TxProcess hands a complete        *)
(* message on.  A call of usi_RxProcess works with copies of the index and *)
(* of the place in the buffer that it takes at its beginning.              *)
(***************************************************************************)
EXTENDS UsiFrame

CONSTANT RxSize    \* size of the receive buffer

ASSUME RxAssumption == RxSize \in Nat \ {0}

VARIABLES
    rxStat,      \* rxStat
    rxIdx,       \* idx; during a call, rxCfgIdx
    rxBuf,       \* buf of usiCfgRxBuf
    rxAt,        \* rxBuf, the place in the buffer: set once in a call
    rxSpilt,     \* a byte has been written behind the buffer
    rxOpen,      \* a call of usi_RxProcess is under way
    ready,       \* rcvPktReady
    delivered    \* the messages handed on, in order

rxVars == <<rxStat, rxIdx, rxBuf, rxAt, rxSpilt, rxOpen, ready, delivered>>

RxStates == {"idle", "msg", "esc", "eorx"}

RxInit ==
    /\ rxStat = "idle" /\ rxIdx = 0 /\ rxAt = 0
    /\ rxBuf = [i \in 1 .. RxSize |-> 0]
    /\ rxSpilt = FALSE /\ rxOpen = FALSE /\ ready = FALSE
    /\ delivered = <<>>

RxCall ==
    /\ ~rxOpen /\ ~ready
    /\ rxOpen' = TRUE
    /\ rxAt' = rxIdx
    /\ UNCHANGED <<rxStat, rxIdx, rxBuf, rxSpilt, ready, delivered>>

Reset == rxStat' = "idle" /\ rxIdx' = 0
Leave == rxOpen' = FALSE /\ rxAt' = 0

(* No byte is there: the call ends. *)
RxReturn == rxOpen /\ Leave /\ UNCHANGED <<rxStat, rxIdx, rxBuf, rxSpilt, ready, delivered>>

(* Between frames, only a mark counts. *)
RxOutside(c) ==
    /\ rxStat = "idle"
    /\ IF c = Mark THEN rxStat' = "msg" /\ rxIdx' = 0 ELSE UNCHANGED <<rxStat, rxIdx>>
    /\ UNCHANGED <<rxBuf, rxAt, rxSpilt, rxOpen, ready, delivered>>

RxEscape(c) ==
    /\ rxStat = "msg" /\ c = Esc
    /\ rxStat' = "esc"
    /\ UNCHANGED <<rxIdx, rxBuf, rxAt, rxSpilt, rxOpen, ready, delivered>>

(* Mistake: a second mark ends the empty message before it. *)
SecondMarkEnds(c) ==
    /\ rxStat = "msg" /\ c = Mark /\ rxIdx = 0
    /\ Reset /\ Leave
    /\ UNCHANGED <<rxBuf, rxSpilt, ready, delivered>>

(* "Two consecutive 0x7E": the first one ended a message not processed,    *)
(* this one begins the next.                                               *)
RxSecondMark(c) ==
    /\ rxStat = "msg" /\ c = Mark /\ rxIdx = 0
    /\ UNCHANGED rxVars

RxEndOfMessage(c) ==
    /\ rxStat = "msg" /\ c = Mark /\ rxIdx > 0
    /\ IF Intact(rxBuf, rxIdx)
       THEN rxStat' = "eorx" /\ ready' = TRUE /\ UNCHANGED rxIdx
       ELSE Reset /\ UNCHANGED ready
    /\ Leave
    /\ UNCHANGED <<rxBuf, rxSpilt, delivered>>

(* "It is not possible to receive 0x7D again": the index starts over, the  *)
(* place in the buffer does not, until the next call.                      *)
RxSecondEscape(c) ==
    /\ rxStat = "esc" /\ c = Esc
    /\ Reset
    /\ UNCHANGED <<rxBuf, rxAt, rxSpilt, rxOpen, ready, delivered>>

(* A byte of the message, if there is room for it.  "Too large" looks at   *)
(* the index; after a second escape the place in the buffer is ahead of    *)
(* it, and the byte is written behind the buffer.                          *)
RxStore(c) ==
    /\ \/ rxStat = "msg" /\ c \notin {Mark, Esc}
       \/ rxStat = "esc" /\ c # Esc
    /\ IF rxIdx >= RxSize
       THEN Reset /\ Leave /\ UNCHANGED <<rxBuf, rxSpilt>>
       ELSE /\ IF rxAt < RxSize
               THEN /\ rxBuf' = [rxBuf EXCEPT ![rxAt + 1] =
                                     IF rxStat = "esc" THEN Flip(c) ELSE c]
                    /\ UNCHANGED rxSpilt
               ELSE rxSpilt' = TRUE /\ UNCHANGED rxBuf
            /\ rxIdx' = rxIdx + 1 /\ rxAt' = rxAt + 1
            /\ rxStat' = "msg"
            /\ UNCHANGED rxOpen
    /\ UNCHANGED <<ready, delivered>>

RxChar(c) ==
    /\ rxOpen
    /\ \/ RxOutside(c) \/ RxEscape(c) \/ RxSecondMark(c)
       \/ RxEndOfMessage(c) \/ RxSecondEscape(c) \/ RxStore(c)

(* Mistake: the message stays ready, and is handed on again. *)
HandedOnTwice ==
    /\ ready /\ ~rxOpen
    /\ delivered' = Append(delivered, Payload(rxBuf))
    /\ ready' = (rxIdx > 0)
    /\ Reset
    /\ UNCHANGED <<rxBuf, rxAt, rxSpilt, rxOpen>>

(* usi_TxProcess: a complete message goes to the layer above. *)
ProcessMsg ==
    /\ ready /\ ~rxOpen
    /\ delivered' = Append(delivered, Payload(rxBuf))
    /\ ready' = FALSE
    /\ Reset
    /\ UNCHANGED <<rxBuf, rxAt, rxSpilt, rxOpen>>
=============================================================================
