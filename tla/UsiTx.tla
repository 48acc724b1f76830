------------------------------- MODULE UsiTx -------------------------------
(***************************************************************************)
(* The transmit side of Usi.c: usi_SendCmd writes frames into a ring,      *)
(* usi_TxProcess, in the usi thread, takes bytes out of it.  Where another *)
(* thread may send too (the main thread of the G3 coordinator and of the   *)
(* PRIME base node), its steps interleave: nothing is locked, and what is  *)
(* added to and subtracted from count is read first and written later.     *)
(***************************************************************************)
EXTENDS UsiFrame

CONSTANTS
    Size,          \* size of the ring
    MinOverhead,   \* MIN_OVERHEAD
    Messages,      \* the messages to be sent, each at most once
    Threads        \* the threads that send

Usi == "usi"
CountMod == 65536  \* count and availableLen are uint16_t

ASSUME TxAssumption ==
    /\ Size \in Nat \ {0} /\ Size < CountMod
    /\ MinOverhead \in Nat
    /\ Messages \subseteq Seq(Bytes)
    /\ Usi \in Threads

VARIABLES
    ring,      \* buf of usiCfgTxBuf
    idxIn, idxOut, count,      \* usiCfgTxParam
    aux,       \* usiCfgAuxTxBuf: the content being written
    pc,        \* per thread: what it is in the middle of
    line,      \* bytes written to the port and not yet read at the other end
    accepted   \* the messages that usi_SendCmd has returned TRUE for, in order

indexes == <<idxIn, idxOut, count>>
txVars  == <<ring, idxIn, idxOut, count, aux, pc, line, accepted>>

Cells == 0 .. Size - 1

(* num: bytes to add to or subtract from count; seen: count as it was read *)
Ops == {"idle", "copied", "filled", "adding", "written", "subtracting"}
Doing(op, msg, num, seen) == [op |-> op, msg |-> msg, num |-> num, seen |-> seen]
Idle == Doing("idle", <<>>, 0, 0)

TxInit ==
    /\ ring = [i \in Cells |-> 0]
    /\ idxIn = 0 /\ idxOut = 0 /\ count = 0
    /\ aux = <<>>
    /\ pc = [t \in Threads |-> Idle]
    /\ line = <<>>
    /\ accepted = <<>>

-----------------------------------------------------------------------------
Wrap(i) == IF i >= Size THEN i - Size ELSE i

(* How many bytes may be written before idxIn meets idxOut. *)
Gap == IF idxIn < idxOut THEN idxOut - idxIn ELSE idxOut + Size - idxIn

(* The n bytes of the ring from cell i on. *)
Read(i, n) == [j \in 1 .. n |-> ring[Wrap(i + j - 1)]]

(* The ring with the bytes of s from idxIn on, as far as there is room. *)
Written(s) ==
    [i \in Cells |->
        LET j == (IF i >= idxIn THEN i - idxIn ELSE i + Size - idxIn) + 1
        IN  IF j <= Len(s) /\ j <= Gap THEN s[j] ELSE ring[i]]

Sent(m) == \E i \in DOMAIN accepted : accepted[i] = m
InHand(m) == \E t \in Threads : pc[t].op \in {"copied", "filled", "adding"} /\ pc[t].msg = m

(* usi_SendCmd: the first check, and the copy with header and checksum.    *)
(* The check reckons with no escapes; where it fails nothing changes.      *)
SendCopy(t, m) ==
    /\ pc[t] = Idle
    /\ ~Sent(m) /\ ~InHand(m)
    /\ (Size - count) % CountMod >= Len(m) + MinOverhead
    /\ aux' = Content(m)
    /\ pc' = [pc EXCEPT ![t] = Doing("copied", m, 0, 0)]
    /\ UNCHANGED <<ring, indexes, line, accepted>>

(* Mistake: what has been written of a frame that does not fit stays. *)
KeepsPart(t) ==
    LET f == Framed(aux)
    IN  /\ pc[t].op = "copied"
        /\ ring' = Written(f)
        /\ IF Len(f) < Gap
           THEN /\ idxIn' = Wrap(idxIn + Len(f))
                /\ pc' = [pc EXCEPT ![t] = Doing("filled", @.msg, Len(f), 0)]
           ELSE /\ idxIn' = idxOut
                /\ pc' = [pc EXCEPT ![t] = Idle]
        /\ UNCHANGED <<idxOut, count, aux, line, accepted>>

(* Mistake: a frame may fill the ring to the last cell. *)
FillsRing(t) ==
    LET f == Framed(aux)
    IN  /\ pc[t].op = "copied"
        /\ ring' = Written(f)
        /\ IF Len(f) <= Gap
           THEN /\ idxIn' = Wrap(idxIn + Len(f))
                /\ pc' = [pc EXCEPT ![t] = Doing("filled", @.msg, Len(f), 0)]
           ELSE /\ UNCHANGED idxIn
                /\ pc' = [pc EXCEPT ![t] = Idle]
        /\ UNCHANGED <<idxOut, count, aux, line, accepted>>

(* The frame is written byte by byte.  When idxIn meets idxOut it does not *)
(* fit, and idxIn is put back.                                             *)
SendFill(t) ==
    LET f == Framed(aux)
    IN  /\ pc[t].op = "copied"
        /\ ring' = Written(f)
        /\ IF Len(f) < Gap
           THEN /\ idxIn' = Wrap(idxIn + Len(f))
                /\ pc' = [pc EXCEPT ![t] = Doing("filled", @.msg, Len(f), 0)]
           ELSE /\ UNCHANGED idxIn
                /\ pc' = [pc EXCEPT ![t] = Idle]
        /\ UNCHANGED <<idxOut, count, aux, line, accepted>>

(* count += putChars: read ... *)
SendLoad(t) ==
    /\ pc[t].op = "filled"
    /\ pc' = [pc EXCEPT ![t] = Doing("adding", @.msg, @.num, count)]
    /\ UNCHANGED <<ring, indexes, aux, line, accepted>>

(* Mistake: the bytes are counted as they were before the escapes. *)
CountsUnescaped(t) ==
    /\ pc[t].op = "adding"
    /\ count' = (pc[t].seen + Len(aux) + 2) % CountMod
    /\ accepted' = Append(accepted, pc[t].msg)
    /\ pc' = [pc EXCEPT ![t] = Idle]
    /\ UNCHANGED <<ring, idxIn, idxOut, aux, line>>

(* ... and written. *)
SendStore(t) ==
    /\ pc[t].op = "adding"
    /\ count' = (pc[t].seen + pc[t].num) % CountMod
    /\ accepted' = Append(accepted, pc[t].msg)
    /\ pc' = [pc EXCEPT ![t] = Idle]
    /\ UNCHANGED <<ring, idxIn, idxOut, aux, line>>

(* usi_TxProcess: at most the bytes up to the end of the ring are written  *)
(* to the port, which takes some of them.  (If it takes none, nothing      *)
(* changes.)                                                               *)
TxLen == IF idxOut + count > Size THEN Size - idxOut ELSE count

TxWrite(k) ==
    /\ pc[Usi] = Idle
    /\ line' = line \o Read(idxOut, k)
    /\ pc' = [pc EXCEPT ![Usi] = Doing("written", <<>>, k, 0)]
    /\ UNCHANGED <<ring, indexes, aux, accepted>>

TxLoad ==
    /\ pc[Usi].op = "written"
    /\ pc' = [pc EXCEPT ![Usi] = Doing("subtracting", <<>>, @.num, count)]
    /\ UNCHANGED <<ring, indexes, aux, line, accepted>>

(* Mistake: idxOut does not start over at the end of the ring. *)
StoreRunsOn ==
    /\ pc[Usi].op = "subtracting"
    /\ count' = (pc[Usi].seen - pc[Usi].num) % CountMod
    /\ idxOut' = IF idxOut + pc[Usi].num > Size THEN 0 ELSE idxOut + pc[Usi].num
    /\ pc' = [pc EXCEPT ![Usi] = Idle]
    /\ UNCHANGED <<ring, idxIn, aux, line, accepted>>

(* count -= sentChars, idxOut += sentChars *)
TxStore ==
    /\ pc[Usi].op = "subtracting"
    /\ count' = (pc[Usi].seen - pc[Usi].num) % CountMod
    /\ idxOut' = Wrap(idxOut + pc[Usi].num)
    /\ pc' = [pc EXCEPT ![Usi] = Idle]
    /\ UNCHANGED <<ring, idxIn, aux, line, accepted>>

SendStep(t) == SendFill(t) \/ SendLoad(t) \/ SendStore(t)
TxStep      == (\E k \in 1 .. TxLen : TxWrite(k)) \/ TxLoad \/ TxStore

TxNext ==
    \/ \E t \in Threads : SendStep(t) \/ \E m \in Messages : SendCopy(t, m)
    \/ TxStep

-----------------------------------------------------------------------------
(* The bytes that usi_SendCmd has written and not yet added to count. *)
Ahead == IF pc[Usi].op \in {"filled", "adding"} THEN pc[Usi].num ELSE 0

(* The indexes and the count of the ring agree, so that neither does a     *)
(* frame overwrite bytes still to be sent nor are bytes sent that no frame *)
(* has written: idxIn is count bytes ahead of idxOut.                      *)
RingInSync ==
    /\ idxIn \in Cells /\ idxOut \in Cells
    /\ count + Ahead < Size
    /\ idxIn = idxOut + count + Ahead \/ idxIn + Size = idxOut + count + Ahead

(* usi_SendCmd: "If this point is reached, message is correct in buffer":  *)
(* what is in the ring is the end of the frames accepted, whole, in order  *)
(* and escaped, whatever was given up half-way in between.                 *)
RingHoldsFrames ==
    (\A t \in Threads : pc[t].op \in {"idle", "copied"}) =>
        count < Size /\ IsSuffix(Read(idxOut, count),
                                 FlattenSeq([i \in DOMAIN accepted |-> Frame(accepted[i])]))
=============================================================================
