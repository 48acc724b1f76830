------------------------------ MODULE UsiLink ------------------------------
(***************************************************************************)
(* The USI link from usi_SendCmd at one end to the layer above usi_Rx- and *)
(* usi_TxProcess at the other: a transmit side, a receive side and the     *)
(* serial line between them, on which bytes may be damaged.                *)
(***************************************************************************)
EXTENDS UsiTx, UsiRx

CONSTANTS
    Damages,     \* what may become of a byte on the line: another byte, or Gone
    Gone,
    MaxNoise     \* bound: bytes damaged

ASSUME LinkAssumption == Damages \subseteq Bytes \cup {Gone} /\ MaxNoise \in Nat

VARIABLE noise   \* bytes damaged so far

vars == <<txVars, rxVars, noise>>

Init == TxInit /\ RxInit /\ noise = 0

Transmit == TxNext /\ UNCHANGED <<rxVars, noise>>

TakeChar ==
    /\ line # <<>>
    /\ RxChar(Head(line))
    /\ line' = Tail(line)
    /\ UNCHANGED <<ring, indexes, aux, pc, accepted, noise>>

Receive ==
    /\ RxCall \/ (line = <<>> /\ RxReturn) \/ ProcessMsg
    /\ UNCHANGED <<txVars, noise>>

(* Damage is seen when the byte is read: it is enough to damage the next. *)
Damage(c) ==
    /\ noise < MaxNoise
    /\ line # <<>> /\ Head(line) # c
    /\ line' = IF c = Gone THEN Tail(line) ELSE [line EXCEPT ![1] = c]
    /\ noise' = noise + 1
    /\ UNCHANGED <<ring, indexes, aux, pc, accepted, rxVars>>

(* What is overwritten once a byte has been written behind the receive     *)
(* buffer is up to the linker, and nothing can be said of the program from *)
(* then on: the model ends there.                                          *)
Next ==
    /\ ~rxSpilt
    /\ \/ Transmit \/ TakeChar \/ Receive
       \/ \E c \in Damages : Damage(c)

(* addUsi_Process is called periodically at both ends, and the port takes  *)
(* bytes in the end.                                                       *)
Fairness ==
    /\ \A t \in Threads : WF_vars(~rxSpilt /\ SendStep(t) /\ UNCHANGED <<rxVars, noise>>)
    /\ SF_vars(~rxSpilt /\ TxStep /\ UNCHANGED <<rxVars, noise>>)
    /\ WF_vars(~rxSpilt /\ (TakeChar \/ Receive))

Spec == Init /\ [][Next]_vars
FairSpec == Spec /\ Fairness

-----------------------------------------------------------------------------
TypeOK ==
    /\ idxIn \in Cells /\ idxOut \in Cells /\ count \in 0 .. CountMod - 1
    /\ pc \in [Threads -> [op : Ops, msg : Messages \cup {<<>>}, num : 0 .. CountMod,
                           seen : 0 .. CountMod - 1]]
    /\ rxStat \in RxStates /\ rxIdx \in 0 .. RxSize /\ ready \in BOOLEAN
    /\ rxAt \in 0 .. RxSize + 1 /\ rxSpilt \in BOOLEAN /\ (rxAt > RxSize => rxSpilt)
    /\ rxOpen \in BOOLEAN
    /\ ready => rxStat = "eorx" /\ ~rxOpen
    /\ noise \in 0 .. MaxNoise

(* On a line that damages nothing no byte is written behind the receive    *)
(* buffer: usi_RxProcess compares only the index with its size, which is   *)
(* enough as long as no second escape sets back the index without the      *)
(* place in the buffer.                                                    *)
StaysInBuffer == noise = 0 => ~rxSpilt

(* The link keeps the promise of UsiChannel, up to a byte written behind   *)
(* the receive buffer.                                                     *)
Channel == INSTANCE UsiChannel WITH accepted <- accepted, delivered <- delivered, noise <- noise
KeepsPromise == Channel!Spec

(* What the ring holds and usi_TxProcess has not yet written to the port.  *)
Taken  == IF pc[Usi].op \in {"written", "subtracting"} THEN pc[Usi].num ELSE 0
Unsent == SubSeq(Read(idxOut, count), Taken + 1, count)

(* While one thread sends, the transmit side is a queue of bytes: each     *)
(* frame accepted goes to the port once, byte after byte, behind those     *)
(* before it, and a frame given up half-way leaves nothing of itself.      *)
Queue == INSTANCE UsiQueue WITH queue <- Unsent, accepted <- accepted, line <- line
SendsInOrder == Queue!Spec

(* Every message accepted is handed on in the end, but for at most two for *)
(* each byte damaged, unless a byte is written behind the receive buffer.  *)
AcceptedArrive == <>[](rxSpilt \/ Len(accepted) <= Len(delivered) + 2 * noise)
=============================================================================
