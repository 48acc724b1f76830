------------------------------ MODULE UsiQueue ------------------------------
(***************************************************************************)
(* What the transmit side of the USI link promises while one thread sends: *)
(* it is a queue of bytes.  usi_SendCmd puts the frame of a message behind *)
(* those before it, whole or not at all, and usi_TxProcess writes bytes to *)
(* the port from the front, each once.  On the line the other end takes    *)
(* them off in the same order, and they may be damaged.                    *)
(***************************************************************************)
EXTENDS Naturals, Sequences

CONSTANTS
    Messages,
    Frame(_)     \* what goes on the line for a message

VARIABLES queue, accepted, line

Init == queue = <<>> /\ accepted = <<>> /\ line = <<>>

Put(m) ==
    /\ accepted' = Append(accepted, m)
    /\ queue' = queue \o Frame(m)
    /\ UNCHANGED line

Write(k) ==
    /\ line' = line \o SubSeq(queue, 1, k)
    /\ queue' = SubSeq(queue, k + 1, Len(queue))
    /\ UNCHANGED accepted

(* The other end reads the first byte, or it is damaged. *)
OnLine ==
    /\ line # <<>>
    /\ \/ line' = Tail(line)
       \/ line' # <<>> /\ Tail(line') = Tail(line)
    /\ UNCHANGED <<queue, accepted>>

Next == \/ \E m \in Messages : Put(m)
        \/ \E k \in 1 .. Len(queue) : Write(k)
        \/ OnLine

Spec == Init /\ [][Next]_<<queue, accepted, line>>
=============================================================================
