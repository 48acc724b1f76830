----------------------------- MODULE UsiChannel -----------------------------
(***************************************************************************)
(* What the USI link promises: a message is handed on as it was accepted,  *)
(* in the order of acceptance and once; each byte damaged on the line      *)
(* costs at most the frame it hits and one more.                           *)
(***************************************************************************)
EXTENDS Naturals, Sequences

CONSTANT Messages
VARIABLES accepted, delivered, noise

Position(m) == CHOOSE i \in DOMAIN accepted : accepted[i] = m

(* The messages that come after all that have been handed on. *)
Following == IF delivered = <<>> THEN 1 ELSE Position(delivered[Len(delivered)]) + 1

Init == accepted = <<>> /\ delivered = <<>> /\ noise = 0

Accept(m) ==
    /\ \A i \in DOMAIN accepted : accepted[i] # m
    /\ accepted' = Append(accepted, m)
    /\ UNCHANGED <<delivered, noise>>

Damage == noise' = noise + 1 /\ UNCHANGED <<accepted, delivered>>

(* Message i is handed on; those skipped before it are lost. *)
Deliver(i) ==
    /\ i >= Following
    /\ i - 1 - Len(delivered) <= 2 * noise
    /\ delivered' = Append(delivered, accepted[i])
    /\ UNCHANGED <<accepted, noise>>

Next == \/ \E m \in Messages : Accept(m)
        \/ Damage
        \/ \E i \in DOMAIN accepted : Deliver(i)

Spec == Init /\ [][Next]_<<accepted, delivered, noise>>
=============================================================================
