----------------------------- MODULE MCTrouble -----------------------------
(* LbpBootstrap for TLC with a history variable that tells the devices for *)
(* which something went wrong.                                             *)
EXTENDS MCLbp

VARIABLE trouble   \* those a message or a reply of which has been lost, a confirm
                   \* has failed with an effect, or the timer has run out, since
                   \* they last asked to join

Trouble(d) ==
    \/ LoseReply(d)
    \/ \E r \in reqs : /\ r.msg.dev = d
                       /\ ConfirmProgress(r, FALSE) /\ ~ConfirmProgress(r, TRUE)
    \/ \E s \in Slots : slots[s].addr = d /\ CheckSlot(s)

TroubleNext ==
    /\ Next
    /\ trouble' = {d \in Devices : Trouble(d) \/ (d \in trouble /\ ~JoiningNew(d))}

JoinSpec == Init /\ trouble = {} /\ [][TroubleNext]_<<vars, trouble>>

RekeySpec ==
    /\ RegisteredInit(3) /\ trouble = {}
    /\ [][TroubleNext]_<<vars, trouble>>
    /\ PromptFairness

(* A device that has been accepted without trouble and has nothing under   *)
(* way is registered at the address it uses, whatever went wrong for the   *)
(* others and in its own earlier attempts.                                 *)
JoinedUntroubledIsListed ==
    \A d \in Devices \ trouble : JoinedListed(d)

(* A rekeying comes to its end: on a line that loses nothing and answers   *)
(* in time bs_main.c goes from confirm to confirm through both phases.     *)
RekeyingEndsUntroubled == rekey.on ~> (~rekey.on \/ trouble # {})
=============================================================================
