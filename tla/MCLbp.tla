------------------------------- MODULE MCLbp -------------------------------
(* Instances of LbpBootstrap for TLC. *)
EXTENDS LbpBootstrap, TLC
CONSTANTS d1, d2, d3

TwoDevices == {d1, d2}
ThreeDevices == {d1, d2, d3}
AnyExtShort == [d \in Devices |-> 7]
Symmetry == Permutations(Devices)

(* The state after the first n devices have joined, one after the other    *)
(* and so all through slot 0, and all is quiet again.                      *)
Order == <<d1, d2, d3>>
Registered(i) == [NewDevice EXCEPT !.rand = i - 1, !.offer = i, !.short = i, !.keys = {0}]
RegisteredInit(n) ==
    /\ slots = [s \in Slots |->
          IF s = 0 THEN [FreshSlot EXCEPT !.addr = Order[n], !.short = n, !.randS = n - 1,
                                          !.msg = Msg("accepted", Order[n], 0, NoShort, 0),
                                          !.tx = 3 * n - 1]
                   ELSE FreshSlot]
    /\ list = [EmptyList EXCEPT !.size = n,
          !.ext = [i \in Cells |-> IF i < n THEN Order[i + 1] ELSE NoDevice]]
    /\ blacklist = <<>>
    /\ rekey = [on |-> FALSE, phase |-> "distribute", idx |-> 0]
    /\ keyIndex = 0
    /\ sent = 3 * n
    /\ rands = n
    /\ thread = [t \in {"main", "usi"} |-> Idle]
    /\ reqs = {}
    /\ up = [d \in Devices |-> <<>>]
    /\ dev = [d \in Devices |->
          IF \E i \in 1 .. n : Order[i] = d
          THEN Registered(CHOOSE i \in 1 .. n : Order[i] = d) ELSE NewDevice]
    /\ stimuli = 0

TwoRegistered == RegisteredInit(2) /\ [][Next]_vars

(* Where nothing is lost, the ADP, the devices and the usi thread go on. *)
PromptFairness ==
    /\ Fairness
    /\ WF_vars(\E r \in reqs : Deliver(r))
    /\ WF_vars(\E r \in reqs : ConfirmStep(r))
    /\ WF_vars(\E d \in Devices : HandleT1(d) \/ HandleT3(d))
=============================================================================
