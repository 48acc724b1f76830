---------------------------- MODULE LbpBootstrap ----------------------------
(***************************************************************************)
(* The LoWPAN bootstrap server of the G3 coordinator: bs_main.c and        *)
(* bs_functions.c of src/g3coordd_linux/g3/bootstrap/source.  Devices join *)
(* through a four-message EAP-PSK exchange, each tracked in one of a few   *)
(* slots; registered devices are given a new group key by the rekeying.    *)
(*                                                                         *)
(* Two threads run this code without a lock.  The usi thread runs the ADP  *)
(* callbacks (LBP indications and confirms), the main thread runs          *)
(* bs_process and the calls of bs_api.h.  The ADP below, the power line    *)
(* and the devices are modelled by what this code relies on.               *)
(***************************************************************************)
EXTENDS LbdList, Sequences

CONSTANTS
    NumSlots,     \* BOOTSTRAP_NUM_SLOTS
    Unset,        \* the all-ones extended address of a slot never used
    Api,          \* the calls of bs_api.h the application makes
    Env,          \* what the ADP, the power line and the devices may do
    MaxStimuli    \* bound: joining attempts, departures and API calls

ApiCalls == {"rekey", "kick", "manual", "blacklist", "initial"}

(* What Env may hold.  late: a confirm may come after the slot's timer;    *)
(* slow: so may a reply; drop: a confirm may be lost on the serial link;   *)
(* loss: a message, a reply or an acknowledgement may be lost; early: a    *)
(* reply may precede the confirm of the request it answers; overrun: and   *)
(* those of the requests before that one; reorder: messages and confirms   *)
(* of one slot, and the replies to them, may overtake each other; restart: *)
(* a device may start over at any time; randp: it may then draw the same   *)
(* RandP again; leave: a joined device may leave; preempt: the usi thread  *)
(* may run between a test of bs_process and its effect.                    *)
EnvChoices == {"late", "slow", "drop", "loss", "early", "overrun", "reorder",
               "restart", "randp", "leave", "preempt"}

ASSUME LbpAssumption ==
    /\ NumSlots \in Nat \ {0}
    /\ Unset \notin Devices \cup {NoDevice}
    /\ Api \subseteq ApiCalls
    /\ Env \subseteq EnvChoices
    /\ MaxStimuli \in Nat

VARIABLES
    slots,         \* bootstrap_slots
    list,          \* g_lbds_list and its size, g_current_context.initialShortAddr
    blacklist,     \* puc_blacklist
    rekey,         \* m_bRekey, us_rekey_phase and us_rekey_idx
    keyIndex,      \* g_au8CurrKeyIndex
    sent,          \* requests sent so far: uc_nsdu_handle is sent modulo 256
    rands,         \* randS values drawn so far
    thread,        \* what each thread is in the middle of
    reqs,          \* LBP requests the ADP has not confirmed
    up,            \* per device, its messages on the way to the coordinator
    dev,           \* per device, what it knows
    stimuli        \* stimuli so far

coordVars == <<slots, list, blacklist, rekey, keyIndex, sent, rands, thread>>
vars == <<coordVars, reqs, up, dev, stimuli>>

Slots    == 0 .. NumSlots - 1
NoSlot   == NumSlots
NoShort  == -1
KeyIds   == {0, 1}
Handles  == 256
OtherKey == 1 - keyIndex

States == {"free", "sent1", "wait2", "sent3", "wait4", "accepted", "declined"}
Kinds  == {"none", "msg1", "msg3", "accepted", "activate", "decline", "kick", "bare"}

(* The data of an LBP message that the properties can tell apart. *)
Msg(kind, d, rand, short, key) ==
    [kind |-> kind, dev |-> d, rand |-> rand, short |-> short, key |-> key]
NoMsg == Msg("none", NoDevice, 0, NoShort, 0)

Messages == [kind : Kinds, dev : Devices \cup {NoDevice}, rand : Nat,
             short : Nat \cup {NoShort}, key : KeyIds]

SlotRecords == [state : States, addr : Devices \cup {NoDevice, Unset},
                short : Nat, randS : Nat, msg : Messages,
                tx : 0 .. Handles - 1, ptx : 0 .. Handles - 1,
                pending : 0 .. Handles - 1, attempts : {0, 1}]

(* init_bootstrap_slots *)
FreshSlot == [state |-> "free", addr |-> Unset, short |-> 0, randS |-> 0,
              msg |-> NoMsg, tx |-> 255, ptx |-> 0, pending |-> 0,
              attempts |-> 0]

(* What a thread is doing: bs_process has tested a slot, or the thread is  *)
(* in the AdpGetRequestSync of a rekeying or a kick.  timed: the slot's    *)
(* timer was started by the confirm that leads to this wait.               *)
Idle == [op |-> "idle", slot |-> 0, dev |-> NoDevice, short |-> 0, timed |-> FALSE]
Doing(op, s) == [Idle EXCEPT !.op = op, !.slot = s]

ThreadRecords == [op : {"idle", "resend", "reset", "never", "rekey", "kick"},
                  slot : Slots, dev : Devices \cup {NoDevice}, short : Nat,
                  timed : BOOLEAN]

Requests == [n : Nat, h : 0 .. Handles - 1, slot : Slots \cup {NoSlot},
             msg : Messages, delivered : BOOLEAN]

UpMsgs == [type : {"T1", "T3", "leave"}, rand : Nat, n : Int,
           short : Nat \cup {NoShort}]

DeviceRecords == [stage : {"idle", "msg1", "msg3"}, rand : Nat,
                  offer : Nat \cup {NoShort}, key : KeyIds,
                  short : Nat \cup {NoShort}, keys : SUBSET KeyIds, active : KeyIds]

NewDevice == [stage |-> "idle", rand |-> 0, offer |-> NoShort, key |-> 0,
              short |-> NoShort, keys |-> {}, active |-> 0]

Init ==
    /\ slots = [s \in Slots |-> FreshSlot]
    /\ list = EmptyList
    /\ blacklist = <<>>
    /\ rekey = [on |-> FALSE, phase |-> "distribute", idx |-> 0]
    /\ keyIndex = 0
    /\ sent = 0
    /\ rands = 0
    /\ thread = [t \in {"main", "usi"} |-> Idle]
    /\ reqs = {}
    /\ up = [d \in Devices |-> <<>>]
    /\ dev = [d \in Devices |-> NewDevice]
    /\ stimuli = 0

-----------------------------------------------------------------------------
(* Slots and requests *)

(* Mistake: a free slot is preferred to the slot of the exchange. *)
FreeSlotsFirst(ss, d) ==
    LET idle == {s \in Slots : ss[s].state = "free"}
    IN  IF idle # {} THEN idle ELSE {s \in Slots : ss[s].addr = d}

(* get_bootstrap_slot_by_addr: the first slot last used for that address,  *)
(* busy or not, or else the first free slot.                               *)
SlotsFor(ss, d) ==
    LET used == {s \in Slots : ss[s].addr = d}
    IN  IF used # {} THEN used ELSE {s \in Slots : ss[s].state = "free"}
HasSlot(ss, d) == SlotsFor(ss, d) # {}
SlotFor(ss, d) == Min(SlotsFor(ss, d))

(* Every LBP message first empties the buffer of its device's slot. *)
Clear(ss, d) ==
    IF HasSlot(ss, d) THEN [ss EXCEPT ![SlotFor(ss, d)] = [@ EXCEPT !.msg = NoMsg]] ELSE ss

(* Mistake: the confirms of an aborted exchange stay awaited. *)
AbortStillAwaiting(r) == [r EXCEPT !.state = "free"]

Abort(r) == [r EXCEPT !.state = "free", !.pending = 0]

(* Mistake: uc_nsdu_handle is never incremented. *)
SameHandle == 0

NextHandle == sent % Handles

(* Mistake: the earlier of two handles is not kept. *)
TransmitForgetsEarlier(r) == [r EXCEPT !.tx = NextHandle, !.pending = (@ + 1) % Handles]

(* The bookkeeping of a slot around each AdpLbpRequest. *)
Transmit(r) == [r EXCEPT !.ptx = IF r.pending > 0 THEN r.tx ELSE @,
                         !.tx = NextHandle,
                         !.pending = (@ + 1) % Handles]

Request(s, m) == [n |-> sent, h |-> NextHandle, slot |-> s, msg |-> m,
                  delivered |-> FALSE]

(* Slot s, after the changes in r, sends its buffer. *)
SendFrom(s, r) ==
    /\ slots' = [slots EXCEPT ![s] = Transmit(r)]
    /\ reqs' = reqs \cup {Request(s, r.msg)}
    /\ sent' = sent + 1

SendFirst(s, r) == SendFrom(s, [r EXCEPT !.attempts = 0])

(* A new exchange: Process_Joining0 up to its address assignment. *)
Challenge(r, d) == [r EXCEPT !.state = "sent1", !.addr = d, !.randS = rands,
                             !.msg = Msg("msg1", d, rands, NoShort, 0)]

UsiRuns  == /\ thread["usi"] = Idle
            /\ thread["main"].op \in {"resend", "reset", "never"} => "preempt" \in Env
MainRuns == thread["main"] = Idle

(* Nothing is under way to or from a device. *)
Quiet(d) == up[d] = <<>> /\ \A r \in reqs : r.msg.dev # d

Stimulus == stimuli < MaxStimuli /\ stimuli' = stimuli + 1

-----------------------------------------------------------------------------
(* LBP indications: ProcessLBPMessage, in the usi thread *)

(* A device asks to join: a joining request without bootstrapping data.    *)
(* It does so while it has no address and nothing is under way for it; or  *)
(* at any time, but after its own replies unless messages may overtake     *)
(* each other.                                                             *)
JoiningFrom(d) ==
    /\ UsiRuns
    /\ Stimulus
    /\ up[d] = <<>> \/ "reorder" \in Env
    /\ (dev[d].short = NoShort /\ Quiet(d)) \/ "restart" \in Env
    /\ dev' = [dev EXCEPT ![d] = [@ EXCEPT !.stage = "idle", !.short = NoShort]]
    /\ UNCHANGED <<blacklist, rekey, keyIndex, thread, up>>

JoiningNoSlot(d) ==
    /\ JoiningFrom(d)
    /\ ~HasSlot(slots, d)
    /\ UNCHANGED <<slots, list, sent, rands, reqs>>

DevIsInBlacklist(d) == \E i \in 1 .. Len(blacklist) : blacklist[i] = d

(* A blacklisted device is declined, in whatever state its slot is. *)
JoiningDeclined(d) ==
    /\ JoiningFrom(d)
    /\ HasSlot(slots, d)
    /\ DevIsInBlacklist(d)
    /\ LET s == SlotFor(slots, d)
       IN  SendFirst(s, [slots[s] EXCEPT !.state = "declined", !.addr = d,
                                 !.msg = Msg("decline", d, 0, NoShort, 0)])
    /\ UNCHANGED <<list, rands>>

(* Process_Joining0: while no rekeying runs, the device's old entry goes   *)
(* and an address is set aside for it; during a rekeying, neither.         *)
JoiningNew(d) ==
    /\ JoiningFrom(d)
    /\ HasSlot(slots, d)
    /\ ~DevIsInBlacklist(d)
    /\ LET s == SlotFor(slots, d)
           l == Forget(list, d)
           r == Challenge(slots[s], d)
       IN  /\ slots[s].state = "free"
           /\ SendFirst(s, IF rekey.on THEN r ELSE [r EXCEPT !.short = NewAddress(l, d)])
           /\ list' = IF rekey.on THEN list ELSE Grow(l)
    /\ rands' = rands + 1

(* A repeated request is ignored, but the slot's buffer is gone. *)
JoiningRepeated(d) ==
    /\ JoiningFrom(d)
    /\ HasSlot(slots, d)
    /\ ~DevIsInBlacklist(d)
    /\ slots[SlotFor(slots, d)].state # "free"
    /\ slots' = Clear(slots, d)
    /\ UNCHANGED <<list, sent, rands, reqs>>

(* The next message from a device that the power line delivers. *)
Receives(d, type) ==
    /\ UsiRuns
    /\ up[d] # <<>> /\ Head(up[d]).type = type
    /\ \A r \in reqs : r.n = Head(up[d]).n => "early" \in Env
    /\ \A r \in reqs : r.msg.dev = d /\ r.n < Head(up[d]).n => "overrun" \in Env
    /\ up' = [up EXCEPT ![d] = Tail(@)]
    /\ UNCHANGED <<blacklist, rekey, keyIndex, rands, thread, dev, stimuli>>

Expects(r, type) == \/ type = "T1" /\ r.state \in {"wait2", "sent1"}
                    \/ type = "T3" /\ r.state \in {"wait4", "sent3"}

(* Process_Joining_EAP_T1: a normal join carries the assigned address and  *)
(* the current key, a rekeying only the new key.                           *)
HandleT1(d) ==
    /\ Receives(d, "T1")
    /\ HasSlot(slots, d)
    /\ LET s == SlotFor(slots, d)
       IN  /\ Expects(slots[s], "T1") /\ Head(up[d]).rand = slots[s].randS
           /\ SendFirst(s, [slots[s] EXCEPT !.state = "sent3",
                 !.msg = IF rekey.on THEN Msg("msg3", d, slots[s].randS, NoShort, OtherKey)
                         ELSE Msg("msg3", d, slots[s].randS, slots[s].short, keyIndex)])
    /\ UNCHANGED list

(* Process_Joining_EAP_T3: the device has proved that it holds the keys of *)
(* this exchange.                                                          *)
HandleT3(d) ==
    /\ Receives(d, "T3")
    /\ HasSlot(slots, d)
    /\ LET s == SlotFor(slots, d)
       IN  /\ Expects(slots[s], "T3") /\ Head(up[d]).rand = slots[s].randS
           /\ SendFirst(s, [slots[s] EXCEPT !.state = "accepted",
                                 !.msg = Msg("accepted", d, 0, NoShort, 0)])
    /\ UNCHANGED list

(* A T3 with another RandS, of an earlier exchange, that decodes since the *)
(* device drew the same RandP in both: the exchange is aborted, and what   *)
(* was encoded so far, an EAP success without its LBP header, is sent from *)
(* the slot that has just been freed.                                      *)
HandleBadRandS(d) ==
    /\ "randp" \in Env
    /\ Receives(d, "T3")
    /\ HasSlot(slots, d)
    /\ LET s == SlotFor(slots, d)
       IN  /\ Expects(slots[s], "T3") /\ Head(up[d]).rand # slots[s].randS
           /\ SendFirst(s, [Abort(slots[s]) EXCEPT !.msg = Msg("bare", d, 0, NoShort, 0)])
    /\ UNCHANGED list

(* Anything else of the exchange aborts it: a repeated reply, or one of an *)
(* earlier exchange, which does not decode under the keys of this one.     *)
HandleUnexpected(d, type) ==
    /\ Receives(d, type)
    /\ IF HasSlot(slots, d)
       THEN LET s == SlotFor(slots, d)
            IN  /\ ~(Expects(slots[s], type) /\ Head(up[d]).rand = slots[s].randS)
                /\ slots' = [Clear(slots, d) EXCEPT ![s] = Abort(@)]
       ELSE UNCHANGED slots
    /\ UNCHANGED <<list, sent, reqs>>

(* LBP_KICK_FROM_LBD: the entry at the sender's address is removed. *)
KickFromLbd(d) ==
    /\ Receives(d, "leave")
    /\ slots' = Clear(slots, d)
    /\ list' = RemoveEntry(list, Head(up[d]).short)
    /\ UNCHANGED <<sent, reqs>>

-----------------------------------------------------------------------------
(* The rekeying: _rekeying_process up to its wait, in thread t.  ss is the *)
(* slot table the caller leaves, rk the rekeying state it has set, timer   *)
(* the slot whose timer it has started.  In the activation phase the slot  *)
(* keeps the address it was last used for.                                 *)
RekeyingProcess(t, ss, rk, timer) ==
    LET d == list.ext[rk.idx]
        s == SlotFor(ss, d)
    IN  /\ rekey' = rk
        /\ IF HasSlot(ss, d)
           THEN /\ slots' = [ss EXCEPT ![s] =
                      IF rk.phase = "distribute" THEN Challenge(@, d)
                      ELSE [@ EXCEPT !.state = "accepted",
                                     !.msg = Msg("activate", d, 0, NoShort, OtherKey)]]
                /\ rands' = IF rk.phase = "distribute" THEN rands + 1 ELSE rands
                /\ thread' = [thread EXCEPT ![t] =
                      [Doing("rekey", s) EXCEPT !.timed = (s = timer)]]
           ELSE /\ slots' = ss
                /\ UNCHANGED <<rands, thread>>

(* AdpGetRequestSync returns, at the latest after its 3 seconds, and the   *)
(* slot's buffer is sent.                                                  *)
RekeySend(t) ==
    /\ thread[t].op = "rekey"
    /\ SendFirst(thread[t].slot, slots[thread[t].slot])
    /\ thread' = [thread EXCEPT ![t] = Idle]
    /\ UNCHANGED <<list, blacklist, rekey, keyIndex, rands, up, dev, stimuli>>

-----------------------------------------------------------------------------
(* LBP confirms: AdpNotification_LbpConfirm, in the usi thread *)

(* Mistakes: any confirm is taken for the awaited one; that of an earlier  *)
(* request is not taken, or taken without asking how many are pending.     *)
MatchesAnyHandle(r, h)  == r.pending = 1 /\ r.state # "free"
MatchesNoEarlier(r, h)  == FALSE
MatchesAnyEarlier(r, h) == h = r.ptx

(* The three ways a confirm for handle h is matched with a slot. *)
MatchesOnly(r, h)    == r.pending = 1 /\ h = r.tx /\ r.state # "free"
MatchesEarlier(r, h) == r.pending = 2 /\ h = r.ptx
MatchesLater(r, h)   == r.pending = 2 /\ h = r.tx
Matches(r, h) == MatchesOnly(r, h) \/ MatchesEarlier(r, h) \/ MatchesLater(r, h)

AfterSuccess(state) == CASE state = "sent1" -> "wait2"
                         [] state = "sent3" -> "wait4"
                         [] OTHER -> "free"

Confirmed(r, h, ok) ==
    CASE MatchesOnly(r, h) -> [r EXCEPT !.pending = 0,
                    !.state = IF ok THEN AfterSuccess(r.state) ELSE "free"]
      [] MatchesEarlier(r, h) -> [r EXCEPT !.pending = 1]
      [] MatchesLater(r, h) /\ ~MatchesEarlier(r, h) ->
                    [r EXCEPT !.pending = 1, !.tx = r.ptx]
      [] OTHER -> r

Matched(h) == {s \in Slots : Matches(slots[s], h)}

(* All slots are tried; the last one that matches is the current one. *)
Current(h) == Max(Matched(h))
AfterConfirm(h, ok) == [s \in Slots |-> Confirmed(slots[s], h, ok)]

JoinFinished(h, ok) ==
    ok /\ \E s \in Slots : MatchesOnly(slots[s], h) /\ slots[s].state = "accepted"

(* The ADP reports success only for a message that arrived; it reports a   *)
(* failure on loss, and for what it cannot send.                           *)
Sendable(m) == m.kind # "none" /\ m.dev \in Devices
FirstOfSlot(r) == "reorder" \in Env \/ \A q \in reqs : q.slot = r.slot => q.n >= r.n

ConfirmFor(r, ok) ==
    /\ UsiRuns
    /\ FirstOfSlot(r)
    /\ IF ok THEN r.delivered ELSE "loss" \in Env \/ ~Sendable(r.msg)
    /\ reqs' = reqs \ {r}
    /\ UNCHANGED <<blacklist, sent, up, dev, stimuli>>

ConfirmProgress(r, ok) ==
    /\ ConfirmFor(r, ok)
    /\ ~JoinFinished(r.h, ok)
    /\ slots' = AfterConfirm(r.h, ok)
    /\ UNCHANGED <<list, rekey, keyIndex, rands, thread>>

(* A join has finished: the device is registered.  That it may not be      *)
(* (add_lbds_list_entry fails) is ignored.                                 *)
ConfirmJoin(r) ==
    /\ ConfirmFor(r, TRUE)
    /\ JoinFinished(r.h, TRUE) /\ ~rekey.on
    /\ slots' = AfterConfirm(r.h, TRUE)
    /\ LET c == slots[Current(r.h)]
       IN  list' = IF c.addr \in Devices THEN AddEntry(list, c.addr, c.short) ELSE list
    /\ UNCHANGED <<rekey, keyIndex, rands, thread>>

(* A device has been rekeyed: on to the next one ... *)
ConfirmRekeyNext(r) ==
    /\ ConfirmFor(r, TRUE)
    /\ JoinFinished(r.h, TRUE) /\ rekey.on
    /\ rekey.idx < LbdsCount(list) - 1
    /\ RekeyingProcess("usi", AfterConfirm(r.h, TRUE),
                       [rekey EXCEPT !.idx = @ + 1], Current(r.h))
    /\ UNCHANGED <<list, keyIndex>>

(* Mistake: the activation does not start over at the first device. *)
PhaseFromHere(r) ==
    /\ ConfirmFor(r, TRUE)
    /\ JoinFinished(r.h, TRUE) /\ rekey.on
    /\ rekey.idx >= LbdsCount(list) - 1
    /\ rekey.phase = "distribute"
    /\ RekeyingProcess("usi", AfterConfirm(r.h, TRUE),
                       [rekey EXCEPT !.phase = "activate"], Current(r.h))
    /\ UNCHANGED <<list, keyIndex>>

(* ... or, after the last one, to the activation of the new key ... *)
ConfirmRekeyPhase(r) ==
    /\ ConfirmFor(r, TRUE)
    /\ JoinFinished(r.h, TRUE) /\ rekey.on
    /\ rekey.idx >= LbdsCount(list) - 1
    /\ rekey.phase = "distribute"
    /\ RekeyingProcess("usi", AfterConfirm(r.h, TRUE),
                       [rekey EXCEPT !.phase = "activate", !.idx = 0], Current(r.h))
    /\ UNCHANGED <<list, keyIndex>>

(* Mistake: the rekeying is never switched off. *)
EndStaysOn(r) ==
    /\ ConfirmFor(r, TRUE)
    /\ JoinFinished(r.h, TRUE) /\ rekey.on
    /\ rekey.idx >= LbdsCount(list) - 1
    /\ rekey.phase = "activate"
    /\ slots' = AfterConfirm(r.h, TRUE)
    /\ rekey' = [rekey EXCEPT !.idx = 0]
    /\ keyIndex' = OtherKey
    /\ UNCHANGED <<list, rands, thread>>

(* ... or to the end, where the coordinator activates it too. *)
ConfirmRekeyEnd(r) ==
    /\ ConfirmFor(r, TRUE)
    /\ JoinFinished(r.h, TRUE) /\ rekey.on
    /\ rekey.idx >= LbdsCount(list) - 1
    /\ rekey.phase = "activate"
    /\ slots' = AfterConfirm(r.h, TRUE)
    /\ rekey' = [rekey EXCEPT !.on = FALSE, !.idx = 0]
    /\ keyIndex' = OtherKey
    /\ UNCHANGED <<list, rands, thread>>

-----------------------------------------------------------------------------
(* The main thread: bs_process and the calls of bs_api.h *)

(* A timer runs for 10 message timeouts after a send and for one after a   *)
(* confirm.  Without "late" the ADP confirms before it runs out (without   *)
(* "drop", always) and without "slow" the device's replies are handled     *)
(* before.  The 3 seconds that a rekeying waits are shorter.  Otherwise it *)
(* may be past at any time.                                                *)
TimeoutMayBePast(s) ==
    /\ ~(thread["usi"].timed /\ thread["usi"].slot = s)
    /\ "late" \in Env \/ \A r \in reqs : r.slot # s
    /\ "slow" \in Env \/ \A d \in Devices : d = slots[s].addr => up[d] = <<>>

(* update_bootstrap_slots looks at slot s when its timer is past ... *)
CheckSlot(s) ==
    /\ MainRuns
    /\ slots[s].state # "free" /\ TimeoutMayBePast(s)
    /\ thread' = [thread EXCEPT !["main"] =
          Doing(IF slots[s].pending # 0 THEN "never"
                ELSE IF slots[s].attempts < 1 THEN "resend" ELSE "reset", s)]
    /\ UNCHANGED <<slots, list, blacklist, rekey, keyIndex, sent, rands,
                   reqs, up, dev, stimuli>>

BackToSent(state) == CASE state = "wait2" -> "sent1"
                       [] state = "wait4" -> "sent3"
                       [] OTHER -> state

(* ... and sends its buffer again, if there is something in it ... *)
ResendSlot(s) ==
    LET r == [slots[s] EXCEPT !.attempts = 1, !.state = BackToSent(@)]
    IN  /\ thread["main"] = Doing("resend", s)
        /\ thread' = [thread EXCEPT !["main"] = Idle]
        /\ IF r.msg.kind # "none"
           THEN SendFrom(s, r)
           ELSE slots' = [slots EXCEPT ![s] = r] /\ UNCHANGED <<reqs, sent>>
        /\ UNCHANGED <<list, blacklist, rekey, keyIndex, rands, up, dev, stimuli>>

(* Mistake: a slot with pending confirms is left to wait for them. *)
ResetUnlessPending(s) ==
    /\ thread["main"] \in {Doing("reset", s), Doing("never", s)}
    /\ thread' = [thread EXCEPT !["main"] = Idle]
    /\ slots' = IF slots[s].pending > 0 THEN slots ELSE [slots EXCEPT ![s] = Abort(@)]
    /\ UNCHANGED <<list, blacklist, rekey, keyIndex, sent, rands, reqs, up, dev, stimuli>>

(* ... or frees it: after the last attempt, or where the code says it      *)
(* should never be.                                                        *)
ResetSlot(s) ==
    /\ thread["main"] \in {Doing("reset", s), Doing("never", s)}
    /\ thread' = [thread EXCEPT !["main"] = Idle]
    /\ slots' = [slots EXCEPT ![s] = Abort(@)]
    /\ UNCHANGED <<list, blacklist, rekey, keyIndex, sent, rands, reqs, up, dev, stimuli>>

ApiCall(name) == name \in Api /\ MainRuns /\ Stimulus

(* bs_lbp_launch_rekeying *)
LaunchRekeying ==
    /\ ApiCall("rekey")
    /\ LbdsCount(list) > 0
    /\ RekeyingProcess("main", slots, [on |-> TRUE, phase |-> "distribute", idx |-> 0],
                       NoSlot)
    /\ UNCHANGED <<list, blacklist, keyIndex, sent, reqs, up, dev>>

(* bs_lbp_kick_device up to its AdpGetRequestSync ... *)
KickDevice(a) ==
    /\ ApiCall("kick")
    /\ DeviceIsInList(list, a)
    /\ thread' = [thread EXCEPT !["main"] =
          [Doing("kick", 0) EXCEPT !.dev = list.ext[a - list.initial], !.short = a]]
    /\ UNCHANGED <<slots, list, blacklist, rekey, keyIndex, sent, rands, reqs, up, dev>>

(* ... and after it: by then the entry may be another device's. *)
KickSend ==
    LET k == thread["main"]
    IN  /\ k.op = "kick"
        /\ reqs' = reqs \cup {Request(NoSlot, Msg("kick", k.dev, 0, NoShort, 0))}
        /\ sent' = sent + 1
        /\ list' = RemoveEntry(list, k.short)
        /\ thread' = [thread EXCEPT !["main"] = Idle]
        /\ UNCHANGED <<slots, blacklist, rekey, keyIndex, rands, up, dev, stimuli>>

(* bs_lbp_set_param: LBP_IB_DEVICE_LIST, ..._INITIAL_SHORT_ADDRESS (refused *)
(* while a device is registered) and ..._ADD_DEVICE_TO_BLACKLIST, which has *)
(* MAX_LBDS entries too and says nothing when they are used up.            *)
SetDeviceList(d, a) ==
    /\ ApiCall("manual")
    /\ list' = AddEntry(list, d, a)
    /\ UNCHANGED <<slots, blacklist, rekey, keyIndex, sent, rands, thread, reqs, up, dev>>

SetInitialShortAddress(a) ==
    /\ ApiCall("initial")
    /\ ~ShortFromExt /\ LbdsCount(list) = 0
    /\ list' = SetInitial(list, a)
    /\ UNCHANGED <<slots, blacklist, rekey, keyIndex, sent, rands, thread, reqs, up, dev>>

AddDeviceToBlacklist(d) ==
    /\ ApiCall("blacklist")
    /\ blacklist' = IF Len(blacklist) < MaxLbds THEN Append(blacklist, d) ELSE blacklist
    /\ UNCHANGED <<slots, list, rekey, keyIndex, sent, rands, thread, reqs, up, dev>>

-----------------------------------------------------------------------------
(* The ADP, the power line and the devices *)

(* What a device knows after a message: it answers each step of the        *)
(* exchange it is in, and uses what it was given once it is accepted.      *)
Learn(v, m) ==
    CASE m.kind = "msg1" ->
            IF v.rand = m.rand /\ v.stage # "idle" THEN v
            ELSE [v EXCEPT !.stage = "msg1", !.rand = m.rand]
      [] m.kind = "msg3" ->
            IF v.rand # m.rand \/ v.stage = "idle" THEN v
            ELSE [v EXCEPT !.stage = "msg3", !.offer = m.short, !.key = m.key]
      [] m.kind = "accepted" ->
            IF v.stage # "msg3" THEN v
            ELSE IF v.offer = NoShort
                 THEN [v EXCEPT !.stage = "idle", !.keys = @ \cup {v.key}]
                 ELSE [v EXCEPT !.stage = "idle", !.short = v.offer,
                                !.keys = {v.key}, !.active = v.key]
      [] m.kind = "activate" ->
            [v EXCEPT !.active = IF m.key \in v.keys THEN m.key ELSE @]
      [] m.kind = "decline" -> [v EXCEPT !.stage = "idle"]
      [] m.kind = "kick"    -> [v EXCEPT !.stage = "idle", !.short = NoShort]
      [] OTHER -> v

UpMsg(type, rand, n, short) == [type |-> type, rand |-> rand, n |-> n, short |-> short]

Reply(v, r) ==
    CASE r.msg.kind = "msg1" -> <<UpMsg("T1", r.msg.rand, r.n, 0)>>
      [] r.msg.kind = "msg3" /\ v.rand = r.msg.rand /\ v.stage # "idle" ->
                                 <<UpMsg("T3", r.msg.rand, r.n, 0)>>
      [] OTHER -> <<>>

Deliver(r) ==
    LET d == r.msg.dev
    IN  /\ Sendable(r.msg) /\ ~r.delivered
        /\ "reorder" \in Env \/ \A q \in reqs :
               q.slot = r.slot /\ q.n < r.n => q.delivered
        /\ reqs' = (reqs \ {r}) \cup {[r EXCEPT !.delivered = TRUE]}
        /\ dev' = [dev EXCEPT ![d] = Learn(@, r.msg)]
        /\ up' = [up EXCEPT ![d] = @ \o Reply(dev[d], r)]
        /\ UNCHANGED <<coordVars, stimuli>>

LoseReply(d) ==
    /\ "loss" \in Env
    /\ up[d] # <<>>
    /\ up' = [up EXCEPT ![d] = Tail(@)]
    /\ UNCHANGED <<coordVars, reqs, dev, stimuli>>

(* A T3 is overtaken by the T1 that the device sent after it, in a later   *)
(* exchange.                                                               *)
DelayT3(d) ==
    /\ "reorder" \in Env
    /\ Len(up[d]) > 1 /\ up[d][1].type = "T3" /\ up[d][2].type = "T1"
    /\ up' = [up EXCEPT ![d] = [up[d] EXCEPT ![1] = up[d][2], ![2] = up[d][1]]]
    /\ UNCHANGED <<coordVars, reqs, dev, stimuli>>

LoseConfirm(r) ==
    /\ "drop" \in Env
    /\ reqs' = reqs \ {r}
    /\ UNCHANGED <<coordVars, up, dev, stimuli>>

(* A joined device leaves: it tells the coordinator from its address. *)
Leave(d) ==
    /\ "leave" \in Env
    /\ Stimulus
    /\ dev[d].short # NoShort
    /\ up' = [up EXCEPT ![d] = Append(@, UpMsg("leave", 0, -1, dev[d].short))]
    /\ dev' = [dev EXCEPT ![d] = [@ EXCEPT !.stage = "idle", !.short = NoShort]]
    /\ UNCHANGED <<coordVars, reqs>>

-----------------------------------------------------------------------------
Indication(d) ==
    \/ JoiningNoSlot(d) \/ JoiningDeclined(d) \/ JoiningNew(d) \/ JoiningRepeated(d)
    \/ HandleT1(d) \/ HandleT3(d) \/ HandleBadRandS(d) \/ KickFromLbd(d)
    \/ \E type \in {"T1", "T3"} : HandleUnexpected(d, type)

ConfirmStep(r) ==
    \/ \E ok \in BOOLEAN : ConfirmProgress(r, ok)
    \/ ConfirmJoin(r)
    \/ ConfirmRekeyNext(r) \/ ConfirmRekeyPhase(r) \/ ConfirmRekeyEnd(r)

BsProcess(s) == CheckSlot(s) \/ ResendSlot(s) \/ ResetSlot(s)

ApiStep ==
    \/ LaunchRekeying
    \/ \E a \in list.initial .. list.initial + MaxLbds :
          \/ KickDevice(a)
          \/ \E d \in Devices : SetDeviceList(d, a)
    \/ \E a \in 1 .. 2 : SetInitialShortAddress(a)
    \/ \E d \in Devices : AddDeviceToBlacklist(d)

Network ==
    \/ \E r \in reqs : Deliver(r) \/ LoseConfirm(r)
    \/ \E d \in Devices : LoseReply(d) \/ DelayT3(d) \/ Leave(d)

Next ==
    \/ \E d \in Devices : Indication(d)
    \/ \E r \in reqs : ConfirmStep(r)
    \/ \E s \in Slots : BsProcess(s)
    \/ \E t \in {"main", "usi"} : RekeySend(t)
    \/ KickSend
    \/ ApiStep
    \/ Network

Fairness ==
    /\ \A s \in 0 .. NumSlots - 1 : WF_vars(BsProcess(s))
    /\ \A t \in {"main", "usi"} : WF_vars(RekeySend(t))
    /\ WF_vars(KickSend)

Spec == Init /\ [][Next]_vars
FairSpec == Spec /\ Fairness

-----------------------------------------------------------------------------
(* Invariants *)

TypeOK ==
    /\ slots \in [Slots -> SlotRecords]
    /\ list \in Lists
    /\ blacklist \in Seq(Devices)
    /\ rekey \in [on : BOOLEAN, phase : {"distribute", "activate"}, idx : Cells]
    /\ keyIndex \in KeyIds
    /\ sent \in Nat
    /\ rands \in Nat
    /\ thread \in [{"main", "usi"} -> ThreadRecords]
    /\ reqs \subseteq Requests
    /\ up \in [Devices -> Seq(UpMsgs)]
    /\ dev \in [Devices -> DeviceRecords]
    /\ stimuli \in 0 .. MaxStimuli

(* No device is registered at two addresses. *)
NoDeviceListedTwice ==
    \A i, j \in Cells : list.ext[i] = list.ext[j] /\ i # j => list.ext[i] = NoDevice

(* The entries are where bs_get_short_addr_by_ext looks for them: below    *)
(* g_lbds_list_size.                                                       *)
EntriesBelowSize == \A i \in Cells : list.ext[i] # NoDevice => i < list.size

(* So are the addresses set aside for the exchanges under way: none will   *)
(* register its device where it would not be found.                        *)
AddressesBelowSize == \A s \in Slots : slots[s].short < list.size + list.initial

(* At most one slot is used for a device: get_bootstrap_slot_by_addr finds *)
(* the slot of its exchange, not a leftover of an earlier one.             *)
OneSlotPerDevice ==
    \A s, t \in Slots : slots[s].addr = slots[t].addr /\ s # t => slots[s].addr = Unset

(* get_new_address: until the list has been used up, no two devices ever   *)
(* use the same short address, whatever becomes of their exchanges.        *)
NoSharedShort ==
    \A d, e \in Devices :
        d # e /\ dev[d].short = dev[e].short /\ dev[d].short # NoShort
        => list.size = MaxLbds

(* A slot never waits for a confirm that cannot come any more: it counts   *)
(* at most the two requests it has the handles of (with a third pending,   *)
(* bs_main.c matches none of their confirms), and the ADP has these still. *)
AwaitedConfirmComes ==
    \A s \in Slots :
        \/ slots[s].pending = 0
        \/ /\ slots[s].pending = 1
           /\ \E r \in reqs : r.slot = s /\ r.h = slots[s].tx
        \/ /\ slots[s].pending = 2
           /\ \E r, q \in reqs : r.slot = s /\ r.h = slots[s].tx
                               /\ q.slot = s /\ q.h = slots[s].ptx /\ q # r

(* Free slots await no confirm, or the next exchange in them would count   *)
(* one of the last exchange's.                                             *)
FreeSlotAwaitsNothing ==
    \A s \in Slots : slots[s].state = "free" => slots[s].pending = 0

(* A device that has been accepted and has nothing under way is registered *)
(* at the address it uses.                                                 *)
JoinedListed(d) ==
    dev[d].short # NoShort /\ Quiet(d) =>
        /\ DeviceIsInList(list, dev[d].short)
        /\ list.ext[dev[d].short - list.initial] = d

-----------------------------------------------------------------------------
(* Action properties *)

(* A device is entered in the list only at the address it has been given   *)
(* in an exchange that it completed; it may only have dropped that address *)
(* since, where devices start over.                                        *)
EntersWithItsAddress ==
    [][\A i \in Cells, d \in Devices :
          ListedAt(list, i, d)' /\ ~ListedAt(list, i, d)
          => \/ dev[d].short = i + list.initial
             \/ "restart" \in Env /\ dev[d].short = NoShort]_vars

(* A confirm moves only the exchange whose request it answers: no other    *)
(* slot changes state, and this one only if it still serves that device.   *)
ConfirmMovesItsExchange ==
    [][\A r \in reqs, s \in Slots :
          /\ \A q \in reqs' : q.n # r.n
          /\ slots'[s].state # slots[s].state
          /\ thread' = thread
          => r.slot = s /\ r.msg.dev = slots[s].addr]_vars

(* get_new_address, until the list has been used up: the address set aside *)
(* for a new exchange is used by no other device and set aside for no      *)
(* other exchange under way.                                               *)
NewAddressNotInUse ==
    [][\A s \in Slots :
          /\ list.size < MaxLbds
          /\ slots'[s].randS # slots[s].randS \/ slots'[s].addr # slots[s].addr
          /\ slots'[s].state = "sent1" /\ ~rekey.on
          => /\ \A e \in Devices : e # slots'[s].addr => dev[e].short # slots'[s].short
             /\ \A t \in Slots : t # s /\ slots[t].state \notin {"free", "declined"}
                                => slots[t].short # slots'[s].short]_vars

(* bs_lbp_kick_device: the entry it removes after its wait is the one of   *)
(* the device that the KICK goes to, until the list has been used up.      *)
KickRemovesItsDevice ==
    [][/\ list.size < MaxLbds
       /\ thread["main"].op = "kick" /\ thread'["main"].op # "kick"
       => LET k == thread["main"]
          IN  list.ext[k.short - list.initial] \in {k.dev, NoDevice}]_vars

(* bs_main.c: "All devices have been provided with the new GMK -> next     *)
(* phase": the activation starts when every registered device has the key. *)
NextPhaseWhenAllProvided ==
    [][rekey.phase = "distribute" /\ rekey'.phase = "activate"
       => \A d \in Listed(list) : OtherKey \in dev[d].keys]_vars

(* The coordinator switches to the new key only after every registered     *)
(* device has been told to.                                                *)
SwitchWhenAllSwitched ==
    [][keyIndex' # keyIndex
       => \A d \in Listed(list) : dev[d].active = keyIndex']_vars

-----------------------------------------------------------------------------
(* Liveness *)

(* Every exchange ends: its slot becomes free for another device.          *)
SlotsAreFreed ==
    \A s \in 0 .. NumSlots - 1 : slots[s].state # "free" ~> slots[s].state = "free"
=============================================================================
