------------------------- MODULE LbpExchangeProofs -------------------------
(***************************************************************************)
(* Theorems about the exchanges of LbpBootstrap: the confirms they wait    *)
(* for, the addresses they give, the entries that kicks remove, and what   *)
(* joining enters in the list.  A rekeying uses the slots by other rules   *)
(* and breaks some of them, and so do some races of the two threads and    *)
(* some losses: no theorem is about an application that asks for a         *)
(* rekeying, and each says besides what else it excludes.                  *)
(***************************************************************************)
EXTENDS LbpBootstrapProofs

-----------------------------------------------------------------------------
(* Requests and their handles *)

(* No request is still unconfirmed when its handle is used again: the ADP  *)
(* confirms each before another Handles requests are sent.                 *)
ConfirmsInTime == \A r \in reqs : sent - r.n =< Handles

(* Requests are numbered in the order they are sent in, and their handles  *)
(* are the last byte of that number.                                       *)
RequestsOK ==
    \A r \in reqs : /\ r.n < sent
                    /\ r.h = r.n % Handles
                    /\ \A q \in reqs : q.n = r.n => q = r

(* Then the handles of unconfirmed requests differ. *)
DistinctHandles == \A r, q \in reqs : r.h = q.h => r = q

LEMMA HandlesDiffer == TypeOK /\ RequestsOK /\ ConfirmsInTime => DistinctHandles
<1> SUFFICES ASSUME TypeOK, RequestsOK, ConfirmsInTime,
                    NEW r \in reqs, NEW q \in reqs, r.h = q.h
             PROVE  r = q
  BY DEF DistinctHandles
<1>1. r.n \in Nat /\ q.n \in Nat /\ sent \in Nat
  BY DEF TypeOK, Requests
<1>2. r.n < sent /\ q.n < sent /\ sent - r.n =< Handles /\ sent - q.n =< Handles
  BY DEF RequestsOK, ConfirmsInTime
<1>3. r.n % Handles = q.n % Handles
  BY DEF RequestsOK
<1>4. \A a, b, c \in Nat : /\ a < c /\ b < c /\ c - a =< 256 /\ c - b =< 256
                           /\ a % 256 = b % 256
                           => a = b
  OBVIOUS
<1>5. r.n = q.n
  BY <1>1, <1>2, <1>3, <1>4 DEF Handles
<1> QED  BY <1>5 DEF RequestsOK

(* Whatever was sent before is sent still, perhaps delivered by now. *)
StillSent(rs, qs) ==
    \A r \in rs : \E q \in qs : q.n = r.n /\ q.h = r.h /\ q.slot = r.slot /\ q.msg = r.msg

(* Sending a request numbers it after all others. *)
LEMMA SendFromRequests ==
    ASSUME TypeOK, RequestsOK, NEW s \in Slots \cup {NoSlot}, NEW m,
           reqs' = reqs \cup {Request(s, m)}, sent' = sent + 1
    PROVE  RequestsOK' /\ StillSent(reqs, reqs')
<1>1. sent \in Nat /\ \A r \in reqs : r.n \in Nat
  BY DEF TypeOK, Requests
<1>2. Request(s, m).n = sent /\ Request(s, m).h = sent % Handles
  BY DEF Request, NextHandle
<1> DEFINE new == Request(s, m)
<1> HIDE DEF new
<1>3. \A r \in reqs' : r = new \/ r \in reqs
  BY DEF new
<1>4. new.n = sent /\ new.h = sent % Handles
  BY <1>2 DEF new
<1>5. RequestsOK'
  BY <1>1, <1>3, <1>4 DEF RequestsOK
<1> QED  BY <1>5 DEF StillSent

(* Delivering one keeps the numbers. *)
LEMMA DeliverRequests ==
    ASSUME TypeOK, RequestsOK, NEW r \in reqs, Deliver(r)
    PROVE  RequestsOK' /\ StillSent(reqs, reqs')
<1> DEFINE new == [r EXCEPT !.delivered = TRUE]
<1>1. /\ new.n = r.n /\ new.h = r.h /\ new.slot = r.slot /\ new.msg = r.msg
  BY DEF TypeOK, Requests
<1>2. reqs' = (reqs \ {r}) \cup {new} /\ sent' = sent
  BY DEF Deliver, coordVars
<1> HIDE DEF new
<1>3. RequestsOK'
  BY <1>1, <1>2 DEF RequestsOK
<1> QED  BY <1>1, <1>2, <1>3 DEF StillSent

-----------------------------------------------------------------------------
(* What a slot awaits *)

(* The bookkeeping of slot s, in the record r, agrees with the requests rs *)
(* the ADP has: the one or two that it counts are there, under its handles *)
(* and for its device, the earlier under the earlier handle; a free slot   *)
(* counts none; its buffer holds a message for its device.  (From the      *)
(* third request on, no confirm is matched with the slot any more.)        *)
SlotOK(r, s, rs) ==
    /\ r.state = "free" => r.pending = 0
    /\ r.msg.kind # "none" => r.msg.dev = r.addr
    /\ r.pending = 1 => \E w \in rs : w.slot = s /\ w.h = r.tx /\ w.msg.dev = r.addr
    /\ r.pending = 2 => \E w, v \in rs : /\ w.slot = s /\ w.h = r.tx /\ w.msg.dev = r.addr
                                         /\ v.slot = s /\ v.h = r.ptx /\ v.msg.dev = r.addr
                                         /\ v.n < w.n

SlotsOK(ss, rs) == \A s \in Slots : SlotOK(ss[s], s, rs)

(* No thread is in a rekeying. *)
NoRekeying == ~rekey.on /\ \A t \in {"main", "usi"} : thread[t].op # "rekey"

(* And bs_process, not interrupted, sends again what a slot in use holds.  *)
ThreadsOK ==
    /\ NoRekeying
    /\ \A s \in Slots : thread["main"] = Doing("resend", s) => slots[s].state # "free"

ConfirmInv == RequestsOK /\ SlotsOK(slots, reqs) /\ ThreadsOK

(* A slot's bookkeeping is not disturbed while its requests are there. *)
LEMMA SlotStaysOK ==
    ASSUME NEW r, NEW s, NEW rs, NEW qs, SlotOK(r, s, rs), StillSent(rs, qs)
    PROVE  SlotOK(r, s, qs)
<1>1. ASSUME r.pending = 1
      PROVE  \E w \in qs : w.slot = s /\ w.h = r.tx /\ w.msg.dev = r.addr
  BY <1>1 DEF SlotOK, StillSent
<1>2. ASSUME r.pending = 2
      PROVE  \E w, v \in qs : /\ w.slot = s /\ w.h = r.tx /\ w.msg.dev = r.addr
                              /\ v.slot = s /\ v.h = r.ptx /\ v.msg.dev = r.addr
                              /\ v.n < w.n
  <2>1. PICK w, v \in rs : /\ w.slot = s /\ w.h = r.tx /\ w.msg.dev = r.addr
                           /\ v.slot = s /\ v.h = r.ptx /\ v.msg.dev = r.addr
                           /\ v.n < w.n
    BY <1>2 DEF SlotOK
  <2>2. /\ \E x \in qs : x.n = w.n /\ x.h = w.h /\ x.slot = w.slot /\ x.msg = w.msg
        /\ \E y \in qs : y.n = v.n /\ y.h = v.h /\ y.slot = v.slot /\ y.msg = v.msg
    BY DEF StillSent
  <2> QED  BY <2>1, <2>2
<1> QED  BY <1>1, <1>2 DEF SlotOK

(* Nor does it matter what else of the slot changes, if it is in use or    *)
(* awaits nothing.                                                         *)
LEMMA SlotChangesOK ==
    ASSUME NEW r, NEW q, NEW s, NEW rs, SlotOK(r, s, rs),
           q.msg.kind # "none" => q.msg.dev = q.addr,
           \/ q.pending = 0
           \/ /\ q.state # "free" /\ q.pending = r.pending
              /\ q.tx = r.tx /\ q.ptx = r.ptx /\ q.addr = r.addr
    PROVE  SlotOK(q, s, rs)
  BY DEF SlotOK

(* A slot that sends counts its request: the new one is the later one.     *)
LEMMA SendFromOK ==
    ASSUME TypeOK, ConfirmInv, NEW s \in Slots, NEW r \in SlotRecords, SendFrom(s, r),
           r.state # "free", r.msg.dev = r.addr,
           r.pending = slots[s].pending, r.tx = slots[s].tx, r.ptx = slots[s].ptx,
           r.addr = slots[s].addr \/ slots[s].pending = 0
    PROVE  RequestsOK' /\ SlotsOK(slots', reqs')
<1>1. RequestsOK' /\ StillSent(reqs, reqs')
  BY SendFromRequests DEF SendFrom, ConfirmInv
<1>2. /\ slots' = [slots EXCEPT ![s] = Transmit(r)] /\ slots \in [Slots -> SlotRecords]
      /\ reqs' = reqs \cup {Request(s, r.msg)}
  BY DEF SendFrom, TypeOK
<1>3. ASSUME NEW x \in Slots, x # s PROVE SlotOK(slots'[x], x, reqs')
  BY <1>1, <1>2, <1>3, SlotStaysOK DEF ConfirmInv, SlotsOK
<1> DEFINE new == Request(s, r.msg)
           q == Transmit(r)
<1>4. /\ new.n = sent /\ new.h = NextHandle /\ new.slot = s /\ new.msg = r.msg
      /\ new \in reqs'
  BY <1>2 DEF Request
<1>5. /\ q.state = r.state /\ q.msg = r.msg /\ q.addr = r.addr
      /\ q.tx = NextHandle /\ q.pending = (r.pending + 1) % Handles
      /\ q.ptx = IF r.pending > 0 THEN r.tx ELSE r.ptx
  BY DEF Transmit, SlotRecords
<1>6. r.pending \in Nat /\ r.pending < Handles
  BY DEF SlotRecords, Handles
<1>7. /\ q.pending = 1 => r.pending = 0
      /\ q.pending = 2 => r.pending = 1
  BY <1>5, <1>6 DEF Handles
<1> HIDE DEF new, q
<1>8. SlotOK(q, s, reqs')
  <2>1. CASE r.pending = 0
    BY <1>4, <1>5, <1>7, <2>1 DEF SlotOK
  <2>2. CASE r.pending = 1
    <3>1. PICK v \in reqs : v.slot = s /\ v.h = slots[s].tx /\ v.msg.dev = slots[s].addr
      BY <2>2 DEF ConfirmInv, SlotsOK, SlotOK
    <3>2. v \in reqs' /\ v.n < new.n
      BY <1>2, <1>4 DEF ConfirmInv, RequestsOK
    <3>3. q.pending # 1 /\ q.ptx = v.h /\ q.addr = v.msg.dev
      BY <1>5, <1>7, <2>2, <3>1
    <3> QED  BY <1>4, <1>5, <3>1, <3>2, <3>3 DEF SlotOK
  <2>3. CASE r.pending # 0 /\ r.pending # 1
    BY <1>4, <1>5, <1>7, <2>3 DEF SlotOK
  <2> QED  BY <2>1, <2>2, <2>3
<1>9. SlotOK(slots'[s], s, reqs')
  BY <1>2, <1>8 DEF q
<1> QED  BY <1>1, <1>3, <1>9 DEF SlotsOK

LEMMA SendFirstOK ==
    ASSUME TypeOK, ConfirmInv, NEW s \in Slots, NEW r \in SlotRecords, SendFirst(s, r),
           r.state # "free", r.msg.dev = r.addr,
           r.pending = slots[s].pending, r.tx = slots[s].tx, r.ptx = slots[s].ptx,
           r.addr = slots[s].addr \/ slots[s].pending = 0
    PROVE  RequestsOK' /\ SlotsOK(slots', reqs')
<1> DEFINE q == [r EXCEPT !.attempts = 0]
<1>1. /\ q \in SlotRecords /\ q.state = r.state /\ q.msg = r.msg /\ q.addr = r.addr
      /\ q.pending = r.pending /\ q.tx = r.tx /\ q.ptx = r.ptx
  BY DEF SlotRecords
<1>2. SendFrom(s, q)
  BY DEF SendFirst
<1> HIDE DEF q
<1> QED  BY <1>1, <1>2, SendFromOK

(* The slot found for a device is used for it or awaits nothing. *)
LEMMA FoundSlotOK ==
    ASSUME TypeOK, ConfirmInv, NEW d, HasSlot(slots, d)
    PROVE  /\ SlotFor(slots, d) \in Slots
           /\ slots[SlotFor(slots, d)] \in SlotRecords
           /\ \/ slots[SlotFor(slots, d)].addr = d
              \/ slots[SlotFor(slots, d)].pending = 0
<1>1. /\ SlotFor(slots, d) \in Slots
      /\ \/ slots[SlotFor(slots, d)].addr = d
         \/ slots[SlotFor(slots, d)].state = "free"
  BY SlotForIn
<1> QED  BY <1>1 DEF TypeOK, ConfirmInv, SlotsOK, SlotOK

(* Emptying a buffer keeps the bookkeeping, and giving an exchange up ends it. *)
LEMMA ClearOK ==
    ASSUME NEW ss \in [Slots -> SlotRecords], NEW rs, NEW d, SlotsOK(ss, rs)
    PROVE  SlotsOK(Clear(ss, d), rs)
<1>1. CASE ~HasSlot(ss, d)
  BY <1>1 DEF Clear
<1>2. CASE HasSlot(ss, d)
  <2> DEFINE s == SlotFor(ss, d)
             q == [ss[s] EXCEPT !.msg = NoMsg]
  <2>1. s \in Slots /\ ss[s] \in SlotRecords /\ SlotOK(ss[s], s, rs)
    BY <1>2, SlotForIn DEF SlotsOK
  <2>2. Clear(ss, d) = [ss EXCEPT ![s] = q]
    BY <1>2 DEF Clear
  <2> HIDE DEF s
  <2>3. /\ q.msg.kind = "none" /\ q.state = ss[s].state /\ q.pending = ss[s].pending
        /\ q.tx = ss[s].tx /\ q.ptx = ss[s].ptx /\ q.addr = ss[s].addr
    BY <2>1 DEF SlotRecords, NoMsg, Msg
  <2> HIDE DEF q
  <2>4. SlotOK(q, s, rs)
    BY <2>1, <2>3 DEF SlotOK
  <2> QED  BY <2>1, <2>2, <2>4 DEF SlotsOK
<1> QED  BY <1>1, <1>2

LEMMA AbortOK ==
    ASSUME NEW ss \in [Slots -> SlotRecords], NEW rs, NEW s \in Slots, SlotsOK(ss, rs)
    PROVE  SlotsOK([ss EXCEPT ![s] = Abort(ss[s])], rs)
<1>1. /\ Abort(ss[s]).pending = 0 /\ Abort(ss[s]).msg = ss[s].msg
      /\ Abort(ss[s]).addr = ss[s].addr
  BY DEF Abort, SlotRecords
<1> QED  BY <1>1 DEF SlotsOK, SlotOK

-----------------------------------------------------------------------------
(* What the indications that send something send *)

(* Slot s sends what the record r says, its bookkeeping so far being kept. *)
Sends(s, r) ==
    /\ s \in Slots /\ r \in SlotRecords /\ slots[s] \in SlotRecords /\ SendFirst(s, r)
    /\ r.pending = slots[s].pending /\ r.tx = slots[s].tx /\ r.ptx = slots[s].ptx

(* The slot of a device is its own or a free one. *)
IsSlotFor(s, d) ==
    /\ s \in Slots /\ s = SlotFor(slots, d) /\ slots[s] \in SlotRecords
    /\ \/ slots[s].addr = d
       \/ slots[s].state = "free" /\ \A x \in Slots : slots[x].addr # d

(* Slot s answers device d with what the record r says. *)
Answers(s, r, d) ==
    IsSlotFor(s, d) /\ Sends(s, r) /\ r.state # "free" /\ r.addr = d /\ r.msg.dev = d

LEMMA FoundSlot ==
    ASSUME TypeOK, NEW d, HasSlot(slots, d)
    PROVE  IsSlotFor(SlotFor(slots, d), d)
  BY SlotForIn DEF IsSlotFor, TypeOK

(* Devices that draw a new RandP each time never get that far with a wrong *)
(* RandS.                                                                  *)
LEMMA NoBadRandS ==
    ASSUME "randp" \notin Env, NEW d
    PROVE  ~HandleBadRandS(d)
  BY DEF HandleBadRandS

(* A blacklisted device is declined. *)
LEMMA DeclinedSends ==
    ASSUME TypeOK, NEW d \in Devices, JoiningDeclined(d)
    PROVE  \E s, r : /\ Answers(s, r, d) /\ r.state = "declined"
                     /\ r.short = slots[s].short /\ r.randS = slots[s].randS
                     /\ r.msg = Msg("decline", d, 0, NoShort, 0)
<1> DEFINE s == SlotFor(slots, d)
           m == Msg("decline", d, 0, NoShort, 0)
           r == [slots[s] EXCEPT !.state = "declined", !.addr = d, !.msg = m]
<1>1. HasSlot(slots, d) /\ SendFirst(s, r)
  BY DEF JoiningDeclined
<1>2. m \in Messages /\ "declined" \in States
  BY MsgType DEF Kinds, KeyIds, States
<1>3. IsSlotFor(s, d)
  BY <1>1, FoundSlot
<1> HIDE DEF s, m
<1>4. /\ r \in SlotRecords /\ r.state = "declined" /\ r.addr = d /\ r.msg = m
      /\ r.short = slots[s].short /\ r.randS = slots[s].randS
      /\ r.pending = slots[s].pending /\ r.tx = slots[s].tx /\ r.ptx = slots[s].ptx
  BY <1>2, <1>3 DEF SlotRecords, IsSlotFor
<1> HIDE DEF r
<1>5. Sends(s, r)
  BY <1>1, <1>3, <1>4 DEF Sends, IsSlotFor
<1>6. Answers(s, r, d)
  BY <1>3, <1>4, <1>5 DEF Answers, m, Msg
<1> QED  BY <1>4, <1>6 DEF m

(* A new exchange is challenged, with a new address unless a rekeying runs. *)
LEMMA NewSends ==
    ASSUME TypeOK, NEW d \in Devices, JoiningNew(d)
    PROVE  \E s, r : /\ Answers(s, r, d) /\ slots[s].state = "free"
                     /\ r.state = "sent1" /\ r.randS = rands
                     /\ r.msg = Msg("msg1", d, rands, NoShort, 0)
                     /\ ~rekey.on => r.short = NewAddress(Forget(list, d), d)
<1> DEFINE s == SlotFor(slots, d)
           a == NewAddress(Forget(list, d), d)
           c == Challenge(slots[s], d)
           r == IF rekey.on THEN c ELSE [c EXCEPT !.short = a]
<1>1. HasSlot(slots, d) /\ SendFirst(s, r) /\ slots[s].state = "free"
  BY DEF JoiningNew
<1>2. a \in Nat
  BY ForgetType, NewAddressType DEF TypeOK
<1>3. IsSlotFor(s, d)
  BY <1>1, FoundSlot
<1> HIDE DEF s, a
<1>4. c \in SlotRecords
  BY <1>3, ChallengeType DEF IsSlotFor, TypeOK
<1>5. /\ c.state = "sent1" /\ c.addr = d /\ c.randS = rands
      /\ c.msg = Msg("msg1", d, rands, NoShort, 0)
      /\ c.pending = slots[s].pending /\ c.tx = slots[s].tx /\ c.ptx = slots[s].ptx
  BY <1>3 DEF Challenge, IsSlotFor, SlotRecords
<1> HIDE DEF c
<1>6. /\ r \in SlotRecords /\ r.state = "sent1" /\ r.addr = d /\ r.randS = rands
      /\ r.msg = Msg("msg1", d, rands, NoShort, 0) /\ (~rekey.on => r.short = a)
      /\ r.pending = slots[s].pending /\ r.tx = slots[s].tx /\ r.ptx = slots[s].ptx
  BY <1>2, <1>4, <1>5 DEF SlotRecords
<1> HIDE DEF r
<1>7. Sends(s, r)
  BY <1>1, <1>3, <1>6 DEF Sends, IsSlotFor
<1>8. Answers(s, r, d)
  BY <1>3, <1>6, <1>7 DEF Answers, Msg
<1> QED  BY <1>1, <1>6, <1>8 DEF a

(* The second message of a device is answered with the third. *)
LEMMA T1Sends ==
    ASSUME TypeOK, NEW d \in Devices, HandleT1(d)
    PROVE  \E s, r : /\ Answers(s, r, d) /\ Expects(slots[s], "T1") /\ slots[s].addr = d
                     /\ Head(up[d]).rand = slots[s].randS
                     /\ r.state = "sent3"
                     /\ r.short = slots[s].short /\ r.randS = slots[s].randS
                     /\ r.msg = IF rekey.on
                                THEN Msg("msg3", d, slots[s].randS, NoShort, OtherKey)
                                ELSE Msg("msg3", d, slots[s].randS, slots[s].short, keyIndex)
<1> DEFINE s == SlotFor(slots, d)
           m == IF rekey.on THEN Msg("msg3", d, slots[s].randS, NoShort, OtherKey)
                ELSE Msg("msg3", d, slots[s].randS, slots[s].short, keyIndex)
           r == [slots[s] EXCEPT !.state = "sent3", !.msg = m]
<1>1. /\ HasSlot(slots, d) /\ SendFirst(s, r)
      /\ Expects(slots[s], "T1") /\ Head(up[d]).rand = slots[s].randS
  BY DEF HandleT1
<1>2. IsSlotFor(s, d)
  BY <1>1, FoundSlot
<1>3. slots[s].randS \in Nat /\ slots[s].short \in Nat
  BY <1>2 DEF IsSlotFor, SlotRecords
<1>4. OtherKey \in KeyIds /\ keyIndex \in KeyIds
  BY DEF OtherKey, KeyIds, TypeOK
<1>5. m \in Messages /\ "sent3" \in States
  <2>1. Msg("msg3", d, slots[s].randS, NoShort, OtherKey) \in Messages
    BY <1>3, <1>4, MsgType DEF Kinds
  <2>2. Msg("msg3", d, slots[s].randS, slots[s].short, keyIndex) \in Messages
    BY <1>3, <1>4, MsgType DEF Kinds
  <2> QED  BY <2>1, <2>2 DEF States
<1> HIDE DEF s, m
<1>6. /\ r \in SlotRecords /\ r.state = "sent3" /\ r.addr = slots[s].addr /\ r.msg = m
      /\ r.short = slots[s].short /\ r.randS = slots[s].randS
      /\ r.pending = slots[s].pending /\ r.tx = slots[s].tx /\ r.ptx = slots[s].ptx
  BY <1>2, <1>5 DEF SlotRecords, IsSlotFor
<1> HIDE DEF r
<1>7. Sends(s, r)
  BY <1>1, <1>2, <1>6 DEF Sends, IsSlotFor
<1>8. Answers(s, r, d) /\ slots[s].addr = d
  BY <1>1, <1>2, <1>6, <1>7 DEF Answers, IsSlotFor, Expects, m, Msg
<1> QED  BY <1>1, <1>6, <1>8 DEF m

(* And its fourth with the acceptance. *)
LEMMA T3Sends ==
    ASSUME TypeOK, NEW d \in Devices, HandleT3(d)
    PROVE  \E s, r : /\ Answers(s, r, d) /\ Expects(slots[s], "T3") /\ slots[s].addr = d
                     /\ Head(up[d]).rand = slots[s].randS
                     /\ r.state = "accepted"
                     /\ r.short = slots[s].short /\ r.randS = slots[s].randS
                     /\ r.msg = Msg("accepted", d, 0, NoShort, 0)
<1> DEFINE s == SlotFor(slots, d)
           m == Msg("accepted", d, 0, NoShort, 0)
           r == [slots[s] EXCEPT !.state = "accepted", !.msg = m]
<1>1. /\ HasSlot(slots, d) /\ SendFirst(s, r)
      /\ Expects(slots[s], "T3") /\ Head(up[d]).rand = slots[s].randS
  BY DEF HandleT3
<1>2. m \in Messages /\ "accepted" \in States
  BY MsgType DEF Kinds, KeyIds, States
<1>3. IsSlotFor(s, d)
  BY <1>1, FoundSlot
<1> HIDE DEF s, m
<1>4. /\ r \in SlotRecords /\ r.state = "accepted" /\ r.addr = slots[s].addr /\ r.msg = m
      /\ r.short = slots[s].short /\ r.randS = slots[s].randS
      /\ r.pending = slots[s].pending /\ r.tx = slots[s].tx /\ r.ptx = slots[s].ptx
  BY <1>2, <1>3 DEF SlotRecords, IsSlotFor
<1> HIDE DEF r
<1>5. Sends(s, r)
  BY <1>1, <1>3, <1>4 DEF Sends, IsSlotFor
<1>6. Answers(s, r, d) /\ slots[s].addr = d
  BY <1>1, <1>3, <1>4, <1>5 DEF Answers, IsSlotFor, Expects, m, Msg
<1> QED  BY <1>1, <1>4, <1>6 DEF m

-----------------------------------------------------------------------------
(* The confirms that are awaited: every step keeps the invariant *)

(* Without a call that starts one, there is no rekeying. *)
LEMMA NoRekeyingStep ==
    ASSUME "rekey" \notin Api
    PROVE  TypeOK /\ NoRekeying /\ [Next]_vars => NoRekeying'
<1> SUFFICES ASSUME TypeOK, NoRekeying, [Next]_vars PROVE NoRekeying'
  OBVIOUS
<1>1. thread \in [{"main", "usi"} -> ThreadRecords]
  BY DEF TypeOK
<1>2. ASSUME rekey' = rekey, NEW op, NEW x, op # "rekey", x.op = op,
             thread' = thread \/ thread' = [thread EXCEPT !["main"] = x]
      PROVE  NoRekeying'
  BY <1>1, <1>2 DEF NoRekeying
<1>3. ASSUME NEW d \in Devices, Indication(d) PROVE NoRekeying'
  BY <1>3 DEF Indication, JoiningNoSlot, JoiningDeclined, JoiningNew, JoiningRepeated, HandleT1,
     HandleT3, HandleBadRandS, KickFromLbd, HandleUnexpected, JoiningFrom, Receives, NoRekeying
<1>4. ASSUME NEW r \in reqs, ConfirmStep(r) PROVE NoRekeying'
  BY <1>4 DEF NoRekeying, ConfirmStep, ConfirmProgress, ConfirmJoin, ConfirmRekeyNext,
              ConfirmRekeyPhase, ConfirmRekeyEnd
<1>5. ASSUME NEW s \in Slots, BsProcess(s) PROVE NoRekeying'
  <2>1. CASE CheckSlot(s)
    <3>1. PICK op \in {"never", "resend", "reset"} :
             thread' = [thread EXCEPT !["main"] = Doing(op, s)] /\ rekey' = rekey
      BY <2>1 DEF CheckSlot
    <3>2. Doing(op, s).op = op
      BY DEF Doing, Idle
    <3> QED  BY <1>2, <3>1, <3>2
  <2>2. CASE ResendSlot(s) \/ ResetSlot(s)
    BY <1>1, <2>2 DEF ResendSlot, ResetSlot, NoRekeying, Idle
  <2> QED  BY <1>5, <2>1, <2>2 DEF BsProcess
<1>6. ASSUME NEW t \in {"main", "usi"} PROVE ~RekeySend(t)
  BY DEF RekeySend, NoRekeying
<1>7. CASE KickSend
  BY <1>1, <1>7 DEF KickSend, NoRekeying, Idle
<1>8. ASSUME NEW a, KickDevice(a) PROVE NoRekeying'
  BY <1>1, <1>8 DEF KickDevice, NoRekeying, Doing, Idle
<1>9. CASE ApiStep
  BY <1>8, <1>9 DEF ApiStep, LaunchRekeying, ApiCall, SetDeviceList,
                    SetInitialShortAddress, AddDeviceToBlacklist, NoRekeying
<1>10. CASE Network \/ UNCHANGED vars
  BY <1>10 DEF Network, Deliver, LoseConfirm, LoseReply, DelayT3, Leave,
               vars, coordVars, NoRekeying
<1> QED  BY <1>3, <1>4, <1>5, <1>6, <1>7, <1>9, <1>10 DEF Next

(* While the usi thread runs, bs_process is not about to send again. *)
LEMMA UsiThreads ==
    ASSUME "preempt" \notin Env, ThreadsOK, UsiRuns, rekey' = rekey, thread' = thread
    PROVE  ThreadsOK'
<1>1. thread["main"].op # "resend"
  BY DEF UsiRuns
<1>2. \A s \in Slots : thread["main"] # Doing("resend", s)
  BY <1>1 DEF Doing, Idle
<1> QED  BY <1>2 DEF ThreadsOK, NoRekeying

(* bs_process finds a slot in use before it sends it again. *)
LEMMA BsProcessThreads ==
    ASSUME TypeOK, ThreadsOK, NEW s \in Slots, BsProcess(s)
    PROVE  ThreadsOK'
<1>1. \A op, x : Doing(op, x).op = op /\ Doing(op, x).slot = x
  BY DEF Doing, Idle
<1>2. Idle.op = "idle"
  BY DEF Idle
<1>3. thread \in [{"main", "usi"} -> ThreadRecords]
  BY DEF TypeOK
<1>4. CASE CheckSlot(s)
  <2>1. /\ thread' = [thread EXCEPT !["main"] =
              Doing(IF slots[s].pending # 0 THEN "never"
                    ELSE IF slots[s].attempts < 1 THEN "resend" ELSE "reset", s)]
        /\ slots[s].state # "free" /\ slots' = slots /\ rekey' = rekey
    BY <1>4 DEF CheckSlot
  <2>2. /\ thread'["usi"] = thread["usi"] /\ thread'["main"].slot = s
        /\ thread'["main"].op \in {"never", "resend", "reset"}
    BY <1>1, <1>3, <2>1
  <2> QED  BY <1>1, <2>1, <2>2 DEF ThreadsOK, NoRekeying
<1>5. CASE ResendSlot(s) \/ ResetSlot(s)
  <2>1. thread' = [thread EXCEPT !["main"] = Idle] /\ rekey' = rekey
    BY <1>5 DEF ResendSlot, ResetSlot
  <2> QED  BY <1>1, <1>2, <1>3, <2>1 DEF ThreadsOK, NoRekeying
<1> QED  BY <1>4, <1>5 DEF BsProcess

(* Nor does any other step take up a rekeying or a sending again. *)
LEMMA ThreadsStep ==
    ASSUME "rekey" \notin Api, "preempt" \notin Env
    PROVE  TypeOK /\ ThreadsOK /\ [Next]_vars => ThreadsOK'
<1> SUFFICES ASSUME TypeOK, ThreadsOK, [Next]_vars PROVE ThreadsOK'
  OBVIOUS
<1>1. thread \in [{"main", "usi"} -> ThreadRecords]
  BY DEF TypeOK
<1>2. ASSUME NEW d \in Devices, Indication(d) PROVE ThreadsOK'
  BY <1>2, UsiThreads DEF Indication, JoiningNoSlot, JoiningDeclined, JoiningNew,
     JoiningRepeated, HandleT1, HandleT3, HandleBadRandS, KickFromLbd, HandleUnexpected,
     JoiningFrom, Receives
<1>3. ASSUME NEW r \in reqs, ConfirmStep(r) PROVE ThreadsOK'
  <2>1. UsiRuns /\ rekey' = rekey /\ thread' = thread
    BY <1>3 DEF ThreadsOK, NoRekeying, ConfirmStep, ConfirmProgress, ConfirmJoin,
                ConfirmRekeyNext, ConfirmRekeyPhase, ConfirmRekeyEnd, ConfirmFor
  <2> QED  BY <2>1, UsiThreads
<1>4. ASSUME NEW s \in Slots, BsProcess(s) PROVE ThreadsOK'
  BY <1>4, BsProcessThreads
<1>5. ASSUME NEW t \in {"main", "usi"}, RekeySend(t) PROVE ThreadsOK'
  BY <1>5 DEF RekeySend, ThreadsOK, NoRekeying
<1>6. ASSUME rekey' = rekey, thread'["usi"] = thread["usi"],
             thread'["main"].op \in {"idle", "kick"}
      PROVE  ThreadsOK'
  <2>1. \A x : thread'["main"] # Doing("resend", x)
    BY <1>6 DEF Doing, Idle
  <2> QED  BY <1>6, <2>1 DEF ThreadsOK, NoRekeying
<1>7. CASE KickSend
  BY <1>1, <1>6, <1>7 DEF KickSend, Idle
<1>8. ASSUME NEW a, KickDevice(a) PROVE ThreadsOK'
  BY <1>1, <1>6, <1>8 DEF KickDevice, Doing, Idle
<1>9. ASSUME slots' = slots, rekey' = rekey, thread' = thread PROVE ThreadsOK'
  BY <1>9 DEF ThreadsOK, NoRekeying
<1>10. CASE ApiStep
  BY <1>8, <1>9, <1>10 DEF ApiStep, LaunchRekeying, ApiCall, SetDeviceList,
                           SetInitialShortAddress, AddDeviceToBlacklist
<1>11. CASE Network \/ UNCHANGED vars
  BY <1>9, <1>11 DEF Network, Deliver, LoseConfirm, LoseReply, DelayT3, Leave, vars, coordVars
<1> QED  BY <1>2, <1>3, <1>4, <1>5, <1>7, <1>10, <1>11 DEF Next

(* An indication. *)
LEMMA IndicationConfirms ==
    ASSUME "randp" \notin Env, TypeOK, ConfirmInv, NEW d \in Devices, Indication(d)
    PROVE  RequestsOK' /\ SlotsOK(slots', reqs')
<1>1. slots \in [Slots -> SlotRecords]
  BY DEF TypeOK
<1>2. ASSUME SlotsOK(slots', reqs), reqs' = reqs, sent' = sent
      PROVE  RequestsOK' /\ SlotsOK(slots', reqs')
  BY <1>2 DEF ConfirmInv, RequestsOK
<1>3. ASSUME NEW s, NEW r, Answers(s, r, d)
      PROVE  RequestsOK' /\ SlotsOK(slots', reqs')
  <2>1. slots[s].addr = d \/ slots[s].pending = 0
    BY <1>3 DEF Answers, IsSlotFor, ConfirmInv, SlotsOK, SlotOK
  <2> QED  BY <1>3, <2>1, SendFirstOK DEF Answers, Sends
<1>4. CASE JoiningNoSlot(d)
  BY <1>2, <1>4 DEF JoiningNoSlot, ConfirmInv
<1>5. CASE JoiningDeclined(d)
  BY <1>3, <1>5, DeclinedSends
<1>6. CASE JoiningNew(d)
  BY <1>3, <1>6, NewSends
<1>7. CASE JoiningRepeated(d)
  BY <1>1, <1>2, <1>7, ClearOK DEF JoiningRepeated, ConfirmInv
<1>8. CASE HandleT1(d)
  BY <1>3, <1>8, T1Sends
<1>9. CASE HandleT3(d)
  BY <1>3, <1>9, T3Sends
<1>10. CASE KickFromLbd(d)
  BY <1>1, <1>2, <1>10, ClearOK DEF KickFromLbd, ConfirmInv
<1>11. ASSUME NEW type \in {"T1", "T3"}, HandleUnexpected(d, type)
       PROVE  RequestsOK' /\ SlotsOK(slots', reqs')
  <2> DEFINE ss == Clear(slots, d)
  <2>1. ss \in [Slots -> SlotRecords] /\ SlotsOK(ss, reqs)
    BY <1>1, ClearType, ClearOK DEF ConfirmInv
  <2>2. CASE ~HasSlot(slots, d)
    BY <1>2, <1>11, <2>2 DEF HandleUnexpected, ConfirmInv
  <2>3. CASE HasSlot(slots, d)
    <3>1. slots' = [ss EXCEPT ![SlotFor(slots, d)] = Abort(ss[SlotFor(slots, d)])]
      BY <1>11, <2>3 DEF HandleUnexpected
    <3>2. SlotFor(slots, d) \in Slots
      BY <2>3, SlotForIn
    <3>3. reqs' = reqs /\ sent' = sent
      BY <1>11 DEF HandleUnexpected
    <3> HIDE DEF ss
    <3>4. SlotsOK(slots', reqs)
      BY <2>1, <3>1, <3>2, AbortOK
    <3> QED  BY <1>2, <3>3, <3>4
  <2> QED  BY <2>2, <2>3
<1> QED  BY <1>4, <1>5, <1>6, <1>7, <1>8, <1>9, <1>10, <1>11, NoBadRandS DEF Indication

(* A confirm takes its request away, and only the slot that awaits it is   *)
(* matched with it: the handles of the others differ.                      *)
LEMMA ConfirmedSlot ==
    ASSUME TypeOK, RequestsOK, DistinctHandles, NEW r \in reqs, NEW ok \in BOOLEAN,
           NEW s \in Slots, SlotOK(slots[s], s, reqs)
    PROVE  /\ SlotOK(Confirmed(slots[s], r.h, ok), s, reqs \ {r})
           /\ Confirmed(slots[s], r.h, ok).state # slots[s].state
              => r.slot = s /\ r.msg.dev = slots[s].addr
<1> DEFINE c == slots[s]
<1>1. c \in SlotRecords /\ c.pending \in Nat
  BY DEF TypeOK, SlotRecords
<1> HIDE DEF c
<1>2. CASE c.pending = 1
  <2>1. PICK w \in reqs : w.slot = s /\ w.h = c.tx /\ w.msg.dev = c.addr
    BY <1>2 DEF SlotOK, c
  <2>2. c.state # "free"
    BY <1>2 DEF SlotOK, c
  <2>3. CASE w = r
    <3> DEFINE st == IF ok THEN AfterSuccess(c.state) ELSE "free"
    <3>1. Confirmed(c, r.h, ok) = [c EXCEPT !.pending = 0, !.state = st]
      BY <1>2, <2>1, <2>2, <2>3 DEF Confirmed, MatchesOnly, MatchesEarlier, MatchesLater
    <3> HIDE DEF st
    <3>2. /\ Confirmed(c, r.h, ok).pending = 0 /\ Confirmed(c, r.h, ok).msg = c.msg
          /\ Confirmed(c, r.h, ok).addr = c.addr
      BY <1>1, <3>1 DEF SlotRecords
    <3> QED  BY <2>1, <2>3, <3>2 DEF SlotOK, c
  <2>4. CASE w # r
    <3>1. r.h # c.tx
      BY <2>1, <2>4 DEF DistinctHandles
    <3>2. Confirmed(c, r.h, ok) = c
      BY <1>2, <3>1 DEF Confirmed, MatchesOnly, MatchesEarlier, MatchesLater
    <3> QED  BY <1>2, <2>1, <2>2, <2>4, <3>2 DEF SlotOK, c
  <2> QED  BY <2>3, <2>4
<1>3. CASE c.pending = 2
  <2>1. PICK w, v \in reqs : /\ w.slot = s /\ w.h = c.tx /\ w.msg.dev = c.addr
                             /\ v.slot = s /\ v.h = c.ptx /\ v.msg.dev = c.addr
                             /\ v.n < w.n
    BY <1>3 DEF SlotOK, c
  <2>2. c.state # "free" /\ w # v
    <3>1. w.n \in Nat
      BY DEF TypeOK, Requests
    <3> QED  BY <1>3, <2>1, <3>1 DEF SlotOK, c
  <2>3. c.tx # c.ptx
    BY <2>1, <2>2 DEF DistinctHandles
  <2>4. CASE r = v
    <3>1. Confirmed(c, r.h, ok) = [c EXCEPT !.pending = 1]
      BY <1>3, <2>1, <2>4 DEF Confirmed, MatchesOnly, MatchesEarlier
    <3>2. /\ Confirmed(c, r.h, ok).pending = 1 /\ Confirmed(c, r.h, ok).msg = c.msg
          /\ Confirmed(c, r.h, ok).addr = c.addr /\ Confirmed(c, r.h, ok).tx = c.tx
          /\ Confirmed(c, r.h, ok).state = c.state
      BY <1>1, <3>1 DEF SlotRecords
    <3> QED  BY <2>1, <2>2, <2>4, <3>2 DEF SlotOK, c
  <2>5. CASE r = w
    <3>1. Confirmed(c, r.h, ok) = [c EXCEPT !.pending = 1, !.tx = c.ptx]
      BY <1>3, <2>1, <2>3, <2>5 DEF Confirmed, MatchesOnly, MatchesEarlier, MatchesLater
    <3>2. /\ Confirmed(c, r.h, ok).pending = 1 /\ Confirmed(c, r.h, ok).msg = c.msg
          /\ Confirmed(c, r.h, ok).addr = c.addr /\ Confirmed(c, r.h, ok).tx = c.ptx
          /\ Confirmed(c, r.h, ok).state = c.state
      BY <1>1, <3>1 DEF SlotRecords
    <3> QED  BY <2>1, <2>2, <2>5, <3>2 DEF SlotOK, c
  <2>6. CASE r # v /\ r # w
    <3>1. r.h # c.tx /\ r.h # c.ptx
      BY <2>1, <2>6 DEF DistinctHandles
    <3>2. Confirmed(c, r.h, ok) = c
      BY <1>3, <3>1 DEF Confirmed, MatchesOnly, MatchesEarlier, MatchesLater
    <3> QED  BY <1>3, <2>1, <2>2, <2>6, <3>2 DEF SlotOK, c
  <2> QED  BY <2>4, <2>5, <2>6
<1>4. CASE c.pending # 1 /\ c.pending # 2
  <2>1. Confirmed(c, r.h, ok) = c
    BY <1>4 DEF Confirmed, MatchesOnly, MatchesEarlier, MatchesLater
  <2> QED  BY <1>4, <2>1 DEF SlotOK, c
<1> QED  BY <1>2, <1>3, <1>4

(* Without a rekeying, a confirm is all that happens to the slots. *)
LEMMA ConfirmStepIs ==
    ASSUME TypeOK, NoRekeying, NEW r \in reqs, ConfirmStep(r)
    PROVE  \E ok \in BOOLEAN :
              /\ ConfirmFor(r, ok) /\ slots' = AfterConfirm(r.h, ok)
              /\ UNCHANGED <<rekey, keyIndex, rands, thread>>
              /\ list' = list \/ (ok /\ ConfirmJoin(r))
<1>1. ASSUME NEW ok \in BOOLEAN, ConfirmProgress(r, ok)
      PROVE  /\ ConfirmFor(r, ok) /\ slots' = AfterConfirm(r.h, ok)
             /\ UNCHANGED <<rekey, keyIndex, rands, thread>> /\ list' = list
  BY <1>1 DEF ConfirmProgress
<1>2. ASSUME ConfirmJoin(r)
      PROVE  /\ ConfirmFor(r, TRUE) /\ slots' = AfterConfirm(r.h, TRUE)
             /\ UNCHANGED <<rekey, keyIndex, rands, thread>>
  BY <1>2 DEF ConfirmJoin
<1>3. ~ConfirmRekeyNext(r) /\ ~ConfirmRekeyPhase(r) /\ ~ConfirmRekeyEnd(r)
  BY DEF NoRekeying, ConfirmRekeyNext, ConfirmRekeyPhase, ConfirmRekeyEnd
<1> QED  BY <1>1, <1>2, <1>3 DEF ConfirmStep

LEMMA ConfirmStepConfirms ==
    ASSUME TypeOK, ConfirmInv, DistinctHandles, NEW r \in reqs, ConfirmStep(r)
    PROVE  RequestsOK' /\ SlotsOK(slots', reqs')
<1>1. PICK ok \in BOOLEAN : ConfirmFor(r, ok) /\ slots' = AfterConfirm(r.h, ok)
  BY ConfirmStepIs DEF ConfirmInv, ThreadsOK
<1>2. reqs' = reqs \ {r} /\ sent' = sent
  BY <1>1 DEF ConfirmFor
<1>3. RequestsOK'
  BY <1>2 DEF ConfirmInv, RequestsOK
<1>4. ASSUME NEW s \in Slots PROVE SlotOK(slots'[s], s, reqs')
  <2>1. slots'[s] = Confirmed(slots[s], r.h, ok)
    BY <1>1 DEF AfterConfirm
  <2> QED  BY <1>2, <2>1, ConfirmedSlot DEF ConfirmInv, SlotsOK
<1> QED  BY <1>3, <1>4 DEF SlotsOK

(* bs_process. *)
LEMMA BsProcessConfirms ==
    ASSUME TypeOK, ConfirmInv, NEW s \in Slots, BsProcess(s)
    PROVE  RequestsOK' /\ SlotsOK(slots', reqs')
<1>1. slots[s] \in SlotRecords /\ slots \in [Slots -> SlotRecords]
  BY DEF TypeOK
<1>2. CASE CheckSlot(s)
  <2>1. slots' = slots /\ reqs' = reqs /\ sent' = sent
    BY <1>2 DEF CheckSlot
  <2> QED  BY <2>1 DEF ConfirmInv, RequestsOK
<1>3. CASE ResendSlot(s)
  <2> DEFINE st == BackToSent(slots[s].state)
             r == [slots[s] EXCEPT !.attempts = 1, !.state = st]
  <2>1. /\ thread["main"] = Doing("resend", s)
        /\ IF r.msg.kind # "none" THEN SendFrom(s, r)
           ELSE slots' = [slots EXCEPT ![s] = r] /\ UNCHANGED <<reqs, sent>>
    BY <1>3 DEF ResendSlot
  <2>2. st \in States /\ st # "free"
    <3>1. \A x \in States : x # "free" => BackToSent(x) \in States /\ BackToSent(x) # "free"
      BY DEF BackToSent, States
    <3>2. slots[s].state # "free" /\ slots[s].state \in States
      BY <1>1, <2>1 DEF ConfirmInv, ThreadsOK, NoRekeying, SlotRecords
    <3> QED  BY <3>1, <3>2
  <2> HIDE DEF st
  <2>3. /\ r \in SlotRecords /\ r.state # "free" /\ r.msg = slots[s].msg
        /\ r.addr = slots[s].addr
        /\ r.pending = slots[s].pending /\ r.tx = slots[s].tx /\ r.ptx = slots[s].ptx
    BY <1>1, <2>2 DEF SlotRecords
  <2> HIDE DEF r
  <2>4. SlotOK(slots[s], s, reqs)
    BY DEF ConfirmInv, SlotsOK
  <2>5. CASE r.msg.kind # "none"
    <3>1. SendFrom(s, r) /\ r.msg.dev = r.addr
      BY <2>1, <2>3, <2>4, <2>5 DEF SlotOK
    <3> QED  BY <2>3, <3>1, SendFromOK
  <2>6. CASE r.msg.kind = "none"
    <3>1. slots' = [slots EXCEPT ![s] = r] /\ reqs' = reqs /\ sent' = sent
      BY <2>1, <2>6
    <3>2. SlotOK(r, s, reqs)
      BY <2>3, <2>4, SlotChangesOK DEF SlotOK
    <3> QED  BY <1>1, <3>1, <3>2 DEF ConfirmInv, SlotsOK, RequestsOK
  <2> QED  BY <2>5, <2>6
<1>4. CASE ResetSlot(s)
  <2>1. slots' = [slots EXCEPT ![s] = Abort(slots[s])] /\ reqs' = reqs /\ sent' = sent
    BY <1>4 DEF ResetSlot
  <2>2. SlotsOK(slots', reqs)
    BY <1>1, <2>1, AbortOK DEF ConfirmInv
  <2> QED  BY <2>1, <2>2 DEF ConfirmInv, SlotsOK, RequestsOK
<1> QED  BY <1>2, <1>3, <1>4 DEF BsProcess

(* Every step. *)
LEMMA ConfirmStepInv ==
    ASSUME "rekey" \notin Api, "preempt" \notin Env, "drop" \notin Env, "randp" \notin Env
    PROVE  TypeOK /\ ConfirmsInTime /\ ConfirmInv /\ [Next]_vars => ConfirmInv'
<1> SUFFICES ASSUME TypeOK, ConfirmsInTime, ConfirmInv, [Next]_vars
             PROVE  RequestsOK' /\ SlotsOK(slots', reqs')
  BY ThreadsStep DEF ConfirmInv, SlotsOK
<1>1. DistinctHandles
  BY HandlesDiffer DEF ConfirmInv
<1>2. ASSUME RequestsOK', StillSent(reqs, reqs'), slots' = slots
      PROVE  SlotsOK(slots', reqs')
  BY <1>2, SlotStaysOK DEF ConfirmInv, SlotsOK
<1>3. ASSUME reqs' = reqs, sent' = sent
      PROVE  RequestsOK' /\ StillSent(reqs, reqs')
  BY <1>3 DEF ConfirmInv, RequestsOK, StillSent
<1>4. ASSUME NEW d \in Devices, Indication(d) PROVE RequestsOK' /\ SlotsOK(slots', reqs')
  BY <1>4, IndicationConfirms
<1>5. ASSUME NEW r \in reqs, ConfirmStep(r) PROVE RequestsOK' /\ SlotsOK(slots', reqs')
  BY <1>1, <1>5, ConfirmStepConfirms
<1>6. ASSUME NEW s \in Slots, BsProcess(s) PROVE RequestsOK' /\ SlotsOK(slots', reqs')
  BY <1>6, BsProcessConfirms
<1>7. ASSUME NEW t \in {"main", "usi"} PROVE ~RekeySend(t)
  BY DEF RekeySend, ConfirmInv, ThreadsOK, NoRekeying
<1>8. CASE KickSend
  <2>1. /\ reqs' = reqs \cup {Request(NoSlot, Msg("kick", thread["main"].dev, 0, NoShort, 0))}
        /\ sent' = sent + 1 /\ slots' = slots
    BY <1>8 DEF KickSend
  <2>2. RequestsOK' /\ StillSent(reqs, reqs')
    BY <2>1, SendFromRequests DEF ConfirmInv
  <2> QED  BY <1>2, <2>1, <2>2
<1>9. CASE ApiStep
  <2>1. reqs' = reqs /\ sent' = sent /\ slots' = slots
    BY <1>9 DEF ApiStep, LaunchRekeying, ApiCall, KickDevice, SetDeviceList,
                SetInitialShortAddress, AddDeviceToBlacklist
  <2> QED  BY <1>2, <1>3, <2>1
<1>10. CASE Network
  <2>1. slots' = slots /\ sent' = sent
    BY <1>10 DEF Network, Deliver, LoseConfirm, LoseReply, DelayT3, Leave, coordVars
  <2>2. ASSUME NEW r \in reqs, Deliver(r) PROVE RequestsOK' /\ StillSent(reqs, reqs')
    BY <2>2, DeliverRequests DEF ConfirmInv
  <2>3. ASSUME NEW d \in Devices, LoseReply(d) \/ DelayT3(d) \/ Leave(d) PROVE reqs' = reqs
    BY <2>3 DEF LoseReply, DelayT3, Leave
  <2>4. RequestsOK' /\ StillSent(reqs, reqs')
    BY <1>3, <1>10, <2>1, <2>2, <2>3 DEF Network, LoseConfirm
  <2> QED  BY <1>2, <2>1, <2>4
<1>11. CASE UNCHANGED vars
  BY <1>2, <1>3, <1>11 DEF vars, coordVars
<1> QED  BY <1>4, <1>5, <1>6, <1>7, <1>8, <1>9, <1>10, <1>11 DEF Next

(* At first nothing is sent and no slot in use. *)
LEMMA ConfirmInit == Init => ConfirmInv
<1> SUFFICES ASSUME Init PROVE ConfirmInv
  OBVIOUS
<1>1. RequestsOK
  BY DEF Init, RequestsOK
<1>2. /\ FreshSlot.state = "free" /\ FreshSlot.pending = 0
      /\ FreshSlot.msg.kind = "none"
  BY DEF FreshSlot, NoMsg, Msg
<1>3. SlotsOK(slots, reqs)
  BY <1>2 DEF Init, SlotsOK, SlotOK
<1>4. Idle.op = "idle" /\ \A s : Doing("resend", s).op = "resend"
  BY DEF Idle, Doing
<1>5. ThreadsOK
  BY <1>4 DEF Init, ThreadsOK, NoRekeying
<1> QED  BY <1>1, <1>3, <1>5 DEF ConfirmInv

(* While the application never asks for a rekeying, bs_process is not      *)
(* interrupted, devices draw a new RandP each time, no confirm is lost and *)
(* none is later than the next use of its handle, a confirm moves only the *)
(* exchange whose request it answers, however late, lost or repeated the   *)
(* messages are: it is neither taken for that of another slot nor for that *)
(* of an earlier exchange of the same slot with another device.            *)
THEOREM ConfirmMovesIt ==
    ASSUME "rekey" \notin Api, "preempt" \notin Env, "drop" \notin Env, "randp" \notin Env
    PROVE  Spec /\ []ConfirmsInTime => ConfirmMovesItsExchange
<1> DEFINE Moves ==
             \A r \in reqs, s \in Slots :
                /\ \A q \in reqs' : q.n # r.n
                /\ slots'[s].state # slots[s].state
                /\ thread' = thread
                => r.slot = s /\ r.msg.dev = slots[s].addr
<1>1. ASSUME TypeOK, ConfirmsInTime, ConfirmInv, [Next]_vars PROVE Moves
  <2>1. SUFFICES ASSUME NEW r \in reqs, NEW s \in Slots,
                        \A q \in reqs' : q.n # r.n,
                        slots'[s].state # slots[s].state
                 PROVE  r.slot = s /\ r.msg.dev = slots[s].addr
    OBVIOUS
  <2>2. DistinctHandles
    BY <1>1, HandlesDiffer DEF ConfirmInv
  <2>3. PICK q \in reqs : ConfirmStep(q)
    <3>1. ~(r \in reqs')
      BY <2>1
    <3>2. ASSUME NEW d \in Devices, Indication(d) PROVE reqs \subseteq reqs'
      BY <3>2 DEF Indication, JoiningNoSlot, JoiningDeclined, JoiningNew, JoiningRepeated,
           HandleT1, HandleT3, HandleBadRandS, KickFromLbd, HandleUnexpected, SendFirst, SendFrom
    <3>3. ASSUME NEW x \in Slots, BsProcess(x) PROVE reqs \subseteq reqs'
      BY <3>3 DEF BsProcess, CheckSlot, ResendSlot, ResetSlot, SendFrom
    <3>4. ASSUME NEW t \in {"main", "usi"}, RekeySend(t) PROVE reqs \subseteq reqs'
      BY <3>4 DEF RekeySend, SendFirst, SendFrom
    <3>5. KickSend => reqs \subseteq reqs'
      BY DEF KickSend
    <3>6. ApiStep \/ Network \/ UNCHANGED vars => slots' = slots
      BY <1>1, UnchangedSlots DEF ApiStep, LaunchRekeying, ApiCall
    <3> QED  BY <1>1, <2>1, <3>1, <3>2, <3>3, <3>4, <3>5, <3>6 DEF Next
  <2>4. PICK ok \in BOOLEAN : ConfirmFor(q, ok) /\ slots' = AfterConfirm(q.h, ok)
    BY <1>1, <2>3, ConfirmStepIs DEF ConfirmInv, ThreadsOK
  <2>5. r = q
    BY <2>1, <2>4 DEF ConfirmFor
  <2>6. slots'[s] = Confirmed(slots[s], r.h, ok)
    BY <2>4, <2>5 DEF AfterConfirm
  <2>7. RequestsOK /\ SlotOK(slots[s], s, reqs)
    BY <1>1 DEF ConfirmInv, SlotsOK
  <2>8. Confirmed(slots[s], r.h, ok).state # slots[s].state
        => r.slot = s /\ r.msg.dev = slots[s].addr
    BY <1>1, <2>2, <2>7, ConfirmedSlot
  <2> QED  BY <2>1, <2>6, <2>8
<1>2. TypeOK /\ ConfirmsInTime /\ ConfirmInv /\ [Next]_vars => ConfirmInv'
  BY ConfirmStepInv
<1>3. TypeOK /\ ConfirmsInTime /\ ConfirmInv /\ [Next]_vars => [Moves]_vars
  BY <1>1
<1> QED  BY <1>2, <1>3, InitType, TypeStep, ConfirmInit, PTL
         DEF Spec, ConfirmMovesItsExchange

-----------------------------------------------------------------------------
(* Free slots, whatever becomes of the confirms *)

FreeOK(ss) == \A s \in Slots : ss[s].state = "free" => ss[s].pending = 0

(* What a slot sends, and its buffer being emptied, keep it in use or free. *)
LEMMA AnswersFree ==
    ASSUME TypeOK, FreeOK(slots), NEW s, NEW r, NEW d, Answers(s, r, d)
    PROVE  FreeOK(slots')
<1> DEFINE q == [r EXCEPT !.attempts = 0]
<1>1. q \in SlotRecords /\ q.state = r.state
  BY DEF Answers, Sends, SlotRecords
<1>2. slots' = [slots EXCEPT ![s] = Transmit(q)] /\ r.state # "free"
  BY DEF Answers, Sends, SendFirst, SendFrom
<1> HIDE DEF q
<1>3. Transmit(q).state = q.state
  BY <1>1 DEF Transmit, SlotRecords
<1> QED  BY <1>1, <1>2, <1>3 DEF FreeOK, TypeOK

LEMMA ClearFree ==
    ASSUME NEW ss \in [Slots -> SlotRecords], NEW d, FreeOK(ss)
    PROVE  FreeOK(Clear(ss, d))
<1>1. CASE ~HasSlot(ss, d)
  BY <1>1 DEF Clear
<1>2. CASE HasSlot(ss, d)
  <2> DEFINE s == SlotFor(ss, d)
             q == [ss[s] EXCEPT !.msg = NoMsg]
  <2>1. s \in Slots /\ ss[s] \in SlotRecords /\ Clear(ss, d) = [ss EXCEPT ![s] = q]
    BY <1>2, SlotForIn DEF Clear
  <2> HIDE DEF s
  <2>2. q.state = ss[s].state /\ q.pending = ss[s].pending
    BY <2>1 DEF SlotRecords
  <2> HIDE DEF q
  <2> QED  BY <2>1, <2>2 DEF FreeOK
<1> QED  BY <1>1, <1>2

LEMMA AbortFree ==
    ASSUME NEW ss \in [Slots -> SlotRecords], NEW s \in Slots, FreeOK(ss)
    PROVE  FreeOK([ss EXCEPT ![s] = Abort(ss[s])])
<1>1. Abort(ss[s]).pending = 0
  BY DEF Abort, SlotRecords
<1> QED  BY <1>1 DEF FreeOK

LEMMA IndicationFree ==
    ASSUME "randp" \notin Env, TypeOK, FreeOK(slots), NEW d \in Devices, Indication(d)
    PROVE  FreeOK(slots')
<1>1. slots \in [Slots -> SlotRecords]
  BY DEF TypeOK
<1>2. CASE JoiningDeclined(d)
  BY <1>2, DeclinedSends, AnswersFree
<1>3. CASE JoiningNew(d)
  BY <1>3, NewSends, AnswersFree
<1>4. CASE HandleT1(d)
  BY <1>4, T1Sends, AnswersFree
<1>5. CASE HandleT3(d)
  BY <1>5, T3Sends, AnswersFree
<1>6. CASE JoiningRepeated(d) \/ KickFromLbd(d)
  BY <1>1, <1>6, ClearFree DEF JoiningRepeated, KickFromLbd
<1>7. CASE JoiningNoSlot(d)
  BY <1>7 DEF JoiningNoSlot
<1>8. ASSUME NEW type \in {"T1", "T3"}, HandleUnexpected(d, type)
      PROVE  FreeOK(slots')
  <2> DEFINE ss == Clear(slots, d)
  <2>1. ss \in [Slots -> SlotRecords] /\ FreeOK(ss)
    BY <1>1, ClearType, ClearFree
  <2>2. HasSlot(slots, d) =>
           /\ SlotFor(slots, d) \in Slots
           /\ slots' = [ss EXCEPT ![SlotFor(slots, d)] = Abort(ss[SlotFor(slots, d)])]
    BY <1>8, SlotForIn DEF HandleUnexpected
  <2> HIDE DEF ss
  <2>3. ~HasSlot(slots, d) => slots' = slots
    BY <1>8 DEF HandleUnexpected
  <2> QED  BY <2>1, <2>2, <2>3, AbortFree
<1> QED  BY <1>2, <1>3, <1>4, <1>5, <1>6, <1>7, <1>8, NoBadRandS DEF Indication

(* A confirm frees a slot only when it awaits no other. *)
LEMMA ConfirmedFree ==
    ASSUME TypeOK, FreeOK(slots), NEW h, NEW ok \in BOOLEAN
    PROVE  FreeOK(AfterConfirm(h, ok))
<1> SUFFICES ASSUME NEW s \in Slots, Confirmed(slots[s], h, ok).state = "free"
             PROVE  Confirmed(slots[s], h, ok).pending = 0
  BY DEF FreeOK, AfterConfirm
<1> DEFINE c == slots[s]
<1>1. c \in SlotRecords /\ (c.state = "free" => c.pending = 0)
  BY DEF TypeOK, FreeOK
<1> HIDE DEF c
<1>2. CASE MatchesOnly(c, h)
  <2> DEFINE st == IF ok THEN AfterSuccess(c.state) ELSE "free"
  <2>1. Confirmed(c, h, ok) = [c EXCEPT !.pending = 0, !.state = st]
    BY <1>2 DEF Confirmed, MatchesOnly, MatchesEarlier, MatchesLater
  <2> HIDE DEF st
  <2> QED  BY <1>1, <2>1 DEF SlotRecords, c
<1>3. CASE MatchesEarlier(c, h)
  <2>1. Confirmed(c, h, ok) = [c EXCEPT !.pending = 1] /\ c.state # "free"
    BY <1>1, <1>3 DEF Confirmed, MatchesOnly, MatchesEarlier
  <2> QED  BY <1>1, <2>1 DEF SlotRecords, c
<1>4. CASE MatchesLater(c, h) /\ ~MatchesEarlier(c, h)
  <2>1. Confirmed(c, h, ok) = [c EXCEPT !.pending = 1, !.tx = c.ptx] /\ c.state # "free"
    BY <1>1, <1>4 DEF Confirmed, MatchesOnly, MatchesEarlier, MatchesLater
  <2> QED  BY <1>1, <2>1 DEF SlotRecords, c
<1>5. CASE ~Matches(c, h)
  <2>1. Confirmed(c, h, ok) = c
    BY <1>5 DEF Confirmed, Matches
  <2> QED  BY <1>1, <2>1 DEF c
<1> QED  BY <1>2, <1>3, <1>4, <1>5 DEF Matches

LEMMA BsProcessFree ==
    ASSUME TypeOK, FreeOK(slots), ThreadsOK, NEW s \in Slots, BsProcess(s)
    PROVE  FreeOK(slots')
<1>1. slots[s] \in SlotRecords /\ slots \in [Slots -> SlotRecords]
  BY DEF TypeOK
<1>2. CASE CheckSlot(s)
  BY <1>2 DEF CheckSlot
<1>3. CASE ResendSlot(s)
  <2> DEFINE st == BackToSent(slots[s].state)
             r == [slots[s] EXCEPT !.attempts = 1, !.state = st]
  <2>1. st \in States /\ st # "free"
    <3>1. \A x \in States : x # "free" => BackToSent(x) \in States /\ BackToSent(x) # "free"
      BY DEF BackToSent, States
    <3>2. slots[s].state # "free" /\ slots[s].state \in States
      BY <1>1, <1>3 DEF ResendSlot, ThreadsOK, NoRekeying, SlotRecords
    <3> QED  BY <3>1, <3>2
  <2>2. slots' = [slots EXCEPT ![s] = r] \/ slots' = [slots EXCEPT ![s] = Transmit(r)]
    BY <1>3 DEF ResendSlot, SendFrom
  <2> HIDE DEF st
  <2>3. r \in SlotRecords /\ r.state = st
    BY <1>1, <2>1 DEF SlotRecords
  <2> HIDE DEF r
  <2>4. Transmit(r).state = st
    BY <2>3 DEF Transmit, SlotRecords
  <2> QED  BY <1>1, <2>1, <2>2, <2>3, <2>4 DEF FreeOK
<1>4. CASE ResetSlot(s)
  BY <1>1, <1>4, AbortFree DEF ResetSlot
<1> QED  BY <1>2, <1>3, <1>4 DEF BsProcess

(* While the application never asks for a rekeying, bs_process is not      *)
(* interrupted and no device draws the RandP of an earlier attempt again   *)
(* (or a slot freed for a wrong RandS sends once more), a free slot awaits *)
(* no confirm, also where confirms are lost: the next exchange in it will  *)
(* not count one of the last one's.                                        *)
THEOREM FreeAwaitsNothing ==
    ASSUME "rekey" \notin Api, "preempt" \notin Env, "randp" \notin Env
    PROVE  Spec => []FreeSlotAwaitsNothing
<1> DEFINE FreeInv == ThreadsOK /\ FreeOK(slots)
<1>1. Init => FreeInv
  <2>1. Idle.op = "idle" /\ \A s : Doing("resend", s).op = "resend"
    BY DEF Idle, Doing
  <2> QED  BY <2>1 DEF Init, ThreadsOK, NoRekeying, FreeOK, FreshSlot
<1>2. ASSUME TypeOK, FreeInv, [Next]_vars PROVE FreeInv'
  <2>1. ASSUME NEW d \in Devices, Indication(d) PROVE FreeOK(slots')
    BY <1>2, <2>1, IndicationFree
  <2>2. ASSUME NEW r \in reqs, ConfirmStep(r) PROVE FreeOK(slots')
    BY <1>2, <2>2, ConfirmStepIs, ConfirmedFree DEF ThreadsOK
  <2>3. ASSUME NEW s \in Slots, BsProcess(s) PROVE FreeOK(slots')
    BY <1>2, <2>3, BsProcessFree
  <2>4. ASSUME NEW t \in {"main", "usi"} PROVE ~RekeySend(t)
    BY <1>2 DEF RekeySend, ThreadsOK, NoRekeying
  <2>5. ASSUME KickSend \/ ApiStep \/ Network \/ UNCHANGED vars PROVE FreeOK(slots')
    BY <1>2, <2>5, UnchangedSlots DEF ApiStep, LaunchRekeying, ApiCall
  <2>6. FreeOK(slots')
    BY <1>2, <2>1, <2>2, <2>3, <2>4, <2>5 DEF Next
  <2>7. ThreadsOK'
    BY <1>2, ThreadsStep
  <2> QED  BY <2>6, <2>7 DEF FreeOK
<1>3. FreeInv => FreeSlotAwaitsNothing
  BY DEF FreeOK, FreeSlotAwaitsNothing
<1>4. TypeOK /\ FreeInv /\ [Next]_vars => FreeInv'
  BY <1>2
<1> HIDE DEF FreeInv
<1> QED  BY <1>1, <1>3, <1>4, InitType, TypeStep, PTL DEF Spec


-----------------------------------------------------------------------------
(* What the steps do to the exchanges *)

Busy == {"sent1", "wait2", "sent3", "wait4", "accepted"}

(* A slot after a step, q, that was r before it, is in the same exchange,  *)
(* with the same message in its buffer or none, or has been freed.         *)
GoesOn(q, r) ==
    /\ q.addr = r.addr /\ q.short = r.short /\ q.randS = r.randS
    /\ q.state \in Busy => r.state \in Busy
    /\ q.state = "declined" => r.state = "declined"
    /\ q.msg = r.msg \/ q.msg = NoMsg

AllGoOn(qq, rr) == \A x \in Slots : GoesOn(qq[x], rr[x])

(* Sending leaves in a slot what it sends. *)
LEMMA SendFromLeaves ==
    ASSUME TypeOK, NEW s \in Slots, NEW r \in SlotRecords, SendFrom(s, r)
    PROVE  /\ slots'[s].state = r.state /\ slots'[s].addr = r.addr
           /\ slots'[s].short = r.short /\ slots'[s].randS = r.randS
           /\ slots'[s].msg = r.msg
           /\ \A x \in Slots : x # s => slots'[x] = slots[x]
           /\ reqs' = reqs \cup {Request(s, r.msg)}
<1>1. slots' = [slots EXCEPT ![s] = Transmit(r)] /\ slots \in [Slots -> SlotRecords]
      /\ reqs' = reqs \cup {Request(s, r.msg)}
  BY DEF SendFrom, TypeOK
<1>2. /\ Transmit(r).state = r.state /\ Transmit(r).addr = r.addr
      /\ Transmit(r).short = r.short /\ Transmit(r).randS = r.randS
      /\ Transmit(r).msg = r.msg
  BY DEF Transmit, SlotRecords
<1> QED  BY <1>1, <1>2

LEMMA AnswersLeaves ==
    ASSUME TypeOK, NEW s, NEW r, NEW d, Answers(s, r, d)
    PROVE  /\ s \in Slots
           /\ slots'[s].state = r.state /\ slots'[s].addr = r.addr
           /\ slots'[s].short = r.short /\ slots'[s].randS = r.randS
           /\ slots'[s].msg = r.msg
           /\ \A x \in Slots : x # s => slots'[x] = slots[x]
           /\ reqs' = reqs \cup {Request(s, r.msg)}
<1> DEFINE q == [r EXCEPT !.attempts = 0]
<1>1. /\ q \in SlotRecords /\ q.state = r.state /\ q.addr = r.addr
      /\ q.short = r.short /\ q.randS = r.randS /\ q.msg = r.msg
  BY DEF Answers, Sends, SlotRecords
<1>2. SendFrom(s, q) /\ s \in Slots
  BY DEF Answers, Sends, SendFirst
<1> HIDE DEF q
<1> QED  BY <1>1, <1>2, SendFromLeaves

(* A wrong RandS leaves a free slot, with what it sends in its buffer. *)
LEMMA BadRandSLeaves ==
    ASSUME TypeOK, NEW d \in Devices, HandleBadRandS(d)
    PROVE  \E s \in Slots :
              /\ slots'[s].state = "free" /\ slots'[s].addr = slots[s].addr
              /\ slots'[s].msg.short = NoShort
              /\ \A x \in Slots : x # s => slots'[x] = slots[x]
              /\ \A q \in reqs' : q \in reqs \/ q.msg.short = NoShort
              /\ dev' = dev
<1> DEFINE s == SlotFor(slots, d)
           m == Msg("bare", d, 0, NoShort, 0)
           q == Abort(slots[s])
           r == [[q EXCEPT !.msg = m] EXCEPT !.attempts = 0]
<1>1. HasSlot(slots, d) /\ SendFrom(s, r) /\ dev' = dev
  BY DEF HandleBadRandS, SendFirst, Receives
<1>2. m \in Messages /\ m.short = NoShort
  BY MsgType DEF Kinds, KeyIds, Msg
<1>3. s \in Slots /\ slots[s] \in SlotRecords
  BY <1>1, FoundSlot DEF IsSlotFor
<1> HIDE DEF s, m
<1>4. q \in SlotRecords /\ q.state = "free" /\ q.addr = slots[s].addr
  <2>1. q \in SlotRecords
    BY <1>3, AbortType
  <2> QED  BY <1>3, <2>1 DEF SlotRecords, Abort
<1> HIDE DEF q
<1>5. r \in SlotRecords /\ r.state = "free" /\ r.addr = slots[s].addr /\ r.msg = m
  BY <1>2, <1>4 DEF SlotRecords
<1> HIDE DEF r
<1>6. /\ slots'[s].state = r.state /\ slots'[s].addr = r.addr /\ slots'[s].msg = r.msg
      /\ \A x \in Slots : x # s => slots'[x] = slots[x]
      /\ reqs' = reqs \cup {Request(s, r.msg)}
  BY <1>1, <1>3, <1>5, SendFromLeaves
<1>7. Request(s, m).msg = m
  BY DEF Request
<1> QED  BY <1>1, <1>2, <1>3, <1>5, <1>6, <1>7

(* Emptying a buffer and giving up keep exchanges going on or end them. *)
LEMMA ClearGoesOn ==
    ASSUME NEW ss \in [Slots -> SlotRecords], NEW d
    PROVE  AllGoOn(Clear(ss, d), ss)
<1>1. CASE ~HasSlot(ss, d)
  BY <1>1 DEF Clear, AllGoOn, GoesOn
<1>2. CASE HasSlot(ss, d)
  <2> DEFINE s == SlotFor(ss, d)
             q == [ss[s] EXCEPT !.msg = NoMsg]
  <2>1. s \in Slots /\ ss[s] \in SlotRecords /\ Clear(ss, d) = [ss EXCEPT ![s] = q]
    BY <1>2, SlotForIn DEF Clear
  <2> HIDE DEF s
  <2>2. GoesOn(q, ss[s])
    BY <2>1 DEF SlotRecords, GoesOn
  <2> HIDE DEF q
  <2> QED  BY <2>1, <2>2 DEF AllGoOn, GoesOn
<1> QED  BY <1>1, <1>2

LEMMA AbortGoesOn ==
    ASSUME NEW ss \in [Slots -> SlotRecords], NEW rr, NEW s \in Slots, AllGoOn(ss, rr)
    PROVE  AllGoOn([ss EXCEPT ![s] = Abort(ss[s])], rr)
<1>1. /\ Abort(ss[s]).addr = ss[s].addr /\ Abort(ss[s]).short = ss[s].short
      /\ Abort(ss[s]).randS = ss[s].randS /\ Abort(ss[s]).msg = ss[s].msg
      /\ Abort(ss[s]).state = "free"
  BY DEF Abort, SlotRecords
<1> QED  BY <1>1 DEF AllGoOn, GoesOn, Busy

(* A confirm lets them wait for the answer, or ends them. *)
LEMMA ConfirmedGoesOn ==
    ASSUME TypeOK, NEW h, NEW ok \in BOOLEAN
    PROVE  AllGoOn(AfterConfirm(h, ok), slots)
<1> SUFFICES ASSUME NEW s \in Slots PROVE GoesOn(Confirmed(slots[s], h, ok), slots[s])
  BY DEF AllGoOn, AfterConfirm
<1> DEFINE c == slots[s]
<1>1. c \in SlotRecords
  BY DEF TypeOK
<1> HIDE DEF c
<1>2. CASE MatchesOnly(c, h)
  <2> DEFINE st == IF ok THEN AfterSuccess(c.state) ELSE "free"
  <2>1. Confirmed(c, h, ok) = [c EXCEPT !.pending = 0, !.state = st]
    BY <1>2 DEF Confirmed, MatchesOnly, MatchesEarlier, MatchesLater
  <2>2. (st \in Busy => c.state \in Busy) /\ st # "declined"
    BY DEF AfterSuccess, Busy
  <2> HIDE DEF st
  <2> QED  BY <1>1, <2>1, <2>2 DEF SlotRecords, GoesOn, c
<1>3. CASE MatchesEarlier(c, h)
  <2>1. Confirmed(c, h, ok) = [c EXCEPT !.pending = 1]
    BY <1>3 DEF Confirmed, MatchesOnly, MatchesEarlier
  <2> QED  BY <1>1, <2>1 DEF SlotRecords, GoesOn, c
<1>4. CASE MatchesLater(c, h) /\ ~MatchesEarlier(c, h)
  <2>1. Confirmed(c, h, ok) = [c EXCEPT !.pending = 1, !.tx = c.ptx]
    BY <1>4 DEF Confirmed, MatchesOnly, MatchesEarlier, MatchesLater
  <2> QED  BY <1>1, <2>1 DEF SlotRecords, GoesOn, c
<1>5. CASE ~Matches(c, h)
  <2>1. Confirmed(c, h, ok) = c
    BY <1>5 DEF Confirmed, Matches
  <2> QED  BY <2>1 DEF GoesOn, c
<1> QED  BY <1>2, <1>3, <1>4, <1>5 DEF Matches

(* So does bs_process, which may send again what a slot holds. *)
LEMMA BsProcessGoesOn ==
    ASSUME TypeOK, NEW s \in Slots, BsProcess(s)
    PROVE  /\ AllGoOn(slots', slots)
           /\ reqs' \subseteq reqs \cup {Request(s, slots[s].msg)}
<1>1. slots[s] \in SlotRecords /\ slots \in [Slots -> SlotRecords]
  BY DEF TypeOK
<1>2. CASE CheckSlot(s)
  BY <1>2 DEF CheckSlot, AllGoOn, GoesOn
<1>3. CASE ResendSlot(s)
  <2> DEFINE st == BackToSent(slots[s].state)
             r == [slots[s] EXCEPT !.attempts = 1, !.state = st]
  <2>1. \/ SendFrom(s, r)
        \/ slots' = [slots EXCEPT ![s] = r] /\ reqs' = reqs
    BY <1>3 DEF ResendSlot
  <2>2. /\ st \in States
        /\ st \in Busy => slots[s].state \in Busy
        /\ st = "declined" => slots[s].state = "declined"
    <3>1. \A x \in States : /\ BackToSent(x) \in States
                            /\ BackToSent(x) \in Busy => x \in Busy
                            /\ BackToSent(x) = "declined" => x = "declined"
      BY DEF BackToSent, States, Busy
    <3> QED  BY <1>1, <3>1 DEF SlotRecords
  <2> HIDE DEF st
  <2>3. /\ r \in SlotRecords /\ r.state = st /\ r.msg = slots[s].msg
        /\ r.addr = slots[s].addr /\ r.short = slots[s].short /\ r.randS = slots[s].randS
    BY <1>1, <2>2 DEF SlotRecords
  <2> HIDE DEF r
  <2>4. CASE SendFrom(s, r)
    BY <2>2, <2>3, <2>4, SendFromLeaves DEF AllGoOn, GoesOn
  <2>5. CASE slots' = [slots EXCEPT ![s] = r] /\ reqs' = reqs
    BY <1>1, <2>2, <2>3, <2>5 DEF AllGoOn, GoesOn
  <2> QED  BY <2>1, <2>4, <2>5
<1>4. CASE ResetSlot(s)
  <2>1. AllGoOn(slots, slots)
    BY DEF AllGoOn, GoesOn
  <2> QED  BY <1>1, <1>4, <2>1, AbortGoesOn DEF ResetSlot
<1> QED  BY <1>2, <1>3, <1>4 DEF BsProcess

(* And the indications that answer nothing. *)
LEMMA SilentGoesOn ==
    ASSUME TypeOK, NEW d \in Devices,
           \/ JoiningNoSlot(d) \/ JoiningRepeated(d) \/ KickFromLbd(d)
           \/ \E type \in {"T1", "T3"} : HandleUnexpected(d, type)
    PROVE  AllGoOn(slots', slots) /\ reqs' = reqs
<1>1. slots \in [Slots -> SlotRecords] /\ AllGoOn(slots, slots)
  BY DEF TypeOK, AllGoOn, GoesOn
<1>2. CASE JoiningNoSlot(d)
  BY <1>1, <1>2 DEF JoiningNoSlot
<1>3. CASE JoiningRepeated(d) \/ KickFromLbd(d)
  BY <1>1, <1>3, ClearGoesOn DEF JoiningRepeated, KickFromLbd
<1>4. ASSUME NEW type \in {"T1", "T3"}, HandleUnexpected(d, type)
      PROVE  AllGoOn(slots', slots) /\ reqs' = reqs
  <2> DEFINE ss == Clear(slots, d)
  <2>1. ss \in [Slots -> SlotRecords] /\ AllGoOn(ss, slots)
    BY <1>1, ClearType, ClearGoesOn
  <2>2. HasSlot(slots, d) =>
           /\ SlotFor(slots, d) \in Slots
           /\ slots' = [ss EXCEPT ![SlotFor(slots, d)] = Abort(ss[SlotFor(slots, d)])]
    BY <1>4, SlotForIn DEF HandleUnexpected
  <2> HIDE DEF ss
  <2>3. reqs' = reqs /\ (~HasSlot(slots, d) => slots' = slots)
    BY <1>4 DEF HandleUnexpected
  <2> QED  BY <1>1, <2>1, <2>2, <2>3, AbortGoesOn
<1> QED  BY <1>2, <1>3, <1>4

-----------------------------------------------------------------------------
(* The addresses that devices are given *)

(* Slot record r holds address a for device d: as that of its exchange, or *)
(* in the message in its buffer.                                           *)
SlotHolds(r, d, a) == \/ r.addr = d /\ r.short = a /\ r.state \in Busy
                      \/ r.msg.dev = d /\ r.msg.short = a

(* So does the device, when it uses or has been offered it, or a request.  *)
Holds(d, a) ==
    \/ dev[d].short = a \/ dev[d].offer = a
    \/ \E r \in reqs : r.msg.dev = d /\ r.msg.short = a
    \/ \E x \in Slots : SlotHolds(slots[x], d, a)

(* Until the table has been used up, an address is held for one device and *)
(* is one of those given so far: the next one is new.                      *)
AddressesOK ==
    /\ AddressesBelowSize
    /\ list.size < MaxLbds =>
          \A d \in Devices, a \in Nat : Holds(d, a) =>
              /\ a < list.size + list.initial
              /\ \A e \in Devices : Holds(e, a) => e = d

LEMMA GoesOnHolds ==
    ASSUME NEW q, NEW r, NEW d, NEW a \in Nat, GoesOn(q, r), SlotHolds(q, d, a)
    PROVE  SlotHolds(r, d, a)
<1>1. NoMsg.short # a
  BY DEF NoMsg, Msg, NoShort
<1> QED  BY <1>1 DEF GoesOn, SlotHolds

(* What device d holds that the step has not touched, it held before. *)
LEMMA HeldBefore ==
    ASSUME TypeOK, NEW d \in Devices, NEW a \in Nat, AllGoOn(slots', slots),
           dev' = dev, Holds(d, a)',
           \A r \in reqs' : \/ r \in reqs
                            \/ \E x \in Slots : r.msg = slots[x].msg
                            \/ r.msg.short = NoShort
    PROVE  Holds(d, a)
<1>1. \A x \in Slots : SlotHolds(slots'[x], d, a) => SlotHolds(slots[x], d, a)
  BY GoesOnHolds DEF AllGoOn
<1>2. a # NoShort
  BY DEF NoShort
<1> QED  BY <1>1, <1>2 DEF Holds, SlotHolds

(* A device that answers an indication gets no address that it did not     *)
(* hold, unless its exchange is new.                                       *)
LEMMA AnswersHeld ==
    ASSUME TypeOK, NEW c, NEW s, NEW r, Answers(s, r, c), NEW d \in Devices, NEW a \in Nat,
           Holds(d, a)', dev'[d].short \in {dev[d].short, NoShort},
           dev'[d].offer = dev[d].offer, SlotHolds(r, d, a) => Holds(d, a)
    PROVE  Holds(d, a)
<1>1. /\ SlotHolds(slots'[s], d, a) => SlotHolds(r, d, a)
      /\ \A x \in Slots : x # s => slots'[x] = slots[x]
      /\ reqs' = reqs \cup {Request(s, r.msg)}
  BY AnswersLeaves DEF SlotHolds
<1>2. Request(s, r.msg).msg = r.msg
  BY DEF Request
<1>3. a # NoShort
  BY DEF NoShort
<1>4. ASSUME NEW q \in reqs', q.msg.dev = d, q.msg.short = a PROVE Holds(d, a)
  BY <1>1, <1>2, <1>4 DEF Holds, SlotHolds
<1>5. ASSUME NEW x \in Slots, SlotHolds(slots'[x], d, a) PROVE Holds(d, a)
  BY <1>1, <1>5 DEF Holds
<1> QED  BY <1>3, <1>4, <1>5 DEF Holds

(* An indication. *)
LEMMA IndicationHeld ==
    ASSUME TypeOK, NoRekeying, NEW c \in Devices, Indication(c),
           NEW d \in Devices, NEW a \in Nat, Holds(d, a)'
    PROVE  Holds(d, a) \/ (JoiningNew(d) /\ a = NewAddress(Forget(list, d), d))
<1>1. a # NoShort
  BY DEF NoShort
<1>2. dev'[d].short \in {dev[d].short, NoShort} /\ dev'[d].offer = dev[d].offer
  <2>1. CASE JoiningFrom(c)
    <3>1. dev' = [dev EXCEPT ![c] = [dev[c] EXCEPT !.stage = "idle", !.short = NoShort]]
      BY <2>1 DEF JoiningFrom
    <3> QED  BY <3>1 DEF TypeOK, DeviceRecords
  <2>2. CASE dev' = dev
    BY <2>2
  <2>3. JoiningFrom(c) \/ dev' = dev
    BY DEF Indication, JoiningNoSlot, JoiningDeclined, JoiningNew, JoiningRepeated,
           HandleT1, HandleT3, HandleBadRandS, KickFromLbd, HandleUnexpected, Receives
  <2> QED  BY <2>1, <2>2, <2>3
<1>3. CASE JoiningDeclined(c)
  <2>1. PICK s, r : Answers(s, r, c) /\ r.state = "declined"
                    /\ r.msg = Msg("decline", c, 0, NoShort, 0)
    BY <1>3, DeclinedSends
  <2>2. ~SlotHolds(r, d, a)
    BY <1>1, <2>1 DEF SlotHolds, Busy, Msg
  <2> QED  BY <1>2, <2>1, <2>2, AnswersHeld
<1>4. CASE JoiningNew(c)
  <2>1. PICK s, r : /\ Answers(s, r, c) /\ r.msg = Msg("msg1", c, rands, NoShort, 0)
                    /\ r.short = NewAddress(Forget(list, c), c)
    BY <1>4, NewSends DEF NoRekeying
  <2>2. SlotHolds(r, d, a) => d = c /\ a = NewAddress(Forget(list, c), c)
    BY <1>1, <2>1 DEF SlotHolds, Msg, Answers
  <2> QED  BY <1>2, <1>4, <2>1, <2>2, AnswersHeld
<1>5. CASE HandleT1(c)
  <2>1. PICK s, r : /\ Answers(s, r, c) /\ Expects(slots[s], "T1") /\ slots[s].addr = c
                    /\ r.short = slots[s].short
                    /\ r.msg = Msg("msg3", c, slots[s].randS, slots[s].short, keyIndex)
    BY <1>5, T1Sends DEF NoRekeying
  <2>2. SlotHolds(r, d, a) => SlotHolds(slots[s], d, a)
    BY <1>1, <2>1 DEF SlotHolds, Msg, Answers, Expects, Busy
  <2>3. SlotHolds(r, d, a) => Holds(d, a)
    BY <2>1, <2>2 DEF Holds, Answers, Sends
  <2> QED  BY <1>2, <2>1, <2>3, AnswersHeld
<1>6. CASE HandleT3(c)
  <2>1. PICK s, r : /\ Answers(s, r, c) /\ Expects(slots[s], "T3") /\ slots[s].addr = c
                    /\ r.short = slots[s].short /\ r.msg = Msg("accepted", c, 0, NoShort, 0)
    BY <1>6, T3Sends
  <2>2. SlotHolds(r, d, a) => SlotHolds(slots[s], d, a)
    BY <1>1, <2>1 DEF SlotHolds, Msg, Answers, Expects, Busy
  <2>3. SlotHolds(r, d, a) => Holds(d, a)
    BY <2>1, <2>2 DEF Holds, Answers, Sends
  <2> QED  BY <1>2, <2>1, <2>3, AnswersHeld
<1>7. ASSUME AllGoOn(slots', slots), reqs' = reqs PROVE Holds(d, a)
  <2>1. \A x \in Slots : SlotHolds(slots'[x], d, a) => SlotHolds(slots[x], d, a)
    BY <1>7, GoesOnHolds DEF AllGoOn
  <2> QED  BY <1>1, <1>2, <1>7, <2>1 DEF Holds
<1>8. CASE HandleBadRandS(c)
  <2>1. PICK s \in Slots :
              /\ slots'[s].state = "free" /\ slots'[s].msg.short = NoShort
              /\ \A x \in Slots : x # s => slots'[x] = slots[x]
              /\ \A q \in reqs' : q \in reqs \/ q.msg.short = NoShort
              /\ dev' = dev
    BY <1>8, BadRandSLeaves
  <2>2. ~SlotHolds(slots'[s], d, a)
    BY <1>1, <2>1 DEF SlotHolds, Busy
  <2> QED  BY <1>1, <2>1, <2>2 DEF Holds
<1> QED  BY <1>3, <1>4, <1>5, <1>6, <1>7, <1>8, SilentGoesOn DEF Indication

(* A device that gets a message uses what it was offered, and is offered   *)
(* what the message says.                                                  *)
LEMMA LearnHolds ==
    ASSUME NEW v \in DeviceRecords, NEW m \in Messages
    PROVE  /\ Learn(v, m).short \in {v.short, v.offer, NoShort}
           /\ Learn(v, m).offer \in {v.offer, m.short}
<1>1. CASE m.kind = "msg1"
  BY <1>1 DEF Learn, DeviceRecords
<1>2. CASE m.kind = "msg3"
  BY <1>2 DEF Learn, DeviceRecords
<1>3. CASE m.kind = "accepted"
  <2>1. CASE v.stage # "msg3"
    BY <1>3, <2>1 DEF Learn
  <2>2. CASE v.stage = "msg3" /\ v.offer = NoShort
    <3>1. Learn(v, m) = [v EXCEPT !.stage = "idle", !.keys = v.keys \cup {v.key}]
      BY <1>3, <2>2 DEF Learn
    <3> QED  BY <3>1 DEF DeviceRecords
  <2>3. CASE v.stage = "msg3" /\ v.offer # NoShort
    <3>1. Learn(v, m) = [v EXCEPT !.stage = "idle", !.short = v.offer,
                                  !.keys = {v.key}, !.active = v.key]
      BY <1>3, <2>3 DEF Learn
    <3> QED  BY <3>1 DEF DeviceRecords
  <2> QED  BY <2>1, <2>2, <2>3
<1>4. CASE m.kind \in {"activate", "decline", "kick"}
  BY <1>4 DEF Learn, DeviceRecords
<1>5. CASE m.kind \in {"none", "bare"}
  BY <1>5 DEF Learn
<1>6. m.kind \in Kinds
  BY DEF Messages
<1> QED  BY <1>1, <1>2, <1>3, <1>4, <1>5, <1>6 DEF Kinds

(* The network only brings a device what was sent to it. *)
LEMMA NetworkHeld ==
    ASSUME TypeOK, Network, NEW d \in Devices, NEW a \in Nat, Holds(d, a)'
    PROVE  Holds(d, a)
<1>1. a # NoShort
  BY DEF NoShort
<1>2. slots' = slots
  BY DEF Network, Deliver, LoseConfirm, LoseReply, DelayT3, Leave, coordVars
<1>3. ASSUME NEW r \in reqs, Deliver(r) PROVE Holds(d, a)
  <2> DEFINE new == [r EXCEPT !.delivered = TRUE]
             c == r.msg.dev
  <2>1. new.msg = r.msg /\ r.msg \in Messages
    BY DEF TypeOK, Requests
  <2>2. /\ reqs' = (reqs \ {r}) \cup {new} /\ c \in Devices
        /\ dev' = [dev EXCEPT ![c] = Learn(dev[c], r.msg)]
    BY <1>3 DEF Deliver, Sendable
  <2> HIDE DEF new, c
  <2>3. \A q \in reqs' : \E p \in reqs : q.msg = p.msg
    BY <2>1, <2>2
  <2>4. ASSUME dev'[d].short = a \/ dev'[d].offer = a PROVE Holds(d, a)
    <3>1. CASE d = c
      <4>1. dev'[d] = Learn(dev[d], r.msg) /\ dev[d] \in DeviceRecords
        BY <2>2, <3>1 DEF TypeOK
      <4>2. /\ dev'[d].short \in {dev[d].short, dev[d].offer, NoShort}
            /\ dev'[d].offer \in {dev[d].offer, r.msg.short}
        BY <2>1, <4>1, LearnHolds
      <4> QED  BY <1>1, <2>4, <3>1, <4>2 DEF Holds, c
    <3>2. CASE d # c
      BY <2>2, <2>4, <3>2 DEF Holds, TypeOK
    <3> QED  BY <3>1, <3>2
  <2> QED  BY <1>2, <2>3, <2>4 DEF Holds
<1>4. ASSUME NEW r \in reqs, LoseConfirm(r) PROVE Holds(d, a)
  BY <1>2, <1>4 DEF LoseConfirm, Holds
<1>5. ASSUME NEW c \in Devices, LoseReply(c) \/ DelayT3(c) PROVE Holds(d, a)
  BY <1>2, <1>5 DEF LoseReply, DelayT3, Holds
<1>6. ASSUME NEW c \in Devices, Leave(c) PROVE Holds(d, a)
  <2>1. dev' = [dev EXCEPT ![c] = [dev[c] EXCEPT !.stage = "idle", !.short = NoShort]]
        /\ reqs' = reqs
    BY <1>6 DEF Leave
  <2>2. dev'[d].short \in {dev[d].short, NoShort} /\ dev'[d].offer = dev[d].offer
    BY <2>1 DEF TypeOK, DeviceRecords
  <2> QED  BY <1>1, <1>2, <2>1, <2>2 DEF Holds
<1> QED  BY <1>3, <1>4, <1>5, <1>6 DEF Network

(* Every step: what a device holds after it, it held before, but for the   *)
(* address of a new exchange.                                              *)
LEMMA NextHeld ==
    ASSUME "rekey" \notin Api, TypeOK, NoRekeying, [Next]_vars,
           NEW d \in Devices, NEW a \in Nat, Holds(d, a)'
    PROVE  Holds(d, a) \/ (JoiningNew(d) /\ a = NewAddress(Forget(list, d), d))
<1>1. AllGoOn(slots, slots)
  BY DEF AllGoOn, GoesOn
<1>2. ASSUME NEW r \in reqs, ConfirmStep(r) PROVE Holds(d, a)
  <2>1. AllGoOn(slots', slots) /\ reqs' \subseteq reqs /\ dev' = dev
    BY <1>2, ConfirmStepIs, ConfirmedGoesOn DEF ConfirmFor
  <2> QED  BY <2>1, HeldBefore
<1>3. ASSUME NEW s \in Slots, BsProcess(s) PROVE Holds(d, a)
  <2>1. AllGoOn(slots', slots) /\ reqs' \subseteq reqs \cup {Request(s, slots[s].msg)}
    BY <1>3, BsProcessGoesOn
  <2>2. dev' = dev
    BY <1>3 DEF BsProcess, CheckSlot, ResendSlot, ResetSlot
  <2>3. \A r \in reqs' : r \in reqs \/ r.msg = slots[s].msg
    BY <2>1 DEF Request
  <2> QED  BY <2>1, <2>2, <2>3, HeldBefore
<1>4. ASSUME NEW t \in {"main", "usi"} PROVE ~RekeySend(t)
  BY DEF RekeySend, NoRekeying
<1>5. CASE KickSend
  <2>1. /\ reqs' = reqs \cup {Request(NoSlot, Msg("kick", thread["main"].dev, 0, NoShort, 0))}
        /\ slots' = slots /\ dev' = dev
    BY <1>5 DEF KickSend
  <2>2. \A r \in reqs' : r \in reqs \/ r.msg.short = NoShort
    BY <2>1 DEF Request, Msg
  <2> QED  BY <1>1, <2>1, <2>2, HeldBefore
<1>6. CASE ApiStep \/ UNCHANGED vars
  <2>1. slots' = slots /\ dev' = dev /\ reqs' = reqs
    BY <1>6 DEF ApiStep, LaunchRekeying, ApiCall, KickDevice, SetDeviceList,
                SetInitialShortAddress, AddDeviceToBlacklist, vars, coordVars
  <2> QED  BY <1>1, <2>1, HeldBefore
<1> QED  BY <1>2, <1>3, <1>4, <1>5, <1>6, IndicationHeld, NetworkHeld DEF Next

(* No step is a new exchange for two devices. *)
LEMMA NewIsOne ==
    ASSUME TypeOK, NEW d \in Devices, NEW e \in Devices, JoiningNew(d), JoiningNew(e)
    PROVE  d = e
<1>1. PICK s, r : Answers(s, r, d) /\ slots[s].state = "free" /\ r.state = "sent1"
  BY NewSends
<1>2. PICK t, q : Answers(t, q, e) /\ slots[t].state = "free" /\ q.state = "sent1"
  BY NewSends
<1>3. /\ s \in Slots /\ slots'[s].state = "sent1" /\ slots'[s].addr = d
      /\ \A x \in Slots : x # s => slots'[x] = slots[x]
  BY <1>1, AnswersLeaves DEF Answers
<1>4. t \in Slots /\ slots'[t].state = "sent1" /\ slots'[t].addr = e
  BY <1>2, AnswersLeaves DEF Answers
<1> QED  BY <1>2, <1>3, <1>4

(* The size of the table and its first address change only by a new        *)
(* exchange, which takes one more position.                                *)
LEMMA ListShape ==
    ASSUME "initial" \notin Api, TypeOK, NoRekeying, [Next]_vars
    PROVE  /\ list'.initial = list.initial
           /\ \/ list'.size = list.size
              \/ \E d \in Devices : JoiningNew(d) /\ list' = Grow(Forget(list, d))
<1>1. list \in Lists
  BY DEF TypeOK
<1>2. ASSUME NEW l \in Lists, NEW a
      PROVE  RemoveEntry(l, a).size = l.size /\ RemoveEntry(l, a).initial = l.initial
  BY DEF RemoveEntry, Lists
<1>3. ASSUME NEW l \in Lists, NEW d, NEW a
      PROVE  AddEntry(l, d, a).size = l.size /\ AddEntry(l, d, a).initial = l.initial
  BY DEF AddEntry, Lists
<1>4. ASSUME NEW d \in Devices, JoiningNew(d)
      PROVE  list'.initial = list.initial /\ list' = Grow(Forget(list, d))
  <2>1. list' = Grow(Forget(list, d))
    BY <1>4 DEF JoiningNew, NoRekeying
  <2>2. Forget(list, d) \in Lists /\ Forget(list, d).initial = list.initial
    BY <1>1, <1>2, ForgetType DEF Forget
  <2>3. Grow(Forget(list, d)).initial = Forget(list, d).initial
    BY <2>2 DEF Grow, Lists
  <2> QED  BY <2>1, <2>2, <2>3
<1>5. ASSUME NEW d \in Devices, Indication(d), ~JoiningNew(d)
      PROVE  list'.size = list.size /\ list'.initial = list.initial
  <2>1. list' = list \/ \E a : list' = RemoveEntry(list, a)
    BY <1>5 DEF Indication, JoiningNoSlot, JoiningDeclined, JoiningRepeated, HandleT1,
                HandleT3, HandleBadRandS, HandleUnexpected, KickFromLbd
  <2> QED  BY <1>1, <1>2, <2>1
<1>6. ASSUME NEW r \in reqs, ConfirmStep(r)
      PROVE  list'.size = list.size /\ list'.initial = list.initial
  <2>1. list' = list \/ \E d, a : list' = AddEntry(list, d, a)
    BY <1>6, ConfirmStepIs DEF ConfirmJoin
  <2> QED  BY <1>1, <1>3, <2>1
<1>7. ASSUME NEW s \in Slots, BsProcess(s) PROVE list' = list
  BY <1>7 DEF BsProcess, CheckSlot, ResendSlot, ResetSlot
<1>8. ASSUME NEW t \in {"main", "usi"} PROVE ~RekeySend(t)
  BY DEF RekeySend, NoRekeying
<1>9. CASE KickSend
  BY <1>1, <1>2, <1>9 DEF KickSend
<1>10. CASE ApiStep
  <2>1. ASSUME NEW d, NEW a, SetDeviceList(d, a)
        PROVE  list'.size = list.size /\ list'.initial = list.initial
    BY <1>1, <1>3, <2>1 DEF SetDeviceList
  <2> QED  BY <1>10, <2>1 DEF ApiStep, LaunchRekeying, ApiCall, KickDevice,
                              SetInitialShortAddress, AddDeviceToBlacklist
<1>11. CASE Network \/ UNCHANGED vars
  BY <1>11 DEF Network, Deliver, LoseConfirm, LoseReply, DelayT3, Leave, vars, coordVars
<1> QED  BY <1>4, <1>5, <1>6, <1>7, <1>8, <1>9, <1>10, <1>11 DEF Next

(* The address of a new exchange is the next one, while there is one. *)
LEMMA NewAddressIs ==
    ASSUME ~ShortFromExt, TypeOK, NEW d \in Devices
    PROVE  /\ list.size < MaxLbds =>
                 /\ NewAddress(Forget(list, d), d) = list.size + list.initial
                 /\ Grow(Forget(list, d)).size = list.size + 1
           /\ NewAddress(Forget(list, d), d) < Grow(Forget(list, d)).size + list.initial
           /\ Grow(Forget(list, d)).size >= list.size
<1> DEFINE l == Forget(list, d)
<1>1. list \in Lists /\ l \in Lists
  BY ForgetType DEF TypeOK
<1>2. l.size = list.size /\ l.initial = list.initial
  BY <1>1 DEF Forget, RemoveEntry, Lists
<1> HIDE DEF l
<1>3. NewAddress(l, d) < Grow(l).size + list.initial
  BY <1>1, <1>2, NewAddressBelow
<1>4. l.size \in Nat /\ l.initial \in Nat
  BY <1>1, LbdListAssumption DEF Lists
<1>5. list.size < MaxLbds => /\ NewAddress(l, d) = list.size + list.initial
                             /\ Grow(l).size = list.size + 1
  BY <1>1, <1>2 DEF NewAddress, Grow, Lists
<1>6. Grow(l).size >= list.size
  <2>1. CASE list.size < MaxLbds
    BY <1>2, <1>4, <1>5, <2>1
  <2>2. CASE ~(list.size < MaxLbds)
    BY <1>2, <1>4, <2>2 DEF Grow
  <2> QED  BY <2>1, <2>2
<1> QED  BY <1>3, <1>5, <1>6 DEF l

(* Only a new exchange changes the address of a slot. *)
LEMMA ShortsStep ==
    ASSUME "rekey" \notin Api, TypeOK, NoRekeying, [Next]_vars, NEW x \in Slots
    PROVE  \/ slots'[x].short = slots[x].short
           \/ \E d \in Devices :
                 JoiningNew(d) /\ slots'[x].short = NewAddress(Forget(list, d), d)
<1>1. ASSUME NEW d \in Devices, JoiningNew(d)
      PROVE  slots'[x].short \in {slots[x].short, NewAddress(Forget(list, d), d)}
  <2>1. PICK s, r : Answers(s, r, d) /\ r.short = NewAddress(Forget(list, d), d)
    BY <1>1, NewSends DEF NoRekeying
  <2> QED  BY <2>1, AnswersLeaves
<1>2. ASSUME NEW d \in Devices, Indication(d), ~JoiningNew(d)
      PROVE  slots'[x].short = slots[x].short
  BY <1>2, IndicationSlots DEF SameShorts
<1>3. ASSUME NEW r \in reqs, ConfirmStep(r) PROVE slots'[x].short = slots[x].short
  BY <1>3, ConfirmStepShorts DEF SameShorts
<1>4. ASSUME NEW s \in Slots, BsProcess(s) PROVE slots'[x].short = slots[x].short
  BY <1>4, BsProcessSlots DEF SameShorts
<1>5. ASSUME NEW t \in {"main", "usi"} PROVE ~RekeySend(t)
  BY DEF RekeySend, NoRekeying
<1>6. KickSend \/ ApiStep \/ Network \/ UNCHANGED vars => slots' = slots
  BY UnchangedSlots DEF ApiStep, LaunchRekeying, ApiCall
<1> QED  BY <1>1, <1>2, <1>3, <1>4, <1>5, <1>6 DEF Next

LEMMA AddressesStep ==
    ASSUME "rekey" \notin Api, "initial" \notin Api, ~ShortFromExt
    PROVE  TypeOK /\ TypeOK' /\ NoRekeying /\ AddressesOK /\ [Next]_vars => AddressesOK'
<1> SUFFICES ASSUME TypeOK, TypeOK', NoRekeying, AddressesOK, [Next]_vars
             PROVE  AddressesOK'
  OBVIOUS
<1>1. /\ list.size \in Nat /\ list'.size \in Nat /\ list.initial \in Nat /\ MaxLbds \in Nat
      /\ list'.initial = list.initial
  BY ListShape, LbdListAssumption DEF TypeOK, Lists
<1>2. list'.size >= list.size
  BY <1>1, ListShape, NewAddressIs
<1>3. ASSUME NEW x \in Slots PROVE slots'[x].short < list'.size + list'.initial
  <2>1. slots[x].short < list.size + list.initial /\ slots[x].short \in Nat
    BY DEF AddressesOK, AddressesBelowSize, TypeOK, SlotRecords
  <2>2. CASE slots'[x].short = slots[x].short
    BY <1>1, <1>2, <2>1, <2>2
  <2>3. ASSUME NEW d \in Devices, JoiningNew(d),
               slots'[x].short = NewAddress(Forget(list, d), d)
        PROVE  slots'[x].short < list'.size + list'.initial
    <3>1. list' = Grow(Forget(list, d))
      BY <2>3 DEF JoiningNew, NoRekeying
    <3> QED  BY <1>1, <2>3, <3>1, NewAddressIs
  <2> QED  BY <2>2, <2>3, ShortsStep
<1>4. ASSUME list'.size < MaxLbds, NEW d \in Devices, NEW a \in Nat, Holds(d, a)'
      PROVE  /\ a < list'.size + list'.initial
             /\ \A e \in Devices : Holds(e, a)' => e = d
  <2>1. list.size < MaxLbds
    BY <1>1, <1>2, <1>4
  <2>2. \A e \in Devices : Holds(e, a) =>
           /\ a < list.size + list.initial
           /\ \A f \in Devices : Holds(f, a) => f = e
    BY <2>1 DEF AddressesOK
  <2>3. ASSUME NEW e \in Devices, Holds(e, a)'
        PROVE  Holds(e, a) \/ (JoiningNew(e) /\ a = list.size + list.initial)
    BY <2>1, <2>3, NextHeld, NewAddressIs
  <2>4. JoiningNew(d) => list'.size = list.size + 1
    BY <2>1, NewAddressIs DEF JoiningNew, NoRekeying
  <2>5. a < list'.size + list'.initial
    BY <1>1, <1>2, <1>4, <2>2, <2>3, <2>4
  <2>6. ASSUME NEW e \in Devices, Holds(e, a)' PROVE e = d
    <3>1. Holds(d, a) \/ (JoiningNew(d) /\ a = list.size + list.initial)
      BY <1>4, <2>3
    <3>2. Holds(e, a) \/ (JoiningNew(e) /\ a = list.size + list.initial)
      BY <2>3, <2>6
    <3>3. \A f \in Devices : Holds(f, a) => ~(a = list.size + list.initial)
      BY <1>1, <2>2
    <3> QED  BY <2>2, <3>1, <3>2, <3>3, NewIsOne
  <2> QED  BY <2>5, <2>6
<1> QED  BY <1>3, <1>4 DEF AddressesOK, AddressesBelowSize

(* At first no address is held. *)
LEMMA AddressesInit == Init => NoRekeying /\ AddressesOK
<1> SUFFICES ASSUME Init PROVE NoRekeying /\ AddressesOK
  OBVIOUS
<1>1. NoRekeying
  BY DEF Init, NoRekeying, Idle
<1>2. /\ FreshSlot.state = "free" /\ FreshSlot.msg.short = NoShort /\ FreshSlot.short = 0
      /\ NewDevice.short = NoShort /\ NewDevice.offer = NoShort
      /\ EmptyList.size = 0 /\ EmptyList.initial = 1
  BY DEF FreshSlot, NoMsg, Msg, NewDevice, EmptyList
<1>3. ASSUME NEW d \in Devices, NEW a \in Nat PROVE ~Holds(d, a)
  BY <1>2 DEF Init, Holds, SlotHolds, NoShort, Busy
<1>4. AddressesBelowSize
  BY <1>2 DEF Init, AddressesBelowSize
<1> QED  BY <1>1, <1>3, <1>4 DEF AddressesOK

(* While the application never asks for a rekeying nor moves the first     *)
(* short address, and addresses are not derived from extended ones, no two *)
(* devices ever use the same short address until the table has been used   *)
(* up, in any environment and whatever becomes of their exchanges.         *)
THEOREM NoShortIsShared ==
    ASSUME "rekey" \notin Api, "initial" \notin Api, ~ShortFromExt
    PROVE  Spec => []NoSharedShort
<1>1. TypeOK /\ AddressesOK => NoSharedShort
  <2> SUFFICES ASSUME TypeOK, AddressesOK, NEW d \in Devices, NEW e \in Devices, d # e,
                      dev[d].short = dev[e].short, dev[d].short # NoShort,
                      list.size # MaxLbds
               PROVE  FALSE
    BY DEF NoSharedShort
  <2>1. dev[d].short \in Nat /\ list.size < MaxLbds
    BY LbdListAssumption DEF TypeOK, DeviceRecords, Lists
  <2>2. Holds(d, dev[d].short) /\ Holds(e, dev[d].short)
    BY DEF Holds
  <2> QED  BY <2>1, <2>2 DEF AddressesOK
<1>2. TypeOK /\ NoRekeying /\ [Next]_vars => NoRekeying'
  BY NoRekeyingStep
<1>3. TypeOK /\ TypeOK' /\ NoRekeying /\ AddressesOK /\ [Next]_vars => AddressesOK'
  BY AddressesStep
<1> QED  BY <1>1, <1>2, <1>3, InitType, TypeStep, AddressesInit, PTL DEF Spec

(* Only a joining request starts an exchange in a slot, and it gives it    *)
(* the new address.                                                        *)
LEMMA StartsNew ==
    ASSUME "rekey" \notin Api, TypeOK, NoRekeying, [Next]_vars, NEW x \in Slots,
           slots'[x].randS # slots[x].randS \/ slots'[x].addr # slots[x].addr,
           slots'[x].state = "sent1"
    PROVE  \E d \in Devices :
              /\ JoiningNew(d) /\ slots'[x].addr = d
              /\ slots'[x].short = NewAddress(Forget(list, d), d)
<1> USE DEF GoesOn
<1>1. ASSUME AllGoOn(slots', slots) PROVE FALSE
  BY <1>1 DEF AllGoOn
<1>2. ASSUME NEW d \in Devices, Indication(d) PROVE JoiningNew(d)
  <2>1. CASE JoiningDeclined(d)
    <3>1. PICK s, r : Answers(s, r, d) /\ r.state = "declined"
      BY <2>1, DeclinedSends
    <3> QED  BY <3>1, AnswersLeaves
  <2>2. CASE HandleT1(d)
    <3>1. PICK s, r : Answers(s, r, d) /\ r.state = "sent3"
      BY <2>2, T1Sends
    <3> QED  BY <3>1, AnswersLeaves
  <2>3. CASE HandleT3(d)
    <3>1. PICK s, r : Answers(s, r, d) /\ r.state = "accepted"
      BY <2>3, T3Sends
    <3> QED  BY <3>1, AnswersLeaves
  <2>4. CASE HandleBadRandS(d)
    BY <2>4, BadRandSLeaves
  <2> QED  BY <1>1, <1>2, <2>1, <2>2, <2>3, <2>4, SilentGoesOn DEF Indication
<1>3. ASSUME NEW d \in Devices, JoiningNew(d)
      PROVE  slots'[x].addr = d /\ slots'[x].short = NewAddress(Forget(list, d), d)
  <2>1. PICK s, r : Answers(s, r, d) /\ r.short = NewAddress(Forget(list, d), d)
    BY <1>3, NewSends DEF NoRekeying
  <2>2. s = x /\ r.addr = d
    BY <2>1, AnswersLeaves DEF Answers
  <2> QED  BY <2>1, <2>2, AnswersLeaves
<1>4. ASSUME NEW r \in reqs, ConfirmStep(r) PROVE FALSE
  BY <1>1, <1>4, ConfirmStepIs, ConfirmedGoesOn
<1>5. ASSUME NEW s \in Slots, BsProcess(s) PROVE FALSE
  BY <1>1, <1>5, BsProcessGoesOn
<1>6. ASSUME NEW t \in {"main", "usi"} PROVE ~RekeySend(t)
  BY DEF RekeySend, NoRekeying
<1>7. KickSend \/ ApiStep \/ Network \/ UNCHANGED vars => slots' = slots
  BY UnchangedSlots DEF ApiStep, LaunchRekeying, ApiCall
<1> QED  BY <1>2, <1>3, <1>4, <1>5, <1>6, <1>7 DEF Next

(* Under the same hypotheses, the address set aside for a new exchange is  *)
(* in use nowhere: no other device has it, and no other slot.              *)
THEOREM NewIsNotInUse ==
    ASSUME "rekey" \notin Api, "initial" \notin Api, ~ShortFromExt
    PROVE  Spec => NewAddressNotInUse
<1> DEFINE NotInUse ==
              \A s \in Slots :
                 /\ list.size < MaxLbds
                 /\ slots'[s].randS # slots[s].randS \/ slots'[s].addr # slots[s].addr
                 /\ slots'[s].state = "sent1" /\ ~rekey.on
                 => /\ \A e \in Devices : e # slots'[s].addr => dev[e].short # slots'[s].short
                    /\ \A t \in Slots : t # s /\ slots[t].state \notin {"free", "declined"}
                                       => slots[t].short # slots'[s].short
<1>1. TypeOK /\ NoRekeying /\ AddressesOK /\ [Next]_vars => NotInUse
  <2> SUFFICES ASSUME TypeOK, NoRekeying, AddressesOK, [Next]_vars, NEW s \in Slots,
                      list.size < MaxLbds, slots'[s].state = "sent1",
                      slots'[s].randS # slots[s].randS \/ slots'[s].addr # slots[s].addr
               PROVE  /\ \A e \in Devices : dev[e].short # slots'[s].short
                      /\ \A t \in Slots : slots[t].short # slots'[s].short
    OBVIOUS
  <2>1. slots'[s].short = list.size + list.initial
    BY StartsNew, NewAddressIs
  <2>2. list.size \in Nat /\ list.initial \in Nat
    BY DEF TypeOK, Lists
  <2>3. ASSUME NEW e \in Devices, dev[e].short = list.size + list.initial PROVE FALSE
    <3>1. dev[e].short \in Nat /\ Holds(e, dev[e].short)
      BY <2>2, <2>3 DEF Holds
    <3> QED  BY <2>2, <2>3, <3>1 DEF AddressesOK
  <2>4. \A t \in Slots : slots[t].short # list.size + list.initial
    BY <2>2 DEF AddressesOK, AddressesBelowSize
  <2> QED  BY <2>1, <2>3, <2>4
<1>2. TypeOK /\ NoRekeying /\ [Next]_vars => NoRekeying'
  BY NoRekeyingStep
<1>3. TypeOK /\ TypeOK' /\ NoRekeying /\ AddressesOK /\ [Next]_vars => AddressesOK'
  BY AddressesStep
<1>4. NotInUse => [NotInUse]_vars
  OBVIOUS
<1> QED  BY <1>1, <1>2, <1>3, InitType, TypeStep, AddressesInit, PTL DEF Spec, NewAddressNotInUse

-----------------------------------------------------------------------------
(* The entries of the list, and the device that a kick is about *)

(* Only the slot whose request it answers is matched with a confirm. *)
LEMMA MatchedSlot ==
    ASSUME TypeOK, DistinctHandles, SlotsOK(slots, reqs), NEW r \in reqs,
           NEW s \in Slots, Matches(slots[s], r.h)
    PROVE  s = r.slot
<1>1. SlotOK(slots[s], s, reqs)
  BY DEF SlotsOK
<1>2. CASE MatchesOnly(slots[s], r.h)
  <2>1. PICK w \in reqs : w.slot = s /\ w.h = slots[s].tx
    BY <1>1, <1>2 DEF SlotOK, MatchesOnly
  <2> QED  BY <1>2, <2>1 DEF MatchesOnly, DistinctHandles
<1>3. CASE MatchesEarlier(slots[s], r.h) \/ MatchesLater(slots[s], r.h)
  <2>1. PICK w, v \in reqs : /\ w.slot = s /\ w.h = slots[s].tx
                             /\ v.slot = s /\ v.h = slots[s].ptx
    BY <1>1, <1>3 DEF SlotOK, MatchesEarlier, MatchesLater
  <2>2. r = w \/ r = v
    BY <1>3, <2>1 DEF MatchesEarlier, MatchesLater, DistinctHandles
  <2> QED  BY <2>1, <2>2
<1> QED  BY <1>2, <1>3 DEF Matches

(* So the device that a finished join registers is that of an accepted     *)
(* exchange, at the address of that exchange.                              *)
LEMMA JoinsAccepted ==
    ASSUME TypeOK, DistinctHandles, SlotsOK(slots, reqs), NEW r \in reqs,
           JoinFinished(r.h, TRUE)
    PROVE  Current(r.h) \in Slots /\ slots[Current(r.h)].state = "accepted"
<1>1. PICK s \in Slots : MatchesOnly(slots[s], r.h) /\ slots[s].state = "accepted"
  BY DEF JoinFinished
<1>2. s \in Matched(r.h) /\ \A x \in Matched(r.h) : x = r.slot
  BY <1>1, MatchedSlot DEF Matched, Matches
<1>3. NumSlots \in Nat /\ Matched(r.h) \in SUBSET (0 .. NumSlots)
  BY LbpAssumption, SlotsAreNaturals DEF Matched
<1>4. Current(r.h) \in Matched(r.h)
  BY <1>2, <1>3, MaxIn DEF Current
<1> QED  BY <1>1, <1>2, <1>4

(* Device d is entered at address a, or about to be kicked from it. *)
Entered(l, d, a) == DeviceIsInList(l, a) /\ l.ext[a - l.initial] = d

Registered(d, a) ==
    \/ Entered(list, d, a)
    \/ thread["main"].op = "kick" /\ thread["main"].dev = d /\ thread["main"].short = a

Owns(d, a) == Holds(d, a) \/ Registered(d, a)

(* Until the table has been used up, whatever is left of an address, be it *)
(* in an exchange, at the device, in the list or in the kick that the main *)
(* thread is in, is of one device.                                         *)
OwnersOK ==
    list.size < MaxLbds =>
       \A d \in Devices, a \in Nat : Owns(d, a) =>
           /\ a < list.size + list.initial
           /\ \A e \in Devices : Owns(e, a) => e = d

(* What a kick is about was registered when it was called. *)
KickOK == thread["main"].op = "kick" =>
             thread["main"].dev \in Devices /\ thread["main"].short >= list.initial

LEMMA RemoveEntered ==
    ASSUME NEW l \in Lists, NEW b, NEW d \in Devices, NEW a \in Nat,
           Entered(RemoveEntry(l, b), d, a)
    PROVE  Entered(l, d, a)
<1>1. NoDevice # d
  BY LbdListAssumption
<1>2. CASE ~DeviceIsInList(l, b)
  BY <1>2 DEF RemoveEntry
<1>3. CASE DeviceIsInList(l, b)
  <2> DEFINE k == a - l.initial
  <2>1. /\ RemoveEntry(l, b).initial = l.initial
        /\ RemoveEntry(l, b).ext = [l.ext EXCEPT ![b - l.initial] = NoDevice]
    BY <1>3 DEF RemoveEntry, Lists
  <2>2. RemoveEntry(l, b).ext[k] = d /\ IsValidAddress(l, a)
    BY <2>1 DEF Entered, DeviceIsInList, IsValidAddress
  <2>3. k \in Cells
    BY <2>2, LbdListAssumption DEF IsValidAddress, Cells, Lists
  <2> HIDE DEF k
  <2>4. l.ext[k] = d
    BY <1>1, <2>1, <2>2, <2>3 DEF Lists
  <2> QED  BY <1>1, <2>2, <2>4 DEF Entered, DeviceIsInList, k
<1> QED  BY <1>2, <1>3

LEMMA AddEntered ==
    ASSUME NEW l \in Lists, NEW c, NEW b, NEW d \in Devices, NEW a \in Nat, b \in Nat,
           Entered(AddEntry(l, c, b), d, a)
    PROVE  Entered(l, d, a) \/ (c = d /\ b = a)
<1>1. NoDevice # d
  BY LbdListAssumption
<1>2. CASE ~CanAdd(l, c, b)
  BY <1>2 DEF AddEntry
<1>3. CASE CanAdd(l, c, b)
  <2> DEFINE k == a - l.initial
             j == b - l.initial
  <2>1. /\ AddEntry(l, c, b).initial = l.initial
        /\ AddEntry(l, c, b).ext = [l.ext EXCEPT ![j] = c]
    BY <1>3 DEF AddEntry, Lists
  <2>2. AddEntry(l, c, b).ext[k] = d /\ IsValidAddress(l, a)
    BY <2>1 DEF Entered, DeviceIsInList, IsValidAddress
  <2>3. k \in Cells
    BY <2>2, LbdListAssumption DEF IsValidAddress, Cells, Lists
  <2>4. k = j => a = b
    BY DEF Lists
  <2> HIDE DEF k, j
  <2>5. l.ext[k] = d \/ (k = j /\ c = d)
    BY <2>1, <2>2, <2>3 DEF Lists
  <2> QED  BY <1>1, <2>2, <2>4, <2>5 DEF Entered, DeviceIsInList, k
<1> QED  BY <1>2, <1>3

(* Every step: what is registered after it was registered before, or was   *)
(* held in an exchange that has been accepted.                             *)
LEMMA RegisteredStep ==
    ASSUME "rekey" \notin Api, "initial" \notin Api, "manual" \notin Api,
           TypeOK, ConfirmsInTime, ConfirmInv, [Next]_vars,
           NEW d \in Devices, NEW a \in Nat, Registered(d, a)'
    PROVE  Owns(d, a)
<1>1. /\ list \in Lists /\ NoRekeying
      /\ thread \in [{"main", "usi"} -> ThreadRecords]
  BY DEF TypeOK, ConfirmInv, ThreadsOK
<1>2. ASSUME \/ list' = list
             \/ \E b : list' = RemoveEntry(list, b),
             \/ thread'["main"] = thread["main"]
             \/ thread'["main"].op # "kick"
      PROVE  Owns(d, a)
  BY <1>1, <1>2, RemoveEntered DEF Registered, Owns
<1>3. ASSUME NEW c \in Devices, JoiningNew(c) PROVE Owns(d, a)
  <2>1. list' = Grow(Forget(list, c)) /\ thread' = thread
    BY <1>1, <1>3 DEF JoiningNew, JoiningFrom, NoRekeying
  <2>2. Forget(list, c) \in Lists
    BY <1>1, ForgetType
  <2>3. Entered(Grow(Forget(list, c)), d, a) => Entered(Forget(list, c), d, a)
    BY <2>2 DEF Entered, DeviceIsInList, IsValidAddress, Grow, Lists
  <2>4. Entered(Forget(list, c), d, a) => Entered(list, d, a)
    BY <1>1, RemoveEntered DEF Forget
  <2> QED  BY <2>1, <2>3, <2>4 DEF Registered, Owns
<1>4. ASSUME NEW c \in Devices, Indication(c), ~JoiningNew(c) PROVE Owns(d, a)
  <2>1. list' = list \/ \E b : list' = RemoveEntry(list, b)
    BY <1>4 DEF Indication, JoiningNoSlot, JoiningDeclined, JoiningRepeated, HandleT1,
                HandleT3, HandleBadRandS, HandleUnexpected, KickFromLbd
  <2>2. thread' = thread
    BY <1>4 DEF Indication, JoiningNoSlot, JoiningDeclined, JoiningRepeated, HandleT1,
                HandleT3, HandleBadRandS, HandleUnexpected, KickFromLbd, JoiningFrom, Receives
  <2> QED  BY <1>2, <2>1, <2>2
<1>5. ASSUME NEW r \in reqs, ConfirmStep(r) PROVE Owns(d, a)
  <2>1. thread' = thread /\ (list' = list \/ ConfirmJoin(r))
    BY <1>1, <1>5, ConfirmStepIs
  <2>2. CASE list' = list
    BY <1>2, <2>1, <2>2
  <2>3. CASE ConfirmJoin(r) /\ list' # list
    <3> DEFINE c == slots[Current(r.h)]
    <3>1. list' = AddEntry(list, c.addr, c.short) /\ JoinFinished(r.h, TRUE)
      BY <2>3 DEF ConfirmJoin
    <3>2. Current(r.h) \in Slots /\ c.state = "accepted"
      BY <3>1, JoinsAccepted, HandlesDiffer DEF ConfirmInv
    <3>3. c \in SlotRecords /\ c.short \in Nat
      BY <3>2 DEF TypeOK, SlotRecords
    <3>4. c.addr = d /\ c.short = a => Holds(d, a)
      BY <3>2 DEF Holds, SlotHolds, Busy
    <3> HIDE DEF c
    <3>5. Entered(list', d, a) => Entered(list, d, a) \/ Holds(d, a)
      BY <1>1, <3>1, <3>3, <3>4, AddEntered
    <3> QED  BY <2>1, <3>5 DEF Registered, Owns
  <2> QED  BY <2>1, <2>2, <2>3
<1>6. ASSUME NEW s \in Slots, BsProcess(s) PROVE Owns(d, a)
  <2>1. \A op, x : Doing(op, x).op = op
    BY DEF Doing, Idle
  <2>2. list' = list
    BY <1>6 DEF BsProcess, CheckSlot, ResendSlot, ResetSlot
  <2>3. CASE CheckSlot(s)
    <3>1. PICK op \in {"never", "resend", "reset"} :
             thread' = [thread EXCEPT !["main"] = Doing(op, s)]
      BY <2>3 DEF CheckSlot
    <3> QED  BY <1>1, <1>2, <2>1, <2>2, <3>1
  <2>4. CASE ResendSlot(s) \/ ResetSlot(s)
    BY <1>1, <1>2, <2>2, <2>4 DEF ResendSlot, ResetSlot, Idle
  <2> QED  BY <1>6, <2>3, <2>4 DEF BsProcess
<1>7. ASSUME NEW t \in {"main", "usi"} PROVE ~RekeySend(t)
  BY <1>1 DEF RekeySend, NoRekeying
<1>8. CASE KickSend
  BY <1>1, <1>2, <1>8 DEF KickSend, Idle
<1>9. ASSUME NEW b, KickDevice(b) PROVE Owns(d, a)
  <2>1. /\ DeviceIsInList(list, b) /\ list' = list
        /\ thread' = [thread EXCEPT !["main"] =
              [Doing("kick", 0) EXCEPT !.dev = list.ext[b - list.initial], !.short = b]]
    BY <1>9 DEF KickDevice
  <2>2. /\ thread'["main"].dev = list.ext[b - list.initial]
        /\ thread'["main"].short = b
    BY <1>1, <2>1 DEF Doing, Idle
  <2> QED  BY <2>1, <2>2 DEF Registered, Owns, Entered
<1>10. CASE ApiStep
  <2>1. \/ \E b : KickDevice(b)
        \/ list' = list /\ thread' = thread
    BY <1>10 DEF ApiStep, LaunchRekeying, ApiCall, SetDeviceList, SetInitialShortAddress,
                 AddDeviceToBlacklist
  <2> QED  BY <1>2, <1>9, <2>1
<1>11. CASE Network \/ UNCHANGED vars
  <2>1. list' = list /\ thread' = thread
    BY <1>11 DEF Network, Deliver, LoseConfirm, LoseReply, DelayT3, Leave, vars, coordVars
  <2> QED  BY <1>2, <2>1
<1> QED  BY <1>3, <1>4, <1>5, <1>6, <1>7, <1>8, <1>10, <1>11 DEF Next

LEMMA OwnersStep ==
    ASSUME "rekey" \notin Api, "initial" \notin Api, "manual" \notin Api, ~ShortFromExt
    PROVE  TypeOK /\ TypeOK' /\ ConfirmsInTime /\ ConfirmInv /\ OwnersOK /\ [Next]_vars
           => OwnersOK'
<1> SUFFICES ASSUME TypeOK, TypeOK', ConfirmsInTime, ConfirmInv, OwnersOK, [Next]_vars,
                    list'.size < MaxLbds, NEW d \in Devices, NEW a \in Nat, Owns(d, a)'
             PROVE  /\ a < list'.size + list'.initial
                    /\ \A e \in Devices : Owns(e, a)' => e = d
  BY DEF OwnersOK
<1>1. NoRekeying
  BY DEF ConfirmInv, ThreadsOK
<1>2. /\ list.size \in Nat /\ list'.size \in Nat /\ list.initial \in Nat /\ MaxLbds \in Nat
      /\ list'.initial = list.initial
  BY <1>1, ListShape, LbdListAssumption DEF TypeOK, Lists
<1>3. list'.size >= list.size /\ list.size < MaxLbds
  BY <1>1, <1>2, ListShape, NewAddressIs
<1>4. \A e \in Devices : Owns(e, a) =>
         /\ a < list.size + list.initial
         /\ \A f \in Devices : Owns(f, a) => f = e
  BY <1>3 DEF OwnersOK
<1>5. ASSUME NEW e \in Devices, Owns(e, a)'
      PROVE  Owns(e, a) \/ (JoiningNew(e) /\ a = list.size + list.initial)
  <2>1. Registered(e, a)' => Owns(e, a)
    BY RegisteredStep
  <2>2. Holds(e, a)' => Holds(e, a) \/ (JoiningNew(e) /\ a = list.size + list.initial)
    BY <1>1, <1>3, NextHeld, NewAddressIs
  <2> QED  BY <1>5, <2>1, <2>2 DEF Owns
<1>6. JoiningNew(d) => list'.size = list.size + 1
  BY <1>1, <1>3, NewAddressIs DEF JoiningNew, NoRekeying
<1>7. a < list'.size + list'.initial
  BY <1>2, <1>3, <1>4, <1>5, <1>6
<1>8. ASSUME NEW e \in Devices, Owns(e, a)' PROVE e = d
  <2>1. Owns(d, a) \/ (JoiningNew(d) /\ a = list.size + list.initial)
    BY <1>5
  <2>2. Owns(e, a) \/ (JoiningNew(e) /\ a = list.size + list.initial)
    BY <1>5, <1>8
  <2>3. \A f \in Devices : Owns(f, a) => ~(a = list.size + list.initial)
    BY <1>2, <1>4
  <2> QED  BY <1>4, <2>1, <2>2, <2>3, NewIsOne
<1> QED  BY <1>7, <1>8

LEMMA KickStep ==
    ASSUME "rekey" \notin Api, "initial" \notin Api
    PROVE  TypeOK /\ NoRekeying /\ KickOK /\ [Next]_vars => KickOK'
<1> SUFFICES ASSUME TypeOK, NoRekeying, KickOK, [Next]_vars PROVE KickOK'
  OBVIOUS
<1>1. list'.initial = list.initial /\ thread \in [{"main", "usi"} -> ThreadRecords]
  BY ListShape DEF TypeOK
<1>2. ASSUME \/ thread'["main"] = thread["main"]
             \/ thread'["main"].op # "kick"
      PROVE  KickOK'
  BY <1>1, <1>2 DEF KickOK
<1>3. ASSUME NEW d \in Devices, Indication(d) PROVE KickOK'
  BY <1>2, <1>3 DEF Indication, JoiningNoSlot, JoiningDeclined, JoiningNew, JoiningRepeated,
     HandleT1, HandleT3, HandleBadRandS, KickFromLbd, HandleUnexpected, JoiningFrom, Receives
<1>4. ASSUME NEW r \in reqs, ConfirmStep(r) PROVE KickOK'
  BY <1>2, <1>4, ConfirmStepIs
<1>5. ASSUME NEW s \in Slots, BsProcess(s) PROVE KickOK'
  <2>1. \A op, x : Doing(op, x).op = op
    BY DEF Doing, Idle
  <2>2. CASE CheckSlot(s)
    <3>1. PICK op \in {"never", "resend", "reset"} :
             thread' = [thread EXCEPT !["main"] = Doing(op, s)]
      BY <2>2 DEF CheckSlot
    <3> QED  BY <1>1, <1>2, <2>1, <3>1
  <2>3. CASE ResendSlot(s) \/ ResetSlot(s)
    BY <1>1, <1>2, <2>3 DEF ResendSlot, ResetSlot, Idle
  <2> QED  BY <1>5, <2>2, <2>3 DEF BsProcess
<1>6. ASSUME NEW t \in {"main", "usi"} PROVE ~RekeySend(t)
  BY DEF RekeySend, NoRekeying
<1>7. CASE KickSend
  BY <1>1, <1>2, <1>7 DEF KickSend, Idle
<1>8. ASSUME NEW b \in Nat, KickDevice(b) PROVE KickOK'
  <2>1. /\ DeviceIsInList(list, b)
        /\ thread' = [thread EXCEPT !["main"] =
              [Doing("kick", 0) EXCEPT !.dev = list.ext[b - list.initial], !.short = b]]
    BY <1>8 DEF KickDevice
  <2>2. /\ thread'["main"].dev = list.ext[b - list.initial]
        /\ thread'["main"].short = b
    BY <1>1, <2>1 DEF Doing, Idle
  <2>3. b >= list.initial /\ b - list.initial \in Cells
    BY <2>1, LbdListAssumption DEF DeviceIsInList, IsValidAddress, Cells, TypeOK, Lists
  <2>4. list.ext[b - list.initial] \in Devices
    BY <2>1, <2>3 DEF DeviceIsInList, TypeOK, Lists
  <2> QED  BY <1>1, <2>2, <2>3, <2>4 DEF KickOK
<1>9. CASE ApiStep
  <2>1. \A b \in list.initial .. list.initial + MaxLbds : b \in Nat
    BY LbdListAssumption DEF TypeOK, Lists
  <2>2. thread' = thread \/ \E b \in Nat : KickDevice(b)
    BY <1>9, <2>1 DEF ApiStep, LaunchRekeying, ApiCall, SetDeviceList,
                      SetInitialShortAddress, AddDeviceToBlacklist
  <2> QED  BY <1>2, <1>8, <2>2
<1>10. CASE Network \/ UNCHANGED vars
  BY <1>2, <1>10 DEF Network, Deliver, LoseConfirm, LoseReply, DelayT3, Leave, vars, coordVars
<1> QED  BY <1>3, <1>4, <1>5, <1>6, <1>7, <1>9, <1>10 DEF Next

LEMMA OwnersInit == Init => OwnersOK /\ KickOK
<1> SUFFICES ASSUME Init PROVE OwnersOK /\ KickOK
  OBVIOUS
<1>1. /\ FreshSlot.state = "free" /\ FreshSlot.msg.short = NoShort
      /\ NewDevice.short = NoShort /\ NewDevice.offer = NoShort /\ Idle.op = "idle"
  BY DEF FreshSlot, NoMsg, Msg, NewDevice, Idle
<1>2. ASSUME NEW d \in Devices, NEW a \in Nat PROVE ~Holds(d, a)
  BY <1>1 DEF Init, Holds, SlotHolds, NoShort, Busy
<1>3. \A a \in Nat : ~DeviceIsInList(list, a)
  <2>1. \A i \in Cells : list.ext[i] = NoDevice
    BY DEF Init, EmptyList
  <2>2. \A a \in Nat : IsValidAddress(list, a) => a - list.initial \in Cells
    BY LbdListAssumption DEF IsValidAddress, Cells, Init, EmptyList
  <2> QED  BY <2>1, <2>2 DEF DeviceIsInList
<1> QED  BY <1>1, <1>2, <1>3 DEF Init, OwnersOK, Owns, Registered, Entered, KickOK

(* While the application only kicks and blacklists devices, addresses are  *)
(* not derived from extended ones, bs_process is not interrupted, no       *)
(* confirm is lost or later than the next use of its handle, and devices   *)
(* draw a new RandP each time, a kick removes the entry of the device it   *)
(* is about, whoever leaves, joins or starts over while it waits, until    *)
(* the table has been used up.                                             *)
THEOREM KickRemovesIts ==
    ASSUME "rekey" \notin Api, "initial" \notin Api, "manual" \notin Api, ~ShortFromExt,
           "preempt" \notin Env, "drop" \notin Env, "randp" \notin Env
    PROVE  Spec /\ []ConfirmsInTime => KickRemovesItsDevice
<1> DEFINE Removes ==
              /\ list.size < MaxLbds
              /\ thread["main"].op = "kick" /\ thread'["main"].op # "kick"
              => LET k == thread["main"]
                 IN  list.ext[k.short - list.initial] \in {k.dev, NoDevice}
<1>1. TypeOK /\ OwnersOK /\ KickOK => Removes
  <2> DEFINE k == thread["main"]
             i == k.short - list.initial
  <2> SUFFICES ASSUME TypeOK, OwnersOK, KickOK, list.size < MaxLbds, k.op = "kick"
               PROVE  list.ext[i] \in {k.dev, NoDevice}
    OBVIOUS
  <2>1. /\ k.dev \in Devices /\ k.short \in Nat /\ k.short >= list.initial
        /\ list.size \in Nat /\ list.initial \in Nat
    BY DEF TypeOK, KickOK, ThreadRecords, Lists
  <2>2. Owns(k.dev, k.short)
    BY DEF Owns, Registered
  <2>3. k.short < list.size + list.initial
    BY <2>1, <2>2 DEF OwnersOK
  <2>4. i \in Cells /\ IsValidAddress(list, k.short)
    BY <2>1, <2>3, LbdListAssumption DEF Cells, IsValidAddress
  <2>5. list.ext[i] \in Devices \cup {NoDevice}
    BY <2>4 DEF TypeOK, Lists
  <2>6. list.ext[i] # NoDevice => Owns(list.ext[i], k.short)
    BY <2>4 DEF Owns, Registered, Entered, DeviceIsInList
  <2> QED  BY <2>1, <2>2, <2>5, <2>6 DEF OwnersOK
<1>2. TypeOK /\ ConfirmsInTime /\ ConfirmInv /\ [Next]_vars => ConfirmInv'
  BY ConfirmStepInv
<1>3. TypeOK /\ TypeOK' /\ ConfirmsInTime /\ ConfirmInv /\ OwnersOK /\ [Next]_vars
      => OwnersOK'
  BY OwnersStep
<1>4. TypeOK /\ ConfirmInv /\ KickOK /\ [Next]_vars => KickOK'
  BY KickStep DEF ConfirmInv, ThreadsOK
<1>5. Removes => [Removes]_vars
  OBVIOUS
<1> HIDE DEF Removes
<1> QED  BY <1>1, <1>2, <1>3, <1>4, <1>5, InitType, TypeStep, ConfirmInit, OwnersInit, PTL
         DEF Spec, KickRemovesItsDevice, Removes

-----------------------------------------------------------------------------
(* What is entered in the list *)

InExchange(d, s) == slots[s].addr = d /\ slots[s].state \in Busy

(* The device holds the address of the exchange, offered or in use. *)
Ready(d, s) == dev[d].stage = "msg3" \/ dev[d].short = slots[s].short

(* A message of an exchange, or one that accepts a device that is ready. *)
Belongs(m, d, s) ==
    \/ m.kind = "msg1" /\ m.rand = slots[s].randS
    \/ m.kind = "msg3" /\ m.rand = slots[s].randS /\ m.short = slots[s].short
    \/ m.kind = "accepted" /\ Ready(d, s)

(* All that is on its way to a device is of its exchange, which it follows: *)
(* where devices do not start over, a new one begins when all is quiet.    *)
ExchangeOK(d, s) ==
    /\ \A r \in reqs : r.msg.dev = d => Belongs(r.msg, d, s)
    /\ \A r \in reqs : r.msg.dev = d /\ r.msg.kind = "accepted" /\ r.delivered
                       => dev[d].short = slots[s].short
    /\ slots[s].msg.kind # "none" => Belongs(slots[s].msg, d, s)
    /\ (\E i \in DOMAIN up[d] : up[d][i].type = "T3") => Ready(d, s)
    /\ dev[d].stage # "idle" => dev[d].rand = slots[s].randS
    /\ dev[d].stage = "msg3" => dev[d].offer = slots[s].short

ExchangesOK == \A d \in Devices, s \in Slots : InExchange(d, s) => ExchangeOK(d, s)

(* The last request of a slot is the one it awaits last; if the device has *)
(* proved itself it is its acceptance.                                     *)
LastSent(s) ==
    /\ slots[s].state = "accepted" => slots[s].msg.kind \in {"accepted", "none"}
    /\ \A r \in reqs : r.slot = s /\ slots[s].pending \in {1, 2} /\ r.h = slots[s].tx =>
          /\ \A q \in reqs : q.slot = s => q.n =< r.n
          /\ slots[s].state = "accepted" => r.msg.kind = "accepted"

LastSentOK == \A s \in Slots : LastSent(s)

-----------------------------------------------------------------------------
(* The last request of a slot *)

(* A slot record after a step, q, that was r before it: nothing is sent.   *)
Rests(q, r) ==
    /\ q.state = "accepted" => r.state = "accepted"
    /\ q.msg = r.msg \/ q.msg = NoMsg
    /\ q.pending \in {1, 2} => r.pending \in {1, 2} /\ q.tx = r.tx

AllRest(qq, rr) == \A x \in Slots : Rests(qq[x], rr[x])

LEMMA RestsStill ==
    ASSUME NEW rr
    PROVE  AllRest(rr, rr)
  BY DEF AllRest, Rests

LEMMA ClearRests ==
    ASSUME NEW ss \in [Slots -> SlotRecords], NEW d
    PROVE  AllRest(Clear(ss, d), ss)
<1>1. CASE ~HasSlot(ss, d)
  BY <1>1, RestsStill DEF Clear
<1>2. CASE HasSlot(ss, d)
  <2> DEFINE s == SlotFor(ss, d)
             q == [ss[s] EXCEPT !.msg = NoMsg]
  <2>1. s \in Slots /\ ss[s] \in SlotRecords /\ Clear(ss, d) = [ss EXCEPT ![s] = q]
    BY <1>2, SlotForIn DEF Clear
  <2> HIDE DEF s
  <2>2. Rests(q, ss[s])
    BY <2>1 DEF SlotRecords, Rests
  <2> HIDE DEF q
  <2> QED  BY <2>1, <2>2 DEF AllRest, Rests
<1> QED  BY <1>1, <1>2

LEMMA AbortRests ==
    ASSUME NEW ss \in [Slots -> SlotRecords], NEW rr, NEW s \in Slots, AllRest(ss, rr)
    PROVE  AllRest([ss EXCEPT ![s] = Abort(ss[s])], rr)
<1>1. Abort(ss[s]).state = "free" /\ Abort(ss[s]).pending = 0 /\ Abort(ss[s]).msg = ss[s].msg
  BY DEF Abort, SlotRecords
<1> QED  BY <1>1 DEF AllRest, Rests

LEMMA SilentRests ==
    ASSUME TypeOK, NEW d \in Devices,
           \/ JoiningNoSlot(d) \/ JoiningRepeated(d) \/ KickFromLbd(d)
           \/ \E type \in {"T1", "T3"} : HandleUnexpected(d, type)
    PROVE  AllRest(slots', slots) /\ sent' = sent
<1>1. slots \in [Slots -> SlotRecords] /\ AllRest(slots, slots)
  BY RestsStill DEF TypeOK
<1>2. CASE JoiningNoSlot(d)
  BY <1>1, <1>2 DEF JoiningNoSlot
<1>3. CASE JoiningRepeated(d) \/ KickFromLbd(d)
  BY <1>1, <1>3, ClearRests DEF JoiningRepeated, KickFromLbd
<1>4. ASSUME NEW type \in {"T1", "T3"}, HandleUnexpected(d, type)
      PROVE  AllRest(slots', slots) /\ sent' = sent
  <2> DEFINE ss == Clear(slots, d)
  <2>1. ss \in [Slots -> SlotRecords] /\ AllRest(ss, slots)
    BY <1>1, ClearType, ClearRests
  <2>2. HasSlot(slots, d) =>
           /\ SlotFor(slots, d) \in Slots
           /\ slots' = [ss EXCEPT ![SlotFor(slots, d)] = Abort(ss[SlotFor(slots, d)])]
    BY <1>4, SlotForIn DEF HandleUnexpected
  <2> HIDE DEF ss
  <2>3. sent' = sent /\ (~HasSlot(slots, d) => slots' = slots)
    BY <1>4 DEF HandleUnexpected
  <2> QED  BY <1>1, <2>1, <2>2, <2>3, AbortRests
<1> QED  BY <1>2, <1>3, <1>4

(* The confirms of a slot come in the order of its requests, so that it    *)
(* never awaits the earlier one alone.                                     *)
LEMMA ConfirmedRests ==
    ASSUME "reorder" \notin Env, TypeOK, RequestsOK, DistinctHandles, SlotsOK(slots, reqs),
           LastSentOK, NEW r \in reqs, NEW ok \in BOOLEAN, ConfirmFor(r, ok)
    PROVE  AllRest(AfterConfirm(r.h, ok), slots)
<1> SUFFICES ASSUME NEW s \in Slots PROVE Rests(Confirmed(slots[s], r.h, ok), slots[s])
  BY DEF AllRest, AfterConfirm
<1> DEFINE c == slots[s]
<1>1. c \in SlotRecords
  BY DEF TypeOK
<1>2. SlotOK(c, s, reqs) /\ LastSent(s)
  BY DEF SlotsOK, LastSentOK
<1>3. ~MatchesLater(c, r.h)
  <2> SUFFICES ASSUME MatchesLater(c, r.h) PROVE FALSE
    OBVIOUS
  <2>1. c.pending = 2 /\ r.h = c.tx
    BY DEF MatchesLater
  <2>2. PICK w, v \in reqs : w.slot = s /\ w.h = c.tx /\ v.slot = s /\ v.n < w.n
    BY <1>2, <2>1 DEF SlotOK
  <2>3. r = w
    BY <2>1, <2>2 DEF DistinctHandles
  <2>4. v.n >= r.n
    BY <2>2, <2>3 DEF ConfirmFor, FirstOfSlot
  <2>5. v.n \in Nat /\ r.n \in Nat
    BY DEF TypeOK, Requests
  <2> QED  BY <2>2, <2>3, <2>4, <2>5
<1> HIDE DEF c
<1>4. CASE MatchesOnly(c, r.h)
  <2> DEFINE st == IF ok THEN AfterSuccess(c.state) ELSE "free"
  <2>1. Confirmed(c, r.h, ok) = [c EXCEPT !.pending = 0, !.state = st]
    BY <1>4 DEF Confirmed, MatchesOnly, MatchesEarlier, MatchesLater
  <2>2. st # "accepted"
    BY DEF AfterSuccess
  <2> HIDE DEF st
  <2> QED  BY <1>1, <2>1, <2>2 DEF SlotRecords, Rests, c
<1>5. CASE MatchesEarlier(c, r.h)
  <2>1. Confirmed(c, r.h, ok) = [c EXCEPT !.pending = 1] /\ c.pending = 2
    BY <1>5 DEF Confirmed, MatchesOnly, MatchesEarlier
  <2> QED  BY <1>1, <2>1 DEF SlotRecords, Rests, c
<1>6. CASE ~Matches(c, r.h)
  <2>1. Confirmed(c, r.h, ok) = c
    BY <1>6 DEF Confirmed, Matches
  <2> QED  BY <2>1 DEF Rests, c
<1> QED  BY <1>3, <1>4, <1>5, <1>6 DEF Matches

(* Where nothing is sent, the last requests stay. *)
LEMMA RestsLast ==
    ASSUME TypeOK, LastSentOK, AllRest(slots', slots), StillSent(reqs', reqs)
    PROVE  LastSentOK'
<1> SUFFICES ASSUME NEW s \in Slots PROVE LastSent(s)'
  BY DEF LastSentOK
<1>1. LastSent(s) /\ Rests(slots'[s], slots[s]) /\ NoMsg.kind = "none"
  BY DEF LastSentOK, AllRest, NoMsg, Msg
<1>2. slots'[s].state = "accepted" => slots'[s].msg.kind \in {"accepted", "none"}
  BY <1>1 DEF LastSent, Rests
<1>3. ASSUME NEW r \in reqs', r.slot = s, slots'[s].pending \in {1, 2}, r.h = slots'[s].tx
      PROVE  /\ \A q \in reqs' : q.slot = s => q.n =< r.n
             /\ slots'[s].state = "accepted" => r.msg.kind = "accepted"
  <2>1. PICK p \in reqs : p.n = r.n /\ p.h = r.h /\ p.slot = r.slot /\ p.msg = r.msg
    BY DEF StillSent
  <2>2. slots[s].pending \in {1, 2} /\ p.h = slots[s].tx
        /\ (slots'[s].state = "accepted" => slots[s].state = "accepted")
    BY <1>1, <1>3, <2>1 DEF Rests
  <2>3. /\ \A q \in reqs : q.slot = s => q.n =< p.n
        /\ slots[s].state = "accepted" => p.msg.kind = "accepted"
    BY <1>1, <1>3, <2>1, <2>2 DEF LastSent
  <2>4. \A q \in reqs' : q.slot = s => q.n =< r.n
    BY <2>1, <2>3 DEF StillSent
  <2> QED  BY <2>1, <2>2, <2>3, <2>4
<1> QED  BY <1>2, <1>3 DEF LastSent

(* A new request is the last one of its slot. *)
LEMMA SentLast ==
    ASSUME TypeOK, RequestsOK, DistinctHandles', LastSentOK,
           NEW s \in Slots, NEW r \in SlotRecords, SendFrom(s, r),
           r.state = "accepted" => r.msg.kind = "accepted"
    PROVE  LastSentOK'
<1> DEFINE new == Request(s, r.msg)
<1>1. /\ slots'[s].state = r.state /\ slots'[s].msg = r.msg
      /\ \A x \in Slots : x # s => slots'[x] = slots[x]
      /\ reqs' = reqs \cup {new}
  BY SendFromLeaves
<1>2. slots'[s].tx = NextHandle
  BY DEF SendFrom, TypeOK, Transmit, SlotRecords
<1>3. new.n = sent /\ new.slot = s /\ new.msg = r.msg /\ new.h = NextHandle
  BY DEF Request
<1> HIDE DEF new
<1>4. ASSUME NEW x \in Slots, x # s PROVE LastSent(x)'
  <2>1. LastSent(x) /\ slots'[x] = slots[x]
    BY <1>1, <1>4 DEF LastSentOK
  <2>2. \A q \in reqs' : q.slot = x => q \in reqs
    BY <1>1, <1>3, <1>4
  <2> QED  BY <2>1, <2>2 DEF LastSent
<1>5. LastSent(s)'
  <2>1. \A q \in reqs' : q.n =< new.n
    <3>1. sent \in Nat /\ \A q \in reqs : q.n \in Nat /\ q.n < sent
      BY DEF TypeOK, Requests, RequestsOK
    <3> QED  BY <1>1, <1>3, <3>1
  <2>2. \A q \in reqs' : q.h = slots'[s].tx => q = new
    BY <1>1, <1>2, <1>3 DEF DistinctHandles
  <2> QED  BY <1>1, <1>3, <2>1, <2>2 DEF LastSent
<1> QED  BY <1>4, <1>5 DEF LastSentOK

(* An answer. *)
LEMMA AnswerLast ==
    ASSUME TypeOK, RequestsOK, DistinctHandles', LastSentOK, NEW s, NEW r, NEW d,
           Answers(s, r, d), r.state = "accepted" => r.msg.kind = "accepted"
    PROVE  LastSentOK'
<1> DEFINE q == [r EXCEPT !.attempts = 0]
<1>1. q \in SlotRecords /\ q.state = r.state /\ q.msg = r.msg
  BY DEF Answers, Sends, SlotRecords
<1>2. SendFrom(s, q) /\ s \in Slots
  BY DEF Answers, Sends, SendFirst
<1> HIDE DEF q
<1> QED  BY <1>1, <1>2, SentLast

LEMMA IndicationLast ==
    ASSUME "randp" \notin Env, TypeOK, RequestsOK, DistinctHandles', LastSentOK,
           NEW d \in Devices, Indication(d)
    PROVE  LastSentOK'
<1>1. \A kind, x, y, z, k : Msg(kind, x, y, z, k).kind = kind
  BY DEF Msg
<1>2. CASE JoiningDeclined(d)
  <2>1. PICK s, r : Answers(s, r, d) /\ r.state = "declined"
    BY <1>2, DeclinedSends
  <2> QED  BY <2>1, AnswerLast
<1>3. CASE JoiningNew(d)
  <2>1. PICK s, r : Answers(s, r, d) /\ r.state = "sent1"
    BY <1>3, NewSends
  <2> QED  BY <2>1, AnswerLast
<1>4. CASE HandleT1(d)
  <2>1. PICK s, r : Answers(s, r, d) /\ r.state = "sent3"
    BY <1>4, T1Sends
  <2> QED  BY <2>1, AnswerLast
<1>5. CASE HandleT3(d)
  <2>1. PICK s, r : Answers(s, r, d) /\ r.msg = Msg("accepted", d, 0, NoShort, 0)
    BY <1>5, T3Sends
  <2> QED  BY <1>1, <2>1, AnswerLast
<1>6. ASSUME AllRest(slots', slots), reqs' = reqs PROVE LastSentOK'
  BY <1>6, RestsLast DEF StillSent
<1> QED  BY <1>2, <1>3, <1>4, <1>5, <1>6, SilentRests, SilentGoesOn, NoBadRandS DEF Indication

(* bs_process sends again what there is in the buffer. *)
LEMMA ResendSends ==
    ASSUME TypeOK, NEW s \in Slots, ResendSlot(s)
    PROVE  \/ /\ AllRest(slots', slots) /\ reqs' = reqs
           \/ \E r \in SlotRecords :
                 /\ SendFrom(s, r) /\ r.msg = slots[s].msg /\ r.msg.kind # "none"
                 /\ r.state = "accepted" => slots[s].state = "accepted"
<1> DEFINE st == BackToSent(slots[s].state)
           r == [slots[s] EXCEPT !.attempts = 1, !.state = st]
<1>1. slots[s] \in SlotRecords /\ slots \in [Slots -> SlotRecords]
  BY DEF TypeOK
<1>2. IF r.msg.kind # "none" THEN SendFrom(s, r)
      ELSE slots' = [slots EXCEPT ![s] = r] /\ reqs' = reqs
  BY DEF ResendSlot
<1>3. st \in States /\ (st = "accepted" => slots[s].state = "accepted")
  <2>1. \A x \in States : BackToSent(x) \in States
                          /\ (BackToSent(x) = "accepted" => x = "accepted")
    BY DEF BackToSent, States
  <2> QED  BY <1>1, <2>1 DEF SlotRecords
<1> HIDE DEF st
<1>4. /\ r \in SlotRecords /\ r.state = st /\ r.msg = slots[s].msg
      /\ r.pending = slots[s].pending /\ r.tx = slots[s].tx
  BY <1>1, <1>3 DEF SlotRecords
<1> HIDE DEF r
<1>5. CASE r.msg.kind # "none"
  BY <1>2, <1>3, <1>4, <1>5
<1>6. CASE r.msg.kind = "none"
  <2>1. slots' = [slots EXCEPT ![s] = r] /\ reqs' = reqs
    BY <1>2, <1>6
  <2> QED  BY <1>1, <1>3, <1>4, <2>1 DEF AllRest, Rests
<1> QED  BY <1>5, <1>6

LEMMA BsProcessLast ==
    ASSUME TypeOK, RequestsOK, DistinctHandles', LastSentOK, NEW s \in Slots, BsProcess(s)
    PROVE  LastSentOK'
<1>1. slots \in [Slots -> SlotRecords] /\ AllRest(slots, slots)
  BY RestsStill DEF TypeOK
<1>2. ASSUME AllRest(slots', slots), reqs' = reqs PROVE LastSentOK'
  BY <1>2, RestsLast DEF StillSent
<1>3. CASE CheckSlot(s)
  BY <1>1, <1>2, <1>3 DEF CheckSlot
<1>4. CASE ResetSlot(s)
  BY <1>1, <1>2, <1>4, AbortRests DEF ResetSlot
<1>5. CASE ResendSlot(s)
  <2>1. ASSUME NEW r \in SlotRecords, SendFrom(s, r), r.msg = slots[s].msg,
               r.msg.kind # "none", r.state = "accepted" => slots[s].state = "accepted"
        PROVE  LastSentOK'
    <3>1. r.state = "accepted" => r.msg.kind = "accepted"
      BY <2>1 DEF LastSentOK, LastSent
    <3> QED  BY <2>1, <3>1, SentLast
  <2> QED  BY <1>2, <1>5, <2>1, ResendSends
<1> QED  BY <1>3, <1>4, <1>5 DEF BsProcess

-----------------------------------------------------------------------------
(* The exchange that a device follows *)

(* What is still on its way was on its way before. *)
LEMMA TailHolds ==
    ASSUME TypeOK, NEW d \in Devices,
           up'[d] = up[d] \/ (up[d] # <<>> /\ up'[d] = Tail(up[d])),
           \E i \in DOMAIN up'[d] : up'[d][i].type = "T3"
    PROVE  \E i \in DOMAIN up[d] : up[d][i].type = "T3"
<1>1. CASE up'[d] = up[d]
  BY <1>1
<1>2. CASE up[d] # <<>> /\ up'[d] = Tail(up[d])
  <2>1. up[d] \in Seq(UpMsgs)
    BY DEF TypeOK
  <2>2. ASSUME NEW i \in DOMAIN up'[d]
        PROVE  i + 1 \in DOMAIN up[d] /\ up'[d][i] = up[d][i + 1]
    BY <1>2, <2>1
  <2> QED  BY <2>2
<1> QED  BY <1>1, <1>2

(* What the step has not touched of an exchange is still of it. *)
LEMMA ExchangeKept ==
    ASSUME TypeOK, ExchangesOK, NEW d \in Devices, NEW s \in Slots, InExchange(d, s)',
           GoesOn(slots'[s], slots[s]), dev'[d] = dev[d],
           up'[d] = up[d] \/ (up[d] # <<>> /\ up'[d] = Tail(up[d])),
           \A r \in reqs' : r.msg.dev = d =>
              \/ r \in reqs
              \/ r.msg = slots[s].msg /\ r.msg.kind # "none" /\ ~r.delivered
    PROVE  ExchangeOK(d, s)'
<1>1. InExchange(d, s) /\ ExchangeOK(d, s)
  <2>1. InExchange(d, s)
    BY DEF InExchange, GoesOn
  <2> QED  BY <2>1 DEF ExchangesOK
<1>2. slots'[s].short = slots[s].short /\ slots'[s].randS = slots[s].randS
      /\ (slots'[s].msg = slots[s].msg \/ slots'[s].msg.kind = "none")
  BY DEF GoesOn, NoMsg, Msg
<1>3. Ready(d, s) <=> Ready(d, s)'
  BY <1>2 DEF Ready
<1>4. \A m : Belongs(m, d, s) => Belongs(m, d, s)'
  BY <1>2, <1>3 DEF Belongs
<1>5. (\E i \in DOMAIN up'[d] : up'[d][i].type = "T3")
      => \E i \in DOMAIN up[d] : up[d][i].type = "T3"
  BY TailHolds
<1>6. \A r \in reqs' : r.msg.dev = d => Belongs(r.msg, d, s)'
  <2> SUFFICES ASSUME NEW r \in reqs', r.msg.dev = d PROVE Belongs(r.msg, d, s)
    BY <1>4
  <2> QED  BY <1>1 DEF ExchangeOK
<1>7. \A r \in reqs' : r.msg.dev = d /\ r.msg.kind = "accepted" /\ r.delivered
                       => dev'[d].short = slots'[s].short
  <2> SUFFICES ASSUME NEW r \in reqs', r.msg.dev = d, r.msg.kind = "accepted", r.delivered
               PROVE  dev'[d].short = slots'[s].short
    OBVIOUS
  <2>1. r \in reqs
    OBVIOUS
  <2> QED  BY <1>1, <1>2, <2>1 DEF ExchangeOK
<1>8. (slots[s].msg.kind # "none" => Belongs(slots[s].msg, d, s))'
  <2> SUFFICES ASSUME slots'[s].msg.kind # "none" PROVE Belongs(slots[s].msg, d, s)'
    OBVIOUS
  <2>1. slots'[s].msg = slots[s].msg /\ Belongs(slots[s].msg, d, s)
    BY <1>1, <1>2 DEF ExchangeOK
  <2> QED  BY <1>2, <1>3, <2>1 DEF Belongs
<1> QED  BY <1>1, <1>2, <1>3, <1>5, <1>6, <1>7, <1>8 DEF ExchangeOK

(* An answer to a device touches only its exchange. *)
LEMMA AnswersExchange ==
    ASSUME TypeOK, OneSlotPerDevice', ExchangesOK, NEW d \in Devices, NEW s, NEW r,
           Answers(s, r, d),
           \A e \in Devices : e # d => dev'[e] = dev[e] /\ up'[e] = up[e],
           r.state \in Busy => ExchangeOK(d, s)'
    PROVE  ExchangesOK'
<1>1. /\ s \in Slots /\ slots'[s].state = r.state /\ slots'[s].addr = d
      /\ \A x \in Slots : x # s => slots'[x] = slots[x]
      /\ reqs' = reqs \cup {Request(s, r.msg)}
  BY AnswersLeaves DEF Answers
<1>2. Request(s, r.msg).msg.dev = d
  BY DEF Request, Answers
<1> SUFFICES ASSUME NEW e \in Devices, NEW x \in Slots, InExchange(e, x)'
             PROVE  ExchangeOK(e, x)'
  BY DEF ExchangesOK
<1>3. CASE x = s
  BY <1>1, <1>3 DEF InExchange
<1>4. CASE x # s
  <2>1. e # d
    BY <1>1, <1>4, LbpAssumption DEF InExchange, OneSlotPerDevice
  <2>2. GoesOn(slots'[x], slots[x])
    BY <1>1, <1>4 DEF GoesOn
  <2>3. \A q \in reqs' : q.msg.dev = e => q \in reqs
    BY <1>1, <1>2, <2>1
  <2> QED  BY <2>1, <2>2, <2>3, ExchangeKept
<1> QED  BY <1>3, <1>4

(* A device asks to join when all is quiet about it. *)
LEMMA JoiningQuiet ==
    ASSUME "restart" \notin Env, TypeOK, NEW d \in Devices, JoiningFrom(d)
    PROVE  /\ up[d] = <<>> /\ up' = up /\ \A r \in reqs : r.msg.dev # d
           /\ dev'[d].stage = "idle"
           /\ \A e \in Devices : e # d => dev'[e] = dev[e]
<1>1. dev' = [dev EXCEPT ![d] = [dev[d] EXCEPT !.stage = "idle", !.short = NoShort]]
  BY DEF JoiningFrom
<1>2. dev \in [Devices -> DeviceRecords]
  BY DEF TypeOK
<1>3. dev'[d].stage = "idle"
  BY <1>1, <1>2 DEF DeviceRecords
<1> QED  BY <1>1, <1>2, <1>3 DEF JoiningFrom, Quiet

LEMMA NewExchange ==
    ASSUME "restart" \notin Env, TypeOK, OneSlotPerDevice', ExchangesOK,
           NEW d \in Devices, JoiningNew(d)
    PROVE  ExchangesOK'
<1>1. PICK s, r : /\ Answers(s, r, d) /\ r.randS = rands
                  /\ r.msg = Msg("msg1", d, rands, NoShort, 0)
  BY NewSends
<1>2. /\ up[d] = <<>> /\ up' = up /\ \A q \in reqs : q.msg.dev # d
      /\ dev'[d].stage = "idle"
      /\ \A e \in Devices : e # d => dev'[e] = dev[e]
  BY JoiningQuiet DEF JoiningNew
<1>3. /\ slots'[s].randS = r.randS /\ slots'[s].msg = r.msg
      /\ reqs' = reqs \cup {Request(s, r.msg)}
  BY <1>1, AnswersLeaves
<1>4. r.msg.kind = "msg1" /\ r.msg.rand = rands
  BY <1>1 DEF Msg
<1>5. Belongs(r.msg, d, s)'
  BY <1>1, <1>3, <1>4 DEF Belongs
<1>6. \A q \in reqs' : q.msg.dev = d => q.msg = r.msg
  BY <1>2, <1>3 DEF Request
<1>7. up'[d] = <<>>
  BY <1>2
<1>8. ExchangeOK(d, s)'
  BY <1>2, <1>3, <1>4, <1>5, <1>6, <1>7 DEF ExchangeOK
<1> QED  BY <1>1, <1>2, <1>8, AnswersExchange

(* The answers within an exchange. *)
LEMMA ReceivesTail ==
    ASSUME TypeOK, NEW d \in Devices, NEW type, Receives(d, type)
    PROVE  /\ up[d] # <<>> /\ up'[d] = Tail(up[d]) /\ dev' = dev
           /\ 1 \in DOMAIN up[d] /\ up[d][1].type = type
           /\ \A e \in Devices : e # d => up'[e] = up[e]
<1>1. up \in [Devices -> Seq(UpMsgs)] /\ up[d] # <<>> /\ Head(up[d]).type = type
      /\ up' = [up EXCEPT ![d] = Tail(@)] /\ dev' = dev
  BY DEF TypeOK, Receives
<1>2. up[d] \in Seq(UpMsgs)
  BY <1>1
<1>3. 1 \in DOMAIN up[d] /\ up[d][1] = Head(up[d])
  BY <1>1, <1>2
<1> QED  BY <1>1, <1>3

(* ... carry on with it. *)
LEMMA NextMessage ==
    ASSUME TypeOK, OneSlotPerDevice', ExchangesOK, NEW d \in Devices, NEW s, NEW r,
           Answers(s, r, d), InExchange(d, s), NEW type, Receives(d, type),
           r.short = slots[s].short, r.randS = slots[s].randS, Belongs(r.msg, d, s)
    PROVE  ExchangesOK'
<1>1. /\ s \in Slots /\ slots'[s].short = slots[s].short /\ slots'[s].randS = slots[s].randS
      /\ slots'[s].msg = r.msg /\ reqs' = reqs \cup {Request(s, r.msg)}
  BY AnswersLeaves
<1>2. Request(s, r.msg).msg = r.msg /\ Request(s, r.msg).delivered = FALSE
  BY DEF Request
<1>3. /\ up[d] # <<>> /\ up'[d] = Tail(up[d]) /\ dev' = dev
      /\ \A e \in Devices : e # d => up'[e] = up[e]
  BY ReceivesTail
<1>4. ExchangeOK(d, s)
  BY <1>1 DEF ExchangesOK
<1>5. Ready(d, s) <=> Ready(d, s)'
  BY <1>1, <1>3 DEF Ready
<1>6. \A m : Belongs(m, d, s) => Belongs(m, d, s)'
  BY <1>1, <1>5 DEF Belongs
<1>7. (\E i \in DOMAIN up'[d] : up'[d][i].type = "T3")
      => \E i \in DOMAIN up[d] : up[d][i].type = "T3"
  BY <1>3, TailHolds
<1>8. \A q \in reqs' : q.msg.dev = d => Belongs(q.msg, d, s)'
  BY <1>1, <1>2, <1>4, <1>6 DEF ExchangeOK
<1>9. \A q \in reqs' : q.msg.dev = d /\ q.msg.kind = "accepted" /\ q.delivered
                       => dev'[d].short = slots'[s].short
  BY <1>1, <1>2, <1>3, <1>4 DEF ExchangeOK
<1>10. (slots[s].msg.kind # "none" => Belongs(slots[s].msg, d, s))'
  <2>1. Belongs(r.msg, d, s)'
    BY <1>6
  <2> QED  BY <1>1, <2>1 DEF Belongs
<1>11. /\ (dev[d].stage # "idle" => dev[d].rand = slots[s].randS)'
       /\ (dev[d].stage = "msg3" => dev[d].offer = slots[s].short)'
  BY <1>1, <1>3, <1>4 DEF ExchangeOK
<1>12. ((\E i \in DOMAIN up[d] : up[d][i].type = "T3") => Ready(d, s))'
  BY <1>4, <1>5, <1>7 DEF ExchangeOK
<1>13. ExchangeOK(d, s)'
  BY <1>8, <1>9, <1>10, <1>11, <1>12 DEF ExchangeOK
<1> QED  BY <1>3, <1>13, AnswersExchange

(* The reply to the challenge is answered with the address of the exchange, *)
(* that to the address with the acceptance of a device that has used it.    *)
LEMMA RepliesExchange ==
    ASSUME TypeOK, NoRekeying, OneSlotPerDevice', ExchangesOK, NEW d \in Devices,
           HandleT1(d) \/ HandleT3(d)
    PROVE  ExchangesOK'
<1>1. \A kind, x, y, z, k : /\ Msg(kind, x, y, z, k).kind = kind
                            /\ Msg(kind, x, y, z, k).rand = y
                            /\ Msg(kind, x, y, z, k).short = z
  BY DEF Msg
<1>2. CASE HandleT1(d)
  <2>1. PICK s, r : /\ Answers(s, r, d) /\ Expects(slots[s], "T1") /\ slots[s].addr = d
                    /\ r.short = slots[s].short /\ r.randS = slots[s].randS
                    /\ r.msg = Msg("msg3", d, slots[s].randS, slots[s].short, keyIndex)
    BY <1>2, T1Sends DEF NoRekeying
  <2>2. InExchange(d, s)
    BY <2>1 DEF InExchange, Expects, Busy
  <2>3. Belongs(r.msg, d, s)
    BY <1>1, <2>1 DEF Belongs
  <2>4. Receives(d, "T1")
    BY <1>2 DEF HandleT1
  <2> QED  BY <2>1, <2>2, <2>3, <2>4, NextMessage
<1>3. CASE HandleT3(d)
  <2>1. PICK s, r : /\ Answers(s, r, d) /\ Expects(slots[s], "T3") /\ slots[s].addr = d
                    /\ r.short = slots[s].short /\ r.randS = slots[s].randS
                    /\ r.msg = Msg("accepted", d, 0, NoShort, 0)
    BY <1>3, T3Sends
  <2>2. InExchange(d, s) /\ s \in Slots
    BY <2>1 DEF InExchange, Expects, Busy, Answers, Sends
  <2>3. Receives(d, "T3")
    BY <1>3 DEF HandleT3
  <2>4. Ready(d, s)
    BY <2>2, <2>3, ReceivesTail DEF ExchangesOK, ExchangeOK
  <2>5. Belongs(r.msg, d, s)
    BY <1>1, <2>1, <2>4 DEF Belongs
  <2> QED  BY <2>1, <2>2, <2>3, <2>5, NextMessage
<1> QED  BY <1>2, <1>3

(* A blacklisted device is in no exchange any more. *)
LEMMA DeclinedExchange ==
    ASSUME "restart" \notin Env, TypeOK, OneSlotPerDevice', ExchangesOK,
           NEW d \in Devices, JoiningDeclined(d)
    PROVE  ExchangesOK'
<1>1. PICK s, r : Answers(s, r, d) /\ r.state = "declined"
  BY DeclinedSends
<1>2. \A e \in Devices : e # d => dev'[e] = dev[e] /\ up'[e] = up[e]
  BY JoiningQuiet DEF JoiningDeclined
<1>3. r.state \notin Busy
  BY <1>1 DEF Busy
<1> QED  BY <1>1, <1>2, <1>3, AnswersExchange

(* A device that asks again has all of its exchange behind it. *)
LEMMA RepeatedExchange ==
    ASSUME "restart" \notin Env, TypeOK, OneSlotPerDevice, ExchangesOK,
           NEW d \in Devices, JoiningNoSlot(d) \/ JoiningRepeated(d)
    PROVE  ExchangesOK'
<1>1. AllGoOn(slots', slots) /\ reqs' = reqs
  BY SilentGoesOn
<1>2. /\ up[d] = <<>> /\ up' = up /\ \A r \in reqs : r.msg.dev # d
      /\ dev'[d].stage = "idle"
      /\ \A e \in Devices : e # d => dev'[e] = dev[e]
  BY JoiningQuiet DEF JoiningNoSlot, JoiningRepeated
<1> SUFFICES ASSUME NEW e \in Devices, NEW s \in Slots, InExchange(e, s)'
             PROVE  ExchangeOK(e, s)'
  BY DEF ExchangesOK
<1>3. GoesOn(slots'[s], slots[s])
  BY <1>1 DEF AllGoOn
<1>4. CASE e # d
  <2>1. dev'[e] = dev[e] /\ up'[e] = up[e] /\ \A r \in reqs' : r \in reqs
    BY <1>1, <1>2, <1>4
  <2> QED  BY <1>3, <2>1, ExchangeKept
<1>5. CASE e = d
  <2>1. slots[s].addr = d /\ slots[s].state \in Busy
    BY <1>3, <1>5 DEF InExchange, GoesOn
  <2>2. HasSlot(slots, d)
    BY <2>1 DEF HasSlot, SlotsFor
  <2>3. SlotFor(slots, d) = s
    <3>1. SlotFor(slots, d) \in Slots /\ slots[SlotFor(slots, d)].addr = d
      BY <2>1, <2>2, SlotForIn
    <3> QED  BY <2>1, <3>1, LbpAssumption DEF OneSlotPerDevice
  <2>4. slots' = Clear(slots, d)
    BY <2>2 DEF JoiningNoSlot, JoiningRepeated
  <2>5. slots'[s].msg.kind = "none"
    <3>1. slots'[s] = [slots[s] EXCEPT !.msg = NoMsg] /\ slots[s] \in SlotRecords
      BY <2>2, <2>3, <2>4 DEF Clear, TypeOK
    <3> QED  BY <3>1 DEF SlotRecords, NoMsg, Msg
  <2>6. up'[d] = <<>> /\ \A r \in reqs' : r.msg.dev # d
    BY <1>1, <1>2
  <2> QED  BY <1>2, <1>5, <2>5, <2>6 DEF ExchangeOK
<1> QED  BY <1>4, <1>5

(* Nothing else that the coordinator receives touches what is on its way. *)
LEMMA SilentExchange ==
    ASSUME TypeOK, ExchangesOK, NEW d \in Devices,
           KickFromLbd(d) \/ \E type \in {"T1", "T3"} : HandleUnexpected(d, type)
    PROVE  ExchangesOK'
<1>1. AllGoOn(slots', slots) /\ reqs' = reqs
  BY SilentGoesOn
<1>2. PICK type : Receives(d, type)
  BY DEF KickFromLbd, HandleUnexpected
<1>3. /\ up[d] # <<>> /\ up'[d] = Tail(up[d]) /\ dev' = dev
      /\ \A e \in Devices : e # d => up'[e] = up[e]
  BY <1>2, ReceivesTail
<1> SUFFICES ASSUME NEW e \in Devices, NEW s \in Slots, InExchange(e, s)'
             PROVE  ExchangeOK(e, s)'
  BY DEF ExchangesOK
<1>4. GoesOn(slots'[s], slots[s]) /\ \A r \in reqs' : r \in reqs
  BY <1>1 DEF AllGoOn
<1>5. dev'[e] = dev[e] /\ (up'[e] = up[e] \/ (up[e] # <<>> /\ up'[e] = Tail(up[e])))
  BY <1>3
<1> QED  BY <1>4, <1>5, ExchangeKept

LEMMA IndicationExchange ==
    ASSUME "restart" \notin Env, "randp" \notin Env, TypeOK, NoRekeying, OneSlotPerDevice,
           OneSlotPerDevice', ExchangesOK, NEW d \in Devices, Indication(d)
    PROVE  ExchangesOK'
  BY RepliesExchange, DeclinedExchange, RepeatedExchange, SilentExchange, NewExchange,
     NoBadRandS DEF Indication

(* What is confirmed, or tried again, is of the exchanges as they are. *)
LEMMA ConfirmExchange ==
    ASSUME TypeOK, NoRekeying, ExchangesOK, NEW r \in reqs, ConfirmStep(r)
    PROVE  ExchangesOK'
<1>1. PICK ok \in BOOLEAN : ConfirmFor(r, ok) /\ slots' = AfterConfirm(r.h, ok)
  BY ConfirmStepIs
<1>2. AllGoOn(slots', slots)
  BY <1>1, ConfirmedGoesOn
<1>3. dev' = dev /\ up' = up /\ \A q \in reqs' : q \in reqs
  BY <1>1 DEF ConfirmFor
<1> SUFFICES ASSUME NEW e \in Devices, NEW s \in Slots, InExchange(e, s)'
             PROVE  ExchangeOK(e, s)'
  BY DEF ExchangesOK
<1>4. GoesOn(slots'[s], slots[s])
  BY <1>2 DEF AllGoOn
<1> QED  BY <1>3, <1>4, ExchangeKept

LEMMA BsProcessExchange ==
    ASSUME TypeOK, SlotsOK(slots, reqs), OneSlotPerDevice, ExchangesOK,
           NEW s \in Slots, BsProcess(s)
    PROVE  ExchangesOK'
<1>1. AllGoOn(slots', slots)
  BY BsProcessGoesOn
<1>2. dev' = dev /\ up' = up
  BY DEF BsProcess, CheckSlot, ResendSlot, ResetSlot
<1>3. \/ reqs' = reqs
      \/ slots[s].msg.kind # "none" /\ reqs' = reqs \cup {Request(s, slots[s].msg)}
  <2>1. CASE CheckSlot(s) \/ ResetSlot(s)
    BY <2>1 DEF CheckSlot, ResetSlot
  <2>2. CASE ResendSlot(s)
    BY <2>2, ResendSends DEF SendFrom
  <2> QED  BY <2>1, <2>2 DEF BsProcess
<1> SUFFICES ASSUME NEW e \in Devices, NEW x \in Slots, InExchange(e, x)'
             PROVE  ExchangeOK(e, x)'
  BY DEF ExchangesOK
<1>4. GoesOn(slots'[x], slots[x]) /\ slots[x].addr = e
  BY <1>1 DEF AllGoOn, GoesOn, InExchange
<1>5. ASSUME NEW r \in reqs', r.msg.dev = e, r \notin reqs
      PROVE  r.msg = slots[x].msg /\ r.msg.kind # "none" /\ ~r.delivered
  <2>1. r = Request(s, slots[s].msg) /\ slots[s].msg.kind # "none"
    BY <1>3, <1>5
  <2>2. r.msg = slots[s].msg /\ ~r.delivered
    BY <2>1 DEF Request
  <2>3. slots[s].addr = e
    BY <1>5, <2>1, <2>2 DEF SlotsOK, SlotOK
  <2>4. s = x
    BY <1>4, <2>3, LbpAssumption DEF OneSlotPerDevice
  <2> QED  BY <2>1, <2>2, <2>4
<1> QED  BY <1>2, <1>4, <1>5, ExchangeKept

(* A device follows the exchange its messages are of. *)
LEMMA DeliverExchange ==
    ASSUME TypeOK, ExchangesOK, NEW r \in reqs, Deliver(r)
    PROVE  ExchangesOK'
<1> DEFINE d == r.msg.dev
           m == r.msg
           v == dev[d]
           new == [r EXCEPT !.delivered = TRUE]
<1>1. /\ d \in Devices /\ ~r.delivered /\ r \in Requests /\ v \in DeviceRecords
      /\ up[d] \in Seq(UpMsgs) /\ Reply(v, r) \in Seq(UpMsgs) /\ slots' = slots
      /\ reqs' = (reqs \ {r}) \cup {new}
      /\ dev' = [dev EXCEPT ![d] = Learn(v, m)]
      /\ up' = [up EXCEPT ![d] = up[d] \o Reply(v, r)]
  BY ReplyType DEF Deliver, Sendable, TypeOK, coordVars
<1>2. new.msg = m /\ new.delivered
  BY <1>1 DEF Requests
<1>3. dev'[d] = Learn(v, m) /\ up'[d] = up[d] \o Reply(v, r)
      /\ \A e \in Devices : e # d => dev'[e] = dev[e] /\ up'[e] = up[e]
  BY <1>1 DEF TypeOK
<1> SUFFICES ASSUME NEW e \in Devices, NEW s \in Slots, InExchange(e, s)'
             PROVE  ExchangeOK(e, s)'
  BY DEF ExchangesOK
<1>4. slots'[s] = slots[s] /\ InExchange(e, s) /\ slots[s] \in SlotRecords
  BY <1>1 DEF InExchange, TypeOK
<1>5. ExchangeOK(e, s)
  BY <1>4 DEF ExchangesOK
<1> HIDE DEF new
<1>6. CASE e # d
  <2>1. GoesOn(slots'[s], slots[s])
    BY <1>4 DEF GoesOn
  <2>2. \A q \in reqs' : q.msg.dev = e => q \in reqs
    BY <1>1, <1>2, <1>6
  <2>3. dev'[e] = dev[e] /\ up'[e] = up[e]
    BY <1>3, <1>6
  <2> QED  BY <1>4, <2>1, <2>2, <2>3, ExchangeKept
<1>7. CASE e = d
  <2>1. /\ Belongs(m, d, s)
        /\ v.stage # "idle" => v.rand = slots[s].randS
        /\ v.stage = "msg3" => v.offer = slots[s].short
        /\ \A q \in reqs : q.msg.dev = d => Belongs(q.msg, d, s)
        /\ \A q \in reqs : q.msg.dev = d /\ q.msg.kind = "accepted" /\ q.delivered
                           => v.short = slots[s].short
        /\ (slots[s].msg.kind # "none" => Belongs(slots[s].msg, d, s))
        /\ (\E i \in DOMAIN up[d] : up[d][i].type = "T3") => Ready(d, s)
    BY <1>5, <1>7 DEF ExchangeOK
  <2> DEFINE w == Learn(v, m)
  <2>2. slots[s].short \in Nat /\ NoShort \notin Nat /\ m.kind \in {"msg1", "msg3", "accepted"}
    BY <1>4, <2>1 DEF SlotRecords, NoShort, Belongs
  <2>3. /\ w.stage # "idle" => w.rand = slots[s].randS
        /\ w.stage = "msg3" => w.offer = slots[s].short
        /\ v.stage = "msg3" \/ v.short = slots[s].short
           => w.stage = "msg3" \/ w.short = slots[s].short
        /\ v.short = slots[s].short => w.short = slots[s].short
        /\ m.kind = "accepted" => w.short = slots[s].short
        /\ m.kind = "msg3" /\ v.rand = m.rand /\ v.stage # "idle" => w.stage = "msg3"
    <3>1. CASE m.kind = "msg1"
      <4>1. w = IF v.rand = m.rand /\ v.stage # "idle" THEN v
                ELSE [v EXCEPT !.stage = "msg1", !.rand = m.rand]
        BY <3>1 DEF Learn
      <4>2. m.rand = slots[s].randS
        BY <2>1, <3>1 DEF Belongs
      <4> QED  BY <1>1, <2>1, <3>1, <4>1, <4>2 DEF DeviceRecords
    <3>2. CASE m.kind = "msg3"
      <4>1. w = IF v.rand # m.rand \/ v.stage = "idle" THEN v
                ELSE [v EXCEPT !.stage = "msg3", !.offer = m.short, !.key = m.key]
        BY <3>2 DEF Learn
      <4>2. m.rand = slots[s].randS /\ m.short = slots[s].short
        BY <2>1, <3>2 DEF Belongs
      <4> QED  BY <1>1, <2>1, <3>2, <4>1, <4>2 DEF DeviceRecords
    <3>3. CASE m.kind = "accepted"
      <4>1. v.stage = "msg3" \/ v.short = slots[s].short
        BY <2>1, <3>3 DEF Belongs, Ready
      <4>2. CASE v.stage # "msg3"
        <5>1. w = v
          BY <3>3, <4>2 DEF Learn
        <5> QED  BY <2>1, <3>3, <4>1, <4>2, <5>1
      <4>3. CASE v.stage = "msg3"
        <5>1. w = [v EXCEPT !.stage = "idle", !.short = v.offer,
                            !.keys = {v.key}, !.active = v.key]
          BY <2>1, <2>2, <3>3, <4>3 DEF Learn
        <5>2. w.stage = "idle" /\ w.short = slots[s].short
          BY <1>1, <2>1, <4>3, <5>1 DEF DeviceRecords
        <5> QED  BY <3>3, <5>2
      <4> QED  BY <4>2, <4>3
    <3> QED  BY <2>2, <3>1, <3>2, <3>3
  <2>4. dev'[d] = w
    BY <1>3
  <2> HIDE DEF w
  <2>5. Ready(d, s) => Ready(d, s)'
    BY <1>4, <2>3, <2>4 DEF Ready
  <2>6. \A x : Belongs(x, d, s) => Belongs(x, d, s)'
    BY <1>4, <2>5 DEF Belongs
  <2>7. \A q \in reqs' : q.msg.dev = d => Belongs(q.msg, d, s)'
    BY <1>1, <1>2, <2>1, <2>6
  <2>8. \A q \in reqs' : q.msg.dev = d /\ q.msg.kind = "accepted" /\ q.delivered
                         => dev'[d].short = slots'[s].short
    BY <1>1, <1>2, <1>4, <2>1, <2>3, <2>4
  <2>9. (slots[s].msg.kind # "none" => Belongs(slots[s].msg, d, s))'
    BY <1>4, <2>1, <2>5 DEF Belongs
  <2>10. ((\E i \in DOMAIN up[d] : up[d][i].type = "T3") => Ready(d, s))'
    <3> SUFFICES ASSUME NEW i \in DOMAIN up'[d], up'[d][i].type = "T3" PROVE Ready(d, s)'
      OBVIOUS
    <3> DEFINE p == Reply(v, r)
    <3>1. \/ i \in DOMAIN up[d] /\ up'[d][i] = up[d][i]
          \/ i - Len(up[d]) \in DOMAIN p /\ up'[d][i] = p[i - Len(up[d])]
      <4>1. up'[d] = up[d] \o p /\ p \in Seq(UpMsgs)
        BY <1>1, <1>3
      <4>2. i \in DOMAIN (up[d] \o p)
        BY <4>1
      <4> HIDE DEF p
      <4>3. \/ i \in DOMAIN up[d] /\ (up[d] \o p)[i] = up[d][i]
            \/ i - Len(up[d]) \in DOMAIN p /\ (up[d] \o p)[i] = p[i - Len(up[d])]
        BY <1>1, <4>1, <4>2, JoinedAt, Zenon
      <4> QED  BY <4>1, <4>3, Zenon
    <3>2. CASE \E j \in DOMAIN p : p[j].type = "T3"
      <4>1. m.kind = "msg3" /\ v.rand = m.rand /\ v.stage # "idle"
        BY <3>2 DEF Reply, UpMsg
      <4> QED  BY <2>3, <2>4, <4>1 DEF Ready
    <3> QED  BY <2>1, <2>5, <3>1, <3>2
  <2>11. /\ (dev[d].stage # "idle" => dev[d].rand = slots[s].randS)'
         /\ (dev[d].stage = "msg3" => dev[d].offer = slots[s].short)'
    BY <1>4, <2>3, <2>4
  <2> QED  BY <1>7, <2>7, <2>8, <2>9, <2>10, <2>11 DEF ExchangeOK
<1> QED  BY <1>6, <1>7

LEMMA NetworkExchange ==
    ASSUME "leave" \notin Env, "reorder" \notin Env, TypeOK, ExchangesOK, Network
    PROVE  ExchangesOK'
<1>1. ASSUME NEW r \in reqs, LoseConfirm(r) PROVE ExchangesOK'
  <2>1. slots' = slots /\ dev' = dev /\ up' = up /\ \A q \in reqs' : q \in reqs
    BY <1>1 DEF LoseConfirm, coordVars
  <2>2. \A s \in Slots : GoesOn(slots'[s], slots[s])
    BY <2>1 DEF GoesOn
  <2> QED  BY <2>1, <2>2, ExchangeKept DEF ExchangesOK
<1>2. ASSUME NEW d \in Devices, LoseReply(d) PROVE ExchangesOK'
  <2>1. /\ slots' = slots /\ dev' = dev /\ \A q \in reqs' : q \in reqs
        /\ up[d] # <<>> /\ up' = [up EXCEPT ![d] = Tail(up[d])]
    BY <1>2 DEF LoseReply, coordVars
  <2>2. \A s \in Slots : GoesOn(slots'[s], slots[s])
    BY <2>1 DEF GoesOn
  <2>3. \A e \in Devices : up'[e] = up[e] \/ (up[e] # <<>> /\ up'[e] = Tail(up[e]))
    BY <2>1 DEF TypeOK
  <2> QED  BY <2>1, <2>2, <2>3, ExchangeKept DEF ExchangesOK
<1> QED  BY <1>1, <1>2, DeliverExchange DEF Network, Leave, DelayT3

-----------------------------------------------------------------------------
(* Nobody is kicked by a call that is never made. *)
NoKick == thread["main"].op # "kick"

LEMMA NoKickStep ==
    ASSUME "rekey" \notin Api, "kick" \notin Api
    PROVE  TypeOK /\ NoRekeying /\ NoKick /\ [Next]_vars => NoKick'
<1> SUFFICES ASSUME TypeOK, NoRekeying, NoKick, [Next]_vars PROVE NoKick'
  OBVIOUS
<1>1. thread \in [{"main", "usi"} -> ThreadRecords] /\ Idle.op = "idle"
      /\ \A op, x : Doing(op, x).op = op
  BY DEF TypeOK, Doing, Idle
<1>2. ASSUME thread' = thread PROVE NoKick'
  BY <1>2 DEF NoKick
<1>3. ASSUME NEW d \in Devices, Indication(d) PROVE NoKick'
  BY <1>2, <1>3 DEF Indication, JoiningNoSlot, JoiningDeclined, JoiningNew, JoiningRepeated,
     HandleT1, HandleT3, HandleBadRandS, KickFromLbd, HandleUnexpected, JoiningFrom, Receives
<1>4. ASSUME NEW r \in reqs, ConfirmStep(r) PROVE NoKick'
  BY <1>2, <1>4, ConfirmStepIs
<1>5. ASSUME NEW s \in Slots, BsProcess(s) PROVE NoKick'
  <2>1. CASE CheckSlot(s)
    <3>1. PICK op \in {"never", "resend", "reset"} :
             thread' = [thread EXCEPT !["main"] = Doing(op, s)]
      BY <2>1 DEF CheckSlot
    <3> QED  BY <1>1, <3>1 DEF NoKick
  <2>2. CASE ResendSlot(s) \/ ResetSlot(s)
    BY <1>1, <2>2 DEF ResendSlot, ResetSlot, NoKick
  <2> QED  BY <1>5, <2>1, <2>2 DEF BsProcess
<1>6. ASSUME NEW t \in {"main", "usi"} PROVE ~RekeySend(t)
  BY DEF RekeySend, NoRekeying
<1>7. ~KickSend
  BY DEF KickSend, NoKick
<1>8. CASE ApiStep
  BY <1>2, <1>8 DEF ApiStep, LaunchRekeying, KickDevice, ApiCall, SetDeviceList,
                    SetInitialShortAddress, AddDeviceToBlacklist
<1>9. CASE Network \/ UNCHANGED vars
  BY <1>2, <1>9 DEF Network, Deliver, LoseConfirm, LoseReply, DelayT3, Leave, vars, coordVars
<1> QED  BY <1>3, <1>4, <1>5, <1>6, <1>7, <1>8, <1>9 DEF Next

(* Every step keeps the exchanges as the devices follow them. *)
ExchangeInv == ExchangesOK /\ LastSentOK /\ NoKick

LEMMA ExchangesStep ==
    ASSUME "rekey" \notin Api, "kick" \notin Api, "restart" \notin Env, "randp" \notin Env,
           "reorder" \notin Env, "leave" \notin Env
    PROVE  TypeOK /\ OneSlotPerDevice /\ OneSlotPerDevice' /\ ConfirmInv /\ ExchangeInv
           /\ [Next]_vars => ExchangesOK'
<1> SUFFICES ASSUME TypeOK, OneSlotPerDevice, OneSlotPerDevice', ConfirmInv, ExchangeInv,
                    [Next]_vars
             PROVE  ExchangesOK'
  OBVIOUS
<1>1. NoRekeying /\ ExchangesOK /\ NoKick /\ SlotsOK(slots, reqs)
  BY DEF ConfirmInv, ThreadsOK, ExchangeInv
<1>2. ASSUME NEW d \in Devices, Indication(d) PROVE ExchangesOK'
  BY <1>1, <1>2, IndicationExchange
<1>3. ASSUME NEW r \in reqs, ConfirmStep(r) PROVE ExchangesOK'
  BY <1>1, <1>3, ConfirmExchange
<1>4. ASSUME NEW s \in Slots, BsProcess(s) PROVE ExchangesOK'
  BY <1>1, <1>4, BsProcessExchange
<1>5. ASSUME NEW t \in {"main", "usi"} PROVE ~RekeySend(t)
  BY <1>1 DEF RekeySend, NoRekeying
<1>6. ~KickSend
  BY <1>1 DEF KickSend, NoKick
<1>7. CASE ApiStep \/ UNCHANGED vars
  <2>1. slots' = slots /\ reqs' = reqs /\ dev' = dev /\ up' = up
    BY <1>7 DEF ApiStep, LaunchRekeying, KickDevice, ApiCall, SetDeviceList,
                SetInitialShortAddress, AddDeviceToBlacklist, vars, coordVars
  <2>2. \A s \in Slots : GoesOn(slots'[s], slots[s])
    BY <2>1 DEF GoesOn
  <2> QED  BY <1>1, <2>1, <2>2, ExchangeKept DEF ExchangesOK
<1>8. CASE Network
  BY <1>1, <1>8, NetworkExchange
<1> QED  BY <1>2, <1>3, <1>4, <1>5, <1>6, <1>7, <1>8 DEF Next

LEMMA LastSentStep ==
    ASSUME "rekey" \notin Api, "drop" \notin Env, "reorder" \notin Env, "randp" \notin Env
    PROVE  TypeOK /\ DistinctHandles /\ DistinctHandles' /\ ConfirmInv /\ ExchangeInv
           /\ [Next]_vars => LastSentOK'
<1> SUFFICES ASSUME TypeOK, DistinctHandles, DistinctHandles', ConfirmInv, ExchangeInv,
                    [Next]_vars
             PROVE  LastSentOK'
  OBVIOUS
<1>1. NoRekeying /\ LastSentOK /\ NoKick /\ RequestsOK /\ SlotsOK(slots, reqs)
  BY DEF ConfirmInv, ThreadsOK, ExchangeInv
<1>2. ASSUME NEW d \in Devices, Indication(d) PROVE LastSentOK'
  BY <1>1, <1>2, IndicationLast
<1>3. ASSUME NEW r \in reqs, ConfirmStep(r) PROVE LastSentOK'
  <2>1. PICK ok \in BOOLEAN : ConfirmFor(r, ok) /\ slots' = AfterConfirm(r.h, ok)
    BY <1>1, <1>3, ConfirmStepIs
  <2>2. AllRest(slots', slots)
    BY <1>1, <2>1, ConfirmedRests
  <2>3. StillSent(reqs', reqs)
    BY <2>1 DEF ConfirmFor, StillSent
  <2> QED  BY <1>1, <2>2, <2>3, RestsLast
<1>4. ASSUME NEW s \in Slots, BsProcess(s) PROVE LastSentOK'
  BY <1>1, <1>4, BsProcessLast
<1>5. ASSUME NEW t \in {"main", "usi"} PROVE ~RekeySend(t)
  BY <1>1 DEF RekeySend, NoRekeying
<1>6. ~KickSend
  BY <1>1 DEF KickSend, NoKick
<1>7. ASSUME slots' = slots, StillSent(reqs', reqs) PROVE LastSentOK'
  BY <1>1, <1>7, RestsStill, RestsLast
<1>8. CASE ApiStep \/ UNCHANGED vars
  <2>1. slots' = slots /\ reqs' = reqs
    BY <1>8 DEF ApiStep, LaunchRekeying, KickDevice, ApiCall, SetDeviceList,
                SetInitialShortAddress, AddDeviceToBlacklist, vars, coordVars
  <2> QED  BY <1>7, <2>1 DEF StillSent
<1>9. ASSUME NEW r \in reqs, Deliver(r) PROVE LastSentOK'
  <2> DEFINE new == [r EXCEPT !.delivered = TRUE]
  <2>1. new.n = r.n /\ new.h = r.h /\ new.slot = r.slot /\ new.msg = r.msg
    BY DEF TypeOK, Requests
  <2>2. slots' = slots /\ reqs' = (reqs \ {r}) \cup {new}
    BY <1>9 DEF Deliver, coordVars
  <2> HIDE DEF new
  <2> QED  BY <1>7, <2>1, <2>2 DEF StillSent
<1>10. CASE Network
  <2>1. (\E r \in reqs : Deliver(r)) \/ (slots' = slots /\ reqs' = reqs)
    BY <1>10 DEF Network, LoseConfirm, LoseReply, DelayT3, Leave, coordVars
  <2> QED  BY <1>7, <1>9, <2>1 DEF StillSent
<1> QED  BY <1>2, <1>3, <1>4, <1>5, <1>6, <1>8, <1>10 DEF Next

LEMMA ExchangeInvStep ==
    ASSUME "rekey" \notin Api, "kick" \notin Api, "preempt" \notin Env, "drop" \notin Env,
           "reorder" \notin Env, "restart" \notin Env, "randp" \notin Env, "leave" \notin Env
    PROVE  /\ TypeOK /\ TypeOK' /\ OneSlotPerDevice /\ OneSlotPerDevice'
           /\ ConfirmsInTime /\ ConfirmsInTime' /\ ConfirmInv /\ ExchangeInv /\ [Next]_vars
           => ExchangeInv'
<1> SUFFICES ASSUME TypeOK, TypeOK', OneSlotPerDevice, OneSlotPerDevice', ConfirmsInTime,
                    ConfirmsInTime', ConfirmInv, ExchangeInv, [Next]_vars
             PROVE  ExchangeInv'
  OBVIOUS
<1>1. NoRekeying /\ NoKick /\ RequestsOK
  BY DEF ConfirmInv, ThreadsOK, ExchangeInv
<1>2. RequestsOK'
  BY ConfirmStepInv DEF ConfirmInv
<1>3. DistinctHandles
  BY <1>1, HandlesDiffer
<1>4. TypeOK' /\ RequestsOK' /\ ConfirmsInTime' => DistinctHandles'
  BY HandlesDiffer, PTL
<1>5. DistinctHandles'
  BY <1>2, <1>4
<1>6. ExchangesOK'
  BY ExchangesStep
<1>7. LastSentOK'
  BY <1>3, <1>5, LastSentStep
<1>8. NoKick'
  BY <1>1, NoKickStep
<1> QED  BY <1>6, <1>7, <1>8 DEF ExchangeInv

LEMMA ExchangeInit == Init => ExchangeInv
<1> SUFFICES ASSUME Init PROVE ExchangeInv
  OBVIOUS
<1>1. FreshSlot.state = "free" /\ FreshSlot.pending = 0 /\ Idle.op = "idle"
  BY DEF FreshSlot, Idle
<1>2. ExchangesOK
  BY <1>1 DEF Init, ExchangesOK, InExchange, Busy
<1>3. LastSentOK
  BY <1>1 DEF Init, LastSentOK, LastSent
<1>4. NoKick
  BY <1>1 DEF Init, NoKick
<1> QED  BY <1>2, <1>3, <1>4 DEF ExchangeInv

(* A device is entered only by the confirm that finishes its join. *)
LEMMA ListedStep ==
    ASSUME "rekey" \notin Api, "manual" \notin Api, TypeOK, NoRekeying, [Next]_vars,
           NEW i \in Cells, NEW d \in Devices, ListedAt(list, i, d)', ~ListedAt(list, i, d)
    PROVE  \E r \in reqs :
              /\ ConfirmJoin(r) /\ slots[Current(r.h)].addr = d
              /\ slots[Current(r.h)].short = i + list.initial
<1>1. list \in Lists /\ d # NoDevice /\ list'.ext[i] = d /\ list.ext[i] # d
  BY LbdListAssumption DEF TypeOK, ListedAt
<1>2. \A l \in Lists : \A a : RemoveEntry(l, a).ext[i] \in {l.ext[i], NoDevice}
  <2> SUFFICES ASSUME NEW l \in Lists, NEW a
               PROVE  RemoveEntry(l, a).ext[i] \in {l.ext[i], NoDevice}
    OBVIOUS
  <2>1. CASE DeviceIsInList(l, a)
    <3>1. RemoveEntry(l, a).ext = [l.ext EXCEPT ![a - l.initial] = NoDevice]
      BY <2>1 DEF RemoveEntry, Lists
    <3> QED  BY <3>1 DEF Lists
  <2>2. CASE ~DeviceIsInList(l, a)
    BY <2>2 DEF RemoveEntry
  <2> QED  BY <2>1, <2>2
<1>3. ~(list'.ext = list.ext \/ \E a : list' = RemoveEntry(list, a))
  BY <1>1, <1>2
<1>4. ASSUME NEW c \in Devices, JoiningNew(c) PROVE FALSE
  <2>1. list' = Grow(Forget(list, c))
    BY <1>4 DEF JoiningNew, NoRekeying
  <2>2. Forget(list, c) \in Lists
    BY <1>1, ForgetType
  <2>3. list'.ext = Forget(list, c).ext
    BY <2>1, <2>2 DEF Grow, Lists
  <2>4. Forget(list, c) = list \/ \E a : Forget(list, c) = RemoveEntry(list, a)
    BY DEF Forget
  <2> QED  BY <1>1, <1>2, <2>3, <2>4
<1>5. ASSUME NEW c \in Devices PROVE ~Indication(c)
  <2>1. Indication(c) /\ ~JoiningNew(c) => list' = list \/ \E a : list' = RemoveEntry(list, a)
    BY DEF Indication, JoiningNoSlot, JoiningDeclined, JoiningRepeated, HandleT1,
           HandleT3, HandleBadRandS, HandleUnexpected, KickFromLbd
  <2> QED  BY <1>3, <1>4, <2>1
<1>6. ASSUME NEW r \in reqs, ConfirmStep(r)
      PROVE  /\ ConfirmJoin(r) /\ slots[Current(r.h)].addr = d
             /\ slots[Current(r.h)].short = i + list.initial
  <2> DEFINE c == slots[Current(r.h)]
  <2>1. ConfirmJoin(r)
    BY <1>3, <1>6, ConfirmStepIs
  <2>2. list' = AddEntry(list, c.addr, c.short) /\ JoinFinished(r.h, TRUE)
    BY <1>3, <2>1 DEF ConfirmJoin
  <2>3. c \in SlotRecords
    BY <2>2, CurrentIn DEF TypeOK
  <2> HIDE DEF c
  <2>4. CanAdd(list, c.addr, c.short)
    BY <1>3, <2>2 DEF AddEntry
  <2>5. list'.ext = [list.ext EXCEPT ![c.short - list.initial] = c.addr]
    BY <1>1, <2>2, <2>4 DEF AddEntry, Lists
  <2>6. i = c.short - list.initial /\ c.addr = d
    BY <1>1, <2>5 DEF Lists
  <2>7. c.short = i + list.initial
    BY <1>1, <2>3, <2>6 DEF SlotRecords, Lists
  <2> QED  BY <2>1, <2>6, <2>7 DEF c
<1>7. ASSUME NEW s \in Slots PROVE ~BsProcess(s)
  BY <1>3 DEF BsProcess, CheckSlot, ResendSlot, ResetSlot
<1>8. ASSUME NEW t \in {"main", "usi"} PROVE ~RekeySend(t)
  BY DEF RekeySend, NoRekeying
<1>9. ~KickSend
  BY <1>3 DEF KickSend
<1>10. ~ApiStep
  <2>1. \A a : SetInitial(list, a).ext = list.ext
    BY <1>1 DEF SetInitial, Lists
  <2> QED  BY <1>3, <2>1 DEF ApiStep, LaunchRekeying, KickDevice, ApiCall, SetDeviceList,
                             SetInitialShortAddress, AddDeviceToBlacklist
<1>11. ~(Network \/ UNCHANGED vars)
  BY <1>3 DEF Network, Deliver, LoseConfirm, LoseReply, DelayT3, Leave, vars, coordVars
<1> QED  BY <1>5, <1>6, <1>7, <1>8, <1>9, <1>10, <1>11 DEF Next

(* The acceptance that the confirm is about has been delivered: the device *)
(* uses the address of the exchange.                                       *)
LEMMA JoinedHolds ==
    ASSUME TypeOK, DistinctHandles, ConfirmInv, ExchangeInv, NEW d \in Devices,
           NEW r \in reqs, ConfirmJoin(r), slots[Current(r.h)].addr = d
    PROVE  dev[d].short = slots[Current(r.h)].short
<1> DEFINE s == Current(r.h)
<1>1. SlotsOK(slots, reqs) /\ ExchangesOK /\ LastSentOK
  BY DEF ConfirmInv, ExchangeInv
<1>2. JoinFinished(r.h, TRUE) /\ r.delivered
  BY DEF ConfirmJoin, ConfirmFor
<1>3. s \in Slots /\ slots[s].state = "accepted"
  BY <1>1, <1>2, JoinsAccepted
<1>4. MatchesOnly(slots[s], r.h)
  <2>1. PICK x \in Slots : MatchesOnly(slots[x], r.h)
    BY <1>2 DEF JoinFinished
  <2>2. x \in Matched(r.h) /\ \A y \in Matched(r.h) : y = x
    BY <1>1, <2>1, MatchedSlot DEF Matched, Matches
  <2>3. NumSlots \in Nat /\ Matched(r.h) \in SUBSET (0 .. NumSlots)
    BY LbpAssumption, SlotsAreNaturals DEF Matched
  <2>4. s \in Matched(r.h)
    BY <2>2, <2>3, MaxIn DEF Current
  <2> QED  BY <2>1, <2>2, <2>4
<1> HIDE DEF s
<1>5. slots[s].pending = 1 /\ r.h = slots[s].tx
  BY <1>4 DEF MatchesOnly
<1>6. PICK w \in reqs : w.slot = s /\ w.h = slots[s].tx /\ w.msg.dev = slots[s].addr
  BY <1>1, <1>3, <1>5 DEF SlotsOK, SlotOK
<1>7. r.slot = s /\ r.msg.dev = d
  BY <1>5, <1>6 DEF DistinctHandles, s
<1>8. r.msg.kind = "accepted"
  BY <1>1, <1>3, <1>5, <1>7 DEF LastSentOK, LastSent
<1>9. InExchange(d, s)
  BY <1>3 DEF InExchange, Busy, s
<1>10. dev[d].short = slots[s].short
  BY <1>1, <1>2, <1>3, <1>7, <1>8, <1>9 DEF ExchangesOK, ExchangeOK
<1> QED  BY <1>10 DEF s

(* While the application only blacklists devices and sets the initial      *)
(* address, devices neither leave nor start over nor draw a RandP again,   *)
(* bs_process is not interrupted, and confirms come, in order and before   *)
(* the next use of their handle, a device is entered in the list only at   *)
(* the address it uses, whatever is lost, late or sent twice.              *)
THEOREM EntersAtIts ==
    ASSUME "rekey" \notin Api, "kick" \notin Api, "manual" \notin Api,
           "preempt" \notin Env, "drop" \notin Env, "reorder" \notin Env,
           "restart" \notin Env, "randp" \notin Env, "leave" \notin Env
    PROVE  Spec /\ []ConfirmsInTime => EntersWithItsAddress
<1> DEFINE Enters ==
              \A i \in Cells, d \in Devices :
                 ListedAt(list, i, d)' /\ ~ListedAt(list, i, d)
                 => \/ dev[d].short = i + list.initial
                    \/ "restart" \in Env /\ dev[d].short = NoShort
<1>1. TypeOK /\ ConfirmsInTime /\ ConfirmInv /\ ExchangeInv /\ [Next]_vars => Enters
  <2> SUFFICES ASSUME TypeOK, ConfirmsInTime, ConfirmInv, ExchangeInv, [Next]_vars,
                      NEW i \in Cells, NEW d \in Devices,
                      ListedAt(list, i, d)', ~ListedAt(list, i, d)
               PROVE  dev[d].short = i + list.initial
    OBVIOUS
  <2>1. NoRekeying /\ DistinctHandles
    BY HandlesDiffer DEF ConfirmInv, ThreadsOK
  <2>2. PICK r \in reqs : /\ ConfirmJoin(r) /\ slots[Current(r.h)].addr = d
                          /\ slots[Current(r.h)].short = i + list.initial
    BY <2>1, ListedStep
  <2> QED  BY <2>1, <2>2, JoinedHolds
<1>2. TypeOK /\ ConfirmsInTime /\ ConfirmInv /\ [Next]_vars => ConfirmInv'
  BY ConfirmStepInv
<1>3. /\ TypeOK /\ TypeOK' /\ OneSlotPerDevice /\ OneSlotPerDevice'
      /\ ConfirmsInTime /\ ConfirmsInTime' /\ ConfirmInv /\ ExchangeInv /\ [Next]_vars
      => ExchangeInv'
  BY ExchangeInvStep
<1>4. Enters => [Enters]_vars
  OBVIOUS
<1>5. Spec => []OneSlotPerDevice
  BY OneSlotCorrect
<1> HIDE DEF Enters
<1> QED  BY <1>1, <1>2, <1>3, <1>4, <1>5, InitType, TypeStep, ConfirmInit, ExchangeInit, PTL
         DEF Spec, EntersWithItsAddress, Enters

-----------------------------------------------------------------------------
(* Where nothing is lost or late *)

(* The application only blacklists devices; messages, replies and confirms *)
(* come in order and in time, and a reply perhaps before the confirm of    *)
(* the request that it answers; devices ask to join, and stay.             *)
Untroubled == Api \subseteq {"blacklist"} /\ Env \subseteq {"early"}

(* Slot s has no request with the ADP; or r alone; or r after another one, *)
(* which has been delivered.                                               *)
Nothing(s)   == slots[s].pending = 0 /\ \A q \in reqs : q.slot # s
Alone(s, r)  == slots[s].pending = 1 /\ \A q \in reqs : q.slot = s => q = r
Second(s, r) ==
    /\ slots[s].pending = 2
    /\ \E p \in reqs : /\ p.slot = s /\ p.h = slots[s].ptx /\ p.n < r.n /\ p.delivered
                       /\ \A q \in reqs : q.slot = s => q \in {p, r}

Latest(s, r, kind) ==
    /\ r \in reqs /\ r.slot = s /\ r.h = slots[s].tx /\ r.msg.kind = kind
    /\ Alone(s, r) \/ (Second(s, r) /\ kind \in {"msg3", "accepted"})

(* Device d has nothing to say; it has replied in the exchange of slot s.  *)
Silent(d, stage) == up[d] = <<>> /\ dev[d].stage = stage
Replied(d, s, stage, type) ==
    /\ Len(up[d]) = 1 /\ up[d][1].type = type /\ up[d][1].rand = slots[s].randS
    /\ dev[d].stage = stage

(* The acceptance has been delivered. *)
Joined(s) == /\ slots[s].state = "accepted"
             /\ \E r \in reqs : Latest(s, r, "accepted") /\ r.delivered

(* The coordinator and the device of an exchange take turns. *)
Turn(d, s) ==
    \/ /\ slots[s].state = "declined"
       /\ Silent(d, "idle")
       /\ \E r \in reqs : Latest(s, r, "decline")
    \/ /\ slots[s].state = "sent1"
       /\ \E r \in reqs : /\ Latest(s, r, "msg1")
                          /\ IF r.delivered THEN Replied(d, s, "msg1", "T1")
                             ELSE Silent(d, "idle")
    \/ slots[s].state = "wait2" /\ Nothing(s) /\ Replied(d, s, "msg1", "T1")
    \/ /\ slots[s].state = "sent3"
       /\ \E r \in reqs : /\ Latest(s, r, "msg3")
                          /\ IF r.delivered
                             THEN Replied(d, s, "msg3", "T3") /\ up[d][1].n = r.n
                             ELSE Silent(d, "msg1")
    \/ slots[s].state = "wait4" /\ Nothing(s) /\ Replied(d, s, "msg3", "T3")
    \/ /\ slots[s].state = "accepted"
       /\ \E r \in reqs : /\ Latest(s, r, "accepted")
                          /\ IF r.delivered THEN up[d] = <<>> ELSE Silent(d, "msg3")

SlotTurn(s) == IF slots[s].state = "free" THEN Nothing(s)
               ELSE slots[s].addr \in Devices /\ Turn(slots[s].addr, s)

NoExchange(d) == \A s \in Slots : slots[s].addr = d => slots[s].state = "free"

(* Nothing else is on its way, and bs_process never finds a timer past.    *)
TurnsOK ==
    /\ \A s \in Slots : SlotTurn(s)
    /\ \A d \in Devices : NoExchange(d) => up[d] = <<>>
    /\ \A r \in reqs : /\ r.slot \in Slots /\ r.msg.dev = slots[r.slot].addr
                       /\ r.msg.kind # "none"
    /\ thread = [t \in {"main", "usi"} |-> Idle]

(* Whoever is in the list uses that address; whoever uses an address is    *)
(* there, or its acceptance is being confirmed.                            *)
EntersOK ==
    /\ \A d \in Devices, i \in Cells : list.ext[i] = d => dev[d].short = i + list.initial
    /\ \A d \in Devices : dev[d].short # NoShort =>
          \/ Entered(list, d, dev[d].short)
          \/ \E s \in Slots : slots[s].addr = d /\ Joined(s)
    /\ \A d \in Devices, s \in Slots :
          slots[s].addr = d /\ slots[s].state # "free" /\ dev[d].short # NoShort => Joined(s)
    /\ \A s \in Slots : slots[s].state \in Busy => slots[s].short >= list.initial

(* The requests of one slot go with that slot and its device alone. *)
LEMMA TurnKept ==
    ASSUME NEW d, NEW s, slots'[s] = slots[s], dev'[d] = dev[d], up'[d] = up[d],
           {r \in reqs' : r.slot = s} = {r \in reqs : r.slot = s},
           IF slots[s].state = "free" THEN Nothing(s) ELSE Turn(d, s)
    PROVE  IF slots'[s].state = "free" THEN Nothing(s)' ELSE Turn(d, s)'
<1>1. \A r : r \in reqs /\ r.slot = s <=> r \in reqs' /\ r.slot = s
  OBVIOUS
<1>2. Nothing(s) => Nothing(s)'
  BY <1>1 DEF Nothing
<1>3. \A r : Alone(s, r) => Alone(s, r)'
  BY <1>1 DEF Alone
<1>4. \A r : Second(s, r) => Second(s, r)'
  BY <1>1 DEF Second
<1>5. \A r, kind : Latest(s, r, kind) => Latest(s, r, kind)'
  BY <1>1, <1>3, <1>4 DEF Latest
<1>6. \A r, kind : Latest(s, r, kind) => r \in reqs'
  BY <1>1 DEF Latest
<1>7. /\ \A stage : Silent(d, stage) => Silent(d, stage)'
      /\ \A stage, type : Replied(d, s, stage, type) => Replied(d, s, stage, type)'
  BY DEF Silent, Replied
<1>8. CASE slots[s].state = "free"
  BY <1>2, <1>8
<1>9. CASE slots[s].state # "free"
  <2>1. Turn(d, s)
    BY <1>9
  <2>2. Turn(d, s)'
    BY <1>2, <1>5, <1>6, <1>7, <2>1 DEF Turn
  <2> QED  BY <1>9, <2>2
<1> QED  BY <1>8, <1>9

LEMMA OthersKept ==
    ASSUME TypeOK, TurnsOK, OneSlotPerDevice', NEW d \in Devices, NEW s \in Slots,
           slots'[s].addr = d, slots[s].addr = d \/ slots[s].state = "free",
           thread' = thread,
           \A x \in Slots : x # s => slots'[x] = slots[x],
           \A e \in Devices : e # d => dev'[e] = dev[e] /\ up'[e] = up[e],
           \A x \in Slots : x # s => {r \in reqs' : r.slot = x} = {r \in reqs : r.slot = x},
           \A r \in reqs' : \/ r \in reqs /\ r.slot # s
                            \/ r.slot = s /\ r.msg.dev = d /\ r.msg.kind # "none",
           IF slots'[s].state = "free" THEN Nothing(s)' /\ up'[d] = <<>> ELSE Turn(d, s)'
    PROVE  TurnsOK'
<1>1. ASSUME NEW x \in Slots PROVE SlotTurn(x)'
  <2>1. CASE x = s
    BY <2>1 DEF SlotTurn
  <2>2. CASE x # s /\ slots[x].state = "free"
    <3>1. Nothing(x)
      BY <2>2 DEF TurnsOK, SlotTurn
    <3>2. Nothing(x)'
      BY <2>2, <3>1 DEF Nothing
    <3> QED  BY <2>2, <3>2 DEF SlotTurn
  <2>3. CASE x # s /\ slots[x].state # "free"
    <3>1. slots[x].addr \in Devices /\ Turn(slots[x].addr, x) /\ slots'[x] = slots[x]
      BY <2>3 DEF TurnsOK, SlotTurn
    <3>2. slots[x].addr # d
      BY <2>3, <3>1, LbpAssumption DEF OneSlotPerDevice
    <3>3. dev'[slots[x].addr] = dev[slots[x].addr] /\ up'[slots[x].addr] = up[slots[x].addr]
      BY <3>1, <3>2
    <3>4. Turn(slots[x].addr, x)'
      <4>1. PICK e : e = slots[x].addr
        OBVIOUS
      <4>2. /\ Turn(e, x) /\ slots'[x] = slots[x] /\ slots'[x].addr = e
            /\ dev'[e] = dev[e] /\ up'[e] = up[e]
        BY <3>1, <3>3, <4>1
      <4>3. Turn(e, x)'
        BY <2>3, <4>2, TurnKept
      <4> QED  BY <4>2, <4>3
    <3> QED  BY <2>3, <3>1, <3>4 DEF SlotTurn
  <2> QED  BY <2>1, <2>2, <2>3
<1>2. ASSUME NEW e \in Devices, NoExchange(e)' PROVE up'[e] = <<>>
  <2>1. CASE e = d
    BY <1>2, <2>1 DEF NoExchange
  <2>2. CASE e # d
    <3>1. NoExchange(e)
      BY <1>2, <2>2 DEF NoExchange
    <3> QED  BY <2>2, <3>1 DEF TurnsOK
  <2> QED  BY <2>1, <2>2
<1>3. ASSUME NEW r \in reqs'
      PROVE  r.slot \in Slots /\ r.msg.dev = slots'[r.slot].addr /\ r.msg.kind # "none"
  BY DEF TurnsOK
<1> QED  BY <1>1, <1>2, <1>3 DEF TurnsOK

(* The coordinator takes its turn: it sends. *)
LEMMA AnswerTurn ==
    ASSUME TypeOK, RequestsOK, TurnsOK, OneSlotPerDevice', NEW d \in Devices, NEW s, NEW r,
           Answers(s, r, d), thread' = thread,
           slots[s].addr = d \/ slots[s].state = "free",
           \A e \in Devices : e # d => dev'[e] = dev[e] /\ up'[e] = up[e],
           NEW stage, Silent(d, stage)',
           \/ r.state = "declined" /\ r.msg.kind = "decline" /\ stage = "idle"
           \/ r.state = "sent1" /\ r.msg.kind = "msg1" /\ stage = "idle"
           \/ r.state = "sent3" /\ r.msg.kind = "msg3" /\ stage = "msg1"
           \/ r.state = "accepted" /\ r.msg.kind = "accepted" /\ stage = "msg3",
           \/ Nothing(s)
           \/ /\ r.msg.kind \in {"msg3", "accepted"}
              /\ \E p \in reqs : /\ p.slot = s /\ p.h = slots[s].tx /\ p.delivered
                                 /\ Alone(s, p)
    PROVE  TurnsOK'
<1>a. PICK new : new = Request(s, r.msg)
  OBVIOUS
<1>1. /\ s \in Slots /\ slots'[s].state = r.state /\ slots'[s].addr = d
      /\ \A x \in Slots : x # s => slots'[x] = slots[x]
      /\ reqs' = reqs \cup {new}
  BY <1>a, AnswersLeaves DEF Answers
<1>2. /\ slots'[s].tx = NextHandle
      /\ slots[s].pending = 0 => slots'[s].pending = 1
      /\ slots[s].pending = 1 => slots'[s].pending = 2 /\ slots'[s].ptx = slots[s].tx
  <2> DEFINE q == [r EXCEPT !.attempts = 0]
  <2>1. q \in SlotRecords /\ q.pending = slots[s].pending /\ q.tx = slots[s].tx
    BY DEF Answers, Sends, SlotRecords
  <2>2. slots' = [slots EXCEPT ![s] = Transmit(q)]
    BY DEF Answers, Sends, SendFirst, SendFrom
  <2> HIDE DEF q
  <2>3. slots'[s] = Transmit(q)
    BY <1>1, <2>2 DEF TypeOK
  <2>4. /\ Transmit(q).tx = NextHandle
        /\ Transmit(q).pending = (q.pending + 1) % Handles
        /\ q.pending > 0 => Transmit(q).ptx = q.tx
    BY <2>1 DEF Transmit, SlotRecords
  <2>5. /\ q.pending = 0 => (q.pending + 1) % Handles = 1
        /\ q.pending = 1 => (q.pending + 1) % Handles = 2 /\ q.pending > 0
    BY DEF Handles
  <2> QED  BY <2>1, <2>3, <2>4, <2>5
<1>3. /\ new.h = NextHandle /\ new.slot = s /\ new.msg = r.msg /\ new.n = sent
      /\ new.delivered = FALSE /\ r.msg.dev = d
  BY <1>a DEF Request, Answers
<1>4. \A q \in reqs : q.n < new.n
  BY <1>3 DEF RequestsOK
<1>5. Latest(s, new, r.msg.kind)'
  <2>1. CASE Nothing(s)
    <3>1. Alone(s, new)'
      BY <1>1, <1>2, <2>1 DEF Alone, Nothing
    <3> QED  BY <1>1, <1>2, <1>3, <3>1 DEF Latest
  <2>2. ASSUME NEW p \in reqs, r.msg.kind \in {"msg3", "accepted"}, p.slot = s,
               p.h = slots[s].tx, p.delivered, Alone(s, p)
        PROVE  Latest(s, new, r.msg.kind)'
    <3>1. Second(s, new)'
      BY <1>1, <1>2, <1>4, <2>2 DEF Alone, Second
    <3> QED  BY <1>1, <1>2, <1>3, <2>2, <3>1 DEF Latest
  <2> QED  BY <2>1, <2>2
<1>6. Turn(d, s)' /\ slots'[s].state # "free"
  BY <1>1, <1>3, <1>5 DEF Turn
<1>7. r.msg.kind # "none"
  OBVIOUS
<1>8. \A q \in reqs' : \/ q \in reqs /\ q.slot # s
                       \/ q.slot = s /\ q.msg.dev = d /\ q.msg.kind # "none"
  <2>1. \A q \in reqs : q.slot = s => q.msg.dev = d /\ q.msg.kind # "none"
    BY <1>1 DEF TurnsOK, SlotTurn, Nothing
  <2> QED  BY <1>1, <1>3, <1>7, <2>1
<1>9. \A x \in Slots : x # s => {q \in reqs' : q.slot = x} = {q \in reqs : q.slot = x}
  BY <1>1, <1>3
<1> QED  BY <1>1, <1>6, <1>8, <1>9, OthersKept

(* Something is always on its way in an exchange, so that the device does  *)
(* not ask again, and bs_process does not find the timer past.             *)
LEMMA TurnNotQuiet ==
    ASSUME TypeOK, TurnsOK, NEW s \in Slots, slots[s].state # "free"
    PROVE  /\ slots[s].addr \in Devices /\ ~Quiet(slots[s].addr)
           /\ (\A r \in reqs : r.slot # s) => up[slots[s].addr] # <<>>
<1> DEFINE d == slots[s].addr
<1>1. d \in Devices /\ Turn(d, s)
  BY DEF TurnsOK, SlotTurn
<1>2. up[d] \in Seq(UpMsgs)
  BY <1>1 DEF TypeOK
<1>3. \A r \in reqs : r.slot = s => r.msg.dev = d
  BY DEF TurnsOK
<1> HIDE DEF d
<1>4. ASSUME NEW stage, NEW type, Replied(d, s, stage, type) PROVE up[d] # <<>>
  BY <1>2, <1>4 DEF Replied
<1>5. ASSUME NEW r \in reqs, NEW kind, Latest(s, r, kind)
      PROVE  r.slot = s
  BY <1>5 DEF Latest
<1>6. up[d] # <<>> \/ \E r \in reqs : r.slot = s
  BY <1>1, <1>4, <1>5 DEF Turn
<1>7. ~Quiet(d)
  BY <1>3, <1>6 DEF Quiet
<1> QED  BY <1>1, <1>6, <1>7 DEF d

(* A device that asks to join is in no exchange. *)
LEMMA JoiningTurn ==
    ASSUME Untroubled, TypeOK, TurnsOK, NEW d \in Devices, JoiningFrom(d)
    PROVE  /\ NoExchange(d) /\ Silent(d, "idle")' /\ thread' = thread
           /\ dev[d].short = NoShort /\ dev'[d].short = NoShort
           /\ \A e \in Devices : e # d => dev'[e] = dev[e] /\ up'[e] = up[e]
           /\ HasSlot(slots, d) => /\ SlotFor(slots, d) \in Slots
                                   /\ slots[SlotFor(slots, d)].state = "free"
                                   /\ Nothing(SlotFor(slots, d))
<1>1. "restart" \notin Env
  BY DEF Untroubled
<1>2. Quiet(d) /\ dev[d].short = NoShort /\ thread' = thread
  BY <1>1 DEF JoiningFrom
<1>3. NoExchange(d)
  BY <1>2, TurnNotQuiet DEF NoExchange
<1>4. /\ up'[d] = <<>> /\ dev'[d].stage = "idle"
      /\ \A e \in Devices : e # d => dev'[e] = dev[e] /\ up'[e] = up[e]
  BY <1>1, JoiningQuiet
<1>5. dev'[d].short = NoShort
  <2>1. dev' = [dev EXCEPT ![d] = [dev[d] EXCEPT !.stage = "idle", !.short = NoShort]]
        /\ dev \in [Devices -> DeviceRecords]
    BY DEF JoiningFrom, TypeOK
  <2> QED  BY <2>1 DEF DeviceRecords
<1>6. ASSUME HasSlot(slots, d)
      PROVE  /\ SlotFor(slots, d) \in Slots
             /\ slots[SlotFor(slots, d)].state = "free"
             /\ Nothing(SlotFor(slots, d))
  <2>1. SlotFor(slots, d) \in Slots /\ slots[SlotFor(slots, d)].state = "free"
    BY <1>3, <1>6, SlotForIn DEF NoExchange
  <2> QED  BY <2>1 DEF TurnsOK, SlotTurn
<1> QED  BY <1>2, <1>3, <1>4, <1>5, <1>6 DEF Silent

(* A reply that comes is the one that the exchange waits for. *)
LEMMA ReplyTurn ==
    ASSUME Untroubled, TypeOK, OneSlotPerDevice, TurnsOK,
           NEW d \in Devices, NEW type, Receives(d, type)
    PROVE  \E s \in Slots :
              /\ slots[s].addr = d /\ slots[s].state # "accepted"
              /\ HasSlot(slots, d) /\ SlotFor(slots, d) = s
              /\ Expects(slots[s], type) /\ Head(up[d]).rand = slots[s].randS
              /\ \/ type = "T1" /\ Silent(d, "msg1")'
                 \/ type = "T3" /\ Silent(d, "msg3")'
              /\ \/ Nothing(s)
                 \/ \E p \in reqs : /\ p.slot = s /\ p.h = slots[s].tx /\ p.delivered
                                    /\ Alone(s, p)
<1>1. /\ up[d] # <<>> /\ up'[d] = Tail(up[d]) /\ dev' = dev
      /\ 1 \in DOMAIN up[d] /\ up[d][1].type = type
  BY ReceivesTail
<1>2. up[d] \in Seq(UpMsgs) /\ Head(up[d]) = up[d][1]
  BY <1>1 DEF TypeOK
<1>3. PICK s \in Slots : slots[s].addr = d /\ slots[s].state # "free"
  BY <1>1 DEF TurnsOK, NoExchange
<1>4. Turn(d, s)
  BY <1>3 DEF TurnsOK, SlotTurn
<1>5. HasSlot(slots, d) /\ SlotFor(slots, d) = s
  <2>1. HasSlot(slots, d)
    BY <1>3 DEF HasSlot, SlotsFor
  <2>2. SlotFor(slots, d) \in Slots /\ slots[SlotFor(slots, d)].addr = d
    BY <1>3, <2>1, SlotForIn
  <2> QED  BY <1>3, <2>1, <2>2, LbpAssumption DEF OneSlotPerDevice
<1>6. ASSUME NEW stage, NEW x, Replied(d, s, stage, x)
      PROVE  x = type /\ Silent(d, stage)' /\ Head(up[d]).rand = slots[s].randS
  <2>1. Len(up[d]) = 1 /\ up[d][1].type = x /\ up[d][1].rand = slots[s].randS
        /\ dev[d].stage = stage
    BY <1>6 DEF Replied
  <2>2. up'[d] = <<>>
    <3>1. Tail(up[d]) \in Seq(UpMsgs) /\ Len(Tail(up[d])) = 0
      BY <1>1, <1>2, <2>1
    <3>2. \A q \in Seq(UpMsgs) : Len(q) = 0 => q = <<>>
      OBVIOUS
    <3> QED  BY <1>1, <3>1, <3>2
  <2> QED  BY <1>1, <1>2, <2>1, <2>2 DEF Silent
<1>7. ~Silent(d, "idle") /\ ~Silent(d, "msg1") /\ ~Silent(d, "msg3")
  BY <1>1 DEF Silent
<1> DEFINE ByOne == \E p \in reqs : /\ p.slot = s /\ p.h = slots[s].tx /\ p.delivered
                                    /\ Alone(s, p)
<1>8. \/ /\ slots[s].state \in {"sent1", "wait2"} /\ Replied(d, s, "msg1", "T1")
         /\ Nothing(s) \/ ByOne
      \/ /\ slots[s].state \in {"sent3", "wait4"} /\ Replied(d, s, "msg3", "T3")
         /\ Nothing(s) \/ ByOne
  <2>1. CASE slots[s].state = "sent1"
    <3>1. PICK r \in reqs : Latest(s, r, "msg1") /\ r.delivered /\ Replied(d, s, "msg1", "T1")
      BY <1>4, <1>7, <2>1 DEF Turn
    <3>2. ByOne
      BY <3>1 DEF Latest
    <3> QED  BY <2>1, <3>1, <3>2
  <2>2. CASE slots[s].state = "sent3"
    <3>1. PICK r \in reqs : /\ Latest(s, r, "msg3") /\ r.delivered
                            /\ Replied(d, s, "msg3", "T3") /\ up[d][1].n = r.n
      BY <1>4, <1>7, <2>2 DEF Turn
    <3>2. \A q \in reqs : ~(q.msg.dev = d /\ q.n < r.n)
      BY <1>2, <3>1 DEF Receives, Untroubled
    <3>3. \A q \in reqs : q.slot = s => q.msg.dev = d
      BY <1>3 DEF TurnsOK
    <3>4. ~Second(s, r)
      BY <3>2, <3>3 DEF Second
    <3>5. ByOne
      BY <3>1, <3>4 DEF Latest
    <3> QED  BY <2>2, <3>1, <3>5
  <2>3. CASE slots[s].state \in {"wait2", "wait4"}
    BY <1>4, <2>3 DEF Turn
  <2>4. CASE slots[s].state = "accepted" \/ slots[s].state = "declined"
    BY <1>1, <1>4, <1>7, <2>4 DEF Turn, Silent
  <2> QED  BY <1>4, <2>1, <2>2, <2>3, <2>4 DEF Turn
<1>9. /\ slots[s].state \in {"sent1", "wait2"} => Expects(slots[s], "T1")
      /\ slots[s].state \in {"sent3", "wait4"} => Expects(slots[s], "T3")
  BY DEF Expects
<1>10. slots[s].state # "accepted"
  BY <1>8
<1> QED  BY <1>3, <1>5, <1>6, <1>8, <1>9, <1>10

LEMMA IndicationTurn ==
    ASSUME Untroubled, TypeOK, NoRekeying, RequestsOK, OneSlotPerDevice, OneSlotPerDevice',
           TurnsOK, NEW d \in Devices, Indication(d)
    PROVE  /\ TurnsOK'
           /\ ~KickFromLbd(d) /\ ~\E type \in {"T1", "T3"} : HandleUnexpected(d, type)
           /\ ~JoiningRepeated(d)
<1>1. \A kind, x, y, z, k : Msg(kind, x, y, z, k).kind = kind
  BY DEF Msg
<1>2. ASSUME JoiningDeclined(d) PROVE TurnsOK'
  <2>1. PICK s, r : /\ Answers(s, r, d) /\ r.state = "declined"
                    /\ r.msg = Msg("decline", d, 0, NoShort, 0)
    BY <1>2, DeclinedSends
  <2>2. JoiningFrom(d) /\ HasSlot(slots, d) /\ s = SlotFor(slots, d) /\ s \in Slots
    BY <1>2, <2>1 DEF JoiningDeclined, Answers, IsSlotFor
  <2> QED  BY <1>1, <2>1, <2>2, JoiningTurn, AnswerTurn
<1>3. ASSUME JoiningNew(d) PROVE TurnsOK'
  <2>1. PICK s, r : /\ Answers(s, r, d) /\ r.state = "sent1"
                    /\ r.msg = Msg("msg1", d, rands, NoShort, 0)
    BY <1>3, NewSends
  <2>2. JoiningFrom(d) /\ HasSlot(slots, d) /\ s = SlotFor(slots, d) /\ s \in Slots
    BY <1>3, <2>1 DEF JoiningNew, Answers, IsSlotFor
  <2> QED  BY <1>1, <2>1, <2>2, JoiningTurn, AnswerTurn
<1>4. ~JoiningRepeated(d)
  BY JoiningTurn DEF JoiningRepeated
<1>5. ASSUME JoiningNoSlot(d) PROVE TurnsOK'
  <2>1. JoiningFrom(d) /\ slots' = slots /\ reqs' = reqs /\ ~HasSlot(slots, d)
    BY <1>5 DEF JoiningNoSlot
  <2>2. /\ Silent(d, "idle")' /\ thread' = thread
        /\ \A e \in Devices : e # d => dev'[e] = dev[e] /\ up'[e] = up[e]
    BY <2>1, JoiningTurn
  <2>3. \A x \in Slots : slots[x].addr # d
    BY <2>1 DEF HasSlot, SlotsFor
  <2>4. ASSUME NEW x \in Slots PROVE SlotTurn(x)'
    <3>1. CASE slots[x].state = "free"
      BY <2>1, <3>1 DEF TurnsOK, SlotTurn, Nothing
    <3>2. CASE slots[x].state # "free"
      <4>1. PICK e \in Devices : e = slots[x].addr
        BY <3>2 DEF TurnsOK, SlotTurn
      <4>2. Turn(e, x) /\ e # d
        BY <2>3, <3>2, <4>1 DEF TurnsOK, SlotTurn
      <4>3. Turn(e, x)'
        BY <2>1, <2>2, <3>2, <4>2, TurnKept
      <4> QED  BY <2>1, <3>2, <4>1, <4>3 DEF SlotTurn
    <3> QED  BY <3>1, <3>2
  <2>5. \A e \in Devices : NoExchange(e)' => up'[e] = <<>>
    BY <2>1, <2>2 DEF TurnsOK, NoExchange, Silent
  <2> QED  BY <2>1, <2>2, <2>4, <2>5 DEF TurnsOK
<1>6. ASSUME HandleT1(d) PROVE TurnsOK'
  <2>1. PICK s, r : /\ Answers(s, r, d) /\ slots[s].addr = d /\ r.state = "sent3"
                    /\ r.msg = Msg("msg3", d, slots[s].randS, slots[s].short, keyIndex)
    BY <1>6, T1Sends DEF NoRekeying
  <2>2. Receives(d, "T1") /\ s = SlotFor(slots, d)
    BY <1>6, <2>1 DEF HandleT1, Answers, IsSlotFor
  <2>3. thread' = thread /\ dev' = dev /\ \A e \in Devices : e # d => up'[e] = up[e]
    BY <2>2, ReceivesTail DEF Receives
  <2>4. Silent(d, "msg1")'
    BY <2>2, ReplyTurn
  <2>5. \/ Nothing(s)
        \/ \E p \in reqs : /\ p.slot = s /\ p.h = slots[s].tx /\ p.delivered
                           /\ Alone(s, p)
    BY <2>2, ReplyTurn
  <2> QED  BY <1>1, <2>1, <2>3, <2>4, <2>5, AnswerTurn
<1>7. ASSUME HandleT3(d) PROVE TurnsOK'
  <2>1. PICK s, r : /\ Answers(s, r, d) /\ slots[s].addr = d /\ r.state = "accepted"
                    /\ r.msg = Msg("accepted", d, 0, NoShort, 0)
    BY <1>7, T3Sends
  <2>2. Receives(d, "T3") /\ s = SlotFor(slots, d)
    BY <1>7, <2>1 DEF HandleT3, Answers, IsSlotFor
  <2>3. thread' = thread /\ dev' = dev /\ \A e \in Devices : e # d => up'[e] = up[e]
    BY <2>2, ReceivesTail DEF Receives
  <2>4. Silent(d, "msg3")'
    BY <2>2, ReplyTurn
  <2>5. \/ Nothing(s)
        \/ \E p \in reqs : /\ p.slot = s /\ p.h = slots[s].tx /\ p.delivered
                           /\ Alone(s, p)
    BY <2>2, ReplyTurn
  <2> QED  BY <1>1, <2>1, <2>3, <2>4, <2>5, AnswerTurn
<1>8. ~KickFromLbd(d)
  <2>1. ~Receives(d, "leave")
    BY ReplyTurn
  <2> QED  BY <2>1 DEF KickFromLbd
<1>9. ASSUME NEW type \in {"T1", "T3"} PROVE ~HandleUnexpected(d, type)
  BY ReplyTurn DEF HandleUnexpected
<1>10. ~HandleBadRandS(d)
  BY NoBadRandS DEF Untroubled
<1> QED  BY <1>2, <1>3, <1>4, <1>5, <1>6, <1>7, <1>8, <1>9, <1>10 DEF Indication

(* The confirms of an exchange come in its order, and each is a success. *)
LEMMA ConfirmTurn ==
    ASSUME Untroubled, TypeOK, NoRekeying, DistinctHandles, OneSlotPerDevice',
           SlotsOK(slots, reqs), TurnsOK, NEW r \in reqs, ConfirmStep(r)
    PROVE  /\ TurnsOK' /\ r.slot \in Slots /\ slots[r.slot].state # "free"
           /\ Sendable(r.msg)
           /\ \A x \in Slots : x # r.slot => slots'[x] = slots[x]
           /\ slots[r.slot].state # "accepted" => slots'[r.slot].state # "accepted"
           /\ Joined(r.slot) /\ ~Joined(r.slot)' =>
                 slots'[r.slot].state = "free" /\ JoinFinished(r.h, TRUE)
           /\ slots[r.slot].state = "accepted" /\ slots'[r.slot].state # "free"
              => (Joined(r.slot) => Joined(r.slot)')
<1>1. PICK ok \in BOOLEAN : /\ ConfirmFor(r, ok) /\ slots' = AfterConfirm(r.h, ok)
                            /\ thread' = thread
  BY ConfirmStepIs
<1>2. PICK s \in Slots : s = r.slot
  BY DEF TurnsOK
<1>3. slots[s].state # "free" /\ slots[s].addr \in Devices /\ Turn(slots[s].addr, s)
  BY <1>2 DEF TurnsOK, SlotTurn, Nothing
<1>4. PICK d \in Devices : d = slots[s].addr
  BY <1>3
<1>5. r.msg.dev = d /\ r.msg.kind # "none"
  BY <1>2, <1>4 DEF TurnsOK
<1>6. ok = TRUE /\ r.delivered /\ Sendable(r.msg)
  <2>1. Sendable(r.msg) /\ "loss" \notin Env
    BY <1>5 DEF Sendable, Untroubled
  <2> QED  BY <1>1, <2>1 DEF ConfirmFor
<1>7. \A q \in reqs : q.slot = s => q.n >= r.n
  BY <1>1, <1>2 DEF ConfirmFor, FirstOfSlot, Untroubled
<1>8. reqs' = reqs \ {r} /\ dev' = dev /\ up' = up
  BY <1>1 DEF ConfirmFor
<1>9. \A x \in Slots : x # s => slots'[x] = slots[x]
  <2> SUFFICES ASSUME NEW x \in Slots, x # s PROVE slots'[x] = slots[x]
    OBVIOUS
  <2>1. slots'[x] = Confirmed(slots[x], r.h, ok)
    BY <1>1 DEF AfterConfirm
  <2>2. ~Matches(slots[x], r.h)
    BY <1>2, MatchedSlot
  <2> QED  BY <2>1, <2>2 DEF Confirmed, Matches
<1>10. slots'[s] = Confirmed(slots[s], r.h, TRUE) /\ slots[s] \in SlotRecords
  BY <1>1, <1>6 DEF AfterConfirm, TypeOK
<1>11. slots'[s].addr = d /\ slots'[s].tx = slots[s].tx /\ slots'[s].randS = slots[s].randS
       /\ slots'[s].short = slots[s].short
       /\ \/ /\ slots[s].pending = 1 /\ r.h = slots[s].tx
             /\ slots'[s].pending = 0 /\ slots'[s].state = AfterSuccess(slots[s].state)
             /\ MatchesOnly(slots[s], r.h)
          \/ /\ slots[s].pending = 2 /\ r.h = slots[s].ptx /\ r.h # slots[s].tx
             /\ slots'[s].pending = 1 /\ slots'[s].state = slots[s].state
             /\ \E l \in reqs : l # r /\ l.slot = s /\ \A q \in reqs : q.slot = s => q \in {l, r}
  <2> DEFINE c == slots[s]
  <2>1. PICK l \in reqs : l.slot = s /\ l.h = c.tx /\ (Alone(s, l) \/ Second(s, l))
    BY <1>2, <1>3 DEF Turn, Latest, Nothing
  <2>2. CASE Alone(s, l)
    <3>1. c.pending = 1 /\ l = r
      BY <1>2, <2>2 DEF Alone
    <3>2. MatchesOnly(c, r.h)
      BY <1>3, <2>1, <3>1 DEF MatchesOnly
    <3>3. slots'[s] = [c EXCEPT !.pending = 0, !.state = AfterSuccess(c.state)]
      BY <1>10, <3>1, <3>2 DEF Confirmed, MatchesOnly, MatchesEarlier, MatchesLater
    <3> QED  BY <1>4, <1>10, <2>1, <3>1, <3>2, <3>3 DEF SlotRecords
  <2>3. CASE Second(s, l)
    <3>1. PICK p \in reqs : /\ p.slot = s /\ p.h = c.ptx /\ p.n < l.n
                            /\ \A q \in reqs : q.slot = s => q \in {p, l}
      BY <2>3 DEF Second
    <3>2. p.n \in Nat /\ l.n \in Nat
      BY DEF TypeOK, Requests
    <3>3. p = r /\ l # r
      BY <1>2, <1>7, <2>1, <3>1, <3>2
    <3>4. c.pending = 2 /\ r.h # c.tx
      BY <2>1, <2>3, <3>3 DEF Second, DistinctHandles
    <3>5. slots'[s] = [c EXCEPT !.pending = 1]
      BY <1>10, <3>1, <3>3, <3>4 DEF Confirmed, MatchesOnly, MatchesEarlier
    <3> QED  BY <1>4, <1>10, <2>1, <3>1, <3>3, <3>4, <3>5 DEF SlotRecords
  <2> QED  BY <2>1, <2>2, <2>3
<1>12. CASE slots[s].pending = 1
  <2>1. \A q \in reqs : q.slot = s => q = r
    BY <1>2, <1>3, <1>12 DEF Turn, Latest, Alone, Second, Nothing
  <2>2. Nothing(s)'
    BY <1>8, <1>11, <1>12, <2>1 DEF Nothing
  <2>3. \A kind : \A q \in reqs : Latest(s, q, kind) => q = r
    BY <2>1 DEF Latest
  <2>4. /\ \A stage : Silent(d, stage)' <=> Silent(d, stage)
        /\ \A stage, type : Replied(d, s, stage, type)' <=> Replied(d, s, stage, type)
    BY <1>8, <1>11 DEF Silent, Replied
  <2>5. IF slots'[s].state = "free" THEN up'[d] = <<>> ELSE Turn(d, s)'
    <3>1. CASE slots[s].state = "sent1"
      <4>1. slots'[s].state = "wait2"
        BY <1>11, <1>12, <3>1 DEF AfterSuccess
      <4>2. Replied(d, s, "msg1", "T1")
        BY <1>3, <1>4, <1>6, <2>3, <3>1 DEF Turn
      <4> QED  BY <2>2, <2>4, <4>1, <4>2 DEF Turn
    <3>2. CASE slots[s].state = "sent3"
      <4>1. slots'[s].state = "wait4"
        BY <1>11, <1>12, <3>2 DEF AfterSuccess
      <4>2. Replied(d, s, "msg3", "T3")
        BY <1>3, <1>4, <1>6, <2>3, <3>2 DEF Turn
      <4> QED  BY <2>2, <2>4, <4>1, <4>2 DEF Turn
    <3>3. CASE slots[s].state \in {"accepted", "declined"}
      <4>1. slots'[s].state = "free"
        BY <1>11, <1>12, <3>3 DEF AfterSuccess
      <4>2. up[d] = <<>>
        BY <1>3, <1>4, <1>6, <2>3, <3>3 DEF Turn, Silent
      <4> QED  BY <1>8, <4>1, <4>2
    <3>4. slots[s].state \notin {"wait2", "wait4"}
      BY <1>2, <1>3 DEF Turn, Nothing
    <3> QED  BY <1>3, <3>1, <3>2, <3>3, <3>4 DEF Turn
  <2>6. TurnsOK'
    <3>1. \A q \in reqs' : q \in reqs /\ q.slot # s
      BY <1>8, <2>1
    <3>2. \A x \in Slots : x # s => {q \in reqs' : q.slot = x} = {q \in reqs : q.slot = x}
      BY <1>2, <1>8
    <3> QED  BY <1>1, <1>4, <1>8, <1>9, <1>11, <2>2, <2>5, <3>1, <3>2, OthersKept
  <2>7. slots[s].state = "accepted" =>
           slots'[s].state = "free" /\ JoinFinished(r.h, TRUE)
    BY <1>11, <1>12 DEF AfterSuccess, JoinFinished
  <2>8. slots'[s].state # "accepted"
    BY <1>11, <1>12 DEF AfterSuccess
  <2> QED  BY <1>2, <1>3, <1>6, <1>9, <2>6, <2>7, <2>8 DEF Joined
<1>13. CASE slots[s].pending = 2
  <2>1. PICK l \in reqs : /\ l # r /\ l.slot = s
                          /\ \A q \in reqs : q.slot = s => q \in {l, r}
    BY <1>11, <1>13
  <2>2. Alone(s, l)' /\ l \in reqs'
    BY <1>8, <1>11, <1>13, <2>1 DEF Alone
  <2>3. \A kind : \A q \in reqs : Latest(s, q, kind) => q = l /\ Latest(s, q, kind)'
    BY <1>11, <1>13, <2>1, <2>2 DEF Latest
  <2>4. /\ \A stage : Silent(d, stage)' <=> Silent(d, stage)
        /\ \A stage, type : Replied(d, s, stage, type)' <=> Replied(d, s, stage, type)
    BY <1>8, <1>11 DEF Silent, Replied
  <2>5. Turn(d, s)' /\ slots'[s].state = slots[s].state
    <3>1. ~Nothing(s) /\ slots'[s].state = slots[s].state /\ up' = up
      BY <1>8, <1>11, <1>13 DEF Nothing
    <3> QED  BY <1>3, <1>4, <2>2, <2>3, <2>4, <3>1 DEF Turn
  <2>6. TurnsOK'
    <3>1. \A q \in reqs' : \/ q \in reqs /\ q.slot # s
                           \/ q.slot = s /\ q.msg.dev = d /\ q.msg.kind # "none"
      BY <1>4, <1>8 DEF TurnsOK
    <3>2. \A x \in Slots : x # s => {q \in reqs' : q.slot = x} = {q \in reqs : q.slot = x}
      BY <1>2, <1>8
    <3> QED  BY <1>1, <1>3, <1>4, <1>8, <1>9, <1>11, <2>5, <3>1, <3>2, OthersKept
  <2>7. Joined(s) => Joined(s)'
    BY <2>2, <2>3, <2>5 DEF Joined
  <2> QED  BY <1>2, <1>3, <1>6, <1>9, <2>5, <2>6, <2>7
<1> QED  BY <1>11, <1>12, <1>13

(* A device takes its turn when the latest request reaches it. *)
LEMMA DeliverTurn ==
    ASSUME Untroubled, TypeOK, OneSlotPerDevice', ExchangesOK, TurnsOK,
           NEW r \in reqs, Deliver(r)
    PROVE  /\ TurnsOK' /\ r.msg.dev \in Devices /\ r.slot \in Slots
           /\ slots[r.slot].addr = r.msg.dev /\ slots[r.slot].state # "free"
           /\ ~Joined(r.slot)
           /\ dev'[r.msg.dev].short # dev[r.msg.dev].short => Joined(r.slot)'
<1>1. PICK s \in Slots : s = r.slot
  BY DEF TurnsOK
<1>2. PICK d \in Devices : d = r.msg.dev
  BY DEF Deliver, Sendable
<1>3. PICK new : new = [r EXCEPT !.delivered = TRUE]
  OBVIOUS
<1>4. PICK v \in DeviceRecords : v = dev[d]
  BY DEF TypeOK
<1>5. PICK m \in Messages : m = r.msg
  BY DEF TypeOK, Requests
<1>6. /\ ~r.delivered /\ r \in Requests /\ slots' = slots /\ thread' = thread
      /\ reqs' = (reqs \ {r}) \cup {new}
      /\ dev'[d] = Learn(v, m) /\ up'[d] = up[d] \o Reply(v, r)
      /\ \A e \in Devices : e # d => dev'[e] = dev[e] /\ up'[e] = up[e]
  BY <1>2, <1>3, <1>4, <1>5 DEF Deliver, TypeOK, coordVars
<1>7. /\ new.delivered /\ new.slot = s /\ new.h = r.h /\ new.n = r.n /\ new.msg = m
  BY <1>1, <1>3, <1>5, <1>6 DEF Requests
<1>8. slots[s].state # "free" /\ slots[s].addr = d /\ Turn(d, s) /\ m.kind # "none"
  BY <1>1, <1>2, <1>5 DEF TurnsOK, SlotTurn, Nothing
<1>9. PICK l \in reqs : Latest(s, l, l.msg.kind)
  BY <1>1, <1>8 DEF Turn, Latest, Nothing
<1>10. \A q \in reqs : q.slot = s => q = l \/ q.delivered
  BY <1>9 DEF Latest, Alone, Second
<1>11. l = r
  BY <1>1, <1>6, <1>10
<1>12. \A q \in reqs : \A kind : Latest(s, q, kind) => q = r
  <2> SUFFICES ASSUME NEW q \in reqs, NEW kind, Latest(s, q, kind) PROVE q = r
    OBVIOUS
  <2>1. \A w \in reqs : w.slot = s => w = q \/ w.delivered
    BY DEF Latest, Alone, Second
  <2> QED  BY <1>1, <1>6, <2>1
<1>13. Latest(s, new, m.kind)'
  <2>1. Latest(s, r, m.kind)
    BY <1>5, <1>9, <1>11
  <2>2. Alone(s, r) => Alone(s, new)'
    BY <1>6 DEF Alone
  <2>3. Second(s, r) => Second(s, new)'
    <3> SUFFICES ASSUME Second(s, r) PROVE Second(s, new)'
      OBVIOUS
    <3>1. PICK p \in reqs : /\ p.slot = s /\ p.h = slots[s].ptx /\ p.n < r.n /\ p.delivered
                            /\ \A q \in reqs : q.slot = s => q \in {p, r}
      BY DEF Second
    <3>2. p \in reqs' /\ p.n < new.n
      BY <1>6, <1>7, <3>1
    <3>3. \A q \in reqs' : q.slot = s => q \in {p, new}
      BY <1>6, <3>1
    <3> QED  BY <1>6, <3>1, <3>2, <3>3 DEF Second
  <2> QED  BY <1>6, <1>7, <2>1, <2>2, <2>3 DEF Latest
<1>14. \/ m.kind = "decline" /\ slots[s].state = "declined" /\ Silent(d, "idle")
       \/ m.kind = "msg1" /\ slots[s].state = "sent1" /\ Silent(d, "idle")
       \/ m.kind = "msg3" /\ slots[s].state = "sent3" /\ Silent(d, "msg1")
       \/ m.kind = "accepted" /\ slots[s].state = "accepted" /\ Silent(d, "msg3")
  <2>1. \A kind : Latest(s, r, kind) => m.kind = kind
    BY <1>5 DEF Latest
  <2>2. ~Nothing(s)
    BY <1>1 DEF Nothing
  <2> QED  BY <1>6, <1>8, <1>12, <2>1, <2>2 DEF Turn
<1>15. up[d] = <<>> /\ (m.kind # "decline" => ExchangeOK(d, s))
  BY <1>8, <1>14 DEF Silent, ExchangesOK, InExchange, Busy
<1>16. Reply(v, r) \in Seq(UpMsgs) /\ up'[d] = Reply(v, r)
  <2>1. Reply(v, r) \in Seq(UpMsgs)
    BY <1>6, ReplyType
  <2>2. \A q \in Seq(UpMsgs) : <<>> \o q = q
    OBVIOUS
  <2> QED  BY <1>6, <1>15, <2>1, <2>2
<1>17. Turn(d, s)' /\ (dev'[d].short # v.short => m.kind = "accepted")
  <2> DEFINE w == Learn(v, m)
  <2>1. dev'[d] = w /\ slots'[s].state = slots[s].state /\ slots'[s].randS = slots[s].randS
        /\ new \in reqs'
    BY <1>6
  <2>2. CASE m.kind = "decline"
    <3>1. w = [v EXCEPT !.stage = "idle"] /\ Reply(v, r) = <<>>
      BY <1>5, <2>2 DEF Learn, Reply
    <3>2. w.stage = "idle" /\ w.short = v.short
      BY <3>1 DEF DeviceRecords
    <3>3. Silent(d, "idle")'
      BY <1>16, <2>1, <3>1, <3>2 DEF Silent
    <3> QED  BY <1>13, <1>14, <2>1, <2>2, <3>2, <3>3 DEF Turn
  <2>3. CASE m.kind = "msg1"
    <3>1. v.stage = "idle"
      BY <1>4, <1>14, <2>3 DEF Silent
    <3>2. w = [v EXCEPT !.stage = "msg1", !.rand = m.rand]
          /\ Reply(v, r) = <<UpMsg("T1", m.rand, r.n, 0)>>
      BY <1>5, <2>3, <3>1 DEF Learn, Reply
    <3>3. w.stage = "msg1" /\ w.short = v.short
      BY <3>2 DEF DeviceRecords
    <3>4. m.rand = slots[s].randS
      BY <1>2, <1>5, <1>15, <2>3 DEF ExchangeOK, Belongs
    <3>5. Len(up'[d]) = 1 /\ up'[d][1].type = "T1" /\ up'[d][1].rand = m.rand
      BY <1>16, <3>2 DEF UpMsg
    <3>6. Replied(d, s, "msg1", "T1")'
      BY <2>1, <3>3, <3>4, <3>5 DEF Replied
    <3> QED  BY <1>7, <1>13, <1>14, <2>1, <2>3, <3>3, <3>6 DEF Turn
  <2>4. CASE m.kind = "msg3"
    <3>1. v.stage = "msg1" /\ v.rand = m.rand /\ m.rand = slots[s].randS
      BY <1>2, <1>4, <1>5, <1>14, <1>15, <2>4 DEF Silent, ExchangeOK, Belongs
    <3>2. w = [v EXCEPT !.stage = "msg3", !.offer = m.short, !.key = m.key]
          /\ Reply(v, r) = <<UpMsg("T3", m.rand, r.n, 0)>>
      BY <1>5, <2>4, <3>1 DEF Learn, Reply
    <3>3. w.stage = "msg3" /\ w.short = v.short
      BY <3>2 DEF DeviceRecords
    <3>4. Len(up'[d]) = 1 /\ up'[d][1].type = "T3" /\ up'[d][1].rand = m.rand
          /\ up'[d][1].n = r.n
      BY <1>16, <3>2 DEF UpMsg
    <3>5. Replied(d, s, "msg3", "T3")'
      BY <2>1, <3>1, <3>3, <3>4 DEF Replied
    <3> QED  BY <1>7, <1>13, <1>14, <2>1, <2>4, <3>3, <3>4, <3>5 DEF Turn
  <2>5. CASE m.kind = "accepted"
    <3>1. Reply(v, r) = <<>>
      BY <1>5, <2>5 DEF Reply
    <3> QED  BY <1>7, <1>13, <1>14, <1>16, <2>1, <2>5, <3>1 DEF Turn
  <2> QED  BY <1>14, <2>2, <2>3, <2>4, <2>5
<1>18. TurnsOK'
  <2>1. \A q \in reqs' : \/ q \in reqs /\ q.slot # s
                         \/ q.slot = s /\ q.msg.dev = d /\ q.msg.kind # "none"
    BY <1>2, <1>5, <1>6, <1>7, <1>8 DEF TurnsOK
  <2>2. \A x \in Slots : x # s => {q \in reqs' : q.slot = x} = {q \in reqs : q.slot = x}
    BY <1>1, <1>6, <1>7
  <2> QED  BY <1>6, <1>8, <1>17, <2>1, <2>2, OthersKept
<1>19. ~Joined(s)
  BY <1>6, <1>12 DEF Joined
<1>20. m.kind = "accepted" => Joined(s)'
  BY <1>6, <1>7, <1>13, <1>14 DEF Joined
<1> QED  BY <1>1, <1>2, <1>4, <1>8, <1>17, <1>18, <1>19, <1>20

(* bs_process has nothing to do. *)
LEMMA BsProcessTurn ==
    ASSUME Untroubled, TypeOK, TurnsOK, NEW s \in Slots
    PROVE  ~BsProcess(s)
<1>1. ~CheckSlot(s)
  <2> SUFFICES ASSUME slots[s].state # "free", TimeoutMayBePast(s) PROVE FALSE
    BY DEF CheckSlot
  <2>1. \A r \in reqs : r.slot # s
    BY DEF TimeoutMayBePast, Untroubled
  <2>2. \A d \in Devices : d = slots[s].addr => up[d] = <<>>
    BY DEF TimeoutMayBePast, Untroubled
  <2> QED  BY <2>1, <2>2, TurnNotQuiet
<1>2. thread["main"] = Idle /\ Idle.op = "idle"
  BY DEF TurnsOK, Idle
<1>3. \A op, x : Doing(op, x).op = op
  BY DEF Doing, Idle
<1>4. ~ResendSlot(s) /\ ~ResetSlot(s)
  BY <1>2, <1>3 DEF ResendSlot, ResetSlot
<1> QED  BY <1>1, <1>4 DEF BsProcess

LEMMA ApiOrIdleTurn ==
    ASSUME Untroubled, TurnsOK, ApiStep \/ UNCHANGED vars
    PROVE  TurnsOK' /\ UNCHANGED <<slots, reqs, up, dev, thread, list>>
<1>1. UNCHANGED <<slots, reqs, up, dev, thread, list>>
  BY DEF ApiStep, LaunchRekeying, KickDevice, ApiCall, SetDeviceList,
         SetInitialShortAddress, AddDeviceToBlacklist, vars, coordVars, Untroubled
<1>2. \A s \in Slots : SlotTurn(s)'
  BY <1>1 DEF TurnsOK, SlotTurn, Turn, Latest, Alone, Second, Nothing, Silent, Replied
<1> QED  BY <1>1, <1>2 DEF TurnsOK, NoExchange

LEMMA JoinedKept ==
    ASSUME NEW s, slots'[s] = slots[s],
           {r \in reqs' : r.slot = s} = {r \in reqs : r.slot = s}, Joined(s)
    PROVE  Joined(s)'
<1>1. PICK r \in reqs : Latest(s, r, "accepted") /\ r.delivered
  BY DEF Joined
<1>2. \A q : q \in reqs /\ q.slot = s <=> q \in reqs' /\ q.slot = s
  OBVIOUS
<1>3. Latest(s, r, "accepted")' /\ r \in reqs'
  BY <1>1, <1>2 DEF Latest, Alone, Second
<1> QED  BY <1>1, <1>3 DEF Joined

(* A device that is sent something uses no address and is not in the list. *)
LEMMA AnswerEnters ==
    ASSUME TypeOK, EntersOK, NEW d \in Devices, NEW s, NEW r, Answers(s, r, d), ~Joined(s),
           dev[d].short = NoShort, dev'[d].short = NoShort,
           \A e \in Devices : e # d => dev'[e] = dev[e],
           list'.ext = list.ext, list'.initial = list.initial,
           r.state \in Busy => r.short >= list.initial
    PROVE  EntersOK'
<1>1. /\ s \in Slots /\ slots'[s].state = r.state /\ slots'[s].addr = d
      /\ slots'[s].short = r.short
      /\ \A x \in Slots : x # s => slots'[x] = slots[x]
      /\ reqs' = reqs \cup {Request(s, r.msg)}
  BY AnswersLeaves DEF Answers
<1>2. Request(s, r.msg).slot = s
  BY DEF Request
<1>3. \A e \in Devices : dev'[e].short = dev[e].short
  OBVIOUS
<1>4. ASSUME NEW x \in Slots, Joined(x) PROVE x # s /\ Joined(x)'
  <2>1. {q \in reqs' : q.slot = x} = {q \in reqs : q.slot = x}
    BY <1>1, <1>2, <1>4
  <2> QED  BY <1>1, <1>4, <2>1, JoinedKept
<1>5. \A e \in Devices, i \in Cells : list'.ext[i] = e => dev'[e].short = i + list'.initial
  BY <1>3 DEF EntersOK
<1>6. ASSUME NEW e \in Devices, dev'[e].short # NoShort
      PROVE  \/ Entered(list', e, dev'[e].short)
             \/ \E x \in Slots : slots'[x].addr = e /\ Joined(x)'
  <2>1. \/ Entered(list, e, dev[e].short)
        \/ \E x \in Slots : slots[x].addr = e /\ Joined(x)
    BY <1>3, <1>6 DEF EntersOK
  <2> QED  BY <1>1, <1>3, <1>4, <2>1 DEF Entered, DeviceIsInList, IsValidAddress
<1>7. ASSUME NEW e \in Devices, NEW x \in Slots, slots'[x].addr = e,
             slots'[x].state # "free", dev'[e].short # NoShort
      PROVE  Joined(x)'
  <2>1. e # d /\ x # s
    BY <1>1, <1>7
  <2>2. Joined(x)
    BY <1>1, <1>3, <1>7, <2>1 DEF EntersOK
  <2> QED  BY <1>4, <2>2
<1>8. \A x \in Slots : slots'[x].state \in Busy => slots'[x].short >= list'.initial
  BY <1>1 DEF EntersOK
<1> QED  BY <1>5, <1>6, <1>7, <1>8 DEF EntersOK

LEMMA IndicationEnters ==
    ASSUME Untroubled, ~ShortFromExt, TypeOK, NoRekeying, RequestsOK, OneSlotPerDevice,
           OneSlotPerDevice', TurnsOK, EntersOK, list.size < MaxLbds,
           NEW d \in Devices, Indication(d)
    PROVE  EntersOK'
<1>1. list \in Lists /\ list.initial \in Nat /\ NoShort \notin Nat
  BY DEF TypeOK, Lists, NoShort
<1>2. ASSUME dev[d].short = NoShort PROVE Forget(list, d) = list
  <2>1. \A i \in Cells : list.ext[i] # d
    BY <1>1, <1>2 DEF EntersOK, Cells
  <2>2. FoundAt(list, d) = {}
    BY <2>1, LbdListAssumption DEF FoundAt, Positions, Cells
  <2> QED  BY <2>2 DEF Forget
<1>3. ASSUME NEW s, slots[s].state # "accepted" PROVE ~Joined(s)
  BY <1>3 DEF Joined
<1>4. ASSUME JoiningDeclined(d) PROVE EntersOK'
  <2>1. PICK s, r : Answers(s, r, d) /\ r.state = "declined"
    BY <1>4, DeclinedSends
  <2>2. JoiningFrom(d) /\ HasSlot(slots, d) /\ s = SlotFor(slots, d) /\ s \in Slots
        /\ list' = list
    BY <1>4, <2>1 DEF JoiningDeclined, Answers, IsSlotFor
  <2>3. r.state \notin Busy /\ slots[s].state # "accepted"
    BY <2>1, <2>2, JoiningTurn DEF Busy
  <2> QED  BY <1>3, <2>1, <2>2, <2>3, JoiningTurn, AnswerEnters
<1>5. ASSUME JoiningNew(d) PROVE EntersOK'
  <2>1. PICK s, r : /\ Answers(s, r, d) /\ slots[s].state = "free"
                    /\ ~rekey.on => r.short = NewAddress(Forget(list, d), d)
    BY <1>5, NewSends
  <2>2. JoiningFrom(d) /\ HasSlot(slots, d) /\ list' = Grow(Forget(list, d))
    BY <1>5 DEF JoiningNew, NoRekeying
  <2>3. Forget(list, d) = list
    BY <1>2, <2>2, JoiningTurn
  <2>4. list'.ext = list.ext /\ list'.initial = list.initial
    BY <1>1, <2>2, <2>3 DEF Grow, Lists
  <2>5. r.short >= list.initial
    <3>1. r.short = list.size + list.initial /\ list.size \in Nat
      BY <1>1, <2>1, <2>3, NewAddressIs DEF NoRekeying, Lists
    <3> QED  BY <1>1, <3>1
  <2> QED  BY <1>3, <2>1, <2>2, <2>4, <2>5, JoiningTurn, AnswerEnters
<1>6. ASSUME HandleT1(d) \/ HandleT3(d) PROVE EntersOK'
  <2>1. PICK s, r : /\ Answers(s, r, d) /\ slots[s].addr = d
                    /\ r.short = slots[s].short
                    /\ Expects(slots[s], "T1") \/ Expects(slots[s], "T3")
    BY <1>6, T1Sends, T3Sends
  <2>2. PICK type : Receives(d, type) /\ list' = list
    BY <1>6 DEF HandleT1, HandleT3
  <2>3. slots[s].state \in Busy /\ slots[s].state # "accepted" /\ slots[s].state # "free"
        /\ s \in Slots
    BY <2>1 DEF Expects, Busy, Answers, Sends
  <2>4. dev' = dev
    BY <2>2 DEF Receives
  <2>5. dev[d].short = NoShort
    BY <1>3, <2>1, <2>3 DEF EntersOK
  <2>6. r.short >= list.initial
    BY <2>1, <2>3 DEF EntersOK
  <2> QED  BY <1>3, <2>1, <2>2, <2>3, <2>4, <2>5, <2>6, AnswerEnters
<1>7. ASSUME JoiningNoSlot(d) PROVE EntersOK'
  <2>1. JoiningFrom(d) /\ slots' = slots /\ reqs' = reqs /\ list' = list
    BY <1>7 DEF JoiningNoSlot
  <2>2. \A e \in Devices : dev'[e].short = dev[e].short
    BY <2>1, JoiningTurn
  <2>3. \A x \in Slots : Joined(x) => Joined(x)'
    BY <2>1, JoinedKept
  <2> QED  BY <2>1, <2>2, <2>3 DEF EntersOK
<1>8. ~HandleBadRandS(d)
  BY NoBadRandS DEF Untroubled
<1> QED  BY <1>4, <1>5, <1>6, <1>7, <1>8, IndicationTurn DEF Indication

(* What a device learns, it learns as it joins. *)
LEMMA DeliverEnters ==
    ASSUME Untroubled, TypeOK, OneSlotPerDevice', ExchangesOK, TurnsOK, EntersOK,
           NEW r \in reqs, Deliver(r)
    PROVE  EntersOK'
<1>1. PICK s \in Slots, d \in Devices : s = r.slot /\ d = r.msg.dev
  BY DeliverTurn
<1>2. /\ slots[s].addr = d /\ slots[s].state # "free" /\ ~Joined(s)
      /\ dev'[d].short # dev[d].short => Joined(s)'
  BY <1>1, DeliverTurn
<1>3. /\ slots' = slots /\ list' = list
      /\ \A e \in Devices : e # d => dev'[e] = dev[e]
  BY <1>1 DEF Deliver, coordVars, TypeOK
<1>4. dev[d].short = NoShort
  BY <1>2 DEF EntersOK
<1>5. ASSUME NEW x \in Slots, Joined(x) PROVE Joined(x)'
  <2>1. x # s
    BY <1>2, <1>5
  <2>2. PICK new : new = [r EXCEPT !.delivered = TRUE]
    OBVIOUS
  <2>3. new.slot = r.slot /\ reqs' = (reqs \ {r}) \cup {new}
    BY <2>2 DEF Deliver, TypeOK, Requests
  <2>4. {q \in reqs' : q.slot = x} = {q \in reqs : q.slot = x}
    BY <1>1, <2>1, <2>3
  <2> QED  BY <1>3, <1>5, <2>4, JoinedKept
<1>6. \A i \in Cells : list.ext[i] # d
  BY <1>4 DEF EntersOK, NoShort, TypeOK, Lists, Cells
<1>7. \A e \in Devices, i \in Cells : list'.ext[i] = e => dev'[e].short = i + list'.initial
  BY <1>3, <1>6 DEF EntersOK
<1>8. ASSUME NEW e \in Devices, dev'[e].short # NoShort
      PROVE  \/ Entered(list', e, dev'[e].short)
             \/ \E x \in Slots : slots'[x].addr = e /\ Joined(x)'
  <2>1. CASE e = d
    BY <1>2, <1>3, <1>4, <1>8, <2>1
  <2>2. CASE e # d
    <3>1. \/ Entered(list, e, dev[e].short)
          \/ \E x \in Slots : slots[x].addr = e /\ Joined(x)
      BY <1>3, <1>8, <2>2 DEF EntersOK
    <3> QED  BY <1>3, <1>5, <2>2, <3>1
  <2> QED  BY <2>1, <2>2
<1>9. ASSUME NEW e \in Devices, NEW x \in Slots, slots'[x].addr = e,
             slots'[x].state # "free", dev'[e].short # NoShort
      PROVE  Joined(x)'
  <2>1. CASE x = s
    BY <1>2, <1>3, <1>4, <1>9, <2>1
  <2>2. CASE x # s
    <3>1. e # d
      BY <1>2, <1>3, <1>9, <2>2, LbpAssumption DEF OneSlotPerDevice
    <3> QED  BY <1>3, <1>5, <1>9, <3>1 DEF EntersOK
  <2> QED  BY <2>1, <2>2
<1>10. \A x \in Slots : slots'[x].state \in Busy => slots'[x].short >= list'.initial
  BY <1>3 DEF EntersOK
<1> QED  BY <1>7, <1>8, <1>9, <1>10 DEF EntersOK

(* The entry of a device that has joined is made, unless it is there. *)
LEMMA JoinEnters ==
    ASSUME NEW l \in Lists, NEW d \in Devices, NEW a \in Nat, IsValidAddress(l, a),
           \A e \in Devices : l.ext[a - l.initial] = e => e = d,
           \A i \in Cells : l.ext[i] = d => a = i + l.initial
    PROVE  /\ Entered(AddEntry(l, d, a), d, a)
           /\ AddEntry(l, d, a).initial = l.initial
           /\ \A e \in Devices, i \in Cells : AddEntry(l, d, a).ext[i] = e =>
                 l.ext[i] = e \/ (e = d /\ a = i + l.initial)
           /\ \A e \in Devices, b \in Nat : Entered(l, e, b) => Entered(AddEntry(l, d, a), e, b)
<1> DEFINE k == a - l.initial
<1>1. /\ k \in Cells /\ a = k + l.initial /\ d # NoDevice /\ l.initial \in Nat
      /\ l.ext \in [Cells -> Devices \cup {NoDevice}]
  BY LbdListAssumption DEF IsValidAddress, Cells, Lists
<1> HIDE DEF k
<1>2. CASE CanAdd(l, d, a)
  <2>1. /\ AddEntry(l, d, a).initial = l.initial
        /\ AddEntry(l, d, a).ext = [l.ext EXCEPT ![k] = d]
        /\ l.ext[k] = NoDevice
    BY <1>2 DEF AddEntry, CanAdd, Lists, k
  <2>2. Entered(AddEntry(l, d, a), d, a)
    <3>1. AddEntry(l, d, a).ext[k] = d
      BY <1>1, <2>1
    <3> QED  BY <1>1, <2>1, <3>1 DEF Entered, DeviceIsInList, IsValidAddress, k
  <2>3. ASSUME NEW e \in Devices, NEW i \in Cells, AddEntry(l, d, a).ext[i] = e
        PROVE  l.ext[i] = e \/ (e = d /\ a = i + l.initial)
    BY <1>1, <2>1, <2>3
  <2>4. ASSUME NEW e \in Devices, NEW b \in Nat, Entered(l, e, b)
        PROVE  Entered(AddEntry(l, d, a), e, b)
    <3>1. PICK j \in Int : j = b - l.initial
      BY <1>1
    <3>2. j \in Cells /\ l.ext[j] = e /\ e # NoDevice /\ IsValidAddress(l, b)
      BY <1>1, <2>4, <3>1, LbdListAssumption
         DEF Entered, DeviceIsInList, IsValidAddress, Cells
    <3>3. AddEntry(l, d, a).ext[j] = e
      BY <1>1, <2>1, <3>2
    <3> QED  BY <2>1, <3>1, <3>2, <3>3 DEF Entered, DeviceIsInList, IsValidAddress
  <2> QED  BY <2>1, <2>2, <2>3, <2>4
<1>3. CASE ~CanAdd(l, d, a)
  <2>1. AddEntry(l, d, a) = l
    BY <1>3 DEF AddEntry
  <2>2. l.ext[k] = d
    <3>1. CASE l.ext[k] # NoDevice
      BY <1>1, <3>1 DEF k
    <3>2. CASE FoundAt(l, d) # {}
      <4>1. PICK j \in Cells : l.ext[j] = d
        BY <3>2, LbdListAssumption DEF FoundAt, Positions, Cells
      <4>2. j = k
        BY <1>1, <4>1 DEF Cells
      <4> QED  BY <4>1, <4>2
    <3> QED  BY <1>3, <3>1, <3>2 DEF CanAdd, k
  <2>3. Entered(l, d, a)
    BY <1>1, <2>2 DEF Entered, DeviceIsInList, k
  <2> QED  BY <2>1, <2>3
<1> QED  BY <1>2, <1>3

LEMMA ConfirmEnters ==
    ASSUME Untroubled, TypeOK, DistinctHandles, OneSlotPerDevice', ConfirmInv, ExchangeInv,
           TurnsOK, EntersOK, AddressesOK, list.size < MaxLbds, NEW r \in reqs, ConfirmStep(r)
    PROVE  EntersOK'
<1>1. NoRekeying /\ SlotsOK(slots, reqs) /\ list \in Lists
  BY DEF ConfirmInv, ThreadsOK, TypeOK
<1>2. PICK s \in Slots : s = r.slot
  BY <1>1, ConfirmTurn
<1>3. /\ slots[s].state # "free" /\ Sendable(r.msg)
      /\ \A x \in Slots : x # s => slots'[x] = slots[x]
      /\ Joined(s) /\ ~Joined(s)' => slots'[s].state = "free" /\ JoinFinished(r.h, TRUE)
      /\ slots[s].state = "accepted" /\ slots'[s].state # "free"
         => (Joined(s) => Joined(s)')
  BY <1>1, <1>2, ConfirmTurn
<1>4. PICK ok \in BOOLEAN : ConfirmFor(r, ok) /\ slots' = AfterConfirm(r.h, ok)
  BY <1>1, ConfirmStepIs
<1>5. reqs' = reqs \ {r} /\ dev' = dev /\ AllGoOn(slots', slots)
  BY <1>4, ConfirmedGoesOn DEF ConfirmFor
<1>6. \A x \in Slots : /\ slots'[x].addr = slots[x].addr
                       /\ slots'[x].short = slots[x].short
                       /\ slots'[x].state \in Busy => slots[x].state \in Busy
  BY <1>5 DEF AllGoOn, GoesOn
<1>7. ASSUME NEW x \in Slots, x # s, Joined(x) PROVE Joined(x)'
  <2>1. {q \in reqs' : q.slot = x} = {q \in reqs : q.slot = x}
    BY <1>2, <1>5, <1>7
  <2> QED  BY <1>3, <1>7, <2>1, JoinedKept
<1>8. /\ list'.initial = list.initial
      /\ \A e \in Devices, i \in Cells : list'.ext[i] = e => dev[e].short = i + list.initial
      /\ \A e \in Devices, b \in Nat : Entered(list, e, b) => Entered(list', e, b)
      /\ Joined(s) /\ ~Joined(s)' => Entered(list', slots[s].addr, dev[slots[s].addr].short)
  <2>1. CASE ConfirmJoin(r)
    <3>1. PICK d : d = slots[s].addr
      OBVIOUS
    <3>2. PICK a : a = slots[s].short
      OBVIOUS
    <3>3. JoinFinished(r.h, TRUE)
      BY <2>1 DEF ConfirmJoin
    <3>4. Current(r.h) = s /\ slots[s].state = "accepted"
      <4>1. Current(r.h) \in Slots /\ slots[Current(r.h)].state = "accepted"
        BY <1>1, <3>3, JoinsAccepted
      <4>2. PICK x \in Slots : Matches(slots[x], r.h)
        BY <3>3 DEF JoinFinished, Matches
      <4>3. NumSlots \in Nat /\ Matched(r.h) \in SUBSET (0 .. NumSlots) /\ Matched(r.h) # {}
        BY <4>2, LbpAssumption, SlotsAreNaturals DEF Matched
      <4>4. Current(r.h) \in Matched(r.h)
        BY <4>3, MaxIn DEF Current
      <4>5. Current(r.h) = r.slot
        BY <1>1, <4>4, MatchedSlot DEF Matched
      <4> QED  BY <1>2, <4>1, <4>5
    <3>5. d \in Devices /\ a \in Nat /\ list.initial \in Nat /\ list.size \in Nat
          /\ MaxLbds \in Nat
      BY <1>1, <1>3, <3>1, <3>2, LbdListAssumption DEF TurnsOK, SlotTurn, TypeOK, SlotRecords, Lists
    <3>6. dev[d].short = a
      BY <2>1, <3>1, <3>2, <3>4, <3>5, JoinedHolds
    <3>7. a < list.size + list.initial /\ \A e \in Devices : dev[e].short = a => e = d
      BY <3>5, <3>6 DEF AddressesOK, Holds
    <3>8. a >= list.initial
      BY <3>2, <3>4 DEF EntersOK, Busy
    <3>9. IsValidAddress(list, a)
      BY <3>5, <3>7, <3>8 DEF IsValidAddress
    <3>10. \A e \in Devices : list.ext[a - list.initial] = e => e = d
      <4>1. a - list.initial \in Cells
        BY <3>5, <3>7, <3>8 DEF Cells
      <4>2. \A e \in Devices : list.ext[a - list.initial] = e =>
                               dev[e].short = (a - list.initial) + list.initial
        BY <4>1 DEF EntersOK
      <4>3. (a - list.initial) + list.initial = a
        BY <3>5
      <4> QED  BY <3>7, <4>2, <4>3
    <3>11. \A i \in Cells : list.ext[i] = d => a = i + list.initial
      BY <3>5, <3>6 DEF EntersOK
    <3>12. list' = AddEntry(list, d, a)
      BY <2>1, <3>1, <3>2, <3>4, <3>5 DEF ConfirmJoin
    <3>13. /\ Entered(list', d, a) /\ list'.initial = list.initial
           /\ \A e \in Devices, i \in Cells : list'.ext[i] = e =>
                 list.ext[i] = e \/ (e = d /\ a = i + list.initial)
           /\ \A e \in Devices, b \in Nat : Entered(list, e, b) => Entered(list', e, b)
      BY <1>1, <3>5, <3>9, <3>10, <3>11, <3>12, JoinEnters
    <3>14. \A e \in Devices, i \in Cells : list'.ext[i] = e => dev[e].short = i + list.initial
      BY <3>6, <3>13 DEF EntersOK
    <3> QED  BY <3>1, <3>6, <3>13, <3>14
  <2>2. CASE ~ConfirmJoin(r)
    <3>1. PICK b \in BOOLEAN : ConfirmProgress(r, b)
      BY <1>1, <2>2 DEF ConfirmStep, ConfirmRekeyNext, ConfirmRekeyPhase, ConfirmRekeyEnd,
                        NoRekeying
    <3>2. b = TRUE
      BY <1>3, <3>1 DEF ConfirmProgress, ConfirmFor, Untroubled
    <3>3. ~JoinFinished(r.h, TRUE) /\ list' = list
      BY <3>1, <3>2 DEF ConfirmProgress
    <3> QED  BY <1>3, <3>3 DEF EntersOK
  <2> QED  BY <2>1, <2>2
<1>9. \A e \in Devices, i \in Cells : list'.ext[i] = e => dev'[e].short = i + list'.initial
  BY <1>5, <1>8
<1>10. ASSUME NEW e \in Devices, dev'[e].short # NoShort
       PROVE  \/ Entered(list', e, dev'[e].short)
              \/ \E x \in Slots : slots'[x].addr = e /\ Joined(x)'
  <2>1. \/ Entered(list, e, dev[e].short)
        \/ \E x \in Slots : slots[x].addr = e /\ Joined(x)
    BY <1>5, <1>10 DEF EntersOK
  <2>2. dev[e].short \in Nat
    BY <1>5, <1>10 DEF TypeOK, DeviceRecords
  <2> QED  BY <1>5, <1>6, <1>7, <1>8, <2>1, <2>2
<1>11. ASSUME NEW e \in Devices, NEW x \in Slots, slots'[x].addr = e,
              slots'[x].state # "free", dev'[e].short # NoShort
       PROVE  Joined(x)'
  <2>1. CASE x # s
    BY <1>3, <1>5, <1>7, <1>11, <2>1 DEF EntersOK
  <2>2. CASE x = s
    <3>1. Joined(s)
      BY <1>3, <1>5, <1>6, <1>11, <2>2 DEF EntersOK
    <3> QED  BY <1>3, <1>11, <2>2, <3>1
  <2> QED  BY <2>1, <2>2
<1>12. \A x \in Slots : slots'[x].state \in Busy => slots'[x].short >= list'.initial
  BY <1>6, <1>8 DEF EntersOK
<1> QED  BY <1>9, <1>10, <1>11, <1>12 DEF EntersOK

(* Turns are taken in every step ... *)
LEMMA TurnsStep ==
    ASSUME Untroubled, TypeOK, OneSlotPerDevice, OneSlotPerDevice', ConfirmsInTime,
           ConfirmInv, ExchangeInv, TurnsOK, [Next]_vars
    PROVE  TurnsOK'
<1>1. NoRekeying /\ RequestsOK /\ SlotsOK(slots, reqs) /\ ExchangesOK /\ NoKick
  BY DEF ConfirmInv, ThreadsOK, ExchangeInv
<1>2. DistinctHandles
  BY <1>1, HandlesDiffer
<1>3. ASSUME NEW d \in Devices, Indication(d) PROVE TurnsOK'
  BY <1>1, <1>3, IndicationTurn
<1>4. ASSUME NEW r \in reqs, ConfirmStep(r) PROVE TurnsOK'
  BY <1>1, <1>2, <1>4, ConfirmTurn
<1>5. ASSUME NEW s \in Slots PROVE ~BsProcess(s)
  BY BsProcessTurn
<1>6. ASSUME NEW t \in {"main", "usi"} PROVE ~RekeySend(t)
  BY <1>1 DEF RekeySend, NoRekeying
<1>7. ~KickSend
  BY <1>1 DEF KickSend, NoKick
<1>8. ASSUME ApiStep \/ UNCHANGED vars PROVE TurnsOK'
  BY <1>8, ApiOrIdleTurn
<1>9. ASSUME NEW r \in reqs, Deliver(r) PROVE TurnsOK'
  BY <1>1, <1>9, DeliverTurn
<1>10. Network => \E r \in reqs : Deliver(r)
  BY DEF Untroubled, Network, LoseConfirm, LoseReply, DelayT3, Leave
<1> QED  BY <1>3, <1>4, <1>5, <1>6, <1>7, <1>8, <1>9, <1>10 DEF Next

(* ... and what is entered keeps up with what is used. *)
LEMMA EntersStep ==
    ASSUME Untroubled, ~ShortFromExt, TypeOK, OneSlotPerDevice, OneSlotPerDevice',
           ConfirmsInTime, ConfirmInv, ExchangeInv, TurnsOK, AddressesOK,
           list.size < MaxLbds, EntersOK, [Next]_vars
    PROVE  EntersOK'
<1>1. NoRekeying /\ RequestsOK /\ SlotsOK(slots, reqs) /\ ExchangesOK /\ NoKick
  BY DEF ConfirmInv, ThreadsOK, ExchangeInv
<1>2. DistinctHandles
  BY <1>1, HandlesDiffer
<1>3. ASSUME NEW d \in Devices, Indication(d) PROVE EntersOK'
  BY <1>1, <1>3, IndicationEnters
<1>4. ASSUME NEW r \in reqs, ConfirmStep(r) PROVE EntersOK'
  BY <1>2, <1>4, ConfirmEnters
<1>5. ASSUME NEW s \in Slots PROVE ~BsProcess(s)
  BY BsProcessTurn
<1>6. ASSUME NEW t \in {"main", "usi"} PROVE ~RekeySend(t)
  BY <1>1 DEF RekeySend, NoRekeying
<1>7. ~KickSend
  BY <1>1 DEF KickSend, NoKick
<1>8. ASSUME ApiStep \/ UNCHANGED vars PROVE EntersOK'
  <2>1. slots' = slots /\ reqs' = reqs /\ dev' = dev /\ list' = list
    BY <1>8, ApiOrIdleTurn
  <2>2. \A s : Joined(s) => Joined(s)'
    <3> SUFFICES ASSUME NEW s, Joined(s) PROVE Joined(s)'
      OBVIOUS
    <3> QED  BY <2>1, JoinedKept
  <2> QED  BY <2>1, <2>2 DEF EntersOK
<1>9. ASSUME NEW r \in reqs, Deliver(r) PROVE EntersOK'
  BY <1>1, <1>9, DeliverEnters
<1>10. Network => \E r \in reqs : Deliver(r)
  BY DEF Untroubled, Network, LoseConfirm, LoseReply, DelayT3, Leave
<1> QED  BY <1>3, <1>4, <1>5, <1>6, <1>7, <1>8, <1>9, <1>10 DEF Next

LEMMA TurnsInit == Init => TurnsOK /\ EntersOK
<1> SUFFICES ASSUME Init PROVE TurnsOK /\ EntersOK
  OBVIOUS
<1>1. \A s \in Slots : slots[s].state = "free" /\ slots[s].pending = 0
  BY DEF Init, FreshSlot
<1>2. reqs = {} /\ thread = [t \in {"main", "usi"} |-> Idle]
  BY DEF Init
<1>3. \A d \in Devices : up[d] = <<>> /\ dev[d].short = NoShort
  BY DEF Init, NewDevice
<1>4. \A i \in Cells : list.ext[i] = NoDevice
  BY DEF Init, EmptyList
<1>5. TurnsOK
  BY <1>1, <1>2, <1>3 DEF TurnsOK, SlotTurn, Nothing
<1>6. EntersOK
  BY <1>1, <1>3, <1>4, LbdListAssumption DEF EntersOK, Busy
<1> QED  BY <1>5, <1>6

(* Where the acceptance is still being confirmed, something is under way.  *)
JoinedIsListed == \A d \in Devices : JoinedListed(d)

LEMMA QuietIsEntered == TypeOK /\ TurnsOK /\ EntersOK => JoinedIsListed
<1> SUFFICES ASSUME TypeOK, TurnsOK, EntersOK, NEW d \in Devices,
                    dev[d].short # NoShort, Quiet(d)
             PROVE  /\ DeviceIsInList(list, dev[d].short)
                    /\ list.ext[dev[d].short - list.initial] = d
  BY DEF JoinedIsListed, JoinedListed
<1>1. ASSUME NEW s \in Slots, slots[s].addr = d, Joined(s) PROVE FALSE
  <2>1. PICK r \in reqs : r.slot = s
    BY <1>1 DEF Joined, Latest
  <2>2. r.msg.dev = d
    BY <1>1, <2>1 DEF TurnsOK
  <2> QED  BY <2>1, <2>2 DEF Quiet
<1>2. Entered(list, d, dev[d].short)
  BY <1>1 DEF EntersOK
<1> QED  BY <1>2, LbdListAssumption DEF Entered, DeviceIsInList

(* While the application only blacklists devices, and messages, replies    *)
(* and confirms come in order and in time, a device that has been accepted *)
(* and has nothing under way is registered at the address it uses, until   *)
(* the list has been used up.                                              *)
THEOREM JoinedAreListed ==
    ASSUME Untroubled, ~ShortFromExt
    PROVE  Spec /\ []ConfirmsInTime => [](list.size < MaxLbds => JoinedIsListed)
<1>1. /\ "rekey" \notin Api /\ "kick" \notin Api /\ "initial" \notin Api
      /\ "preempt" \notin Env /\ "drop" \notin Env /\ "reorder" \notin Env
      /\ "restart" \notin Env /\ "randp" \notin Env /\ "leave" \notin Env
  BY DEF Untroubled
<1> DEFINE Entering == list.size < MaxLbds => EntersOK
<1>2. TypeOK /\ TurnsOK /\ Entering => (list.size < MaxLbds => JoinedIsListed)
  BY QuietIsEntered
<1>3. TypeOK /\ ConfirmsInTime /\ ConfirmInv /\ [Next]_vars => ConfirmInv'
  BY <1>1, ConfirmStepInv
<1>4. /\ TypeOK /\ TypeOK' /\ OneSlotPerDevice /\ OneSlotPerDevice'
      /\ ConfirmsInTime /\ ConfirmsInTime' /\ ConfirmInv /\ ExchangeInv /\ [Next]_vars
      => ExchangeInv'
  BY <1>1, ExchangeInvStep
<1>5. TypeOK /\ TypeOK' /\ ConfirmInv /\ AddressesOK /\ [Next]_vars => AddressesOK'
  BY <1>1, AddressesStep DEF ConfirmInv, ThreadsOK
<1>6. /\ TypeOK /\ OneSlotPerDevice /\ OneSlotPerDevice' /\ ConfirmsInTime
      /\ ConfirmInv /\ ExchangeInv /\ TurnsOK /\ [Next]_vars
      => TurnsOK'
  BY TurnsStep
<1>7. /\ TypeOK /\ TypeOK' /\ OneSlotPerDevice /\ OneSlotPerDevice' /\ ConfirmsInTime
      /\ ConfirmInv /\ ExchangeInv /\ AddressesOK /\ TurnsOK /\ Entering /\ [Next]_vars
      => Entering'
  <2> SUFFICES ASSUME TypeOK, TypeOK', OneSlotPerDevice, OneSlotPerDevice', ConfirmsInTime,
                      ConfirmInv, ExchangeInv, AddressesOK, TurnsOK, Entering,
                      [Next]_vars, (list.size < MaxLbds)'
               PROVE  EntersOK'
    OBVIOUS
  <2>1. NoRekeying /\ MaxLbds \in Nat /\ list.size \in Nat /\ list'.size \in Nat
    BY LbdListAssumption DEF ConfirmInv, ThreadsOK, TypeOK, Lists
  <2>2. list'.size >= list.size
    BY <1>1, <2>1, ListShape, NewAddressIs
  <2>3. list.size < MaxLbds
    BY <2>1, <2>2
  <2> QED  BY <2>3, EntersStep
<1>8. Init => TurnsOK /\ Entering
  BY TurnsInit
<1>9. Spec => []OneSlotPerDevice
  BY OneSlotCorrect
<1> HIDE DEF Entering
<1> QED  BY <1>2, <1>3, <1>4, <1>5, <1>6, <1>7, <1>8, <1>9, InitType, TypeStep,
            ConfirmInit, ExchangeInit, AddressesInit, PTL
         DEF Spec

-----------------------------------------------------------------------------
(* No slot counts three requests: the theorem at the end *)

(* In exchange x with device d a third message has been sent as request n, *)
(* among the requests rs, or its answer is under way in us.                *)
Third(rs, us, d, x, n) ==
    \/ \E r \in rs : r.msg.kind = "msg3" /\ r.msg.dev = d /\ r.msg.rand = x /\ r.n = n
    \/ d \in Devices /\ \E i \in DOMAIN us[d] :
          us[d][i].type = "T3" /\ us[d][i].rand = x /\ us[d][i].n = n

(* Slot s, in the record r, counts two requests at most: it sends its      *)
(* third message while one is pending at most; before, there is no answer  *)
(* to that yet, and after, one comes only when the earlier of two pending  *)
(* requests has been confirmed.                                            *)
CountOK(r, s, rs, us, k) ==
    /\ r.pending =< 2
    /\ r.state \in {"wait2", "wait4"} => r.pending = 0
    /\ r.state = "sent1" => r.pending =< 1
    /\ r.state \in {"sent1", "wait2"} => /\ r.msg.kind \in {"none", "msg1"} /\ r.randS < k
                                         /\ \A n : ~Third(rs, us, r.addr, r.randS, n)
    /\ r.msg.kind = "msg3" => r.msg.rand < k
    /\ r.state = "sent3" /\ r.pending = 2 =>
          \E v \in rs : /\ v.slot = s /\ v.h = r.ptx /\ v.msg.dev = r.addr
                        /\ \A n : Third(rs, us, r.addr, r.randS, n) => v.n < n

CountsOK ==
    /\ \A s \in Slots : CountOK(slots[s], s, reqs, up, rands)
    /\ \A d \in Devices : \A x, n : Third(reqs, up, d, x, n) => x < rands
    /\ \A s \in Slots : thread["main"] = Doing("resend", s) => slots[s].pending = 0
    /\ "blacklist" \notin Api => blacklist = <<>>

(* Messages from a device are not made up: an answer to a third message    *)
(* answers one that was sent.                                              *)
LEMMA UpKept ==
    ASSUME TypeOK, [Next]_vars, ~Network, NEW d \in Devices, NEW i \in DOMAIN up'[d]
    PROVE  \E j \in DOMAIN up[d] : up'[d][i] = up[d][j]
<1>1. up \in [Devices -> Seq(UpMsgs)]
  BY DEF TypeOK
<1>2. ASSUME up'[d] = up[d] \/ (up[d] # <<>> /\ up'[d] = Tail(up[d]))
      PROVE  \E j \in DOMAIN up[d] : up'[d][i] = up[d][j]
  <2>1. CASE up'[d] = up[d]
    BY <2>1
  <2>2. CASE up[d] # <<>> /\ up'[d] = Tail(up[d])
    <3>1. up[d] \in Seq(UpMsgs)
      BY <1>1
    <3>2. i + 1 \in DOMAIN up[d] /\ up'[d][i] = up[d][i + 1]
      BY <2>2, <3>1
    <3> QED  BY <3>2
  <2> QED  BY <1>2, <2>1, <2>2
<1>3. ASSUME NEW c \in Devices, Indication(c)
      PROVE  up'[d] = up[d] \/ (up[d] # <<>> /\ up'[d] = Tail(up[d]))
  <2>1. up' = up \/ \E type : Receives(c, type)
    BY <1>3 DEF Indication, JoiningNoSlot, JoiningDeclined, JoiningNew, JoiningRepeated, HandleT1,
                HandleT3, HandleBadRandS, KickFromLbd, HandleUnexpected, JoiningFrom
  <2> QED  BY <2>1, ReceivesTail
<1>4. ASSUME NEW r \in reqs, ConfirmStep(r) PROVE up' = up
  BY <1>4 DEF ConfirmStep, ConfirmProgress, ConfirmJoin, ConfirmRekeyNext, ConfirmRekeyPhase,
              ConfirmRekeyEnd, ConfirmFor
<1>5. ASSUME NEW s \in Slots, BsProcess(s) PROVE up' = up
  BY <1>5 DEF BsProcess, CheckSlot, ResendSlot, ResetSlot
<1>6. ASSUME NEW t \in {"main", "usi"}, RekeySend(t) PROVE up' = up
  BY <1>6 DEF RekeySend
<1>7. CASE KickSend \/ ApiStep \/ UNCHANGED vars
  BY <1>2, <1>7 DEF KickSend, ApiStep, LaunchRekeying, KickDevice, ApiCall, SetDeviceList,
              SetInitialShortAddress, AddDeviceToBlacklist, vars
<1> QED  BY <1>2, <1>3, <1>4, <1>5, <1>6, <1>7 DEF Next

LEMMA NetworkThird ==
    ASSUME TypeOK, Network, NEW d, NEW x, NEW n, Third(reqs', up', d, x, n)
    PROVE  Third(reqs, up, d, x, n)
<1>1. up \in [Devices -> Seq(UpMsgs)]
  BY DEF TypeOK
<1>2. ASSUME reqs' \subseteq reqs,
             \A c \in Devices : \A i \in DOMAIN up'[c] :
                \/ up'[c][i].type # "T3"
                \/ \E j \in DOMAIN up[c] : up'[c][i] = up[c][j]
      PROVE  Third(reqs, up, d, x, n)
  BY <1>2 DEF Third
<1>3. ASSUME NEW r \in reqs, LoseConfirm(r) PROVE Third(reqs, up, d, x, n)
  BY <1>2, <1>3 DEF LoseConfirm
<1>4. ASSUME NEW c \in Devices, LoseReply(c) PROVE Third(reqs, up, d, x, n)
  <2>1. up[c] # <<>> /\ up' = [up EXCEPT ![c] = Tail(up[c])] /\ reqs' = reqs
    BY <1>4 DEF LoseReply
  <2>2. up[c] \in Seq(UpMsgs)
    BY <1>1
  <2>3. \A i \in DOMAIN up'[c] : i + 1 \in DOMAIN up[c] /\ up'[c][i] = up[c][i + 1]
    BY <1>1, <2>1, <2>2
  <2>4. \A e \in Devices : e # c => up'[e] = up[e]
    BY <1>1, <2>1
  <2> QED  BY <1>2, <2>1, <2>3, <2>4
<1>5. ASSUME NEW c \in Devices, DelayT3(c) PROVE Third(reqs, up, d, x, n)
  <2>1. /\ up[c] \in Seq(UpMsgs) /\ Len(up[c]) > 1 /\ reqs' = reqs
        /\ up' = [up EXCEPT ![c] = [up[c] EXCEPT ![1] = up[c][2], ![2] = up[c][1]]]
    BY <1>1, <1>5 DEF DelayT3
  <2>2. 1 \in DOMAIN up[c] /\ 2 \in DOMAIN up[c]
    BY <2>1
  <2>3. \A i \in DOMAIN up'[c] : \E j \in DOMAIN up[c] : up'[c][i] = up[c][j]
    BY <1>1, <2>1, <2>2
  <2>4. \A e \in Devices : e # c => up'[e] = up[e]
    BY <1>1, <2>1
  <2>5. reqs' = reqs
    BY <2>1
  <2>6. \A e \in Devices : \A i \in DOMAIN up'[e] : \E j \in DOMAIN up[e] : up'[e][i] = up[e][j]
    BY <2>3, <2>4
  <2> QED  BY <1>2, <2>5, <2>6
<1>6. ASSUME NEW c \in Devices, Leave(c) PROVE Third(reqs, up, d, x, n)
  <2>1. /\ up[c] \in Seq(UpMsgs) /\ reqs' = reqs
        /\ up' = [up EXCEPT ![c] = Append(up[c], UpMsg("leave", 0, -1, dev[c].short))]
    BY <1>1, <1>6 DEF Leave
  <2>2. UpMsg("leave", 0, -1, dev[c].short).type # "T3"
    BY DEF UpMsg
  <2>3. \A i \in DOMAIN up'[c] : up'[c][i].type = "T3" =>
           i \in DOMAIN up[c] /\ up'[c][i] = up[c][i]
    BY <1>1, <2>1, <2>2
  <2>4. \A e \in Devices : e # c => up'[e] = up[e]
    BY <1>1, <2>1
  <2>5. \A e \in Devices : \A i \in DOMAIN up'[e] :
           up'[e][i].type # "T3" \/ \E j \in DOMAIN up[e] : up'[e][i] = up[e][j]
    BY <2>3, <2>4
  <2> QED  BY <1>2, <2>1, <2>5
<1>7. ASSUME NEW r \in reqs, Deliver(r) PROVE Third(reqs, up, d, x, n)
  <2> DEFINE c == r.msg.dev
             new == [r EXCEPT !.delivered = TRUE]
             p == Reply(dev[c], r)
  <2>1. c \in Devices /\ reqs' = (reqs \ {r}) \cup {new} /\ up' = [up EXCEPT ![c] = up[c] \o p]
    BY <1>7 DEF Deliver, Sendable
  <2>2. new.msg = r.msg /\ new.n = r.n
    BY DEF TypeOK, Requests
  <2>3. /\ p = <<>> \/ \E y : p = <<y>> /\ (y.type = "T3" => /\ r.msg.kind = "msg3"
                                                             /\ y.rand = r.msg.rand /\ y.n = r.n)
    BY DEF Reply, UpMsg
  <2> HIDE DEF c, new, p
  <2>4. ASSUME NEW q \in reqs', q.msg.kind = "msg3", q.msg.dev = d, q.msg.rand = x, q.n = n
        PROVE  Third(reqs, up, d, x, n)
    BY <2>1, <2>2, <2>4 DEF Third
  <2>5. ASSUME d \in Devices, NEW i \in DOMAIN up'[d],
               up'[d][i].type = "T3", up'[d][i].rand = x, up'[d][i].n = n
        PROVE  Third(reqs, up, d, x, n)
    <3>1. CASE d # c \/ p = <<>>
      <4>1. up'[d] = up[d]
        BY <1>1, <2>1, <2>5, <3>1
      <4> QED  BY <2>5, <4>1 DEF Third
    <3>2. CASE d = c /\ p # <<>>
      <4>1. PICK y : p = <<y>> /\ (y.type = "T3" => /\ r.msg.kind = "msg3"
                                                    /\ y.rand = r.msg.rand /\ y.n = r.n)
        BY <2>3, <3>2
      <4>2. up[d] \in Seq(UpMsgs) /\ up'[d] = up[d] \o <<y>>
        BY <1>1, <2>1, <2>5, <3>2, <4>1
      <4>3. (i \in DOMAIN up[d] /\ up'[d][i] = up[d][i]) \/ up'[d][i] = y
        BY <4>2
      <4>4. CASE i \in DOMAIN up[d] /\ up'[d][i] = up[d][i]
        BY <2>5, <4>4 DEF Third
      <4>5. CASE up'[d][i] = y
        BY <2>5, <3>2, <4>1, <4>5 DEF Third, c
      <4> QED  BY <4>3, <4>4, <4>5
    <3> QED  BY <3>1, <3>2
  <2> QED  BY <2>4, <2>5 DEF Third
<1> QED  BY <1>3, <1>4, <1>5, <1>6, <1>7 DEF Network

(* A step that sends adds its own message at most. *)
LEMMA ThirdKept ==
    ASSUME TypeOK, [Next]_vars, ~Network, NEW d, NEW x, NEW n, Third(reqs', up', d, x, n)
    PROVE  \/ Third(reqs, up, d, x, n)
           \/ \E r \in reqs' : /\ r \notin reqs /\ r.n = n
                               /\ r.msg.kind = "msg3" /\ r.msg.dev = d /\ r.msg.rand = x
<1>1. d \in Devices => \A i \in DOMAIN up'[d] : \E j \in DOMAIN up[d] : up'[d][i] = up[d][j]
  BY UpKept
<1> QED  BY <1>1 DEF Third

(* Slot record r has become q and its exchange goes on or has been ended;  *)
(* no answer has been added to it.                                         *)
Calm(q, r) ==
    /\ q.addr = r.addr /\ q.randS = r.randS /\ q.msg \in {r.msg, NoMsg}
    /\ \/ q.state = "free" /\ q.pending = 0
       \/ q.state = r.state /\ q.pending = r.pending /\ q.ptx = r.ptx

LEMMA CalmKept ==
    ASSUME TypeOK, NEW s \in Slots, NEW q, NEW r \in SlotRecords, Calm(q, r),
           CountOK(r, s, reqs, up, rands), StillSent(reqs, reqs'),
           rands' \in Nat, rands' >= rands,
           \A n : Third(reqs', up', r.addr, r.randS, n) => Third(reqs, up, r.addr, r.randS, n)
    PROVE  CountOK(q, s, reqs', up', rands')
<1>1. NoMsg.kind = "none" /\ rands \in Nat /\ r.randS \in Nat /\ r.msg.rand \in Nat
  BY DEF NoMsg, Msg, TypeOK, SlotRecords, Messages
<1>2. q.pending =< 2
  BY DEF Calm, CountOK
<1>3. /\ q.state \in {"wait2", "wait4"} => q.pending = 0
      /\ q.state = "sent1" => q.pending =< 1
  BY DEF Calm, CountOK
<1>4. q.state \in {"sent1", "wait2"} =>
           /\ q.msg.kind \in {"none", "msg1"} /\ q.randS < rands'
           /\ \A n : ~Third(reqs', up', q.addr, q.randS, n)
  BY <1>1 DEF Calm, CountOK
<1>5. q.msg.kind = "msg3" => q.msg.rand < rands'
  BY <1>1 DEF Calm, CountOK
<1>6. ASSUME q.state = "sent3" /\ q.pending = 2
      PROVE  \E v \in reqs' : /\ v.slot = s /\ v.h = q.ptx /\ v.msg.dev = q.addr
                              /\ \A n : Third(reqs', up', q.addr, q.randS, n) => v.n < n
  <2>1. /\ r.state = "sent3" /\ r.pending = 2 /\ q.ptx = r.ptx /\ q.addr = r.addr
        /\ q.randS = r.randS
    BY <1>6 DEF Calm
  <2>2. PICK v \in reqs : /\ v.slot = s /\ v.h = r.ptx /\ v.msg.dev = r.addr
                          /\ \A n : Third(reqs, up, r.addr, r.randS, n) => v.n < n
    BY <2>1 DEF CountOK
  <2>3. PICK w \in reqs' : w.n = v.n /\ w.h = v.h /\ w.slot = v.slot /\ w.msg = v.msg
    BY DEF StillSent
  <2> QED  BY <2>1, <2>2, <2>3
<1> QED  BY <1>2, <1>3, <1>4, <1>5, <1>6 DEF CountOK

(* What a slot becomes that sends a message is in order, if what it was    *)
(* changed to before is.                                                   *)
LEMMA SentCount ==
    ASSUME TypeOK, RequestsOK, NEW s \in Slots, NEW r \in SlotRecords, SendFrom(s, r),
           \A n : Third(reqs', up', r.addr, r.randS, n)
                  => \/ Third(reqs, up, r.addr, r.randS, n)
                     \/ n = sent /\ r.msg.kind = "msg3",
           rands' \in Nat, rands' >= rands,
           r.pending =< 1, r.state \notin {"wait2", "wait4"},
           r.msg.kind = "msg3" => r.msg.rand < rands',
           r.state = "sent1" => /\ r.pending = 0
                                /\ r.msg.kind \in {"none", "msg1"} /\ r.randS < rands'
                                /\ \A n : ~Third(reqs, up, r.addr, r.randS, n),
           r.state = "sent3" /\ r.pending = 1 =>
              /\ \E v \in reqs : v.slot = s /\ v.h = r.tx /\ v.msg.dev = r.addr
              /\ \A n : ~Third(reqs, up, r.addr, r.randS, n)
    PROVE  CountOK(slots'[s], s, reqs', up', rands')
<1> DEFINE q == Transmit(r)
<1>1. slots'[s] = q /\ reqs' = reqs \cup {Request(s, r.msg)}
  BY DEF SendFrom, TypeOK
<1>2. /\ q.state = r.state /\ q.msg = r.msg /\ q.addr = r.addr /\ q.randS = r.randS
      /\ q.pending = (r.pending + 1) % Handles
      /\ q.ptx = IF r.pending > 0 THEN r.tx ELSE r.ptx
  BY DEF Transmit, SlotRecords
<1> HIDE DEF q
<1>3. r.pending \in {0, 1} /\ q.pending = r.pending + 1
  BY <1>2 DEF SlotRecords, Handles
<1>4. ASSUME q.state = "sent3", q.pending = 2
      PROVE  \E v \in reqs' : /\ v.slot = s /\ v.h = q.ptx /\ v.msg.dev = q.addr
                              /\ \A n : Third(reqs', up', q.addr, q.randS, n) => v.n < n
  <2>1. r.state = "sent3" /\ r.pending = 1 /\ q.ptx = r.tx
    BY <1>2, <1>3, <1>4
  <2>2. PICK v \in reqs : v.slot = s /\ v.h = r.tx /\ v.msg.dev = r.addr
    BY <2>1
  <2>3. \A n : Third(reqs', up', r.addr, r.randS, n) => n = sent
    BY <2>1
  <2>4. v.n < sent /\ v \in reqs'
    BY <1>1 DEF RequestsOK
  <2> QED  BY <1>2, <2>1, <2>2, <2>3, <2>4
<1>5. q.state = "sent1" => \A n : ~Third(reqs', up', q.addr, q.randS, n)
  BY <1>2
<1>6. CountOK(q, s, reqs', up', rands')
  BY <1>2, <1>3, <1>4, <1>5 DEF CountOK
<1> QED  BY <1>1, <1>6

(* What slot s, changed to r, may send. *)
MaySend(s, r, k) ==
    /\ r \in SlotRecords /\ r.msg.dev = r.addr
    /\ r.pending =< 1 /\ r.state \notin {"wait2", "wait4"}
    /\ r.msg.kind = "msg3" => r.msg.rand < k
    /\ r.state = "sent1" => /\ r.pending = 0
                            /\ r.msg.kind \in {"none", "msg1"} /\ r.randS < k
                            /\ \A n : ~Third(reqs, up, r.addr, r.randS, n)
    /\ r.state = "sent3" /\ r.pending = 1 =>
          /\ \E v \in reqs : v.slot = s /\ v.h = r.tx /\ v.msg.dev = r.addr
          /\ \A n : ~Third(reqs, up, r.addr, r.randS, n)

Thirds(rs, us, k) == \A d \in Devices : \A x, n : Third(rs, us, d, x, n) => x < k

(* The exchange of a third message has a number. *)
LEMMA ThirdNumber ==
    ASSUME TypeOK, NEW d \in Devices, NEW x, NEW n, Third(reqs, up, d, x, n)
    PROVE  x \in Nat
<1>1. \A q \in reqs : q.msg.rand \in Nat
  BY DEF TypeOK, Requests, Messages
<1>2. up[d] \in Seq(UpMsgs)
  BY DEF TypeOK
<1>3. \A i \in DOMAIN up[d] : up[d][i] \in UpMsgs
  BY <1>2
<1>4. \A i \in DOMAIN up[d] : up[d][i].rand \in Nat
  BY <1>3 DEF UpMsgs
<1> QED  BY <1>1, <1>4 DEF Third

LEMMA SendsCounts ==
    ASSUME TypeOK, TypeOK', [Next]_vars, ~Network, RequestsOK, OneSlotPerDevice', CountsOK,
           rands' >= rands, NEW s \in Slots, NEW r, SendFrom(s, r), MaySend(s, r, rands')
    PROVE  /\ \A x \in Slots : CountOK(slots'[x], x, reqs', up', rands')
           /\ Thirds(reqs', up', rands')
<1> DEFINE new == Request(s, r.msg)
<1>1. new.n = sent /\ new.msg = r.msg /\ r \in SlotRecords /\ r.msg \in Messages
  BY DEF Request, MaySend, SlotRecords
<1>2. reqs' = reqs \cup {new}
  BY DEF SendFrom
<1> HIDE DEF new
<1>3. ASSUME NEW d, NEW x, NEW n, Third(reqs', up', d, x, n)
      PROVE  \/ Third(reqs, up, d, x, n)
             \/ n = sent /\ r.msg.kind = "msg3" /\ d = r.addr /\ x = r.msg.rand
  BY <1>1, <1>2, <1>3, ThirdKept DEF MaySend
<1>4. rands \in Nat /\ rands' \in Nat
  BY DEF TypeOK
<1>5. CountOK(slots'[s], s, reqs', up', rands')
  BY <1>1, <1>3, <1>4, SentCount DEF MaySend
<1>6. /\ slots'[s].addr = r.addr
      /\ \A x \in Slots : x # s => slots'[x] = slots[x]
  BY <1>1, SendFromLeaves
<1>7. ASSUME NEW x \in Slots, x # s PROVE CountOK(slots'[x], x, reqs', up', rands')
  <2>1. slots'[x] = slots[x] /\ slots[x] \in SlotRecords
    BY <1>6, <1>7 DEF TypeOK
  <2>2. Calm(slots[x], slots[x])
    BY DEF Calm
  <2>3. r.msg.kind = "msg3" => slots[x].addr # r.addr
    <3>1. slots[x].addr = r.addr => r.addr = Unset
      BY <1>6, <1>7, <2>1 DEF OneSlotPerDevice
    <3>2. r.addr \in Devices \cup {NoDevice}
      BY <1>1 DEF MaySend, Messages
    <3> QED  BY <3>1, <3>2, LbpAssumption
  <2>4. StillSent(reqs, reqs')
    BY <1>2 DEF StillSent
  <2>5. \A n : Third(reqs', up', slots[x].addr, slots[x].randS, n)
               => Third(reqs, up, slots[x].addr, slots[x].randS, n)
    BY <1>3, <2>3
  <2>6. CountOK(slots[x], x, reqs, up, rands)
    BY DEF CountsOK
  <2>7. CountOK(slots[x], x, reqs', up', rands')
    BY <1>4, <2>1, <2>2, <2>4, <2>5, <2>6, CalmKept
  <2> QED  BY <2>1, <2>7
<1>8. ASSUME NEW d \in Devices, NEW x, NEW n, Third(reqs', up', d, x, n) PROVE x < rands'
  <2>1. CASE Third(reqs, up, d, x, n)
    <3>1. x < rands /\ x \in Nat
      BY <2>1, ThirdNumber DEF CountsOK
    <3> QED  BY <1>4, <3>1
  <2>2. CASE ~Third(reqs, up, d, x, n)
    BY <1>3, <1>8, <2>2 DEF MaySend
  <2> QED  BY <2>1, <2>2
<1> QED  BY <1>5, <1>7, <1>8 DEF Thirds

(* A step that sends nothing. *)
LEMMA CalmCounts ==
    ASSUME TypeOK, TypeOK', CountsOK, rands' >= rands, StillSent(reqs, reqs'),
           \A x \in Slots : Calm(slots'[x], slots[x]),
           \A d, x, n : Third(reqs', up', d, x, n) => Third(reqs, up, d, x, n)
    PROVE  /\ \A x \in Slots : CountOK(slots'[x], x, reqs', up', rands')
           /\ Thirds(reqs', up', rands')
<1>1. rands \in Nat /\ rands' \in Nat /\ slots \in [Slots -> SlotRecords]
  BY DEF TypeOK
<1>2. ASSUME NEW x \in Slots PROVE CountOK(slots'[x], x, reqs', up', rands')
  BY <1>1, CalmKept DEF CountsOK
<1>3. ASSUME NEW d \in Devices, NEW x, NEW n, Third(reqs', up', d, x, n) PROVE x < rands'
  <2>1. x < rands /\ x \in Nat
    BY <1>3, ThirdNumber DEF CountsOK
  <2> QED  BY <1>1, <2>1
<1> QED  BY <1>2, <1>3 DEF Thirds

(* What the indications that answer nothing do to the slots. *)
AllCalm(qq, rr) == \A x \in Slots : Calm(qq[x], rr[x])

LEMMA ClearCalm ==
    ASSUME NEW ss \in [Slots -> SlotRecords], NEW d
    PROVE  AllCalm(Clear(ss, d), ss)
<1>1. CASE ~HasSlot(ss, d)
  BY <1>1 DEF Clear, AllCalm, Calm
<1>2. CASE HasSlot(ss, d)
  <2> DEFINE s == SlotFor(ss, d)
             q == [ss[s] EXCEPT !.msg = NoMsg]
  <2>1. s \in Slots /\ ss[s] \in SlotRecords /\ Clear(ss, d) = [ss EXCEPT ![s] = q]
    BY <1>2, SlotForIn DEF Clear
  <2> HIDE DEF s
  <2>2. Calm(q, ss[s])
    BY <2>1 DEF SlotRecords, Calm
  <2> HIDE DEF q
  <2> QED  BY <2>1, <2>2 DEF AllCalm, Calm
<1> QED  BY <1>1, <1>2

LEMMA AbortCalm ==
    ASSUME NEW ss \in [Slots -> SlotRecords], NEW rr, NEW s \in Slots, AllCalm(ss, rr)
    PROVE  AllCalm([ss EXCEPT ![s] = Abort(ss[s])], rr)
<1>1. /\ Abort(ss[s]).state = "free" /\ Abort(ss[s]).pending = 0
      /\ Abort(ss[s]).addr = ss[s].addr /\ Abort(ss[s]).randS = ss[s].randS
      /\ Abort(ss[s]).msg = ss[s].msg
  BY DEF Abort, SlotRecords
<1> QED  BY <1>1 DEF AllCalm, Calm

LEMMA SilentCalm ==
    ASSUME TypeOK, NEW d \in Devices,
           \/ JoiningNoSlot(d) \/ JoiningRepeated(d) \/ KickFromLbd(d)
           \/ \E type \in {"T1", "T3"} : HandleUnexpected(d, type)
    PROVE  AllCalm(slots', slots) /\ reqs' = reqs /\ rands' = rands
<1>1. slots \in [Slots -> SlotRecords] /\ AllCalm(slots, slots)
  BY DEF TypeOK, AllCalm, Calm
<1>2. CASE JoiningNoSlot(d)
  BY <1>1, <1>2 DEF JoiningNoSlot
<1>3. CASE JoiningRepeated(d) \/ KickFromLbd(d)
  BY <1>1, <1>3, ClearCalm DEF JoiningRepeated, KickFromLbd, Receives
<1>4. ASSUME NEW type \in {"T1", "T3"}, HandleUnexpected(d, type)
      PROVE  AllCalm(slots', slots) /\ reqs' = reqs /\ rands' = rands
  <2> DEFINE ss == Clear(slots, d)
  <2>1. ss \in [Slots -> SlotRecords] /\ AllCalm(ss, slots)
    BY <1>1, ClearType, ClearCalm
  <2>2. HasSlot(slots, d) =>
           /\ SlotFor(slots, d) \in Slots
           /\ slots' = [ss EXCEPT ![SlotFor(slots, d)] = Abort(ss[SlotFor(slots, d)])]
    BY <1>4, SlotForIn DEF HandleUnexpected
  <2> HIDE DEF ss
  <2>3. reqs' = reqs /\ rands' = rands /\ (~HasSlot(slots, d) => slots' = slots)
    BY <1>4 DEF HandleUnexpected, Receives
  <2> QED  BY <1>1, <2>1, <2>2, <2>3, AbortCalm
<1> QED  BY <1>2, <1>3, <1>4

(* The steps that send: in an indication, ... *)
LEMMA AnswersMaySend ==
    ASSUME TypeOK, TypeOK', [Next]_vars, ~Network, RequestsOK, OneSlotPerDevice', CountsOK,
           rands' >= rands, NEW d, NEW s, NEW r, Answers(s, r, d),
           MaySend(s, r, rands')
    PROVE  /\ \A x \in Slots : CountOK(slots'[x], x, reqs', up', rands')
           /\ Thirds(reqs', up', rands')
<1> DEFINE q == [r EXCEPT !.attempts = 0]
<1>1. /\ q \in SlotRecords /\ q.state = r.state /\ q.addr = r.addr /\ q.msg = r.msg
      /\ q.randS = r.randS /\ q.pending = r.pending /\ q.tx = r.tx
  BY DEF Answers, Sends, SlotRecords
<1>2. SendFrom(s, q) /\ s \in Slots
  BY DEF Answers, Sends, SendFirst
<1> HIDE DEF q
<1>3. MaySend(s, q, rands')
  BY <1>1 DEF MaySend
<1> QED  BY <1>2, <1>3, SendsCounts

(* The network does not send for the coordinator. *)
LEMMA NetworkSends == Network => sent' = sent
<1>1. ASSUME NEW r \in reqs, Deliver(r) \/ LoseConfirm(r) PROVE sent' = sent
  BY <1>1 DEF Deliver, LoseConfirm, coordVars
<1>2. ASSUME NEW d \in Devices, LoseReply(d) \/ DelayT3(d) \/ Leave(d) PROVE sent' = sent
  BY <1>2 DEF LoseReply, DelayT3, Leave, coordVars
<1> QED  BY <1>1, <1>2 DEF Network

(* ... where a device asks to join, ... *)
LEMMA JoinCounts ==
    ASSUME "restart" \notin Env \/ "blacklist" \notin Api, TypeOK, TypeOK', [Next]_vars,
           ConfirmInv, OneSlotPerDevice', CountsOK, NEW d \in Devices,
           JoiningDeclined(d) \/ JoiningNew(d)
    PROVE  /\ \A x \in Slots : CountOK(slots'[x], x, reqs', up', rands')
           /\ Thirds(reqs', up', rands')
<1>1. RequestsOK /\ ~Network /\ rands' >= rands /\ rands \in Nat
  <2>1. rands \in Nat
    BY DEF TypeOK
  <2>2. rands' = rands \/ rands' = rands + 1
    BY DEF JoiningDeclined, JoiningNew
  <2>3. sent' = sent + 1
    BY DEF JoiningDeclined, JoiningNew, SendFirst, SendFrom
  <2>4. sent \in Nat
    BY DEF TypeOK
  <2>5. ~Network
    BY <2>3, <2>4, NetworkSends
  <2> QED  BY <2>1, <2>2, <2>5 DEF ConfirmInv
<1>2. CASE JoiningNew(d)
  <2>1. PICK s, r : /\ Answers(s, r, d) /\ slots[s].state = "free"
                    /\ r.state = "sent1" /\ r.randS = rands
                    /\ r.msg = Msg("msg1", d, rands, NoShort, 0)
    BY <1>2, NewSends
  <2>2. r.pending = 0
    BY <2>1 DEF Answers, Sends, ConfirmInv, SlotsOK, SlotOK
  <2>3. rands' = rands + 1
    BY <1>2 DEF JoiningNew
  <2>4. r \in SlotRecords /\ r.addr = d /\ r.msg.dev = d /\ r.msg.kind = "msg1"
    BY <2>1 DEF Answers, Sends, Msg
  <2>5. \A n : ~Third(reqs, up, d, rands, n)
    BY <1>1 DEF CountsOK
  <2>6. MaySend(s, r, rands')
    BY <1>1, <2>1, <2>2, <2>3, <2>4, <2>5 DEF MaySend
  <2> QED  BY <1>1, <2>1, <2>6, AnswersMaySend
<1>3. CASE JoiningDeclined(d)
  <2>1. PICK s, r : /\ Answers(s, r, d) /\ r.state = "declined"
                    /\ r.msg = Msg("decline", d, 0, NoShort, 0)
    BY <1>3, DeclinedSends
  <2>2. "restart" \notin Env
    <3>1. blacklist # <<>>
      BY <1>3 DEF JoiningDeclined, DevIsInBlacklist
    <3> QED  BY <3>1 DEF CountsOK
  <2>3. \A q \in reqs : q.msg.dev # d
    BY <1>3, <2>2 DEF JoiningDeclined, JoiningFrom, Quiet
  <2>4. slots[s].pending =< 2 /\ slots[s].pending \in Nat /\ SlotOK(slots[s], s, reqs)
    BY <2>1 DEF Answers, Sends, CountsOK, CountOK, ConfirmInv, SlotsOK, SlotRecords
  <2>5. slots[s].pending = 0
    <3>1. CASE slots[s].addr = d
      <4>1. slots[s].pending # 1 /\ slots[s].pending # 2
        BY <2>3, <2>4, <3>1 DEF SlotOK
      <4> QED  BY <2>4, <4>1
    <3>2. CASE slots[s].addr # d
      BY <2>1, <2>4, <3>2 DEF Answers, IsSlotFor, SlotOK
    <3> QED  BY <3>1, <3>2
  <2>6. r \in SlotRecords /\ r.addr = d /\ r.msg.dev = d /\ r.msg.kind = "decline"
        /\ r.pending = 0
    BY <2>1, <2>5 DEF Answers, Sends, Msg
  <2>7. MaySend(s, r, rands')
    BY <2>1, <2>6 DEF MaySend
  <2> QED  BY <1>1, <2>1, <2>7, AnswersMaySend
<1> QED  BY <1>2, <1>3

(* ... and where it answers. *)
LEMMA ReplyCounts ==
    ASSUME "overrun" \notin Env, TypeOK, TypeOK', [Next]_vars,
           ConfirmInv, OneSlotPerDevice', CountsOK, NEW d \in Devices,
           HandleT1(d) \/ HandleT3(d)
    PROVE  /\ \A x \in Slots : CountOK(slots'[x], x, reqs', up', rands')
           /\ Thirds(reqs', up', rands')
<1>1. RequestsOK /\ ~Network /\ rands' >= rands /\ rands \in Nat /\ rands' = rands
  <2>1. rands \in Nat
    BY DEF TypeOK
  <2>2. rands' = rands /\ sent' = sent + 1
    BY DEF HandleT1, HandleT3, Receives, SendFirst, SendFrom
  <2>3. sent \in Nat
    BY DEF TypeOK
  <2>4. ~Network
    BY <2>2, <2>3, NetworkSends
  <2> QED  BY <2>1, <2>2, <2>4 DEF ConfirmInv
<1>2. CASE HandleT1(d)
  <2>1. PICK s, r : /\ Answers(s, r, d) /\ Expects(slots[s], "T1") /\ slots[s].addr = d
                    /\ r.state = "sent3" /\ r.randS = slots[s].randS
                    /\ r.msg = IF rekey.on
                               THEN Msg("msg3", d, slots[s].randS, NoShort, OtherKey)
                               ELSE Msg("msg3", d, slots[s].randS, slots[s].short, keyIndex)
    BY <1>2, T1Sends
  <2>2. /\ s \in Slots /\ slots[s].state \in {"wait2", "sent1"}
        /\ r \in SlotRecords /\ r.addr = d /\ r.msg.dev = d
        /\ r.pending = slots[s].pending /\ r.tx = slots[s].tx
    BY <2>1 DEF Answers, Sends, Expects
  <2>3. r.msg.kind = "msg3" /\ r.msg.rand = slots[s].randS
    BY <2>1 DEF Msg
  <2>4. CountOK(slots[s], s, reqs, up, rands) /\ SlotOK(slots[s], s, reqs)
    BY <2>2 DEF CountsOK, ConfirmInv, SlotsOK
  <2>5. /\ slots[s].pending =< 1 /\ slots[s].randS < rands
        /\ \A n : ~Third(reqs, up, d, slots[s].randS, n)
    BY <2>1, <2>2, <2>4 DEF CountOK
  <2>6. slots[s].pending = 1 => \E v \in reqs : v.slot = s /\ v.h = r.tx /\ v.msg.dev = d
    BY <2>1, <2>2, <2>4 DEF SlotOK
  <2>7. MaySend(s, r, rands')
    BY <1>1, <2>1, <2>2, <2>3, <2>5, <2>6 DEF MaySend
  <2> QED  BY <1>1, <2>1, <2>7, AnswersMaySend
<1>3. CASE HandleT3(d)
  <2>1. PICK s, r : /\ Answers(s, r, d) /\ Expects(slots[s], "T3") /\ slots[s].addr = d
                    /\ Head(up[d]).rand = slots[s].randS
                    /\ r.state = "accepted" /\ r.msg = Msg("accepted", d, 0, NoShort, 0)
    BY <1>3, T3Sends
  <2>2. /\ s \in Slots /\ slots[s].state \in {"wait4", "sent3"}
        /\ r \in SlotRecords /\ r.addr = d /\ r.msg.dev = d /\ r.msg.kind = "accepted"
        /\ r.pending = slots[s].pending /\ slots[s].pending \in Nat
    BY <2>1 DEF Answers, Sends, Expects, Msg, SlotRecords
  <2>3. CountOK(slots[s], s, reqs, up, rands)
    BY <2>2 DEF CountsOK
  <2>4. ~(slots[s].state = "sent3" /\ slots[s].pending = 2)
    <3> SUFFICES ASSUME slots[s].state = "sent3", slots[s].pending = 2 PROVE FALSE
      OBVIOUS
    <3>1. PICK v \in reqs : /\ v.msg.dev = d
                            /\ \A n : Third(reqs, up, d, slots[s].randS, n) => v.n < n
      BY <2>1, <2>3 DEF CountOK
    <3>2. 1 \in DOMAIN up[d] /\ up[d][1].type = "T3" /\ up[d][1] = Head(up[d])
      <4>1. Receives(d, "T3")
        BY <1>3 DEF HandleT3
      <4>2. up[d] \in Seq(UpMsgs) /\ up[d] # <<>>
        BY <4>1 DEF TypeOK, Receives
      <4> QED  BY <4>1, <4>2, ReceivesTail
    <3>3. Third(reqs, up, d, slots[s].randS, Head(up[d]).n)
      BY <2>1, <3>2 DEF Third
    <3>4. v.n < Head(up[d]).n
      BY <3>1, <3>3
    <3> QED  BY <1>3, <3>1, <3>4 DEF HandleT3, Receives
  <2>5. slots[s].pending =< 1
    BY <2>2, <2>3, <2>4 DEF CountOK
  <2>6. MaySend(s, r, rands')
    BY <2>1, <2>2, <2>5 DEF MaySend
  <2> QED  BY <1>1, <2>1, <2>6, AnswersMaySend
<1> QED  BY <1>2, <1>3

(* A confirm. *)
LEMMA ConfirmCounts ==
    ASSUME TypeOK, ConfirmInv, CountsOK, NEW r \in reqs, ConfirmStep(r)
    PROVE  /\ \A x \in Slots : CountOK(slots'[x], x, reqs', up', rands')
           /\ Thirds(reqs', up', rands')
<1>1. PICK ok \in BOOLEAN : /\ ConfirmFor(r, ok) /\ slots' = AfterConfirm(r.h, ok)
                            /\ rands' = rands
  BY ConfirmStepIs DEF ConfirmInv, ThreadsOK
<1>2. reqs' = reqs \ {r} /\ up' = up
  BY <1>1 DEF ConfirmFor
<1>3. \A d, x, n : Third(reqs', up', d, x, n) => Third(reqs, up, d, x, n)
  BY <1>2 DEF Third
<1>4. ASSUME NEW s \in Slots PROVE CountOK(slots'[s], s, reqs', up', rands')
  <2> DEFINE c == slots[s]
             q == Confirmed(c, r.h, ok)
  <2>1. slots'[s] = q
    BY <1>1 DEF AfterConfirm
  <2>2. c \in SlotRecords /\ CountOK(c, s, reqs, up, rands)
    BY DEF TypeOK, CountsOK
  <2> HIDE DEF c
  <2>3. CASE MatchesOnly(c, r.h)
    <3> DEFINE st == IF ok THEN AfterSuccess(c.state) ELSE "free"
    <3>1. q = [c EXCEPT !.pending = 0, !.state = st]
      BY <2>3 DEF Confirmed, MatchesOnly, MatchesEarlier, MatchesLater
    <3>2. (st = "wait2" => c.state = "sent1") /\ st \notin {"sent1", "sent3"}
      BY DEF AfterSuccess
    <3> HIDE DEF st, q
    <3>3. /\ q.pending = 0 /\ q.state = st /\ q.addr = c.addr /\ q.randS = c.randS
          /\ q.msg = c.msg
      BY <2>2, <3>1 DEF SlotRecords
    <3>4. CountOK(q, s, reqs', up', rands')
      BY <1>1, <1>3, <2>2, <3>2, <3>3 DEF CountOK
    <3> QED  BY <2>1, <3>4
  <2>4. CASE MatchesEarlier(c, r.h) \/ MatchesLater(c, r.h)
    <3>1. /\ q \in {[c EXCEPT !.pending = 1], [c EXCEPT !.pending = 1, !.tx = c.ptx]}
          /\ c.pending = 2
      BY <2>4 DEF Confirmed, MatchesOnly, MatchesEarlier, MatchesLater
    <3> HIDE DEF q
    <3>2. /\ q.pending = 1 /\ q.state = c.state /\ q.addr = c.addr /\ q.randS = c.randS
          /\ q.msg = c.msg
      BY <2>2, <3>1 DEF SlotRecords
    <3>3. c.state \notin {"wait2", "wait4", "sent1"}
      BY <2>2, <3>1 DEF CountOK
    <3>4. CountOK(q, s, reqs', up', rands')
      BY <1>1, <2>2, <3>2, <3>3 DEF CountOK
    <3> QED  BY <2>1, <3>4
  <2>5. CASE ~Matches(c, r.h)
    <3>1. q = c
      BY <2>5 DEF Confirmed, Matches
    <3> HIDE DEF q
    <3>2. ASSUME c.state = "sent3", c.pending = 2
          PROVE  \E v \in reqs' : /\ v.slot = s /\ v.h = c.ptx /\ v.msg.dev = c.addr
                                  /\ \A n : Third(reqs', up', c.addr, c.randS, n) => v.n < n
      <4>1. PICK v \in reqs : /\ v.slot = s /\ v.h = c.ptx /\ v.msg.dev = c.addr
                              /\ \A n : Third(reqs, up, c.addr, c.randS, n) => v.n < n
        BY <2>2, <3>2 DEF CountOK
      <4>2. v # r
        BY <2>5, <3>2, <4>1 DEF Matches, MatchesEarlier
      <4> QED  BY <1>2, <1>3, <4>1, <4>2
    <3>3. CountOK(c, s, reqs', up', rands')
      BY <1>1, <1>3, <2>2, <3>2 DEF CountOK
    <3> QED  BY <2>1, <3>1, <3>3
  <2> QED  BY <2>3, <2>4, <2>5 DEF Matches
<1> QED  BY <1>1, <1>3, <1>4 DEF CountsOK, Thirds

(* And bs_process, which sends again only when nothing is pending. *)
LEMMA BsProcessCounts ==
    ASSUME TypeOK, TypeOK', [Next]_vars, ConfirmInv, OneSlotPerDevice', CountsOK,
           NEW s \in Slots, BsProcess(s)
    PROVE  /\ \A x \in Slots : CountOK(slots'[x], x, reqs', up', rands')
           /\ Thirds(reqs', up', rands')
<1>1. slots[s] \in SlotRecords /\ slots \in [Slots -> SlotRecords] /\ rands \in Nat
  BY DEF TypeOK
<1>2. up' = up /\ rands' = rands
  BY DEF BsProcess, CheckSlot, ResendSlot, ResetSlot
<1>3. ASSUME reqs' = reqs, AllCalm(slots', slots)
      PROVE  /\ \A x \in Slots : CountOK(slots'[x], x, reqs', up', rands')
             /\ Thirds(reqs', up', rands')
  <2>1. StillSent(reqs, reqs')
    BY <1>3 DEF StillSent
  <2> QED  BY <1>1, <1>2, <1>3, <2>1, CalmCounts DEF AllCalm
<1>4. AllCalm(slots, slots)
  BY DEF AllCalm, Calm
<1>5. CASE CheckSlot(s)
  BY <1>3, <1>4, <1>5 DEF CheckSlot
<1>6. CASE ResetSlot(s)
  BY <1>1, <1>3, <1>4, <1>6, AbortCalm DEF ResetSlot
<1>7. CASE ResendSlot(s)
  <2> DEFINE st == BackToSent(slots[s].state)
             r == [slots[s] EXCEPT !.attempts = 1, !.state = st]
  <2>1. /\ thread["main"] = Doing("resend", s)
        /\ IF r.msg.kind # "none" THEN SendFrom(s, r)
           ELSE slots' = [slots EXCEPT ![s] = r] /\ UNCHANGED <<reqs, sent>>
    BY <1>7 DEF ResendSlot
  <2>2. /\ st \in States /\ st \notin {"wait2", "wait4"}
        /\ st = "sent1" => slots[s].state \in {"sent1", "wait2"}
    <3>1. \A x \in States : /\ BackToSent(x) \in States
                            /\ BackToSent(x) \notin {"wait2", "wait4"}
                            /\ BackToSent(x) = "sent1" => x \in {"sent1", "wait2"}
      BY DEF BackToSent, States
    <3> QED  BY <1>1, <3>1 DEF SlotRecords
  <2> HIDE DEF st
  <2>3. /\ r \in SlotRecords /\ r.state = st /\ r.msg = slots[s].msg
        /\ r.addr = slots[s].addr /\ r.randS = slots[s].randS
        /\ r.pending = slots[s].pending
    BY <1>1, <2>2 DEF SlotRecords
  <2> HIDE DEF r
  <2>4. SlotOK(slots[s], s, reqs) /\ CountOK(slots[s], s, reqs, up, rands)
    BY DEF ConfirmInv, SlotsOK, CountsOK
  <2>5. r.pending = 0
    BY <2>1, <2>3 DEF CountsOK
  <2>6. st = "sent1" => /\ r.msg.kind \in {"none", "msg1"} /\ r.randS < rands
                        /\ \A n : ~Third(reqs, up, r.addr, r.randS, n)
    BY <2>2, <2>3, <2>4 DEF CountOK
  <2>7. r.msg.kind = "msg3" => r.msg.rand < rands
    BY <2>3, <2>4 DEF CountOK
  <2>8. CASE r.msg.kind # "none"
    <3>1. SendFrom(s, r) /\ r.msg.dev = r.addr
      BY <2>1, <2>3, <2>4, <2>8 DEF SlotOK
    <3>2. MaySend(s, r, rands')
      BY <1>2, <2>2, <2>3, <2>5, <2>6, <2>7, <3>1 DEF MaySend
    <3>3. ~Network
      <4>1. sent' = sent + 1 /\ sent \in Nat
        BY <3>1 DEF SendFrom, TypeOK
      <4> QED  BY <4>1, NetworkSends
    <3> QED  BY <1>1, <1>2, <3>1, <3>2, <3>3, SendsCounts DEF ConfirmInv
  <2>9. CASE r.msg.kind = "none"
    <3>1. slots' = [slots EXCEPT ![s] = r] /\ reqs' = reqs
      BY <2>1, <2>9
    <3>2. CountOK(r, s, reqs, up, rands)
      BY <2>2, <2>3, <2>5, <2>6, <2>7 DEF CountOK
    <3> QED  BY <1>1, <1>2, <3>1, <3>2 DEF CountsOK, Thirds
  <2> QED  BY <2>8, <2>9
<1> QED  BY <1>5, <1>6, <1>7 DEF BsProcess

(* What bs_process is about to send again, and the blacklist. *)
LEMMA ResendsStep ==
    ASSUME "rekey" \notin Api, "preempt" \notin Env, TypeOK, ConfirmInv, CountsOK, [Next]_vars
    PROVE  /\ \A s \in Slots : thread'["main"] = Doing("resend", s) => slots'[s].pending = 0
           /\ "blacklist" \notin Api => blacklist' = <<>>
<1>1. thread \in [{"main", "usi"} -> ThreadRecords]
  BY DEF TypeOK
<1>2. \A x : Doing("resend", x).op = "resend" /\ Doing("resend", x).slot = x
  BY DEF Doing, Idle
<1>3. blacklist' # blacklist => "blacklist" \in Api
  <2>1. ASSUME NEW d \in Devices, Indication(d) PROVE blacklist' = blacklist
    BY <2>1 DEF Indication, JoiningNoSlot, JoiningDeclined, JoiningNew, JoiningRepeated, HandleT1,
                HandleT3, HandleBadRandS, KickFromLbd, HandleUnexpected, JoiningFrom, Receives
  <2>2. ASSUME NEW r \in reqs, ConfirmStep(r) PROVE blacklist' = blacklist
    BY <2>2 DEF ConfirmStep, ConfirmProgress, ConfirmJoin, ConfirmRekeyNext, ConfirmRekeyPhase,
                ConfirmRekeyEnd, ConfirmFor
  <2>3. ASSUME NEW s \in Slots, BsProcess(s) PROVE blacklist' = blacklist
    BY <2>3 DEF BsProcess, CheckSlot, ResendSlot, ResetSlot
  <2>4. ASSUME ApiStep PROVE blacklist' # blacklist => "blacklist" \in Api
    BY <2>4 DEF ApiStep, LaunchRekeying, KickDevice, ApiCall, SetDeviceList,
                SetInitialShortAddress, AddDeviceToBlacklist
  <2>5. ASSUME Network PROVE blacklist' = blacklist
    BY <2>5 DEF Network, Deliver, LoseConfirm, LoseReply, DelayT3, Leave, coordVars
  <2> QED  BY <2>1, <2>2, <2>3, <2>4, <2>5 DEF Next, RekeySend, KickSend, vars, coordVars
<1>4. ASSUME NEW s \in Slots, thread'["main"] = Doing("resend", s) PROVE slots'[s].pending = 0
  <2>1. ASSUME thread' = thread, slots' = slots PROVE slots'[s].pending = 0
    BY <1>4, <2>1 DEF CountsOK
  <2>2. ASSUME thread' = thread PROVE ~UsiRuns
    BY <1>2, <1>4, <2>2 DEF UsiRuns
  <2>3. ASSUME NEW d \in Devices, Indication(d) PROVE UsiRuns /\ thread' = thread
    BY <2>3 DEF Indication, JoiningNoSlot, JoiningDeclined, JoiningNew, JoiningRepeated, HandleT1,
                HandleT3, HandleBadRandS, KickFromLbd, HandleUnexpected, JoiningFrom, Receives
  <2>4. ASSUME NEW r \in reqs, ConfirmStep(r) PROVE UsiRuns /\ thread' = thread
    BY <2>4, ConfirmStepIs DEF ConfirmInv, ThreadsOK, ConfirmFor
  <2>5. ASSUME NEW x \in Slots, BsProcess(x) PROVE slots'[s].pending = 0
    <3>1. CASE CheckSlot(x)
      <4>1. /\ thread' = [thread EXCEPT !["main"] =
                  Doing(IF slots[x].pending # 0 THEN "never"
                        ELSE IF slots[x].attempts < 1 THEN "resend" ELSE "reset", x)]
            /\ slots' = slots
        BY <3>1 DEF CheckSlot
      <4>2. thread'["main"] = Doing(IF slots[x].pending # 0 THEN "never"
                        ELSE IF slots[x].attempts < 1 THEN "resend" ELSE "reset", x)
        BY <1>1, <4>1
      <4>3. \A op : Doing(op, x).op = op /\ Doing(op, x).slot = x
        BY DEF Doing, Idle
      <4>4. x = s
        BY <1>2, <1>4, <4>2, <4>3
      <4>5. CASE slots[x].pending # 0
        BY <1>2, <1>4, <4>2, <4>3, <4>5
      <4> QED  BY <4>1, <4>4, <4>5
    <3>2. CASE ResendSlot(x) \/ ResetSlot(x)
      <4>1. thread'["main"] = Idle
        BY <1>1, <3>2 DEF ResendSlot, ResetSlot
      <4> QED  BY <1>2, <1>4, <4>1 DEF Idle
    <3> QED  BY <2>5, <3>1, <3>2 DEF BsProcess
  <2>6. ASSUME NEW t \in {"main", "usi"} PROVE ~RekeySend(t)
    BY DEF RekeySend, ConfirmInv, ThreadsOK, NoRekeying
  <2>7. ~KickSend
    <3> SUFFICES ASSUME KickSend PROVE FALSE
      OBVIOUS
    <3>1. thread'["main"] = Idle
      BY <1>1 DEF KickSend
    <3> QED  BY <1>2, <1>4, <3>1 DEF Idle
  <2>8. CASE ApiStep
    <3>1. CASE \E a : KickDevice(a)
      <4>1. thread'["main"].op = "kick"
        BY <1>1, <3>1 DEF KickDevice, Doing, Idle
      <4> QED  BY <1>2, <1>4, <4>1
    <3>2. CASE ~\E a : KickDevice(a)
      <4>1. thread' = thread /\ slots' = slots
        BY <2>8, <3>2 DEF ApiStep, LaunchRekeying, ApiCall, SetDeviceList,
                          SetInitialShortAddress, AddDeviceToBlacklist
      <4> QED  BY <2>1, <4>1
    <3> QED  BY <3>1, <3>2
  <2>9. CASE Network \/ UNCHANGED vars
    BY <2>1, <2>9 DEF Network, Deliver, LoseConfirm, LoseReply, DelayT3, Leave, vars, coordVars
  <2> QED  BY <2>2, <2>3, <2>4, <2>5, <2>6, <2>7, <2>8, <2>9 DEF Next
<1> QED  BY <1>3, <1>4 DEF CountsOK

(* Every step. *)
LEMMA CountsStep ==
    ASSUME "rekey" \notin Api, "preempt" \notin Env, "drop" \notin Env, "overrun" \notin Env,
           "randp" \notin Env, "restart" \notin Env \/ "blacklist" \notin Api
    PROVE  TypeOK /\ TypeOK' /\ ConfirmInv /\ OneSlotPerDevice' /\ CountsOK /\ [Next]_vars
           => CountsOK'
<1> SUFFICES ASSUME TypeOK, TypeOK', ConfirmInv, OneSlotPerDevice', CountsOK, [Next]_vars
             PROVE  /\ \A x \in Slots : CountOK(slots'[x], x, reqs', up', rands')
                    /\ Thirds(reqs', up', rands')
  BY ResendsStep DEF CountsOK, Thirds
<1>1. rands \in Nat /\ AllCalm(slots, slots)
  BY DEF TypeOK, AllCalm, Calm
<1>2. ASSUME rands' = rands, StillSent(reqs, reqs'), AllCalm(slots', slots),
             \A d, x, n : Third(reqs', up', d, x, n) => Third(reqs, up, d, x, n)
      PROVE  /\ \A x \in Slots : CountOK(slots'[x], x, reqs', up', rands')
             /\ Thirds(reqs', up', rands')
  BY <1>1, <1>2, CalmCounts DEF AllCalm
<1>3. ASSUME ~Network, rands' = rands, reqs' = reqs, AllCalm(slots', slots)
      PROVE  /\ \A x \in Slots : CountOK(slots'[x], x, reqs', up', rands')
             /\ Thirds(reqs', up', rands')
  <2>1. \A d, x, n : Third(reqs', up', d, x, n) => Third(reqs, up, d, x, n)
    BY <1>3, ThirdKept
  <2> QED  BY <1>2, <1>3, <2>1 DEF StillSent
<1>4. CASE Network
  <2>1. slots' = slots /\ rands' = rands
    BY <1>4 DEF Network, Deliver, LoseConfirm, LoseReply, DelayT3, Leave, coordVars
  <2>2. ASSUME NEW r \in reqs, Deliver(r) PROVE StillSent(reqs, reqs')
    BY <2>2, DeliverRequests DEF ConfirmInv
  <2>3. StillSent(reqs, reqs')
    BY <1>4, <2>2 DEF Network, LoseConfirm, LoseReply, DelayT3, Leave, StillSent
  <2>4. \A d, x, n : Third(reqs', up', d, x, n) => Third(reqs, up, d, x, n)
    BY <1>4, NetworkThird
  <2> QED  BY <1>1, <1>2, <2>1, <2>3, <2>4
<1>5. CASE ~Network
  <2>1. ASSUME NEW d \in Devices, Indication(d)
        PROVE  /\ \A x \in Slots : CountOK(slots'[x], x, reqs', up', rands')
               /\ Thirds(reqs', up', rands')
    BY <1>3, <1>5, <2>1, SilentCalm, JoinCounts, ReplyCounts, NoBadRandS DEF Indication
  <2>2. ASSUME NEW s \in Slots, BsProcess(s)
        PROVE  /\ \A x \in Slots : CountOK(slots'[x], x, reqs', up', rands')
               /\ Thirds(reqs', up', rands')
    BY <2>2, BsProcessCounts
  <2>3. ASSUME NEW t \in {"main", "usi"} PROVE ~RekeySend(t)
    BY DEF RekeySend, ConfirmInv, ThreadsOK, NoRekeying
  <2>4. CASE KickSend
    <3> DEFINE new == Request(NoSlot, Msg("kick", thread["main"].dev, 0, NoShort, 0))
    <3>1. /\ reqs' = reqs \cup {new} /\ slots' = slots /\ rands' = rands /\ up' = up
      BY <2>4 DEF KickSend
    <3>2. new.msg.kind = "kick"
      BY DEF Request, Msg
    <3> HIDE DEF new
    <3>3. \A d, x, n : Third(reqs', up', d, x, n) => Third(reqs, up, d, x, n)
      BY <3>1, <3>2 DEF Third
    <3> QED  BY <1>1, <1>2, <3>1, <3>3 DEF StillSent
  <2>5. CASE ApiStep
    <3>1. slots' = slots /\ reqs' = reqs /\ rands' = rands
      BY <2>5 DEF ApiStep, LaunchRekeying, ApiCall, KickDevice, SetDeviceList,
                  SetInitialShortAddress, AddDeviceToBlacklist
    <3> QED  BY <1>1, <1>3, <1>5, <3>1
  <2>6. CASE UNCHANGED vars
    BY <1>1, <1>3, <1>5, <2>6 DEF vars, coordVars
  <2> QED  BY <1>5, <2>1, <2>2, <2>3, <2>4, <2>5, <2>6, ConfirmCounts DEF Next
<1> QED  BY <1>4, <1>5

LEMMA CountsInit == Init => CountsOK
<1> SUFFICES ASSUME Init PROVE CountsOK
  OBVIOUS
<1>1. /\ FreshSlot.state = "free" /\ FreshSlot.pending = 0 /\ FreshSlot.msg.kind = "none"
  BY DEF FreshSlot, NoMsg, Msg
<1>2. \A s \in Slots : CountOK(slots[s], s, reqs, up, rands)
  BY <1>1 DEF Init, CountOK
<1>3. \A d, x, n : ~Third(reqs, up, d, x, n)
  BY DEF Init, Third
<1>4. Idle.op = "idle" /\ \A s : Doing("resend", s).op = "resend"
  BY DEF Idle, Doing
<1> QED  BY <1>2, <1>3, <1>4 DEF Init, CountsOK

(* While the application never asks for a rekeying, nor blacklists devices *)
(* that start over, bs_process is not interrupted, devices draw a new      *)
(* RandP each time, confirms are neither lost nor later than the next use  *)
(* of their handles, and no reply precedes the confirm of the request      *)
(* before the one it answers, a slot never waits for a confirm that cannot *)
(* come any more: it never counts a third request, and the ADP still has   *)
(* the one or two it counts, however late, lost or repeated the messages   *)
(* of the exchanges are.                                                   *)
THEOREM AwaitedComes ==
    ASSUME "rekey" \notin Api, "preempt" \notin Env, "drop" \notin Env, "overrun" \notin Env,
           "randp" \notin Env, "restart" \notin Env \/ "blacklist" \notin Api
    PROVE  Spec /\ []ConfirmsInTime => []AwaitedConfirmComes
<1>1. TypeOK /\ ConfirmInv /\ CountsOK => AwaitedConfirmComes
  <2>1. SUFFICES ASSUME TypeOK, ConfirmInv, CountsOK, NEW s \in Slots
                 PROVE  \/ slots[s].pending = 0
                        \/ /\ slots[s].pending = 1
                           /\ \E r \in reqs : r.slot = s /\ r.h = slots[s].tx
                        \/ /\ slots[s].pending = 2
                           /\ \E r, q \in reqs : r.slot = s /\ r.h = slots[s].tx
                                               /\ q.slot = s /\ q.h = slots[s].ptx /\ q # r
    BY DEF AwaitedConfirmComes
  <2>2. SlotOK(slots[s], s, reqs) /\ \A r \in reqs : r.n \in Nat
    BY <2>1 DEF ConfirmInv, SlotsOK, TypeOK, Requests
  <2>3. slots[s].pending \in {0, 1, 2}
    <3>1. slots[s].pending =< 2
      BY <2>1 DEF CountsOK, CountOK
    <3>2. slots[s].pending \in Nat
      BY <2>1 DEF TypeOK, SlotRecords
    <3> QED  BY <3>1, <3>2
  <2>4. \A r, q \in reqs : q.n < r.n => q # r
    BY <2>2
  <2> QED  BY <2>1, <2>2, <2>3, <2>4 DEF SlotOK
<1>2. TypeOK /\ ConfirmsInTime /\ ConfirmInv /\ [Next]_vars => ConfirmInv'
  BY ConfirmStepInv
<1>3. TypeOK /\ TypeOK' /\ ConfirmInv /\ OneSlotPerDevice' /\ CountsOK /\ [Next]_vars
      => CountsOK'
  BY CountsStep
<1> QED  BY <1>1, <1>2, <1>3, InitType, TypeStep, ConfirmInit, CountsInit, OneSlotCorrect, PTL
         DEF Spec
=============================================================================
