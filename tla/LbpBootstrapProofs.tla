------------------------ MODULE LbpBootstrapProofs ------------------------
(***************************************************************************)
(* Theorems about LbpBootstrap for every set of devices, table size,       *)
(* number of slots and environment.                                        *)
(***************************************************************************)
EXTENDS LbpBootstrap, LbdListProofs

RekeyRecords == [on : BOOLEAN, phase : {"distribute", "activate"}, idx : Cells]

-----------------------------------------------------------------------------
(* The helpers of the actions return what their types say *)

(* Slot numbers are natural numbers. *)
LEMMA SlotsAreNaturals == Slots \in SUBSET Nat /\ Slots \in SUBSET (0 .. NumSlots)
  BY LbpAssumption DEF Slots

(* get_bootstrap_slot_by_addr returns a slot, one that was last used for   *)
(* the device if there is any, and otherwise a free one.                   *)
LEMMA SlotForIn ==
    ASSUME NEW ss, NEW d, HasSlot(ss, d)
    PROVE  /\ SlotFor(ss, d) \in Slots
           /\ ss[SlotFor(ss, d)].addr # d =>
                 /\ ss[SlotFor(ss, d)].state = "free"
                 /\ \A s \in Slots : ss[s].addr # d
<1>1. SlotsFor(ss, d) \in SUBSET Nat /\ SlotsFor(ss, d) \in SUBSET Slots
  BY SlotsAreNaturals DEF SlotsFor
<1>2. SlotFor(ss, d) \in SlotsFor(ss, d)
  BY <1>1, MinIn DEF HasSlot, SlotFor
<1> QED  BY <1>1, <1>2 DEF SlotsFor

(* A confirm that finishes a join has a current slot. *)
LEMMA CurrentIn ==
    ASSUME NEW h, NEW ok, JoinFinished(h, ok)
    PROVE  Current(h) \in Slots
<1>1. Matched(h) \in SUBSET (0 .. NumSlots) /\ Matched(h) # {}
  BY SlotsAreNaturals DEF Matched, Matches, JoinFinished
<1>2. Current(h) \in Matched(h)
  BY <1>1, MaxIn, LbpAssumption DEF Current
<1> QED  BY <1>2 DEF Matched

(* A message built from well-typed parts is a message. *)
LEMMA MsgType ==
    ASSUME NEW kind \in Kinds, NEW d \in Devices \cup {NoDevice}, NEW rand \in Nat,
           NEW short \in Nat \cup {NoShort}, NEW key \in KeyIds
    PROVE  Msg(kind, d, rand, short, key) \in Messages
  BY DEF Msg, Messages

(* The empty buffer is a message. *)
LEMMA NoMsgType == NoMsg \in Messages
  BY MsgType DEF NoMsg, Kinds, KeyIds

(* Members of the types that the helpers assign. *)
LEMMA Constants ==
    /\ "free" \in States
    /\ 0 \in 0 .. Handles - 1 /\ 1 \in 0 .. Handles - 1
    /\ \A state : AfterSuccess(state) \in States
  BY DEF States, Handles, AfterSuccess

(* The bookkeeping of a request keeps a slot a slot. *)
LEMMA TransmitType ==
    ASSUME NEW r \in SlotRecords, sent \in Nat
    PROVE  Transmit(r) \in SlotRecords
<1>1. NextHandle \in 0 .. Handles - 1
  BY DEF NextHandle, Handles
<1>2. (r.pending + 1) % Handles \in 0 .. Handles - 1
  BY DEF SlotRecords, Handles
<1>3. /\ r.state \in States /\ r.addr \in Devices \cup {NoDevice, Unset}
      /\ r.short \in Nat /\ r.randS \in Nat /\ r.msg \in Messages
      /\ r.tx \in 0 .. Handles - 1 /\ r.ptx \in 0 .. Handles - 1
      /\ r.attempts \in {0, 1}
  BY DEF SlotRecords
<1> QED  BY <1>1, <1>2, <1>3 DEF Transmit, SlotRecords

(* Sending from a slot is type correct. *)
LEMMA SendFromType ==
    ASSUME TypeOK, NEW s \in Slots, NEW r \in SlotRecords, SendFrom(s, r)
    PROVE  /\ slots' \in [Slots -> SlotRecords]
           /\ reqs' \subseteq Requests
           /\ sent' \in Nat
<1>1. Transmit(r) \in SlotRecords
  BY TransmitType DEF TypeOK
<1>2. slots' \in [Slots -> SlotRecords]
  BY <1>1 DEF SendFrom, TypeOK
<1>3. NextHandle \in 0 .. Handles - 1
  BY DEF NextHandle, Handles, TypeOK
<1>4. r.msg \in Messages
  BY DEF SlotRecords
<1>5. Request(s, r.msg) \in Requests
  BY <1>3, <1>4 DEF Request, Requests, TypeOK
<1> QED  BY <1>2, <1>5 DEF SendFrom, TypeOK

(* So is the first attempt to send. *)
LEMMA SendFirstType ==
    ASSUME TypeOK, NEW s \in Slots, NEW r \in SlotRecords, SendFirst(s, r)
    PROVE  /\ slots' \in [Slots -> SlotRecords]
           /\ reqs' \subseteq Requests
           /\ sent' \in Nat
<1>1. [r EXCEPT !.attempts = 0] \in SlotRecords
  BY DEF SlotRecords
<1> QED  BY <1>1, SendFromType DEF SendFirst

(* A new exchange fills a slot with values of its types. *)
LEMMA ChallengeType ==
    ASSUME NEW r \in SlotRecords, NEW d \in Devices \cup {NoDevice}, rands \in Nat
    PROVE  Challenge(r, d) \in SlotRecords
<1>1. Msg("msg1", d, rands, NoShort, 0) \in Messages
  BY MsgType DEF Kinds, KeyIds
<1> QED  BY <1>1 DEF Challenge, SlotRecords, States

(* Giving an exchange up does too. *)
LEMMA AbortType ==
    ASSUME NEW r \in SlotRecords
    PROVE  Abort(r) \in SlotRecords
  BY Constants DEF Abort, SlotRecords

(* So does emptying the buffer of a slot. *)
LEMMA ClearType ==
    ASSUME NEW ss \in [Slots -> SlotRecords], NEW d
    PROVE  Clear(ss, d) \in [Slots -> SlotRecords]
<1>1. CASE ~HasSlot(ss, d)
  BY <1>1 DEF Clear
<1>2. CASE HasSlot(ss, d)
  <2>1. SlotFor(ss, d) \in Slots
    BY <1>2, SlotForIn
  <2>2. [ss[SlotFor(ss, d)] EXCEPT !.msg = NoMsg] \in SlotRecords
    BY <2>1, NoMsgType DEF SlotRecords
  <2> QED  BY <1>2, <2>1, <2>2 DEF Clear
<1> QED  BY <1>1, <1>2

(* A confirm leaves a slot a slot, whichever handle it matches. *)
LEMMA ConfirmedType ==
    ASSUME NEW r \in SlotRecords, NEW h, NEW ok \in BOOLEAN
    PROVE  Confirmed(r, h, ok) \in SlotRecords
<1>2. CASE MatchesOnly(r, h)
  <2> DEFINE st == IF ok THEN AfterSuccess(r.state) ELSE "free"
  <2>1. Confirmed(r, h, ok) = [r EXCEPT !.pending = 0, !.state = st]
    BY <1>2 DEF Confirmed, MatchesOnly, MatchesEarlier, MatchesLater
  <2>2. st \in States
    BY Constants
  <2> HIDE DEF st
  <2> QED  BY <2>1, <2>2, Constants DEF SlotRecords
<1>3. CASE ~MatchesOnly(r, h) /\ MatchesEarlier(r, h)
  <2>1. Confirmed(r, h, ok) = [r EXCEPT !.pending = 1]
    BY <1>3 DEF Confirmed, MatchesOnly, MatchesEarlier
  <2> QED  BY <2>1, Constants DEF SlotRecords
<1>4. CASE MatchesLater(r, h) /\ ~MatchesEarlier(r, h)
  <2>1. Confirmed(r, h, ok) = [r EXCEPT !.pending = 1, !.tx = r.ptx]
    BY <1>4 DEF Confirmed, MatchesOnly, MatchesLater
  <2> QED  BY <2>1, Constants DEF SlotRecords
<1>5. CASE ~Matches(r, h)
  <2>1. Confirmed(r, h, ok) = r
    BY <1>5 DEF Confirmed, Matches
  <2> QED  BY <2>1
<1> QED  BY <1>2, <1>3, <1>4, <1>5 DEF Matches

(* And so does the whole of AdpNotification_LbpConfirm on the slots. *)
LEMMA AfterConfirmType ==
    ASSUME slots \in [Slots -> SlotRecords], NEW h, NEW ok \in BOOLEAN
    PROVE  AfterConfirm(h, ok) \in [Slots -> SlotRecords]
  BY ConfirmedType DEF AfterConfirm

(* What a thread is in the middle of is recorded with its type. *)
LEMMA DoingType ==
    ASSUME NEW op \in {"idle", "resend", "reset", "never", "rekey", "kick"},
           NEW s \in Slots
    PROVE  Doing(op, s) \in ThreadRecords
  BY DEF Doing, Idle, ThreadRecords

(* An idle thread is recorded with its type too. *)
LEMMA IdleType == Idle \in ThreadRecords
  BY LbpAssumption DEF Idle, ThreadRecords, Slots

(* rekeying_process is type correct. *)
LEMMA RekeyingProcessType ==
    ASSUME TypeOK, NEW t \in {"main", "usi"}, NEW ss \in [Slots -> SlotRecords],
           NEW rk \in RekeyRecords, NEW timer, RekeyingProcess(t, ss, rk, timer)
    PROVE  /\ slots' \in [Slots -> SlotRecords]
           /\ rekey' \in RekeyRecords
           /\ rands' \in Nat
           /\ thread' \in [{"main", "usi"} -> ThreadRecords]
<1> DEFINE d == list.ext[rk.idx]
           s == SlotFor(ss, d)
<1>1. d \in Devices \cup {NoDevice}
  BY DEF TypeOK, Lists, RekeyRecords
<1>2. rekey' = rk
  BY DEF RekeyingProcess
<1>3. CASE ~HasSlot(ss, d)
  BY <1>2, <1>3 DEF RekeyingProcess, TypeOK
<1>4. CASE HasSlot(ss, d)
  <2>1. s \in Slots
    BY <1>4, SlotForIn
  <2>2. OtherKey \in KeyIds /\ rands \in Nat
    BY DEF OtherKey, KeyIds, TypeOK
  <2>3. Challenge(ss[s], d) \in SlotRecords
    BY <1>1, <2>1, <2>2, ChallengeType
  <2>4. Msg("activate", d, 0, NoShort, OtherKey) \in Messages
    BY <1>1, <2>2, MsgType DEF Kinds
  <2>5. [ss[s] EXCEPT !.state = "accepted",
                      !.msg = Msg("activate", d, 0, NoShort, OtherKey)] \in SlotRecords
    BY <2>1, <2>4 DEF SlotRecords, States
  <2>6. Doing("rekey", s) \in ThreadRecords
    BY <2>1, DoingType
  <2>7. [Doing("rekey", s) EXCEPT !.timed = (s = timer)] \in ThreadRecords
    BY <2>6 DEF ThreadRecords
  <2> HIDE DEF d, s
  <2>8. slots' \in [Slots -> SlotRecords]
    BY <1>4, <2>1, <2>3, <2>5 DEF RekeyingProcess, d, s
  <2>9. thread' \in [{"main", "usi"} -> ThreadRecords]
    BY <1>4, <2>7 DEF RekeyingProcess, TypeOK, d, s
  <2>10. rands' \in Nat
    BY <1>4, <2>2 DEF RekeyingProcess, d
  <2> QED  BY <1>2, <2>8, <2>9, <2>10
<1> QED  BY <1>3, <1>4

(* The stimuli stay within their bound. *)
LEMMA StimulusType == TypeOK /\ Stimulus => stimuli' \in 0 .. MaxStimuli
  BY LbpAssumption DEF TypeOK, Stimulus

(* A joining request is consumed type correctly. *)
LEMMA JoiningFromType ==
    ASSUME TypeOK, NEW d \in Devices, JoiningFrom(d)
    PROVE  /\ blacklist' \in Seq(Devices) /\ rekey' \in RekeyRecords
           /\ keyIndex' \in KeyIds
           /\ thread' \in [{"main", "usi"} -> ThreadRecords]
           /\ up' \in [Devices -> Seq(UpMsgs)]
           /\ dev' \in [Devices -> DeviceRecords]
           /\ stimuli' \in 0 .. MaxStimuli
<1>1. [dev[d] EXCEPT !.stage = "idle", !.short = NoShort] \in DeviceRecords
  BY DEF TypeOK, DeviceRecords
<1> QED  BY <1>1, StimulusType DEF JoiningFrom, TypeOK, RekeyRecords

(* So is a message of an exchange. *)
LEMMA ReceivesType ==
    ASSUME TypeOK, NEW d \in Devices, NEW type, Receives(d, type)
    PROVE  /\ blacklist' \in Seq(Devices) /\ rekey' \in RekeyRecords
           /\ keyIndex' \in KeyIds /\ rands' \in Nat
           /\ thread' \in [{"main", "usi"} -> ThreadRecords]
           /\ up' \in [Devices -> Seq(UpMsgs)]
           /\ dev' \in [Devices -> DeviceRecords]
           /\ stimuli' \in 0 .. MaxStimuli
           /\ Head(up[d]) \in UpMsgs
<1>1. up[d] \in Seq(UpMsgs) /\ up[d] # <<>>
  BY DEF Receives, TypeOK
<1>2. Head(up[d]) \in UpMsgs /\ Tail(up[d]) \in Seq(UpMsgs)
  BY <1>1
<1> QED  BY <1>2 DEF Receives, TypeOK, RekeyRecords

(* A confirm consumes its request and nothing else. *)
LEMMA ConfirmForType ==
    ASSUME TypeOK, NEW r \in reqs, NEW ok, ConfirmFor(r, ok)
    PROVE  /\ blacklist' \in Seq(Devices)
           /\ reqs' \subseteq Requests /\ sent' \in Nat
           /\ up' \in [Devices -> Seq(UpMsgs)]
           /\ dev' \in [Devices -> DeviceRecords]
           /\ stimuli' \in 0 .. MaxStimuli
  BY DEF ConfirmFor, TypeOK

(* A device that gets a message stays a device. *)
LEMMA LearnType ==
    ASSUME NEW v \in DeviceRecords, NEW m \in Messages
    PROVE  Learn(v, m) \in DeviceRecords
<1>1. /\ m.rand \in Nat /\ m.short \in Nat \cup {NoShort} /\ m.key \in KeyIds
  BY DEF Messages
<1>2. /\ v.short \in Nat \cup {NoShort} /\ v.offer \in Nat \cup {NoShort}
      /\ v.key \in KeyIds /\ v.keys \subseteq KeyIds /\ v.active \in KeyIds
  BY DEF DeviceRecords
<1>3. CASE m.kind = "msg1"
  BY <1>1, <1>3 DEF Learn, DeviceRecords
<1>4. CASE m.kind = "msg3"
  BY <1>1, <1>4 DEF Learn, DeviceRecords
<1>5. CASE m.kind = "accepted"
  <2>1. v.keys \cup {v.key} \subseteq KeyIds /\ {v.key} \subseteq KeyIds
    BY <1>2
  <2>2. CASE v.stage # "msg3"
    BY <1>5, <2>2 DEF Learn
  <2>3. CASE v.stage = "msg3" /\ v.offer = NoShort
    <3>1. Learn(v, m) = [v EXCEPT !.stage = "idle", !.keys = v.keys \cup {v.key}]
      BY <1>5, <2>3 DEF Learn
    <3> QED  BY <2>1, <3>1 DEF DeviceRecords
  <2>4. CASE v.stage = "msg3" /\ v.offer # NoShort
    <3>1. Learn(v, m) = [v EXCEPT !.stage = "idle", !.short = v.offer,
                                  !.keys = {v.key}, !.active = v.key]
      BY <1>5, <2>4 DEF Learn
    <3> QED  BY <1>2, <2>1, <3>1 DEF DeviceRecords
  <2> QED  BY <2>2, <2>3, <2>4
<1>6. CASE m.kind = "activate"
  BY <1>1, <1>2, <1>6 DEF Learn, DeviceRecords
<1>7. CASE m.kind = "decline"
  BY <1>7 DEF Learn, DeviceRecords
<1>8. CASE m.kind = "kick"
  BY <1>8 DEF Learn, DeviceRecords
<1>9. CASE m.kind \in {"none", "bare"}
  BY <1>9 DEF Learn
<1>10. m.kind \in Kinds
  BY DEF Messages
<1> QED  BY <1>3, <1>4, <1>5, <1>6, <1>7, <1>8, <1>9, <1>10 DEF Kinds

(* What it replies is a sequence of messages. *)
LEMMA ReplyType ==
    ASSUME NEW v, NEW r \in Requests
    PROVE  Reply(v, r) \in Seq(UpMsgs)
<1>1. r.n \in Int /\ r.msg.rand \in Nat
  BY DEF Requests, Messages
<1>2. \A type \in {"T1", "T3"} : UpMsg(type, r.msg.rand, r.n, 0) \in UpMsgs
  BY <1>1 DEF UpMsg, UpMsgs
<1> QED  BY <1>2 DEF Reply

-----------------------------------------------------------------------------
(* Type correctness *)

(* The initial state is type correct. *)
LEMMA InitType == Init => TypeOK
<1> SUFFICES ASSUME Init PROVE TypeOK
  OBVIOUS
<1>1. FreshSlot \in SlotRecords
  BY NoMsgType DEF FreshSlot, SlotRecords, States, Handles
<1>2. NewDevice \in DeviceRecords
  BY DEF NewDevice, DeviceRecords, KeyIds
<1>3. 0 \in Cells
  BY LbdListAssumption DEF Cells
<1> QED  BY <1>1, <1>2, <1>3, EmptyListType, IdleType, LbpAssumption DEF Init, TypeOK, KeyIds

(* Every ADP indication is type correct. *)
LEMMA IndicationType ==
    ASSUME TypeOK, NEW d \in Devices, Indication(d)
    PROVE  TypeOK'
<1>1. CASE JoiningNoSlot(d)
  BY <1>1, JoiningFromType DEF JoiningNoSlot, TypeOK, RekeyRecords
<1>2. CASE JoiningDeclined(d)
  <2> DEFINE s == SlotFor(slots, d)
             r == [slots[s] EXCEPT !.state = "declined", !.addr = d,
                                   !.msg = Msg("decline", d, 0, NoShort, 0)]
  <2>1. s \in Slots
    BY <1>2, SlotForIn DEF JoiningDeclined
  <2>2. Msg("decline", d, 0, NoShort, 0) \in Messages /\ "declined" \in States
    BY MsgType DEF Kinds, KeyIds, States
  <2>3. r \in SlotRecords
    <3>1. slots[s] \in SlotRecords
      BY <2>1 DEF TypeOK
    <3> HIDE DEF s
    <3> QED  BY <2>2, <3>1 DEF SlotRecords
  <2>4. SendFirst(s, r)
    BY <1>2 DEF JoiningDeclined
  <2> HIDE DEF s, r
  <2> QED  BY <1>2, <2>1, <2>3, <2>4, SendFirstType, JoiningFromType
              DEF JoiningDeclined, TypeOK, RekeyRecords
<1>3. CASE JoiningNew(d)
  <2> DEFINE s == SlotFor(slots, d)
             l == Forget(list, d)
             c == Challenge(slots[s], d)
             r == IF rekey.on THEN c ELSE [c EXCEPT !.short = NewAddress(l, d)]
  <2>1. s \in Slots
    BY <1>3, SlotForIn DEF JoiningNew
  <2>2. l \in Lists /\ Grow(l) \in Lists /\ NewAddress(l, d) \in Nat
    BY ForgetType, GrowType, NewAddressType DEF TypeOK
  <2>3. c \in SlotRecords
    BY <2>1, ChallengeType DEF TypeOK
  <2>4. r \in SlotRecords
    <3> HIDE DEF c, l
    <3> QED  BY <2>2, <2>3 DEF SlotRecords
  <2>5. SendFirst(s, r) /\ list' = IF rekey.on THEN list ELSE Grow(l)
    BY <1>3 DEF JoiningNew
  <2>6. rands' \in Nat
    BY <1>3 DEF JoiningNew, TypeOK
  <2>7. JoiningFrom(d)
    BY <1>3 DEF JoiningNew
  <2> HIDE DEF s, r, l, c
  <2>8. list' \in Lists
    BY <2>2, <2>5 DEF TypeOK
  <2> QED  BY <2>1, <2>4, <2>5, <2>6, <2>7, <2>8, SendFirstType, JoiningFromType
              DEF TypeOK, RekeyRecords
<1>4. CASE JoiningRepeated(d)
  <2>1. slots' \in [Slots -> SlotRecords]
    BY <1>4, ClearType DEF JoiningRepeated, TypeOK
  <2> QED  BY <1>4, <2>1, JoiningFromType DEF JoiningRepeated, TypeOK, RekeyRecords
<1>5. CASE HandleT1(d)
  <2> DEFINE s == SlotFor(slots, d)
             m == IF rekey.on THEN Msg("msg3", d, slots[s].randS, NoShort, OtherKey)
                  ELSE Msg("msg3", d, slots[s].randS, slots[s].short, keyIndex)
             r == [slots[s] EXCEPT !.state = "sent3", !.msg = m]
  <2>1. s \in Slots
    BY <1>5, SlotForIn DEF HandleT1
  <2>2. slots[s].randS \in Nat /\ slots[s].short \in Nat
    BY <2>1 DEF TypeOK, SlotRecords
  <2>3. OtherKey \in KeyIds /\ keyIndex \in KeyIds
    BY DEF OtherKey, KeyIds, TypeOK
  <2>4. m \in Messages
    <3>1. Msg("msg3", d, slots[s].randS, NoShort, OtherKey) \in Messages
      BY <2>2, <2>3, MsgType DEF Kinds
    <3>2. Msg("msg3", d, slots[s].randS, slots[s].short, keyIndex) \in Messages
      BY <2>2, <2>3, MsgType DEF Kinds
    <3> QED  BY <3>1, <3>2
  <2>5. SendFirst(s, r)
    BY <1>5 DEF HandleT1
  <2> HIDE DEF m
  <2>6. r \in SlotRecords
    <3>1. slots[s] \in SlotRecords /\ "sent3" \in States
      BY <2>1 DEF TypeOK, States
    <3> HIDE DEF s
    <3> QED  BY <2>4, <3>1 DEF SlotRecords
  <2>7. Receives(d, "T1") /\ UNCHANGED list
    BY <1>5 DEF HandleT1
  <2> HIDE DEF s, r
  <2> QED  BY <2>1, <2>5, <2>6, <2>7, SendFirstType, ReceivesType DEF TypeOK, RekeyRecords
<1>6. CASE HandleT3(d)
  <2> DEFINE s == SlotFor(slots, d)
             m == Msg("accepted", d, 0, NoShort, 0)
             r == [slots[s] EXCEPT !.state = "accepted", !.msg = m]
  <2>1. s \in Slots
    BY <1>6, SlotForIn DEF HandleT3
  <2>2. m \in Messages
    BY MsgType DEF Kinds, KeyIds
  <2>3. SendFirst(s, r)
    BY <1>6 DEF HandleT3
  <2> HIDE DEF m
  <2>4. r \in SlotRecords
    <3>1. slots[s] \in SlotRecords /\ "accepted" \in States
      BY <2>1 DEF TypeOK, States
    <3> HIDE DEF s
    <3> QED  BY <2>2, <3>1 DEF SlotRecords
  <2>5. Receives(d, "T3") /\ UNCHANGED list
    BY <1>6 DEF HandleT3
  <2> HIDE DEF s, r
  <2> QED  BY <2>1, <2>3, <2>4, <2>5, SendFirstType, ReceivesType DEF TypeOK, RekeyRecords
<1>7. CASE KickFromLbd(d)
  <2>1. Receives(d, "leave")
    BY <1>7 DEF KickFromLbd
  <2>2. Head(up[d]).short \in Int
    BY <2>1, ReceivesType DEF UpMsgs, NoShort
  <2>3. list' \in Lists
    BY <1>7, <2>2, RemoveEntryType DEF KickFromLbd, TypeOK
  <2>4. slots' \in [Slots -> SlotRecords]
    BY <1>7, ClearType DEF KickFromLbd, TypeOK
  <2> QED  BY <1>7, <2>1, <2>3, <2>4, ReceivesType DEF KickFromLbd, TypeOK, RekeyRecords
<1>8. ASSUME NEW type \in {"T1", "T3"}, HandleUnexpected(d, type)
      PROVE  TypeOK'
  <2>1. Receives(d, type)
    BY <1>8 DEF HandleUnexpected
  <2>2. slots' \in [Slots -> SlotRecords]
    <3>1. CASE ~HasSlot(slots, d)
      BY <1>8, <3>1 DEF HandleUnexpected, TypeOK
    <3>2. CASE HasSlot(slots, d)
      <4>1. SlotFor(slots, d) \in Slots
        BY <3>2, SlotForIn
      <4>2. Clear(slots, d) \in [Slots -> SlotRecords]
        BY ClearType DEF TypeOK
      <4>3. Abort(Clear(slots, d)[SlotFor(slots, d)]) \in SlotRecords
        BY <4>1, <4>2, AbortType
      <4> QED  BY <1>8, <3>2, <4>2, <4>3 DEF HandleUnexpected
    <3> QED  BY <3>1, <3>2
  <2> QED  BY <1>8, <2>1, <2>2, ReceivesType DEF HandleUnexpected, TypeOK, RekeyRecords
<1>9. CASE HandleBadRandS(d)
  <2> DEFINE s == SlotFor(slots, d)
             m == Msg("bare", d, 0, NoShort, 0)
             r == [Abort(slots[s]) EXCEPT !.msg = m]
  <2>1. s \in Slots
    BY <1>9, SlotForIn DEF HandleBadRandS
  <2>2. m \in Messages
    BY MsgType DEF Kinds, KeyIds
  <2>3. SendFirst(s, r)
    BY <1>9 DEF HandleBadRandS
  <2> HIDE DEF m
  <2>4. r \in SlotRecords
    <3>1. Abort(slots[s]) \in SlotRecords
      BY <2>1, AbortType DEF TypeOK
    <3> HIDE DEF s
    <3> QED  BY <2>2, <3>1 DEF SlotRecords
  <2>5. Receives(d, "T3") /\ UNCHANGED list
    BY <1>9 DEF HandleBadRandS
  <2> HIDE DEF s, r
  <2> QED  BY <2>1, <2>3, <2>4, <2>5, SendFirstType, ReceivesType DEF TypeOK, RekeyRecords
<1> QED  BY <1>1, <1>2, <1>3, <1>4, <1>5, <1>6, <1>7, <1>8, <1>9 DEF Indication

(* The rekeying goes on to an index inside the table. *)
LEMMA NextIndexType ==
    ASSUME TypeOK, rekey.idx < LbdsCount(list) - 1
    PROVE  [rekey EXCEPT !.idx = @ + 1] \in RekeyRecords
<1>1. rekey.idx + 1 \in Cells
  BY LbdsCountType, LbdListAssumption DEF TypeOK, Cells
<1> QED  BY <1>1 DEF TypeOK, RekeyRecords

(* The rekeying starts its second phase inside the table. *)
LEMMA FirstIndexType ==
    ASSUME TypeOK
    PROVE  [rekey EXCEPT !.phase = "activate", !.idx = 0] \in RekeyRecords
<1>1. 0 \in Cells /\ rekey \in RekeyRecords
  BY LbdListAssumption DEF Cells, TypeOK, RekeyRecords
<1> QED  BY <1>1 DEF RekeyRecords

(* Every ADP confirm is type correct. *)
LEMMA ConfirmStepType ==
    ASSUME TypeOK, NEW r \in reqs, ConfirmStep(r)
    PROVE  TypeOK'
<1>1. \A ok \in BOOLEAN : AfterConfirm(r.h, ok) \in [Slots -> SlotRecords]
  BY AfterConfirmType DEF TypeOK
<1>2. OtherKey \in KeyIds
  BY DEF OtherKey, KeyIds, TypeOK
<1>0. 0 \in Cells /\ rekey \in RekeyRecords
  BY LbdListAssumption DEF Cells, TypeOK, RekeyRecords
<1>3. ASSUME NEW ok \in BOOLEAN, ConfirmProgress(r, ok)
      PROVE  TypeOK'
  BY <1>1, <1>3, ConfirmForType DEF ConfirmProgress, TypeOK
<1>4. CASE ConfirmJoin(r)
  <2> DEFINE c == slots[Current(r.h)]
  <2>1. Current(r.h) \in Slots
    BY <1>4, CurrentIn DEF ConfirmJoin
  <2>2. c.short \in Int
    BY <2>1 DEF TypeOK, SlotRecords
  <2>3. list' = IF c.addr \in Devices THEN AddEntry(list, c.addr, c.short) ELSE list
    BY <1>4 DEF ConfirmJoin
  <2> HIDE DEF c
  <2>4. list' \in Lists
    BY <2>2, <2>3, AddEntryType DEF TypeOK
  <2> QED  BY <1>1, <1>4, <2>4, ConfirmForType DEF ConfirmJoin, TypeOK
<1>5. CASE ConfirmRekeyNext(r)
  <2> DEFINE rk == [rekey EXCEPT !.idx = @ + 1]
  <2>1. rk \in RekeyRecords
    BY <1>5, NextIndexType DEF ConfirmRekeyNext
  <2>2. /\ RekeyingProcess("usi", AfterConfirm(r.h, TRUE), rk, Current(r.h))
        /\ ConfirmFor(r, TRUE) /\ UNCHANGED <<list, keyIndex>>
    BY <1>5 DEF ConfirmRekeyNext
  <2> HIDE DEF rk
  <2>3. /\ slots' \in [Slots -> SlotRecords] /\ rekey' \in RekeyRecords
        /\ rands' \in Nat /\ thread' \in [{"main", "usi"} -> ThreadRecords]
    BY <1>1, <2>1, <2>2, RekeyingProcessType
  <2> QED  BY <2>2, <2>3, ConfirmForType DEF TypeOK, RekeyRecords
<1>6. CASE ConfirmRekeyPhase(r)
  <2> DEFINE rk == [rekey EXCEPT !.phase = "activate", !.idx = 0]
  <2>1. rk \in RekeyRecords
    BY FirstIndexType
  <2>2. /\ RekeyingProcess("usi", AfterConfirm(r.h, TRUE), rk, Current(r.h))
        /\ ConfirmFor(r, TRUE) /\ UNCHANGED <<list, keyIndex>>
    BY <1>6 DEF ConfirmRekeyPhase
  <2> HIDE DEF rk
  <2>3. /\ slots' \in [Slots -> SlotRecords] /\ rekey' \in RekeyRecords
        /\ rands' \in Nat /\ thread' \in [{"main", "usi"} -> ThreadRecords]
    BY <1>1, <2>1, <2>2, RekeyingProcessType
  <2> QED  BY <2>2, <2>3, ConfirmForType DEF TypeOK, RekeyRecords
<1>7. CASE ConfirmRekeyEnd(r)
  <2>1. rekey' = [rekey EXCEPT !.on = FALSE, !.idx = 0]
    BY <1>7 DEF ConfirmRekeyEnd
  <2>2. rekey' \in RekeyRecords
    BY <1>0, <2>1 DEF RekeyRecords
  <2> QED  BY <1>1, <1>2, <1>7, <2>2, ConfirmForType
              DEF ConfirmRekeyEnd, TypeOK, RekeyRecords
<1> QED  BY <1>3, <1>4, <1>5, <1>6, <1>7 DEF ConfirmStep

(* Every step of bs_process is type correct. *)
LEMMA BsProcessType ==
    ASSUME TypeOK, NEW s \in Slots, BsProcess(s)
    PROVE  TypeOK'
<1>1. slots[s] \in SlotRecords
  BY DEF TypeOK
<1>2. CASE CheckSlot(s)
  <2> DEFINE op == IF slots[s].pending # 0 THEN "never"
                   ELSE IF slots[s].attempts < 1 THEN "resend" ELSE "reset"
  <2>1. Doing(op, s) \in ThreadRecords
    BY DoingType
  <2>2. thread' = [thread EXCEPT !["main"] = Doing(op, s)]
    BY <1>2 DEF CheckSlot
  <2> HIDE DEF op
  <2> QED  BY <1>2, <2>1, <2>2 DEF CheckSlot, TypeOK
<1>3. CASE ResendSlot(s)
  <2> DEFINE r == [slots[s] EXCEPT !.attempts = 1, !.state = BackToSent(slots[s].state)]
  <2>1. r \in SlotRecords
    <3>1. \A st \in States : BackToSent(st) \in States
      BY DEF BackToSent, States
    <3>2. BackToSent(slots[s].state) \in States
      BY <1>1, <3>1 DEF SlotRecords
    <3> QED  BY <1>1, <3>2 DEF SlotRecords
  <2>2. thread' \in [{"main", "usi"} -> ThreadRecords]
    BY <1>3, IdleType DEF ResendSlot, TypeOK
  <2>3. \/ SendFrom(s, r)
        \/ slots' = [slots EXCEPT ![s] = r] /\ UNCHANGED <<reqs, sent>>
    BY <1>3 DEF ResendSlot
  <2> HIDE DEF r
  <2>4. /\ slots' \in [Slots -> SlotRecords] /\ reqs' \subseteq Requests /\ sent' \in Nat
    BY <2>1, <2>3, SendFromType DEF TypeOK
  <2> QED  BY <1>3, <2>2, <2>4 DEF ResendSlot, TypeOK
<1>4. CASE ResetSlot(s)
  <2>1. Abort(slots[s]) \in SlotRecords
    BY <1>1, AbortType
  <2> QED  BY <1>4, <2>1, IdleType DEF ResetSlot, TypeOK
<1> QED  BY <1>2, <1>3, <1>4 DEF BsProcess

(* The end of a wait of the rekeying is type correct. *)
LEMMA RekeySendType ==
    ASSUME TypeOK, NEW t \in {"main", "usi"}, RekeySend(t)
    PROVE  TypeOK'
<1>1. thread[t].slot \in Slots
  BY DEF TypeOK, ThreadRecords
<1>2. slots[thread[t].slot] \in SlotRecords
  BY <1>1 DEF TypeOK
<1>3. SendFirst(thread[t].slot, slots[thread[t].slot])
  BY DEF RekeySend
<1> QED  BY <1>1, <1>2, <1>3, SendFirstType, IdleType DEF RekeySend, TypeOK

(* So is the end of the wait of a kick. *)
LEMMA KickSendType ==
    ASSUME TypeOK, KickSend
    PROVE  TypeOK'
<1> DEFINE k == thread["main"]
           m == Msg("kick", k.dev, 0, NoShort, 0)
<1>1. k.dev \in Devices \cup {NoDevice} /\ k.short \in Int
  BY DEF TypeOK, ThreadRecords
<1>2. m \in Messages
  BY <1>1, MsgType DEF Kinds, KeyIds
<1>3. NextHandle \in 0 .. Handles - 1
  BY DEF NextHandle, Handles, TypeOK
<1>4. reqs' = reqs \cup {Request(NoSlot, m)} /\ list' = RemoveEntry(list, k.short)
  BY DEF KickSend
<1> HIDE DEF m
<1>5. Request(NoSlot, m) \in Requests
  BY <1>2, <1>3 DEF Request, Requests, TypeOK
<1>6. list' \in Lists
  BY <1>1, <1>4, RemoveEntryType DEF TypeOK
<1> QED  BY <1>4, <1>5, <1>6, IdleType DEF KickSend, TypeOK

(* Every call of bs_api.h is type correct. *)
LEMMA ApiStepType ==
    ASSUME TypeOK, ApiStep
    PROVE  TypeOK'
<1>1. CASE LaunchRekeying
  <2> DEFINE rk == [on |-> TRUE, phase |-> "distribute", idx |-> 0]
  <2>1. rk \in RekeyRecords
    BY LbdListAssumption DEF RekeyRecords, Cells
  <2>2. /\ RekeyingProcess("main", slots, rk, NoSlot)
        /\ ApiCall("rekey")
        /\ UNCHANGED <<list, blacklist, keyIndex, sent, reqs, up, dev>>
    BY <1>1 DEF LaunchRekeying
  <2> HIDE DEF rk
  <2>3. /\ slots' \in [Slots -> SlotRecords] /\ rekey' \in RekeyRecords
        /\ rands' \in Nat /\ thread' \in [{"main", "usi"} -> ThreadRecords]
    BY <2>1, <2>2, RekeyingProcessType DEF TypeOK
  <2>4. stimuli' \in 0 .. MaxStimuli
    BY <2>2, StimulusType DEF ApiCall
  <2> QED  BY <2>2, <2>3, <2>4 DEF TypeOK, RekeyRecords
<1>2. ASSUME NEW a \in list.initial .. list.initial + MaxLbds, KickDevice(a)
      PROVE  TypeOK'
  <2>1. list.initial \in Nat /\ MaxLbds \in Nat /\ a \in Nat
    BY LbdListAssumption DEF TypeOK, Lists
  <2>2. a - list.initial \in Cells
    BY <2>1 DEF Cells
  <2>3. list.ext[a - list.initial] \in Devices \cup {NoDevice}
    BY <2>2 DEF TypeOK, Lists
  <2>4. Doing("kick", 0) \in ThreadRecords
    BY DoingType, LbpAssumption DEF Slots
  <2>5. [Doing("kick", 0) EXCEPT !.dev = list.ext[a - list.initial], !.short = a]
           \in ThreadRecords
    BY <2>1, <2>3, <2>4 DEF ThreadRecords
  <2> QED  BY <1>2, <2>5, StimulusType DEF KickDevice, ApiCall, TypeOK
<1>3. ASSUME NEW a \in list.initial .. list.initial + MaxLbds, NEW d \in Devices,
             SetDeviceList(d, a)
      PROVE  TypeOK'
  <2>1. list' \in Lists
    BY <1>3, AddEntryType DEF SetDeviceList, TypeOK
  <2> QED  BY <1>3, <2>1, StimulusType DEF SetDeviceList, ApiCall, TypeOK
<1>4. ASSUME NEW a \in 1 .. 2, SetInitialShortAddress(a)
      PROVE  TypeOK'
  <2>1. list' \in Lists
    BY <1>4, SetInitialType DEF SetInitialShortAddress, TypeOK
  <2> QED  BY <1>4, <2>1, StimulusType DEF SetInitialShortAddress, ApiCall, TypeOK
<1>5. ASSUME NEW d \in Devices, AddDeviceToBlacklist(d)
      PROVE  TypeOK'
  BY <1>5, StimulusType DEF AddDeviceToBlacklist, ApiCall, TypeOK
<1> QED  BY <1>1, <1>2, <1>3, <1>4, <1>5 DEF ApiStep

(* The steps of the ADP, the power line and the devices are type correct. *)
LEMMA NetworkType ==
    ASSUME TypeOK, Network
    PROVE  TypeOK'
<1>1. ASSUME NEW r \in reqs, Deliver(r)
      PROVE  TypeOK'
  <2> DEFINE d == r.msg.dev
  <2>1. r \in Requests /\ d \in Devices /\ r.msg \in Messages
    BY <1>1 DEF Deliver, Sendable, TypeOK, Requests
  <2>2. Learn(dev[d], r.msg) \in DeviceRecords
    BY <2>1, LearnType DEF TypeOK
  <2>3. up[d] \o Reply(dev[d], r) \in Seq(UpMsgs)
    BY <2>1, ReplyType DEF TypeOK
  <2>4. [r EXCEPT !.delivered = TRUE] \in Requests
    BY <2>1 DEF Requests
  <2>5. /\ reqs' = (reqs \ {r}) \cup {[r EXCEPT !.delivered = TRUE]}
        /\ dev' = [dev EXCEPT ![d] = Learn(dev[d], r.msg)]
        /\ up' = [up EXCEPT ![d] = up[d] \o Reply(dev[d], r)]
        /\ UNCHANGED <<coordVars, stimuli>>
    BY <1>1, <2>1 DEF Deliver, TypeOK
  <2> HIDE DEF d
  <2> QED  BY <2>1, <2>2, <2>3, <2>4, <2>5 DEF coordVars, TypeOK
<1>2. ASSUME NEW r \in reqs, LoseConfirm(r)
      PROVE  TypeOK'
  BY <1>2 DEF LoseConfirm, coordVars, TypeOK
<1>3. ASSUME NEW d \in Devices, LoseReply(d)
      PROVE  TypeOK'
  <2>1. up[d] \in Seq(UpMsgs) /\ up[d] # <<>>
    BY <1>3 DEF LoseReply, TypeOK
  <2>2. Tail(up[d]) \in Seq(UpMsgs)
    BY <2>1
  <2> QED  BY <1>3, <2>2 DEF LoseReply, coordVars, TypeOK
<1>4. ASSUME NEW d \in Devices, Leave(d)
      PROVE  TypeOK'
  <2>1. dev[d].short \in Nat \cup {NoShort}
    BY DEF TypeOK, DeviceRecords
  <2>2. UpMsg("leave", 0, -1, dev[d].short) \in UpMsgs
    BY <2>1 DEF UpMsg, UpMsgs
  <2>3. Append(up[d], UpMsg("leave", 0, -1, dev[d].short)) \in Seq(UpMsgs)
    BY <2>2 DEF TypeOK
  <2>4. [dev[d] EXCEPT !.stage = "idle", !.short = NoShort] \in DeviceRecords
    BY DEF TypeOK, DeviceRecords
  <2> QED  BY <1>4, <2>3, <2>4, StimulusType DEF Leave, coordVars, TypeOK
<1>5. ASSUME NEW d \in Devices, DelayT3(d)
      PROVE  TypeOK'
  <2>1. up[d] \in Seq(UpMsgs) /\ Len(up[d]) > 1
    BY <1>5 DEF DelayT3, TypeOK
  <2>2. [up[d] EXCEPT ![1] = up[d][2], ![2] = up[d][1]] \in Seq(UpMsgs)
    BY <2>1
  <2>3. up' \in [Devices -> Seq(UpMsgs)]
    BY <1>5, <2>2 DEF DelayT3, TypeOK
  <2> QED  BY <1>5, <2>3 DEF DelayT3, coordVars, TypeOK
<1> QED  BY <1>1, <1>2, <1>3, <1>4, <1>5 DEF Network

(* Every step preserves the type invariant. *)
LEMMA TypeStep == TypeOK /\ [Next]_vars => TypeOK'
<1> SUFFICES ASSUME TypeOK, [Next]_vars PROVE TypeOK'
  OBVIOUS
<1>1. CASE Next
  BY <1>1, IndicationType, ConfirmStepType, BsProcessType, RekeySendType, KickSendType,
     ApiStepType, NetworkType DEF Next
<1>2. CASE UNCHANGED vars
  BY <1>2 DEF vars, coordVars, TypeOK
<1> QED  BY <1>1, <1>2

(* Every variable keeps its type: slots and threads refer to slots that    *)
(* exist, the handles fit their byte, the rekeying's index stays inside    *)
(* the table, and the table's size never exceeds MAX_LBDS.                 *)
THEOREM TypeCorrect == Spec => []TypeOK
<1> QED  BY InitType, TypeStep, PTL DEF Spec

-----------------------------------------------------------------------------
(* What the steps do to the addresses of the slots *)

SameShorts(ss, tt) == \A x \in Slots : tt[x].short = ss[x].short
SameAddrs(ss, tt)  == \A x \in Slots : tt[x].addr = ss[x].addr

(* The slot that get_bootstrap_slot_by_addr returns for d is used for d. *)
Reassigned(ss, tt, d) ==
    /\ HasSlot(ss, d)
    /\ \A x \in Slots : tt[x].addr = IF x = SlotFor(ss, d) THEN d ELSE ss[x].addr

(* Sending keeps the device and the address of a slot. *)
LEMMA TransmitKeeps ==
    ASSUME NEW r \in SlotRecords
    PROVE  Transmit(r).short = r.short /\ Transmit(r).addr = r.addr
  BY DEF Transmit, SlotRecords

(* So does sending from a slot, and it touches no other slot. *)
LEMMA SendFromSlots ==
    ASSUME TypeOK, NEW s \in Slots, NEW r \in SlotRecords, SendFrom(s, r)
    PROVE  /\ slots'[s].short = r.short /\ slots'[s].addr = r.addr
           /\ \A x \in Slots : x # s => slots'[x] = slots[x]
<1>1. slots' = [slots EXCEPT ![s] = Transmit(r)]
  BY DEF SendFrom
<1>2. slots \in [Slots -> SlotRecords]
  BY DEF TypeOK
<1> QED  BY <1>1, <1>2, TransmitKeeps

(* And so does the first attempt to send. *)
LEMMA SendFirstSlots ==
    ASSUME TypeOK, NEW s \in Slots, NEW r \in SlotRecords, SendFirst(s, r)
    PROVE  /\ slots'[s].short = r.short /\ slots'[s].addr = r.addr
           /\ \A x \in Slots : x # s => slots'[x] = slots[x]
<1> DEFINE q == [r EXCEPT !.attempts = 0]
<1>1. q \in SlotRecords /\ q.short = r.short /\ q.addr = r.addr
  BY DEF SlotRecords
<1>2. SendFrom(s, q)
  BY DEF SendFirst
<1> HIDE DEF q
<1> QED  BY <1>1, <1>2, SendFromSlots

(* Emptying a buffer keeps the devices and addresses of all slots. *)
LEMMA ClearSlots ==
    ASSUME NEW ss \in [Slots -> SlotRecords], NEW d
    PROVE  SameShorts(ss, Clear(ss, d)) /\ SameAddrs(ss, Clear(ss, d))
<1>1. CASE ~HasSlot(ss, d)
  BY <1>1 DEF Clear, SameShorts, SameAddrs
<1>2. CASE HasSlot(ss, d)
  <2>1. SlotFor(ss, d) \in Slots
    BY <1>2, SlotForIn
  <2>2. /\ [ss[SlotFor(ss, d)] EXCEPT !.msg = NoMsg].short = ss[SlotFor(ss, d)].short
        /\ [ss[SlotFor(ss, d)] EXCEPT !.msg = NoMsg].addr = ss[SlotFor(ss, d)].addr
    BY <2>1 DEF SlotRecords
  <2> QED  BY <1>2, <2>1, <2>2 DEF Clear, SameShorts, SameAddrs
<1> QED  BY <1>1, <1>2

(* A confirm keeps the device and the address of its slot. *)
LEMMA ConfirmedKeeps ==
    ASSUME NEW r \in SlotRecords, NEW h, NEW ok \in BOOLEAN
    PROVE  Confirmed(r, h, ok).short = r.short /\ Confirmed(r, h, ok).addr = r.addr
<1>1. CASE MatchesOnly(r, h)
  BY <1>1 DEF Confirmed, MatchesOnly, MatchesEarlier, MatchesLater, SlotRecords
<1>2. CASE ~MatchesOnly(r, h) /\ MatchesEarlier(r, h)
  BY <1>2 DEF Confirmed, MatchesOnly, MatchesEarlier, MatchesLater, SlotRecords
<1>3. CASE MatchesLater(r, h) /\ ~MatchesEarlier(r, h)
  BY <1>3 DEF Confirmed, MatchesOnly, MatchesEarlier, MatchesLater, SlotRecords
<1>4. CASE ~Matches(r, h)
  BY <1>4 DEF Confirmed, Matches
<1> QED  BY <1>1, <1>2, <1>3, <1>4 DEF Matches

(* And those of all the other slots. *)
LEMMA AfterConfirmSlots ==
    ASSUME TypeOK, NEW h, NEW ok \in BOOLEAN
    PROVE  SameShorts(slots, AfterConfirm(h, ok)) /\ SameAddrs(slots, AfterConfirm(h, ok))
  BY ConfirmedKeeps DEF AfterConfirm, SameShorts, SameAddrs, TypeOK

(* The rekeying uses the slot of its device, and no address of any slot.   *)
LEMMA RekeyingProcessSlots ==
    ASSUME TypeOK, NEW t \in {"main", "usi"}, NEW ss \in [Slots -> SlotRecords],
           NEW rk \in RekeyRecords, NEW timer, RekeyingProcess(t, ss, rk, timer)
    PROVE  /\ SameShorts(ss, slots')
           /\ \/ SameAddrs(ss, slots')
              \/ \E d \in Devices \cup {NoDevice} : Reassigned(ss, slots', d)
<1> DEFINE d == list.ext[rk.idx]
           s == SlotFor(ss, d)
<1>1. d \in Devices \cup {NoDevice}
  BY DEF TypeOK, Lists, RekeyRecords
<1>2. CASE ~HasSlot(ss, d)
  BY <1>2 DEF RekeyingProcess, SameShorts, SameAddrs
<1>3. CASE HasSlot(ss, d)
  <2>1. s \in Slots
    BY <1>3, SlotForIn
  <2> HIDE DEF d, s
  <2>2. ss[s] \in SlotRecords
    BY <2>1
  <2>3. CASE rk.phase = "distribute"
    <3>1. slots' = [ss EXCEPT ![s] = Challenge(ss[s], d)]
      BY <1>3, <2>3 DEF RekeyingProcess, d, s
    <3>2. Challenge(ss[s], d).addr = d /\ Challenge(ss[s], d).short = ss[s].short
      BY <2>2 DEF Challenge, SlotRecords
    <3>3. Reassigned(ss, slots', d)
      BY <1>3, <2>1, <3>1, <3>2 DEF Reassigned, s
    <3> QED  BY <1>1, <2>1, <3>1, <3>2, <3>3 DEF SameShorts
  <2>4. CASE rk.phase # "distribute"
    <3> DEFINE r == [ss[s] EXCEPT !.state = "accepted",
                                  !.msg = Msg("activate", d, 0, NoShort, OtherKey)]
    <3>1. slots' = [ss EXCEPT ![s] = r]
      BY <1>3, <2>4 DEF RekeyingProcess, d, s
    <3>2. r.addr = ss[s].addr /\ r.short = ss[s].short
      BY <2>2 DEF SlotRecords
    <3> QED  BY <2>1, <3>1, <3>2 DEF SameShorts, SameAddrs
  <2> QED  BY <2>3, <2>4
<1> QED  BY <1>2, <1>3

(* An indication changes the device of at most the slot found for it. *)
LEMMA IndicationSlots ==
    ASSUME TypeOK, NEW d \in Devices, Indication(d)
    PROVE  /\ SameAddrs(slots, slots') \/ Reassigned(slots, slots', d)
           /\ SameShorts(slots, slots') \/ JoiningNew(d)
<1> DEFINE s == SlotFor(slots, d)
<1>1. HasSlot(slots, d) => s \in Slots /\ slots[s] \in SlotRecords
  BY SlotForIn DEF TypeOK
<1>2. CASE JoiningNoSlot(d)
  BY <1>2 DEF JoiningNoSlot, SameAddrs, SameShorts
<1>3. CASE JoiningDeclined(d)
  <2> DEFINE m == Msg("decline", d, 0, NoShort, 0)
             r == [slots[s] EXCEPT !.state = "declined", !.addr = d, !.msg = m]
  <2>1. HasSlot(slots, d) /\ SendFirst(s, r)
    BY <1>3 DEF JoiningDeclined
  <2>2. m \in Messages /\ "declined" \in States
    BY MsgType DEF Kinds, KeyIds, States
  <2> HIDE DEF s, m
  <2>3. r \in SlotRecords /\ r.addr = d /\ r.short = slots[s].short
    BY <1>1, <2>1, <2>2 DEF SlotRecords
  <2> HIDE DEF r
  <2> QED  BY <1>1, <2>1, <2>3, SendFirstSlots DEF SameShorts, Reassigned, s
<1>4. CASE JoiningNew(d)
  <2> DEFINE l == Forget(list, d)
             c == Challenge(slots[s], d)
             r == IF rekey.on THEN c ELSE [c EXCEPT !.short = NewAddress(l, d)]
  <2>1. HasSlot(slots, d) /\ SendFirst(s, r)
    BY <1>4 DEF JoiningNew
  <2>2. NewAddress(l, d) \in Nat
    BY ForgetType, NewAddressType DEF TypeOK
  <2> HIDE DEF l, s
  <2>3. c \in SlotRecords /\ c.addr = d
    <3>1. c \in SlotRecords
      BY <1>1, <2>1, ChallengeType DEF TypeOK
    <3> QED  BY <1>1, <2>1, <3>1 DEF Challenge, SlotRecords
  <2> HIDE DEF c
  <2>4. r \in SlotRecords /\ r.addr = d
    BY <2>2, <2>3 DEF SlotRecords
  <2> HIDE DEF r
  <2> QED  BY <1>1, <1>4, <2>1, <2>4, SendFirstSlots DEF Reassigned, s
<1>5. CASE JoiningRepeated(d)
  BY <1>5, ClearSlots DEF JoiningRepeated, TypeOK
<1>6. CASE HandleT1(d)
  <2> DEFINE m == IF rekey.on THEN Msg("msg3", d, slots[s].randS, NoShort, OtherKey)
                  ELSE Msg("msg3", d, slots[s].randS, slots[s].short, keyIndex)
             r == [slots[s] EXCEPT !.state = "sent3", !.msg = m]
  <2>1. HasSlot(slots, d) /\ SendFirst(s, r)
    BY <1>6 DEF HandleT1
  <2>2. slots[s].randS \in Nat /\ slots[s].short \in Nat
    BY <1>1, <2>1 DEF SlotRecords
  <2>3. OtherKey \in KeyIds /\ keyIndex \in KeyIds
    BY DEF OtherKey, KeyIds, TypeOK
  <2>4. m \in Messages /\ "sent3" \in States
    <3>1. Msg("msg3", d, slots[s].randS, NoShort, OtherKey) \in Messages
      BY <2>2, <2>3, MsgType DEF Kinds
    <3>2. Msg("msg3", d, slots[s].randS, slots[s].short, keyIndex) \in Messages
      BY <2>2, <2>3, MsgType DEF Kinds
    <3> QED  BY <3>1, <3>2 DEF States
  <2> HIDE DEF s, m
  <2>5. r \in SlotRecords /\ r.addr = slots[s].addr /\ r.short = slots[s].short
    BY <1>1, <2>1, <2>4 DEF SlotRecords
  <2> HIDE DEF r
  <2> QED  BY <1>1, <2>1, <2>5, SendFirstSlots DEF SameShorts, SameAddrs
<1>7. CASE HandleT3(d)
  <2> DEFINE m == Msg("accepted", d, 0, NoShort, 0)
             r == [slots[s] EXCEPT !.state = "accepted", !.msg = m]
  <2>1. HasSlot(slots, d) /\ SendFirst(s, r)
    BY <1>7 DEF HandleT3
  <2>2. m \in Messages /\ "accepted" \in States
    BY MsgType DEF Kinds, KeyIds, States
  <2> HIDE DEF s, m
  <2>3. r \in SlotRecords /\ r.addr = slots[s].addr /\ r.short = slots[s].short
    BY <1>1, <2>1, <2>2 DEF SlotRecords
  <2> HIDE DEF r
  <2> QED  BY <1>1, <2>1, <2>3, SendFirstSlots DEF SameShorts, SameAddrs
<1>8. CASE KickFromLbd(d)
  BY <1>8, ClearSlots DEF KickFromLbd, TypeOK
<1>9. ASSUME NEW type \in {"T1", "T3"}, HandleUnexpected(d, type)
      PROVE  SameShorts(slots, slots') /\ SameAddrs(slots, slots')
  <2>1. CASE ~HasSlot(slots, d)
    BY <1>9, <2>1 DEF HandleUnexpected, SameShorts, SameAddrs
  <2>2. CASE HasSlot(slots, d)
    <3> DEFINE ss == Clear(slots, d)
    <3>1. slots' = [ss EXCEPT ![s] = Abort(ss[s])]
      BY <1>9, <2>2 DEF HandleUnexpected
    <3>2. /\ ss \in [Slots -> SlotRecords]
          /\ SameShorts(slots, ss) /\ SameAddrs(slots, ss)
      BY ClearType, ClearSlots DEF TypeOK
    <3> HIDE DEF ss, s
    <3>3. Abort(ss[s]).short = ss[s].short /\ Abort(ss[s]).addr = ss[s].addr
      BY <1>1, <2>2, <3>2 DEF Abort, SlotRecords
    <3> QED  BY <1>1, <2>2, <3>1, <3>2, <3>3 DEF SameShorts, SameAddrs
  <2> QED  BY <2>1, <2>2
<1>10. CASE HandleBadRandS(d)
  <2> DEFINE m == Msg("bare", d, 0, NoShort, 0)
             r == [Abort(slots[s]) EXCEPT !.msg = m]
  <2>1. HasSlot(slots, d) /\ SendFirst(s, r)
    BY <1>10 DEF HandleBadRandS
  <2>2. m \in Messages
    BY MsgType DEF Kinds, KeyIds
  <2> HIDE DEF s, m
  <2>3. Abort(slots[s]) \in SlotRecords
        /\ Abort(slots[s]).addr = slots[s].addr /\ Abort(slots[s]).short = slots[s].short
    BY <1>1, <2>1, AbortType DEF Abort, SlotRecords
  <2>4. r \in SlotRecords /\ r.addr = slots[s].addr /\ r.short = slots[s].short
    BY <2>2, <2>3 DEF SlotRecords
  <2> HIDE DEF r
  <2> QED  BY <1>1, <2>1, <2>4, SendFirstSlots DEF SameShorts, SameAddrs
<1> QED  BY <1>2, <1>3, <1>4, <1>5, <1>6, <1>7, <1>8, <1>9, <1>10 DEF Indication

(* bs_process changes the device of no slot. *)
LEMMA BsProcessSlots ==
    ASSUME TypeOK, NEW s \in Slots, BsProcess(s)
    PROVE  SameShorts(slots, slots') /\ SameAddrs(slots, slots')
<1>1. slots[s] \in SlotRecords
  BY DEF TypeOK
<1>2. CASE CheckSlot(s)
  BY <1>2 DEF CheckSlot, SameShorts, SameAddrs
<1>3. CASE ResendSlot(s)
  <2> DEFINE st == BackToSent(slots[s].state)
             r == [slots[s] EXCEPT !.attempts = 1, !.state = st]
  <2>1. \/ SendFrom(s, r)
        \/ slots' = [slots EXCEPT ![s] = r]
    BY <1>3 DEF ResendSlot
  <2>2. st \in States
    <3>1. \A x \in States : BackToSent(x) \in States
      BY DEF BackToSent, States
    <3> QED  BY <1>1, <3>1 DEF SlotRecords
  <2> HIDE DEF st
  <2>3. r \in SlotRecords /\ r.addr = slots[s].addr /\ r.short = slots[s].short
    BY <1>1, <2>2 DEF SlotRecords
  <2> HIDE DEF r
  <2>4. \A x \in Slots : /\ slots'[x].short = slots[x].short
                         /\ slots'[x].addr = slots[x].addr
    BY <2>1, <2>3, SendFromSlots DEF TypeOK
  <2> QED  BY <2>4 DEF SameShorts, SameAddrs
<1>4. CASE ResetSlot(s)
  <2>1. slots' = [slots EXCEPT ![s] = Abort(slots[s])]
    BY <1>4 DEF ResetSlot
  <2>2. Abort(slots[s]).short = slots[s].short /\ Abort(slots[s]).addr = slots[s].addr
    BY <1>1 DEF Abort, SlotRecords
  <2> QED  BY <2>1, <2>2 DEF SameShorts, SameAddrs, TypeOK
<1> QED  BY <1>2, <1>3, <1>4 DEF BsProcess

(* Nor does the end of a wait of the rekeying. *)
LEMMA RekeySendSlots ==
    ASSUME TypeOK, NEW t \in {"main", "usi"}, RekeySend(t)
    PROVE  SameShorts(slots, slots') /\ SameAddrs(slots, slots')
<1>1. thread[t].slot \in Slots
  BY DEF TypeOK, ThreadRecords
<1>2. slots[thread[t].slot] \in SlotRecords
  BY <1>1 DEF TypeOK
<1>3. SendFirst(thread[t].slot, slots[thread[t].slot])
  BY DEF RekeySend
<1> QED  BY <1>1, <1>2, <1>3, SendFirstSlots DEF SameShorts, SameAddrs

-----------------------------------------------------------------------------
(* One slot per device *)

OneSlot(ss) == \A s, t \in Slots : ss[s].addr = ss[t].addr /\ s # t => ss[s].addr = Unset

(* Slots that keep their devices stay one per device. *)
LEMMA SameAddrsOneSlot ==
    ASSUME NEW ss, NEW tt, OneSlot(ss), SameAddrs(ss, tt)
    PROVE  OneSlot(tt)
  BY DEF OneSlot, SameAddrs

(* Using a free slot for a device that has none, or its own slot again. *)
LEMMA ReassignedOneSlot ==
    ASSUME NEW ss, NEW tt, NEW d \in Devices \cup {NoDevice}, OneSlot(ss),
           Reassigned(ss, tt, d)
    PROVE  OneSlot(tt)
<1> DEFINE s == SlotFor(ss, d)
<1>1. s \in Slots /\ (ss[s].addr # d => \A x \in Slots : ss[x].addr # d)
  BY SlotForIn DEF Reassigned
<1>2. \A x \in Slots : tt[x].addr = IF x = s THEN d ELSE ss[x].addr
  BY DEF Reassigned
<1>3. d # Unset
  BY LbpAssumption
<1> HIDE DEF s
<1>4. \A x \in Slots : x # s => ss[x].addr # d
  BY <1>1, <1>3 DEF OneSlot
<1> QED  BY <1>2, <1>4 DEF OneSlot

(* The rekeying uses one slot per device. *)
LEMMA RekeyingOneSlot ==
    ASSUME TypeOK, NEW t \in {"main", "usi"}, NEW ss \in [Slots -> SlotRecords],
           NEW rk \in RekeyRecords, NEW timer, RekeyingProcess(t, ss, rk, timer),
           OneSlot(ss)
    PROVE  OneSlot(slots')
<1>1. CASE SameAddrs(ss, slots')
  BY <1>1, SameAddrsOneSlot
<1>2. CASE ~SameAddrs(ss, slots')
  <2>1. PICK d \in Devices \cup {NoDevice} : Reassigned(ss, slots', d)
    BY <1>2, RekeyingProcessSlots
  <2> QED  BY <2>1, ReassignedOneSlot
<1> QED  BY <1>1, <1>2

(* So do the confirms, which may go on with a rekeying. *)
LEMMA ConfirmStepOneSlot ==
    ASSUME TypeOK, NEW r \in reqs, ConfirmStep(r), OneSlot(slots)
    PROVE  OneSlot(slots')
<1>1. ASSUME NEW ok \in BOOLEAN PROVE OneSlot(AfterConfirm(r.h, ok))
  BY AfterConfirmSlots, SameAddrsOneSlot
<1>2. AfterConfirm(r.h, TRUE) \in [Slots -> SlotRecords]
  BY AfterConfirmType DEF TypeOK
<1>3. ASSUME NEW ok \in BOOLEAN, ConfirmProgress(r, ok) PROVE OneSlot(slots')
  BY <1>1, <1>3 DEF ConfirmProgress
<1>4. CASE ConfirmJoin(r)
  BY <1>1, <1>4 DEF ConfirmJoin
<1>5. CASE ConfirmRekeyNext(r)
  BY <1>1, <1>2, <1>5, NextIndexType, RekeyingOneSlot DEF ConfirmRekeyNext
<1>6. CASE ConfirmRekeyPhase(r)
  BY <1>1, <1>2, <1>6, FirstIndexType, RekeyingOneSlot DEF ConfirmRekeyPhase
<1>7. CASE ConfirmRekeyEnd(r)
  BY <1>1, <1>7 DEF ConfirmRekeyEnd
<1> QED  BY <1>3, <1>4, <1>5, <1>6, <1>7 DEF ConfirmStep

(* All the other steps leave the slots as they are. *)
LEMMA UnchangedSlots ==
    ASSUME TypeOK, KickSend \/ Network \/ (ApiStep /\ ~LaunchRekeying) \/ UNCHANGED vars
    PROVE  slots' = slots
  BY DEF KickSend, Network, ApiStep, KickDevice, SetDeviceList, SetInitialShortAddress,
         AddDeviceToBlacklist, Deliver, LoseReply, DelayT3, LoseConfirm, Leave, vars, coordVars

(* Every step keeps the slots one per device. *)
LEMMA OneSlotStep == TypeOK /\ OneSlot(slots) /\ [Next]_vars => OneSlot(slots)'
<1> SUFFICES ASSUME TypeOK, OneSlot(slots), [Next]_vars PROVE OneSlot(slots')
  OBVIOUS
<1>1. ASSUME NEW d \in Devices, Indication(d) PROVE OneSlot(slots')
  BY <1>1, IndicationSlots, SameAddrsOneSlot, ReassignedOneSlot
<1>2. ASSUME NEW r \in reqs, ConfirmStep(r) PROVE OneSlot(slots')
  BY <1>2, ConfirmStepOneSlot
<1>3. ASSUME NEW s \in Slots, BsProcess(s) PROVE OneSlot(slots')
  BY <1>3, BsProcessSlots, SameAddrsOneSlot
<1>4. ASSUME NEW t \in {"main", "usi"}, RekeySend(t) PROVE OneSlot(slots')
  BY <1>4, RekeySendSlots, SameAddrsOneSlot
<1>5. CASE LaunchRekeying
  <2>1. [on |-> TRUE, phase |-> "distribute", idx |-> 0] \in RekeyRecords
    BY LbdListAssumption DEF RekeyRecords, Cells
  <2> QED  BY <1>5, <2>1, RekeyingOneSlot DEF LaunchRekeying, TypeOK
<1>6. CASE KickSend \/ Network \/ (ApiStep /\ ~LaunchRekeying) \/ UNCHANGED vars
  BY <1>6, UnchangedSlots
<1> QED  BY <1>1, <1>2, <1>3, <1>4, <1>5, <1>6 DEF Next

(* No two slots are ever used for the same device, so that what arrives    *)
(* from it is handled in the slot of its exchange.                         *)
THEOREM OneSlotCorrect == Spec => []OneSlotPerDevice
<1>1. Init => OneSlot(slots)
  BY DEF Init, OneSlot, FreshSlot
<1>2. OneSlot(slots) => OneSlotPerDevice
  BY DEF OneSlot, OneSlotPerDevice
<1> QED  BY <1>1, <1>2, InitType, TypeStep, OneSlotStep, PTL DEF Spec

-----------------------------------------------------------------------------
(* The table of registered devices *)

(* The inductive invariant: an address set aside for a slot lies below the *)
(* size, so that entering the slot's device keeps the table well-formed.   *)
ListInv == WellFormed(list) /\ AddressesBelowSize

(* A step that sets no address aside keeps it if it keeps the table        *)
(* well-formed and does not shrink it or move its first address.           *)
LEMMA ListInvKept ==
    ASSUME TypeOK, TypeOK', AddressesBelowSize, SameShorts(slots, slots'),
           WellFormed(list'), list'.size >= list.size, list'.initial = list.initial
    PROVE  ListInv'
<1>1. list.size \in Int /\ list'.size \in Int /\ list.initial \in Int
  BY DEF TypeOK, Lists
<1>2. ASSUME NEW s \in Slots PROVE slots'[s].short < list'.size + list'.initial
  <2>1. slots'[s].short = slots[s].short /\ slots[s].short < list.size + list.initial
    BY DEF SameShorts, AddressesBelowSize
  <2>2. slots[s].short \in Int
    BY DEF TypeOK, SlotRecords
  <2> QED  BY <1>1, <2>1, <2>2
<1> QED  BY <1>2 DEF ListInv, AddressesBelowSize

(* A new exchange forgets the old entry of its device, and the address it  *)
(* sets aside is below the size.                                           *)
LEMMA JoiningNewList ==
    ASSUME TypeOK, TypeOK', ListInv, ~ShortFromExt, NEW d \in Devices, JoiningNew(d)
    PROVE  ListInv'
<1> DEFINE s == SlotFor(slots, d)
           l == Forget(list, d)
           c == Challenge(slots[s], d)
           r == IF rekey.on THEN c ELSE [c EXCEPT !.short = NewAddress(l, d)]
<1>1. HasSlot(slots, d) /\ SendFirst(s, r) /\ list' = IF rekey.on THEN list ELSE Grow(l)
  BY DEF JoiningNew
<1>2. s \in Slots /\ slots[s] \in SlotRecords
  BY <1>1, SlotForIn DEF TypeOK
<1>3. l \in Lists /\ WellFormed(l) /\ l.size = list.size /\ l.initial = list.initial
  BY ForgetType, ForgetWellFormed DEF TypeOK, ListInv
<1>4. NewAddress(l, d) \in Nat /\ NewAddress(l, d) < Grow(l).size + l.initial
  BY <1>3, NewAddressType, NewAddressBelow
<1>5. WellFormed(list') /\ list'.size >= list.size /\ list'.initial = list.initial
  BY <1>1, <1>3, GrowWellFormed DEF ListInv, TypeOK, Lists
<1>6. c \in SlotRecords /\ c.short = slots[s].short
  <2>1. c \in SlotRecords
    BY <1>2, ChallengeType DEF TypeOK
  <2> HIDE DEF s
  <2> QED  BY <1>2, <2>1 DEF Challenge, SlotRecords
<1> HIDE DEF s, l, c
<1>7. r \in SlotRecords /\ r.short = IF rekey.on THEN slots[s].short ELSE NewAddress(l, d)
  BY <1>4, <1>6 DEF SlotRecords
<1> HIDE DEF r
<1>8. slots'[s].short = r.short /\ \A x \in Slots : x # s => slots'[x] = slots[x]
  BY <1>1, <1>2, <1>7, SendFirstSlots
<1>9. list.size \in Int /\ list'.size \in Int /\ list.initial \in Int
  BY DEF TypeOK, Lists
<1>10. ASSUME NEW x \in Slots PROVE slots'[x].short < list'.size + list'.initial
  <2>1. slots[x].short \in Int /\ slots[x].short < list.size + list.initial
    BY DEF TypeOK, SlotRecords, ListInv, AddressesBelowSize
  <2>2. CASE x = s /\ ~rekey.on
    <3>1. list' = Grow(l) /\ slots'[x].short = NewAddress(l, d)
      BY <1>1, <1>7, <1>8, <2>2
    <3> QED  BY <1>3, <1>4, <1>5, <3>1
  <2>3. CASE x # s \/ rekey.on
    <3>1. slots'[x].short = slots[x].short
      BY <1>7, <1>8, <2>3
    <3> QED  BY <1>5, <1>9, <2>1, <3>1
  <2> QED  BY <2>2, <2>3
<1> QED  BY <1>5, <1>10 DEF ListInv, AddressesBelowSize

(* The steps of Indication that do not assign an address remove at most    *)
(* one entry.                                                              *)
LEMMA IndicationList ==
    ASSUME TypeOK, TypeOK', ListInv, ~ShortFromExt, NEW d \in Devices, Indication(d)
    PROVE  ListInv'
<1>1. CASE JoiningNew(d)
  BY <1>1, JoiningNewList
<1>2. CASE ~JoiningNew(d)
  <2>1. SameShorts(slots, slots')
    BY <1>2, IndicationSlots
  <2>2. WellFormed(list') /\ list'.size >= list.size /\ list'.initial = list.initial
    <3>1. list.size \in Int /\ list \in Lists
      BY DEF TypeOK, Lists
    <3>2. CASE KickFromLbd(d)
      <4>1. Receives(d, "leave") /\ list' = RemoveEntry(list, Head(up[d]).short)
        BY <3>2 DEF KickFromLbd
      <4>2. Head(up[d]).short \in Int
        BY <4>1, ReceivesType DEF UpMsgs, NoShort
      <4> QED  BY <3>1, <4>1, <4>2, RemoveEntryWellFormed DEF ListInv
    <3>3. CASE UNCHANGED list
      BY <3>1, <3>3 DEF ListInv
    <3>4. KickFromLbd(d) \/ UNCHANGED list
      BY <1>2 DEF Indication, JoiningNoSlot, JoiningDeclined, JoiningRepeated, HandleT1,
                  HandleT3, HandleBadRandS, HandleUnexpected
    <3> QED  BY <3>2, <3>3, <3>4
  <2> QED  BY <2>1, <2>2, ListInvKept DEF ListInv
<1> QED  BY <1>1, <1>2

(* A confirm leaves the address set aside in every slot. *)
LEMMA ConfirmStepShorts ==
    ASSUME TypeOK, NEW r \in reqs, ConfirmStep(r)
    PROVE  SameShorts(slots, slots')
<1>1. ASSUME NEW ok \in BOOLEAN PROVE SameShorts(slots, AfterConfirm(r.h, ok))
  BY AfterConfirmSlots
<1>2. AfterConfirm(r.h, TRUE) \in [Slots -> SlotRecords]
  BY AfterConfirmType DEF TypeOK
<1>3. CASE ConfirmRekeyNext(r)
  <2>1. SameShorts(AfterConfirm(r.h, TRUE), slots')
    BY <1>2, <1>3, NextIndexType, RekeyingProcessSlots DEF ConfirmRekeyNext
  <2> QED  BY <1>1, <2>1 DEF SameShorts
<1>4. CASE ConfirmRekeyPhase(r)
  <2>1. SameShorts(AfterConfirm(r.h, TRUE), slots')
    BY <1>2, <1>4, FirstIndexType, RekeyingProcessSlots DEF ConfirmRekeyPhase
  <2> QED  BY <1>1, <2>1 DEF SameShorts
<1>5. ASSUME NEW ok \in BOOLEAN,
             ConfirmProgress(r, ok) \/ ConfirmJoin(r) \/ ConfirmRekeyEnd(r)
      PROVE  SameShorts(slots, slots')
  BY <1>1, <1>5 DEF ConfirmProgress, ConfirmJoin, ConfirmRekeyEnd
<1> QED  BY <1>3, <1>4, <1>5 DEF ConfirmStep

(* A confirm keeps the invariant: it registers a device at the address of its slot. *)
LEMMA ConfirmStepList ==
    ASSUME TypeOK, TypeOK', ListInv, NEW r \in reqs, ConfirmStep(r)
    PROVE  ListInv'
<1>1. list.size \in Int /\ list \in Lists
  BY DEF TypeOK, Lists
<1>2. CASE ConfirmJoin(r)
  <2> DEFINE c == slots[Current(r.h)]
  <2>1. Current(r.h) \in Slots
    BY <1>2, CurrentIn DEF ConfirmJoin
  <2>2. c.short \in Int /\ c.short < list.size + list.initial
    BY <2>1 DEF TypeOK, SlotRecords, ListInv, AddressesBelowSize
  <2>3. list' = IF c.addr \in Devices THEN AddEntry(list, c.addr, c.short) ELSE list
    BY <1>2 DEF ConfirmJoin
  <2> HIDE DEF c
  <2>4. WellFormed(list') /\ list'.size >= list.size /\ list'.initial = list.initial
    BY <1>1, <2>2, <2>3, AddEntryWellFormed DEF ListInv
  <2> QED  BY <2>4, ConfirmStepShorts, ListInvKept DEF ListInv
<1>3. CASE ~ConfirmJoin(r)
  <2>1. list' = list
    BY <1>3 DEF ConfirmStep, ConfirmProgress, ConfirmRekeyNext, ConfirmRekeyPhase,
                ConfirmRekeyEnd
  <2> QED  BY <1>1, <2>1, ConfirmStepShorts, ListInvKept DEF ListInv
<1> QED  BY <1>2, <1>3

(* Every step keeps the invariant. *)
LEMMA ListInvStep ==
    ASSUME "manual" \notin Api, "initial" \notin Api, ~ShortFromExt
    PROVE  TypeOK /\ TypeOK' /\ ListInv /\ [Next]_vars => ListInv'
<1> SUFFICES ASSUME TypeOK, TypeOK', ListInv, [Next]_vars PROVE ListInv'
  OBVIOUS
<1>1. list.size \in Int /\ list \in Lists
  BY DEF TypeOK, Lists
<1>2. ASSUME list' = list, SameShorts(slots, slots') PROVE ListInv'
  BY <1>1, <1>2, ListInvKept DEF ListInv
<1>3. ASSUME NEW d \in Devices, Indication(d) PROVE ListInv'
  BY <1>3, IndicationList
<1>4. ASSUME NEW r \in reqs, ConfirmStep(r) PROVE ListInv'
  BY <1>4, ConfirmStepList
<1>5. ASSUME NEW s \in Slots, BsProcess(s) PROVE ListInv'
  BY <1>2, <1>5, BsProcessSlots DEF BsProcess, CheckSlot, ResendSlot, ResetSlot
<1>6. ASSUME NEW t \in {"main", "usi"}, RekeySend(t) PROVE ListInv'
  BY <1>2, <1>6, RekeySendSlots DEF RekeySend
<1>7. CASE KickSend
  <2>1. thread["main"].short \in Int /\ list' = RemoveEntry(list, thread["main"].short)
    BY <1>7 DEF KickSend, TypeOK, ThreadRecords
  <2>2. WellFormed(list') /\ list'.size >= list.size /\ list'.initial = list.initial
    BY <1>1, <2>1, RemoveEntryWellFormed DEF ListInv
  <2>3. SameShorts(slots, slots')
    BY <1>7 DEF KickSend, SameShorts
  <2> QED  BY <2>2, <2>3, ListInvKept DEF ListInv
<1>8. CASE LaunchRekeying
  <2>1. [on |-> TRUE, phase |-> "distribute", idx |-> 0] \in RekeyRecords
    BY LbdListAssumption DEF RekeyRecords, Cells
  <2>2. SameShorts(slots, slots')
    BY <1>8, <2>1, RekeyingProcessSlots DEF LaunchRekeying, TypeOK
  <2> QED  BY <1>2, <1>8, <2>2 DEF LaunchRekeying
<1>9. CASE Network \/ (ApiStep /\ ~LaunchRekeying) \/ UNCHANGED vars
  <2>1. list' = list
    BY <1>9 DEF Network, ApiStep, KickDevice, SetDeviceList, SetInitialShortAddress, ApiCall,
       AddDeviceToBlacklist, Deliver, LoseReply, DelayT3, LoseConfirm, Leave, vars, coordVars
  <2>2. SameShorts(slots, slots')
    BY <1>9, UnchangedSlots DEF SameShorts
  <2> QED  BY <1>2, <2>1, <2>2
<1> QED  BY <1>3, <1>4, <1>5, <1>6, <1>7, <1>8, <1>9 DEF Next

(* While the application neither enters devices itself nor moves the first *)
(* short address, and addresses are not derived from extended ones, every  *)
(* registered device is found by bs_get_short_addr_by_ext, at one address: *)
(* the search below g_lbds_list_size sees every entry and no device has    *)
(* two, whatever is lost, late, repeated or restarted.                     *)
THEOREM ListCorrect ==
    ASSUME "manual" \notin Api, "initial" \notin Api, ~ShortFromExt
    PROVE  Spec => [](NoDeviceListedTwice /\ EntriesBelowSize /\ AddressesBelowSize)
<1>1. Init => ListInv
  <2>1. SUFFICES ASSUME Init PROVE ListInv
    OBVIOUS
  <2>2. WellFormed(list)
    BY <2>1, EmptyListWellFormed DEF Init
  <2>3. AddressesBelowSize
    BY <2>1 DEF Init, AddressesBelowSize, FreshSlot, EmptyList
  <2> QED  BY <2>2, <2>3 DEF ListInv
<1>2. ListInv => NoDeviceListedTwice /\ EntriesBelowSize /\ AddressesBelowSize
  BY DEF ListInv, WellFormed, NoDeviceListedTwice, EntriesBelowSize
<1>3. TypeOK /\ TypeOK' /\ ListInv /\ [Next]_vars => ListInv'
  BY ListInvStep
<1> QED  BY <1>1, <1>2, <1>3, InitType, TypeStep, PTL DEF Spec
=============================================================================
