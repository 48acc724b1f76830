------------------------- MODULE DlmsGatewayProofs -------------------------
(* Theorems about DlmsGateway and their proofs. *)
EXTENDS DlmsGateway, SequenceTheorems, FiniteSetTheorems, TLAPS

-----------------------------------------------------------------------------
(* The two lists of messages, as a value t, when a messages have been given *)
(* a buffer.                                                               *)
Txs(a) == [spare : Nat, queue : Seq(1 .. a), old : BOOLEAN,
           out : SUBSET (1 .. a), handed : Seq(1 .. a)]

Ordered(q, h, a) ==
    /\ Len(h) = a - Len(q) + (IF q = <<>> THEN 0 ELSE 1)
    /\ \A i \in DOMAIN h : h[i] = i
    /\ \A i \in DOMAIN q : q[i] = a - Len(q) + i

Good(t, a) ==
    /\ t \in Txs(a)
    /\ t.spare + Len(t.queue) = Buffers
    /\ Ordered(t.queue, t.handed, a)

(* Sequences of messages: what their elements are once one is taken from   *)
(* the front or put at the end.                                            *)
LEMMA TailOrdered ==
    ASSUME NEW a \in Nat, NEW q \in Seq(1 .. a), NEW h \in Seq(1 .. a), q # <<>>,
           Ordered(q, h, a)
    PROVE  /\ Tail(q) \in Seq(1 .. a) /\ Len(Tail(q)) = Len(q) - 1
           /\ Tail(q) = <<>> => Ordered(Tail(q), h, a)
           /\ Tail(q) # <<>> =>
                /\ Head(Tail(q)) \in 1 .. a
                /\ Append(h, Head(Tail(q))) \in Seq(1 .. a)
                /\ Ordered(Tail(q), Append(h, Head(Tail(q))), a)
<1> DEFINE r == Tail(q)
<1>1. /\ r \in Seq(1 .. a) /\ Len(r) = Len(q) - 1
      /\ \A i \in 1 .. Len(q) - 1 : r[i] = q[i + 1]
  BY HeadTailProperties
<1>2. /\ Len(q) \in Nat /\ Len(h) \in Nat /\ Len(r) \in Nat
      /\ DOMAIN q = 1 .. Len(q) /\ DOMAIN r = 1 .. Len(r) /\ DOMAIN h = 1 .. Len(h)
  BY <1>1
<1> HIDE DEF r
<1>3. Len(h) = a - Len(q) + 1
  BY <1>2 DEF Ordered
<1>4. \A i \in DOMAIN r : r[i] = a - Len(r) + i
  <2> SUFFICES ASSUME NEW i \in 1 .. Len(r) PROVE r[i] = a - Len(r) + i
    BY <1>2
  <2>1. i + 1 \in DOMAIN q
    BY <1>1, <1>2
  <2>2. r[i] = q[i + 1]
    BY <1>1, <1>2
  <2>3. q[i + 1] = a - Len(q) + (i + 1)
    BY <2>1 DEF Ordered
  <2> QED  BY <1>1, <1>2, <2>2, <2>3
<1>5. CASE r = <<>>
  <2>1. Len(r) = 0
    BY <1>5
  <2>2. Ordered(r, h, a)
    BY <1>1, <1>2, <1>3, <1>4, <1>5, <2>1 DEF Ordered
  <2> QED  BY <1>1, <1>5, <2>2 DEF r
<1>6. CASE r # <<>>
  <2> DEFINE m == Head(r)
             g == Append(h, m)
  <2>1. Len(r) >= 1 /\ m = r[1] /\ m \in 1 .. a
    BY <1>1, <1>6
  <2>2. m = Len(h) + 1
    <3>1. 1 \in DOMAIN r
      BY <1>2, <2>1
    <3>2. m = a - Len(r) + 1
      BY <1>4, <2>1, <3>1
    <3> QED  BY <1>1, <1>2, <1>3, <3>2
  <2> HIDE DEF m
  <2>3. /\ g \in Seq(1 .. a) /\ Len(g) = Len(h) + 1 /\ DOMAIN g = 1 .. Len(h) + 1
        /\ \A i \in 1 .. Len(h) : g[i] = h[i]
        /\ g[Len(h) + 1] = m
    BY <2>1, AppendProperties
  <2> HIDE DEF g
  <2>4. \A i \in DOMAIN g : g[i] = i
    <3> SUFFICES ASSUME NEW i \in 1 .. Len(h) + 1 PROVE g[i] = i
      BY <2>3
    <3>1. CASE i \in 1 .. Len(h)
      BY <1>2, <2>3, <3>1 DEF Ordered
    <3>2. CASE i = Len(h) + 1
      BY <2>2, <2>3, <3>2
    <3> QED  BY <1>2, <3>1, <3>2
  <2>5. Ordered(r, g, a)
    BY <1>1, <1>2, <1>3, <1>4, <1>6, <2>3, <2>4 DEF Ordered
  <2> QED  BY <1>1, <1>6, <2>1, <2>3, <2>5 DEF r, m, g
<1> QED  BY <1>5, <1>6

LEMMA LongTail ==
    ASSUME NEW S, NEW q \in Seq(S), Len(q) > 1
    PROVE  q # <<>> /\ Tail(q) # <<>>
<1>1. q # <<>>
  OBVIOUS
<1>2. Tail(q) \in Seq(S) /\ Len(Tail(q)) = Len(q) - 1
  BY <1>1, HeadTailProperties
<1> DEFINE r == Tail(q)
<1> HIDE DEF r
<1>3. r \in Seq(S) /\ Len(r) # 0
  BY <1>2 DEF r
<1>4. r # <<>>
  BY <1>3
<1> QED  BY <1>1, <1>4 DEF r

LEMMA AppendOrdered ==
    ASSUME NEW a \in Nat, NEW q \in Seq(1 .. a), NEW h \in Seq(1 .. a), Ordered(q, h, a)
    PROVE  /\ Append(q, a + 1) \in Seq(1 .. (a + 1))
           /\ Append(q, a + 1) # <<>>
           /\ Len(Append(q, a + 1)) = Len(q) + 1
           /\ q = <<>> => /\ Append(h, a + 1) \in Seq(1 .. (a + 1))
                         /\ Ordered(Append(q, a + 1), Append(h, a + 1), a + 1)
           /\ q # <<>> => Ordered(Append(q, a + 1), h, a + 1)
<1> DEFINE r == Append(q, a + 1)
           g == Append(h, a + 1)
<1>0. q \in Seq(1 .. (a + 1)) /\ h \in Seq(1 .. (a + 1)) /\ a + 1 \in 1 .. (a + 1)
  <2>1. 1 .. a \subseteq 1 .. (a + 1)
    OBVIOUS
  <2> QED  BY <2>1
<1>1. /\ r \in Seq(1 .. (a + 1)) /\ Len(r) = Len(q) + 1 /\ DOMAIN r = 1 .. Len(q) + 1
      /\ \A i \in 1 .. Len(q) : r[i] = q[i]
      /\ r[Len(q) + 1] = a + 1
  BY <1>0, AppendProperties
<1>2. /\ g \in Seq(1 .. (a + 1)) /\ Len(g) = Len(h) + 1 /\ DOMAIN g = 1 .. Len(h) + 1
      /\ \A i \in 1 .. Len(h) : g[i] = h[i]
      /\ g[Len(h) + 1] = a + 1
  BY <1>0, AppendProperties
<1>3. /\ Len(q) \in Nat /\ Len(h) \in Nat
      /\ DOMAIN q = 1 .. Len(q) /\ DOMAIN h = 1 .. Len(h)
  OBVIOUS
<1> HIDE DEF r, g
<1>4. r # <<>>
  BY <1>1, <1>3
<1>5. \A i \in DOMAIN r : r[i] = (a + 1) - Len(r) + i
  <2> SUFFICES ASSUME NEW i \in 1 .. Len(q) + 1 PROVE r[i] = (a + 1) - Len(r) + i
    BY <1>1
  <2>1. CASE i \in 1 .. Len(q)
    <3>1. r[i] = q[i] /\ q[i] = a - Len(q) + i
      BY <1>1, <1>3, <2>1 DEF Ordered
    <3> QED  BY <1>1, <1>3, <3>1
  <2>2. CASE i = Len(q) + 1
    BY <1>1, <1>3, <2>2
  <2> QED  BY <1>3, <2>1, <2>2
<1>6. CASE q = <<>>
  <2>1. Len(q) = 0 /\ Len(h) = a
    BY <1>3, <1>6 DEF Ordered
  <2>2. \A i \in DOMAIN g : g[i] = i
    <3> SUFFICES ASSUME NEW i \in 1 .. Len(h) + 1 PROVE g[i] = i
      BY <1>2
    <3>1. CASE i \in 1 .. Len(h)
      BY <1>2, <1>3, <3>1 DEF Ordered
    <3>2. CASE i = Len(h) + 1
      BY <1>2, <2>1, <3>2
    <3> QED  BY <1>3, <3>1, <3>2
  <2>3. Ordered(r, g, a + 1)
    BY <1>1, <1>2, <1>4, <1>5, <2>1, <2>2 DEF Ordered
  <2> QED  BY <1>1, <1>2, <1>4, <1>6, <2>3 DEF r, g
<1>7. CASE q # <<>>
  <2>1. Ordered(r, h, a + 1)
    BY <1>1, <1>3, <1>4, <1>5, <1>7 DEF Ordered
  <2> QED  BY <1>1, <1>4, <1>7, <2>1 DEF r
<1> QED  BY <1>6, <1>7

-----------------------------------------------------------------------------
(* The longer list of messages has all the shorter one has. *)
LEMMA TxsGrow ==
    ASSUME NEW a \in Nat, NEW t \in Txs(a)
    PROVE  t \in Txs(a + 1)
<1>1. 1 .. a \subseteq 1 .. (a + 1)
  OBVIOUS
<1>2. Seq(1 .. a) \subseteq Seq(1 .. (a + 1))
  BY <1>1
<1> QED  BY <1>1, <1>2 DEF Txs

(* _dlms_msg_get and _dlms_msg_put of the head keep the number of buffers. *)
LEMMA GiveBackType ==
    ASSUME NEW a \in Nat, NEW t \in Txs(a), t.queue # <<>>
    PROVE  /\ GiveBack(t) \in Txs(a)
           /\ GiveBack(t).spare = t.spare + 1
           /\ GiveBack(t).queue = Tail(t.queue)
           /\ GiveBack(t).handed = t.handed
           /\ GiveBack(t).out = t.out
<1>1. t.queue \in Seq(1 .. a) /\ t.spare \in Nat
  BY DEF Txs
<1>2. Tail(t.queue) \in Seq(1 .. a)
  BY <1>1, HeadTailProperties
<1>3. /\ GiveBack(t).spare = t.spare + 1
      /\ GiveBack(t).queue = Tail(t.queue)
      /\ GiveBack(t).handed = t.handed
      /\ GiveBack(t).out = t.out
  BY DEF GiveBack, Txs
<1>4. t.spare + 1 \in Nat
  BY <1>1
<1>5. GiveBack(t) \in Txs(a)
  BY <1>2, <1>4 DEF GiveBack, Txs
<1> QED  BY <1>2, <1>3, <1>5

(* A request adds its message to those handed over. *)
LEMMA RequestedType ==
    ASSUME NEW a \in Nat, NEW t \in Txs(a), NEW m \in 1 .. a
    PROVE  /\ Requested(t, m) \in Txs(a)
           /\ Requested(t, m).spare = t.spare
           /\ Requested(t, m).queue = t.queue
           /\ Requested(t, m).handed = Append(t.handed, m)
           /\ Requested(t, m).out = t.out \cup {m}
<1>1. t.handed \in Seq(1 .. a)
  BY DEF Txs
<1>2. Append(t.handed, m) \in Seq(1 .. a)
  BY <1>1, AppendProperties
<1>3. /\ Requested(t, m).spare = t.spare
      /\ Requested(t, m).queue = t.queue
      /\ Requested(t, m).handed = Append(t.handed, m)
      /\ Requested(t, m).out = t.out \cup {m}
  BY DEF Requested, Txs
<1>4. t.out \cup {m} \in SUBSET (1 .. a)
  BY DEF Txs
<1>5. Requested(t, m) \in Txs(a)
  BY <1>2, <1>4 DEF Requested, Txs
<1> QED  BY <1>2, <1>3, <1>5

(* A record of which only the confirms to come, or only the age, changes.  *)
LEMMA OutShrinks ==
    ASSUME NEW a \in Nat, NEW t, Good(t, a), NEW o \in SUBSET t.out
    PROVE  /\ Good([t EXCEPT !.out = o], a)
           /\ [t EXCEPT !.out = o].queue = t.queue
           /\ [t EXCEPT !.out = o].out = o
<1> DEFINE u == [t EXCEPT !.out = o]
<1>1. t \in Txs(a) /\ o \in SUBSET (1 .. a)
  BY DEF Good, Txs
<1>2. u.queue = t.queue /\ u.handed = t.handed /\ u.spare = t.spare /\ u.out = o
  BY <1>1 DEF Txs
<1>3. u \in Txs(a)
  BY <1>1 DEF Txs
<1> HIDE DEF u
<1>4. Good(u, a)
  BY <1>2, <1>3 DEF Good, Ordered
<1> QED  BY <1>2, <1>4 DEF u

LEMMA OldGrows ==
    ASSUME NEW a \in Nat, NEW t, Good(t, a)
    PROVE  /\ Good([t EXCEPT !.old = TRUE], a)
           /\ [t EXCEPT !.old = TRUE].queue = t.queue
           /\ [t EXCEPT !.old = TRUE].out = t.out
<1> DEFINE u == [t EXCEPT !.old = TRUE]
<1>1. t \in Txs(a)
  BY DEF Good
<1>2. u.queue = t.queue /\ u.handed = t.handed /\ u.spare = t.spare /\ u.out = t.out
  BY <1>1 DEF Txs
<1>3. u \in Txs(a)
  BY <1>1 DEF Txs
<1> HIDE DEF u
<1>4. Good(u, a)
  BY <1>2, <1>3 DEF Good, Ordered
<1> QED  BY <1>2, <1>4 DEF u

(* A head goes, and the next message, where there is one, is handed over:  *)
(* what a confirm and a head that is given up have in common.              *)
LEMMA NextHandedOver ==
    ASSUME NEW a \in Nat, NEW t, Good(t, a), t.queue # <<>>
    PROVE  /\ GiveBack(t).queue = <<>> =>
                 Good(GiveBack(t), a) /\ GiveBack(t).out = t.out
           /\ GiveBack(t).queue # <<>> =>
                 /\ Good(SendQueued(GiveBack(t)), a)
                 /\ SendQueued(GiveBack(t)).queue # <<>>
                 /\ \E m \in 1 .. a : SendQueued(GiveBack(t)).out = t.out \cup {m}
<1> DEFINE rest == GiveBack(t)
<1>1. /\ t \in Txs(a) /\ t.queue \in Seq(1 .. a) /\ t.handed \in Seq(1 .. a)
      /\ t.spare \in Nat /\ Ordered(t.queue, t.handed, a)
      /\ t.spare + Len(t.queue) = Buffers
  BY DEF Good, Txs
<1>2. /\ rest \in Txs(a) /\ rest.spare = t.spare + 1 /\ rest.queue = Tail(t.queue)
      /\ rest.handed = t.handed /\ rest.out = t.out
  BY <1>1, GiveBackType
<1>3. Len(Tail(t.queue)) = Len(t.queue) - 1 /\ Len(t.queue) \in Nat
  BY <1>1, TailOrdered
<1> HIDE DEF rest
<1>4. rest.spare + Len(rest.queue) = Buffers
  <2>1. Len(rest.queue) = Len(t.queue) - 1
    BY <1>2, <1>3
  <2>2. rest.spare = t.spare + 1 /\ t.spare \in Nat /\ t.spare + Len(t.queue) = Buffers
    BY <1>1, <1>2
  <2> QED  BY <1>3, <2>1, <2>2
<1>5. CASE rest.queue = <<>>
  <2>1. Ordered(rest.queue, rest.handed, a)
    BY <1>1, <1>2, <1>5, TailOrdered
  <2> QED  BY <1>2, <1>4, <1>5, <2>1 DEF Good, rest
<1>6. CASE rest.queue # <<>>
  <2> DEFINE m == Head(rest.queue)
             u == Requested(rest, m)
  <2>1. m \in 1 .. a /\ Ordered(rest.queue, Append(rest.handed, m), a)
    BY <1>1, <1>2, <1>6, TailOrdered
  <2> HIDE DEF m
  <2>2. /\ u \in Txs(a) /\ u.spare = rest.spare /\ u.queue = rest.queue
        /\ u.handed = Append(rest.handed, m) /\ u.out = rest.out \cup {m}
    BY <1>2, <2>1, RequestedType
  <2> HIDE DEF u
  <2>3. Good(u, a)
    BY <1>4, <2>1, <2>2 DEF Good
  <2>4. u = SendQueued(GiveBack(t))
    BY DEF SendQueued, u, m, rest
  <2> QED  BY <1>2, <1>6, <2>1, <2>2, <2>3, <2>4 DEF rest
<1> QED  BY <1>5, <1>6 DEF rest

(* _dlmsotcp_cl_432_dl_data_cfm_cb *)
LEMMA ConfirmedGood ==
    ASSUME NEW a \in Nat, NEW t, Good(t, a)
    PROVE  Good(Confirmed(t), a)
<1>1. CASE t.queue = <<>>
  BY <1>1 DEF Confirmed
<1>2. CASE t.queue # <<>> /\ GiveBack(t).queue = <<>>
  <2>1. Confirmed(t) = GiveBack(t)
    BY <1>2 DEF Confirmed
  <2> QED  BY <1>2, <2>1, NextHandedOver
<1>3. CASE t.queue # <<>> /\ GiveBack(t).queue # <<>>
  <2>1. Confirmed(t) = SendQueued(GiveBack(t))
    BY <1>3 DEF Confirmed
  <2> QED  BY <1>3, <2>1, NextHandedOver
<1> QED  BY <1>1, <1>2, <1>3

(* A head that is too old has another message behind it. *)
LEMMA TooOldHasNext ==
    ASSUME NEW a \in Nat, NEW t, Good(t, a), TooOld(t)
    PROVE  t.queue # <<>> /\ GiveBack(t).queue # <<>>
<1>1. t \in Txs(a) /\ t.queue \in Seq(1 .. a) /\ Len(t.queue) > 1
  BY DEF Good, Txs, TooOld
<1>2. t.queue # <<>> /\ Tail(t.queue) # <<>>
  BY <1>1, LongTail
<1>3. GiveBack(t).queue = Tail(t.queue)
  BY <1>1, <1>2, GiveBackType
<1> QED  BY <1>2, <1>3

LEMMA WithoutOldGood ==
    ASSUME NEW a \in Nat, NEW t, Good(t, a)
    PROVE  Good(WithoutOld(t), a)
<1>1. CASE TooOld(t)
  BY <1>1, TooOldHasNext, NextHandedOver DEF WithoutOld
<1>2. CASE ~TooOld(t)
  BY <1>2 DEF WithoutOld
<1> QED  BY <1>1, <1>2

(* A message that is given the buffer that is free. *)
LEMMA TakenGood ==
    ASSUME NEW a \in Nat, NEW t, Good(t, a), t.spare > 0
    PROVE  /\ Good(Taken(t, a + 1), a + 1)
           /\ Taken(t, a + 1).queue # <<>>
           /\ t.queue = <<>> => Taken(t, a + 1).out = t.out \cup {a + 1}
           /\ t.queue # <<>> => Taken(t, a + 1).out = t.out
<1> DEFINE m == a + 1
           s == IF t.queue = <<>> THEN Requested(t, m) ELSE t
           u == Taken(t, m)
<1>1. /\ t \in Txs(m) /\ m \in Nat /\ m \in 1 .. m
      /\ t.queue \in Seq(1 .. a) /\ t.handed \in Seq(1 .. a) /\ t.spare \in Nat
      /\ Ordered(t.queue, t.handed, a) /\ t.spare + Len(t.queue) = Buffers
  BY TxsGrow DEF Good, Txs
<1>2. /\ s \in Txs(m) /\ s.spare = t.spare /\ s.queue = t.queue
      /\ t.queue = <<>> => s.handed = Append(t.handed, m) /\ s.out = t.out \cup {m}
      /\ t.queue # <<>> => s.handed = t.handed /\ s.out = t.out
  <2>1. CASE t.queue = <<>>
    <3>1. s = Requested(t, m)
      BY <2>1
    <3> HIDE DEF s, m
    <3>2. /\ Requested(t, m) \in Txs(m) /\ Requested(t, m).spare = t.spare
          /\ Requested(t, m).queue = t.queue
          /\ Requested(t, m).handed = Append(t.handed, m)
          /\ Requested(t, m).out = t.out \cup {m}
      BY <1>1, RequestedType
    <3> QED  BY <2>1, <3>1, <3>2
  <2>2. CASE t.queue # <<>>
    BY <1>1, <2>2
  <2> QED  BY <2>1, <2>2
<1>3. u = [s EXCEPT !.spare = s.spare - 1, !.queue = Append(s.queue, m)]
  BY DEF Taken
<1> HIDE DEF s, u
<1>4. /\ Append(t.queue, m) \in Seq(1 .. m) /\ Append(t.queue, m) # <<>>
      /\ Len(Append(t.queue, m)) = Len(t.queue) + 1
      /\ t.queue = <<>> => Ordered(Append(t.queue, m), Append(t.handed, m), m)
      /\ t.queue # <<>> => Ordered(Append(t.queue, m), t.handed, m)
  BY <1>1, AppendOrdered, Zenon
<1>5. t.spare - 1 \in Nat
  BY <1>1
<1> HIDE DEF m
<1>6. /\ u.spare = t.spare - 1 /\ u.queue = Append(t.queue, m)
      /\ u.handed = s.handed /\ u.out = s.out
  BY <1>2, <1>3 DEF Txs
<1>7. u \in Txs(m)
  BY <1>2, <1>3, <1>4, <1>5 DEF Txs
<1>8. u.spare + Len(u.queue) = Buffers
  <2>1. Len(t.queue) \in Nat
    BY <1>1
  <2>2. Len(u.queue) = Len(t.queue) + 1 /\ u.spare = t.spare - 1
    BY <1>4, <1>6
  <2>3. t.spare \in Nat /\ t.spare + Len(t.queue) = Buffers
    BY <1>1
  <2> QED  BY <2>1, <2>2, <2>3
<1>9. Ordered(u.queue, u.handed, m)
  BY <1>2, <1>4, <1>6
<1>10. Good(u, m)
  BY <1>7, <1>8, <1>9 DEF Good
<1> QED  BY <1>2, <1>4, <1>6, <1>10 DEF m, u

-----------------------------------------------------------------------------
(* The requests the base node has not confirmed, when g messages have been *)
(* given up.                                                               *)
Few(t, g) == Cardinality(t.out) <= g + (IF t.queue = <<>> THEN 0 ELSE 1)

LEMMA OutIsFinite ==
    ASSUME NEW a \in Nat, NEW t, Good(t, a)
    PROVE  IsFiniteSet(t.out) /\ Cardinality(t.out) \in Nat
<1>1. t.out \in SUBSET (1 .. a)
  BY DEF Good, Txs
<1>2. IsFiniteSet(1 .. a)
  BY FS_Interval
<1> QED  BY <1>1, <1>2, FS_Subset, FS_CardinalityType

LEMMA OneMore ==
    ASSUME NEW S, IsFiniteSet(S), NEW m
    PROVE  Cardinality(S \cup {m}) <= Cardinality(S) + 1
<1>1. Cardinality(S) \in Nat
  BY FS_CardinalityType
<1>2. CASE m \in S
  BY <1>1, <1>2, FS_AddElement
<1>3. CASE m \notin S
  BY <1>1, <1>3, FS_AddElement
<1> QED  BY <1>2, <1>3

(* A head that goes and a next message that is handed over leave at most   *)
(* one request more, and none more when the head was the last.             *)
LEMMA ConfirmedFew ==
    ASSUME NEW a \in Nat, NEW g \in Nat, NEW t, Good(t, a), NEW id \in t.out, Few(t, g)
    PROVE  Few(Confirmed([t EXCEPT !.out = @ \ {id}]), g)
<1> DEFINE o == t.out \ {id}
           u == [t EXCEPT !.out = o]
           c == Confirmed(u)
<1>1. Good(u, a) /\ u.queue = t.queue /\ u.out = o
  BY OutShrinks
<1>2. Cardinality(o) = Cardinality(t.out) - 1 /\ Cardinality(t.out) \in Nat /\ IsFiniteSet(o)
  BY OutIsFinite, FS_RemoveElement
<1>3. Cardinality(o) <= g + (IF t.queue = <<>> THEN 0 ELSE 1) - 1 /\ Cardinality(o) \in Int
  BY <1>2 DEF Few
<1> HIDE DEF o, u
<1>4. CASE u.queue = <<>>
  <2>1. c = u
    BY <1>4 DEF Confirmed
  <2>2. Cardinality(u.out) <= g
    BY <1>1, <1>3, <1>4
  <2>3. Few(u, g)
    BY <1>4, <2>2 DEF Few
  <2> HIDE DEF c
  <2>4. Few(c, g)
    BY <2>1, <2>3
  <2> QED  BY <2>4 DEF c, u, o
<1>5. CASE u.queue # <<>> /\ GiveBack(u).queue = <<>>
  <2>1. c = GiveBack(u)
    BY <1>5 DEF Confirmed
  <2>2. c.out = o
    BY <1>1, <1>5, <2>1, NextHandedOver
  <2>3. Cardinality(c.out) <= g
    BY <1>1, <1>3, <1>5, <2>2
  <2>4. Few(c, g)
    BY <1>5, <2>1, <2>3 DEF Few
  <2> QED  BY <2>4 DEF c, u, o
<1>6. CASE u.queue # <<>> /\ GiveBack(u).queue # <<>>
  <2>1. c = SendQueued(GiveBack(u))
    BY <1>6 DEF Confirmed
  <2>2. c.queue # <<>> /\ \E m \in 1 .. a : c.out = o \cup {m}
    BY <1>1, <1>6, <2>1, NextHandedOver
  <2> HIDE DEF c
  <2>3. Cardinality(c.out) <= Cardinality(o) + 1
    BY <1>2, <2>2, OneMore
  <2>4. Cardinality(o) <= g
    BY <1>1, <1>3, <1>6
  <2>5. Cardinality(c.out) \in Nat
    BY <1>2, <2>2, FS_AddElement, FS_CardinalityType
  <2>6. Few(c, g)
    BY <1>3, <2>2, <2>3, <2>4, <2>5 DEF Few
  <2> QED  BY <2>6 DEF c, u, o
<1> QED  BY <1>4, <1>5, <1>6

LEMMA TakenFew ==
    ASSUME NEW a \in Nat, NEW g \in Nat, NEW t, Good(t, a), t.spare > 0, Few(t, g)
    PROVE  Few(Taken(t, a + 1), g)
<1> DEFINE u == Taken(t, a + 1)
<1>1. IsFiniteSet(t.out) /\ Cardinality(t.out) \in Nat
  BY OutIsFinite
<1>2. u.queue # <<>>
  BY TakenGood
<1>3. CASE t.queue = <<>>
  <2>1. u.out = t.out \cup {a + 1}
    BY <1>3, TakenGood
  <2> HIDE DEF u
  <2>2. Cardinality(u.out) <= Cardinality(t.out) + 1 /\ Cardinality(u.out) \in Nat
    BY <1>1, <2>1, OneMore, FS_AddElement, FS_CardinalityType
  <2>3. Cardinality(t.out) <= g
    BY <1>3 DEF Few
  <2>4. Few(u, g)
    BY <1>1, <1>2, <2>2, <2>3 DEF Few
  <2> QED  BY <2>4 DEF u
<1>4. CASE t.queue # <<>>
  <2>1. u.out = t.out
    BY <1>4, TakenGood
  <2> HIDE DEF u
  <2>2. Few(u, g)
    BY <1>2, <1>4, <2>1 DEF Few
  <2> QED  BY <2>2 DEF u
<1> QED  BY <1>3, <1>4

LEMMA WithoutOldFew ==
    ASSUME NEW a \in Nat, NEW g \in Nat, NEW t, Good(t, a), Few(t, g)
    PROVE  Few(WithoutOld(t), IF TooOld(t) THEN g + 1 ELSE g)
<1> DEFINE u == WithoutOld(t)
<1>1. CASE TooOld(t)
  <2>1. u = SendQueued(GiveBack(t))
    BY <1>1 DEF WithoutOld
  <2>2. t.queue # <<>> /\ GiveBack(t).queue # <<>>
    BY <1>1, TooOldHasNext
  <2>3. u.queue # <<>> /\ \E m \in 1 .. a : u.out = t.out \cup {m}
    BY <2>1, <2>2, NextHandedOver
  <2> HIDE DEF u
  <2>4. IsFiniteSet(t.out) /\ Cardinality(t.out) \in Nat
    BY OutIsFinite
  <2>5. Cardinality(u.out) <= Cardinality(t.out) + 1 /\ Cardinality(u.out) \in Nat
    BY <2>3, <2>4, OneMore, FS_AddElement, FS_CardinalityType
  <2>6. Cardinality(t.out) <= g + 1
    BY <2>2 DEF Few
  <2>7. Few(u, g + 1)
    BY <2>3, <2>4, <2>5, <2>6 DEF Few
  <2> QED  BY <1>1, <2>7 DEF u
<1>2. CASE ~TooOld(t)
  BY <1>2 DEF WithoutOld
<1> QED  BY <1>1, <1>2

-----------------------------------------------------------------------------
(* What the base node's side, the table and the concentrator's side may    *)
(* hold, apart from the messages.                                          *)
TableOK ==
    /\ session \in {"none", "open", "closed", "ended"}
    /\ zero \in {"stdin", "free", "client", "dead"} /\ notify \in BOOLEAN
    /\ conn \in [Nodes -> BOOLEAN] /\ auto \in [Nodes -> 0 .. 255]
    /\ iterator \in 0 .. N + 1 /\ link \in [Nodes -> BOOLEAN]
    /\ releasing \subseteq {n \in Nodes : link[n]}
    /\ asked \in {"no", "early", "listed"} /\ known \subseteq Nodes /\ wish \subseteq Nodes
    /\ events \in 0 .. MaxEvents

MessagesOK ==
    /\ accepted \in Nat /\ givenUp \in Nat
    /\ Good(tx, accepted)
    /\ Few(tx, givenUp)

LEMMA MessagesInit == Init => MessagesOK
<1> SUFFICES ASSUME Init PROVE MessagesOK
  OBVIOUS
<1>1. /\ tx.spare = Buffers /\ tx.queue = <<>> /\ tx.out = {} /\ tx.handed = <<>>
      /\ accepted = 0 /\ givenUp = 0
  BY DEF Init
<1>2. tx \in Txs(0)
  BY GatewayAssumption DEF Init, Txs
<1>3. Ordered(tx.queue, tx.handed, 0)
  <2>1. /\ tx.queue = <<>> /\ tx.handed = <<>> /\ Len(tx.queue) = 0 /\ Len(tx.handed) = 0
        /\ DOMAIN tx.queue = {} /\ DOMAIN tx.handed = {}
    BY <1>1
  <2>2. Len(tx.handed) = 0 - Len(tx.queue) + (IF tx.queue = <<>> THEN 0 ELSE 1)
    <3>1. 0 = 0 - 0 + 0
      OBVIOUS
    <3> QED  BY <2>1, <3>1, Zenon
  <2>3. /\ \A i \in DOMAIN tx.handed : tx.handed[i] = i
        /\ \A i \in DOMAIN tx.queue : tx.queue[i] = 0 - Len(tx.queue) + i
    BY <2>1
  <2> QED  BY <2>2, <2>3 DEF Ordered
<1>4. tx.spare + Len(tx.queue) = Buffers
  BY <1>1, GatewayAssumption
<1>5. Cardinality(tx.out) = 0
  BY <1>1, FS_EmptySet
<1> QED  BY <1>1, <1>2, <1>3, <1>4, <1>5 DEF MessagesOK, Good, Few

(* A change of the confirms to come, or of the age, and nothing else.      *)
LEMMA FewerOut ==
    ASSUME NEW a \in Nat, NEW g \in Nat, NEW t, Good(t, a), Few(t, g), NEW o \in SUBSET t.out
    PROVE  Good([t EXCEPT !.out = o], a) /\ Few([t EXCEPT !.out = o], g)
<1> DEFINE u == [t EXCEPT !.out = o]
<1>1. Good(u, a) /\ u.queue = t.queue /\ u.out = o
  BY OutShrinks
<1>2. IsFiniteSet(t.out) /\ Cardinality(t.out) \in Nat
  BY OutIsFinite
<1>3. Cardinality(o) <= Cardinality(t.out) /\ Cardinality(o) \in Nat
  BY <1>2, FS_Subset, FS_CardinalityType
<1> HIDE DEF u
<1>4. Few(u, g)
  BY <1>1, <1>2, <1>3 DEF Few
<1> QED  BY <1>1, <1>4 DEF u

LEMMA MessagesNext == MessagesOK /\ [Next]_vars => MessagesOK'
<1> SUFFICES ASSUME MessagesOK, [Next]_vars PROVE MessagesOK'
  OBVIOUS
<1>0. accepted \in Nat /\ givenUp \in Nat /\ Good(tx, accepted) /\ Few(tx, givenUp)
  BY DEF MessagesOK
<1>1. CASE RxData
  <2> DEFINE t == IF tx.spare > 0 THEN Taken(tx, accepted + 1) ELSE tx
  <2>1. accepted' \in Nat /\ Good(t, accepted') /\ Few(t, givenUp)
    <3>1. CASE tx.spare > 0
      <4>1. accepted' = accepted + 1 /\ t = Taken(tx, accepted + 1)
        BY <1>1, <3>1 DEF RxData
      <4>2. Good(Taken(tx, accepted + 1), accepted + 1) /\ Few(Taken(tx, accepted + 1), givenUp)
        BY <1>0, <3>1, TakenGood, TakenFew
      <4> QED  BY <1>0, <4>1, <4>2
    <3>2. CASE ~(tx.spare > 0)
      BY <1>0, <1>1, <3>2 DEF RxData
    <3> QED  BY <3>1, <3>2
  <2>2. tx' = WithoutOld(t) /\ givenUp' = IF TooOld(t) THEN givenUp + 1 ELSE givenUp
    BY <1>1 DEF RxData
  <2> HIDE DEF t
  <2>3. Good(tx', accepted') /\ Few(tx', givenUp')
    BY <1>0, <2>1, <2>2, WithoutOldGood, WithoutOldFew
  <2> QED  BY <1>0, <2>1, <2>2, <2>3 DEF MessagesOK
<1>2. CASE Confirms
  <2>1. PICK id \in tx.out : Confirm(id)
    BY <1>2 DEF Confirms
  <2> DEFINE u == [tx EXCEPT !.out = tx.out \ {id}]
  <2>2. tx' = Confirmed(u) /\ accepted' = accepted /\ givenUp' = givenUp
    BY <2>1 DEF Confirm
  <2>3. Good(u, accepted)
    BY <1>0, OutShrinks
  <2>4. Good(Confirmed(u), accepted)
    BY <1>0, <2>3, ConfirmedGood
  <2>5. Few(Confirmed(u), givenUp)
    BY <1>0, ConfirmedFew
  <2> HIDE DEF u
  <2> QED  BY <1>0, <2>2, <2>4, <2>5 DEF MessagesOK
<1>3. CASE \E id \in tx.out : LoseConfirm(id)
  <2>1. PICK id \in tx.out : LoseConfirm(id)
    BY <1>3
  <2>2. tx' = [tx EXCEPT !.out = tx.out \ {id}] /\ accepted' = accepted /\ givenUp' = givenUp
    BY <2>1 DEF LoseConfirm
  <2>3. Good([tx EXCEPT !.out = tx.out \ {id}], accepted)
        /\ Few([tx EXCEPT !.out = tx.out \ {id}], givenUp)
    BY <1>0, FewerOut
  <2> QED  BY <1>0, <2>2, <2>3 DEF MessagesOK
<1>4. CASE Age
  <2>1. tx' = [tx EXCEPT !.old = TRUE] /\ accepted' = accepted /\ givenUp' = givenUp
    BY <1>4 DEF Age
  <2>2. Good(tx', accepted) /\ tx'.queue = tx.queue /\ tx'.out = tx.out
    BY <1>0, <2>1, OldGrows
  <2> QED  BY <1>0, <2>1, <2>2 DEF MessagesOK, Few
<1>5. CASE Reboot
  <2>1. tx' = [tx EXCEPT !.out = {}] /\ accepted' = accepted /\ givenUp' = givenUp
    BY <1>5 DEF Reboot
  <2>2. Good([tx EXCEPT !.out = {}], accepted) /\ Few([tx EXCEPT !.out = {}], givenUp)
    BY <1>0, FewerOut
  <2> QED  BY <1>0, <2>1, <2>2 DEF MessagesOK
<1>6. CASE UNCHANGED msgVars
  BY <1>6 DEF msgVars, MessagesOK
<1>7. \/ RxData \/ Confirms \/ (\E id \in tx.out : LoseConfirm(id)) \/ Age \/ Reboot
      \/ UNCHANGED msgVars
  BY DEF Next, vars, RxNotify, RxDelete, RxAuto, RxNoAuto, Join, Leave, ReleaseSilently,
         ListRsp, Connect, Disconnect, SelectFails
<1> QED  BY <1>1, <1>2, <1>3, <1>4, <1>5, <1>6, <1>7

-----------------------------------------------------------------------------
LEMMA TableInit == Init => TableOK
<1> SUFFICES ASSUME Init PROVE TableOK
  OBVIOUS
<1>1. /\ conn \in [Nodes -> BOOLEAN] /\ auto \in [Nodes -> 0 .. 255] /\ link \in [Nodes -> BOOLEAN]
      /\ iterator \in 0 .. N + 1 /\ events \in 0 .. MaxEvents
  BY GatewayAssumption DEF Init
<1> QED  BY <1>1 DEF Init, TableOK

LEMMA TableNext == TableOK /\ [Next]_vars => TableOK'
<1> SUFFICES ASSUME TableOK, [Next]_vars PROVE TableOK'
  OBVIOUS
<1> USE DEF TableOK, Event, Running
<1>1. CASE RxData
  BY <1>1, GatewayAssumption DEF RxData, nodeVars, clientVars
<1>2. CASE Confirms \/ (\E id \in tx.out : LoseConfirm(id)) \/ Age
  <2>1. UNCHANGED <<session, zero, nodeVars, clientVars, events>>
    BY <1>2 DEF Confirms, Confirm, LoseConfirm, Age
  <2> QED  BY <2>1 DEF nodeVars, clientVars
<1>3. CASE RxNotify
  <2>1. asked' \in {"no", "early", "listed"} /\ known' \subseteq Nodes
    BY <1>3 DEF RxNotify, Connected
  <2> QED  BY <1>3, <2>1, GatewayAssumption DEF RxNotify
<1>4. ASSUME NEW n \in Nodes, RxDelete(n) \/ RxNoAuto(n) PROVE TableOK'
  BY <1>4, GatewayAssumption DEF RxDelete, RxNoAuto, Release
<1>5. ASSUME NEW n \in Nodes, RxAuto(n) PROVE TableOK'
  <2>1. (auto[n] + 1) % 256 \in 0 .. 255
    BY <1>5
  <2> QED  BY <1>5, <2>1, GatewayAssumption DEF RxAuto
<1>6. ASSUME NEW n \in Nodes, Join(n) PROVE TableOK'
  BY <1>6, GatewayAssumption DEF Join, Told
<1>7. ASSUME NEW n \in Nodes, Leave(n) PROVE TableOK'
  BY <1>7, GatewayAssumption DEF Leave, TellOfLeave, ToldGone
<1>8. ASSUME NEW n \in Nodes, ReleaseSilently(n) PROVE TableOK'
  BY <1>8, GatewayAssumption DEF ReleaseSilently, clientVars
<1>9. CASE ListRsp
  <2>1. iterator' \in 0 .. N + 1
    <3>1. iterator' = N + 1 \/ \E last \in Nodes : iterator' = last + 1
      BY <1>9 DEF ListRsp
    <3> QED  BY <3>1, GatewayAssumption DEF Nodes
  <2>2. conn' \in [Nodes -> BOOLEAN]
    BY <1>9 DEF ListRsp
  <2>3. UNCHANGED <<session, zero, notify, auto, link, releasing, clientVars, events>>
    BY <1>9 DEF ListRsp
  <2> QED  BY <2>1, <2>2, <2>3 DEF clientVars
<1>10. CASE Connect
  <2>1. session' \in {"none", "open", "closed", "ended"} /\ zero' \in {"stdin", "free", "client", "dead"}
    BY <1>10 DEF Connect
  <2>2. events' \in 0 .. MaxEvents
    BY <1>10, GatewayAssumption DEF Connect
  <2>3. asked' = "no" /\ known' = {} /\ wish' = {}
    BY <1>10 DEF Connect
  <2>4. UNCHANGED <<notify, conn, auto, iterator, link, releasing>>
    BY <1>10 DEF Connect, nodeVars
  <2> QED  BY <2>1, <2>2, <2>3, <2>4
<1>11. CASE Disconnect
  BY <1>11 DEF Disconnect, Close432, Release
<1>12. CASE Reboot
  BY <1>12, GatewayAssumption DEF Reboot
<1>13. CASE SelectFails
  BY <1>13 DEF SelectFails, nodeVars, clientVars
<1>14. CASE UNCHANGED vars
  BY <1>14 DEF vars, nodeVars, clientVars
<1> QED
  BY <1>1, <1>2, <1>3, <1>4, <1>5, <1>6, <1>7, <1>8, <1>9, <1>10, <1>11, <1>12, <1>13, <1>14
  DEF Next

-----------------------------------------------------------------------------
(* What the concentrator knows, where it asks for the automatic close only *)
(* of a node it has been told of, as often as it likes.                    *)
Careful == "unknown" \notin Env

KnowledgeOK ==
    /\ session # "open" \/ ~notify => asked = "no" /\ known = {}
    /\ \A n \in known : conn[n]
    /\ \A n \in Nodes : auto[n] # 0 => conn[n]
    /\ asked = "listed" => iterator > N /\ \A n \in Nodes : conn[n] => n \in known

LEMMA KnowledgeInit == Init => KnowledgeOK
BY DEF Init, KnowledgeOK, Nodes

LEMMA KnowledgeNext ==
    ASSUME Careful, TableOK, KnowledgeOK, [Next]_vars
    PROVE  KnowledgeOK'
<1> USE DEF KnowledgeOK, TableOK, Event, Running
<1>1. CASE UNCHANGED <<session, nodeVars, clientVars>>
  BY <1>1 DEF nodeVars, clientVars
<1>2. CASE RxNotify
  BY <1>2 DEF RxNotify, Connected
<1>3. ASSUME NEW n \in Nodes, RxDelete(n) \/ RxNoAuto(n) PROVE KnowledgeOK'
  BY <1>3 DEF RxDelete, RxNoAuto
<1>4. ASSUME NEW n \in Nodes, RxAuto(n) PROVE KnowledgeOK'
  <2>1. conn[n]
    BY <1>4 DEF RxAuto, Careful
  <2> QED  BY <1>4, <2>1 DEF RxAuto
<1>5. ASSUME NEW n \in Nodes, Join(n) PROVE KnowledgeOK'
  BY <1>5 DEF Join, Told
<1>6. ASSUME NEW n \in Nodes, Leave(n) PROVE KnowledgeOK'
  BY <1>6 DEF Leave, TellOfLeave, ToldGone
<1>7. ASSUME NEW n \in Nodes, ReleaseSilently(n) PROVE KnowledgeOK'
  BY <1>7 DEF ReleaseSilently, clientVars
<1>8. CASE ListRsp
  <2>1. UNCHANGED <<session, notify, auto, clientVars>> /\ iterator <= N
    BY <1>8 DEF ListRsp
  <2>2. \A n \in Nodes : conn[n] => conn'[n]
    BY <1>8 DEF ListRsp
  <2>3. asked # "listed"
    BY <2>1, GatewayAssumption
  <2> QED  BY <2>1, <2>2, <2>3 DEF clientVars
<1>9. CASE Connect
  BY <1>9 DEF Connect, nodeVars
<1>10. CASE Disconnect
  BY <1>10 DEF Disconnect, Close432
<1>11. CASE Reboot
  BY <1>11 DEF Reboot
<1>12. CASE SelectFails
  BY <1>12 DEF SelectFails, nodeVars, clientVars
<1>13. CASE RxData \/ Confirms \/ (\E id \in tx.out : LoseConfirm(id)) \/ Age
  <2>1. UNCHANGED <<session, nodeVars, clientVars>>
    BY <1>13 DEF RxData, Confirms, Confirm, LoseConfirm, Age
  <2> QED  BY <1>1, <2>1
<1>14. CASE UNCHANGED vars
  BY <1>1, <1>14 DEF vars
<1> QED
  BY <1>2, <1>3, <1>4, <1>5, <1>6, <1>7, <1>8, <1>9, <1>10, <1>11, <1>12, <1>13, <1>14
  DEF Next

-----------------------------------------------------------------------------
(* The types of the state, and that no buffer is ever lost: the two lists  *)
(* of messages have all of them, as the pool of _dlms_msg_get and          *)
(* _dlms_msg_put needs (dlmsotcp.c:81-109).                                *)
THEOREM TypeCorrect == Spec => []TypeOK
<1>1. Init => TableOK /\ MessagesOK
  BY TableInit, MessagesInit
<1>2. TableOK /\ MessagesOK /\ [Next]_vars => (TableOK /\ MessagesOK)'
  BY TableNext, MessagesNext
<1>3. TableOK /\ MessagesOK => TypeOK
  BY DEF TableOK, MessagesOK, Good, Txs, TypeOK
<1> QED  BY <1>1, <1>2, <1>3, PTL DEF Spec

(* Every message that was given a buffer is handed to the base node once   *)
(* and in the order of arrival, whatever confirms are lost, late or of     *)
(* another message and whenever the base node restarts.                    *)
THEOREM InOrder == Spec => []HandedInOrder
<1>1. MessagesOK => HandedInOrder
  BY DEF MessagesOK, Good, Ordered, HandedInOrder
<1> QED  BY <1>1, MessagesInit, MessagesNext, PTL DEF Spec

(* The base node has at most one message to confirm, and one more for each *)
(* that was given up after 40 seconds (dlmsotcp.c:816-832).                *)
THEOREM FewUnconfirmed == Spec => []OneAtATime
<1>1. MessagesOK => OneAtATime
  BY DEF MessagesOK, Few, OneAtATime
<1> QED  BY <1>1, MessagesInit, MessagesNext, PTL DEF Spec

(* A careful concentrator that asked when the list was complete knows the  *)
(* nodes in the table, however joins, departures, lists, disconnections    *)
(* and restarts follow each other.                                         *)
THEOREM UpToDate == ASSUME Careful PROVE Spec => []ClientUpToDate
<1>1. Init => TableOK /\ KnowledgeOK
  BY TableInit, KnowledgeInit
<1>2. TableOK /\ KnowledgeOK /\ [Next]_vars => (TableOK /\ KnowledgeOK)'
  BY TableNext, KnowledgeNext
<1>3. TableOK /\ KnowledgeOK => ClientUpToDate
  BY DEF TableOK, KnowledgeOK, ClientUpToDate, Connected
<1> QED  BY <1>1, <1>2, <1>3, PTL DEF Spec
=============================================================================
