--------------------------- MODULE UsiLinkProofs ---------------------------
(***************************************************************************)
(* Theorems about the USI link and their proofs, for rings of every size   *)
(* and messages of every number and length: while one thread sends, the    *)
(* transmit ring stays in step and implements the queue of UsiQueue; and   *)
(* the types of the whole link, whoever sends.                             *)
(***************************************************************************)
EXTENDS UsiLink, BasicLemmas, SequenceTheorems

(* Only the usi thread sends. *)
OneSender == Threads = {Usi}

(* What may stand in a cell: the header and the checksum are symbols, see  *)
(* UsiFrame.                                                               *)
Symbols == Nat \cup {Len(m) % LenMod : m \in Messages}
               \cup {Checksum(<<Len(m) % LenMod>> \o m) : m \in Messages}

(* The bytes of all the frames accepted. *)
Out == FlattenSeq([i \in DOMAIN accepted |-> Frame(accepted[i])])

-----------------------------------------------------------------------------
(* Frames *)

LEMMA EscapedType == ASSUME NEW c \in Symbols PROVE Escaped(c) \in Seq(Symbols)
<1>1. CASE c \in {Mark, Esc}
  <2>1. Flip(c) \in Nat /\ Esc \in Nat
    BY <1>1 DEF Flip, Mark, Esc
  <2>2. Flip(c) \in Symbols /\ Esc \in Symbols
    BY <2>1 DEF Symbols
  <2> HIDE DEF Symbols
  <2> QED  BY <1>1, <2>2 DEF Escaped
<1>2. CASE c \notin {Mark, Esc}
  <2> HIDE DEF Symbols
  <2> QED  BY <1>2 DEF Escaped
<1> QED  BY <1>1, <1>2

LEMMA FramedType == ASSUME NEW s \in Seq(Symbols) PROVE Framed(s) \in Seq(Symbols)
<1> DEFINE e == [i \in DOMAIN s |-> Escaped(s[i])]
<1>1. e \in Seq(Seq(Symbols))
  <2>1. \A i \in 1 .. Len(s) : Escaped(s[i]) \in Seq(Symbols)
    BY EscapedType
  <2>2. DOMAIN s = 1 .. Len(s) /\ Len(s) \in Nat
    OBVIOUS
  <2> QED  BY <2>1, <2>2
<1>2. Stuff(s) \in Seq(Symbols)
  BY <1>1, FlattenType DEF Stuff
<1>3. Mark \in Symbols
  BY DEF Mark, Symbols
<1> QED  BY <1>2, <1>3 DEF Framed

LEMMA FrameType ==
    ASSUME NEW m \in Messages
    PROVE  Content(m) \in Seq(Symbols) /\ Frame(m) \in Seq(Symbols)
<1> DEFINE h == Len(m) % LenMod
           c == Checksum(<<h>> \o m)
<1>1. m \in Seq(Bytes)
  BY TxAssumption
<1>2. h \in Symbols /\ c \in Symbols
  BY DEF Symbols
<1>3. Bytes \subseteq Symbols
  BY DEF Bytes, Symbols
<1>4. Content(m) = Append(<<h>> \o m, c)
  BY DEF Content
<1> HIDE DEF h, c
<1>5. m \in Seq(Symbols)
  BY <1>1, <1>3
<1>6. Content(m) \in Seq(Symbols)
  BY <1>2, <1>4, <1>5
<1> QED  BY <1>6, FramedType DEF Frame

LEMMA OutType == accepted \in Seq(Messages) => Out \in Seq(Symbols)
<1> SUFFICES ASSUME accepted \in Seq(Messages) PROVE Out \in Seq(Symbols)
  OBVIOUS
<1>1. [i \in DOMAIN accepted |-> Frame(accepted[i])] \in Seq(Seq(Symbols))
  <2>1. \A i \in 1 .. Len(accepted) : Frame(accepted[i]) \in Seq(Symbols)
    BY FrameType
  <2>2. DOMAIN accepted = 1 .. Len(accepted) /\ Len(accepted) \in Nat
    OBVIOUS
  <2> QED  BY <2>1, <2>2
<1> QED  BY <1>1, FlattenType DEF Out

(* One more message adds its frame. *)
LEMMA OutAppend ==
    ASSUME accepted \in Seq(Messages), NEW m \in Messages, accepted' = Append(accepted, m)
    PROVE  Out' = Out \o Frame(m)
<1> DEFINE fs == [i \in DOMAIN accepted |-> Frame(accepted[i])]
<1>1. fs \in Seq(Seq(Symbols)) /\ Len(fs) = Len(accepted) /\ Len(accepted) \in Nat
  <2>1. \A i \in 1 .. Len(accepted) : Frame(accepted[i]) \in Seq(Symbols)
    BY FrameType
  <2>2. DOMAIN accepted = 1 .. Len(accepted) /\ Len(accepted) \in Nat
    OBVIOUS
  <2> QED  BY <2>1, <2>2
<1>2. [i \in DOMAIN accepted' |-> Frame(accepted'[i])] = Append(fs, Frame(m))
  <2> DEFINE n == Len(accepted)
             gs == [i \in DOMAIN accepted' |-> Frame(accepted'[i])]
  <2>1. DOMAIN accepted' = 1 .. n + 1 /\ accepted'[n + 1] = m
        /\ \A i \in 1 .. n : accepted'[i] = accepted[i]
    OBVIOUS
  <2>2. DOMAIN gs = 1 .. n + 1 /\ gs[n + 1] = Frame(m)
        /\ \A i \in 1 .. n : gs[i] = Frame(accepted[i])
    BY <2>1
  <2>3. gs \in Seq(Seq(Symbols)) /\ Len(gs) = n + 1
    <3>1. \A i \in 1 .. n + 1 : Frame(accepted'[i]) \in Seq(Symbols)
      <4>1. \A i \in 1 .. n + 1 : accepted'[i] \in Messages
        OBVIOUS
      <4> QED  BY <4>1, FrameType
    <3>2. n + 1 \in Nat
      OBVIOUS
    <3> QED  BY <2>1, <3>1, <3>2
  <2>4. \A i \in 1 .. n : fs[i] = Frame(accepted[i])
    OBVIOUS
  <2> HIDE DEF gs, fs
  <2>5. /\ Append(fs, Frame(m)) \in Seq(Seq(Symbols))
        /\ Len(Append(fs, Frame(m))) = n + 1
        /\ \A i \in 1 .. n : Append(fs, Frame(m))[i] = fs[i]
        /\ Append(fs, Frame(m))[n + 1] = Frame(m)
    BY <1>1, FrameType, AppendProperties
  <2>6. \A i \in 1 .. n + 1 : gs[i] = Append(fs, Frame(m))[i]
    <3>1. \A i \in 1 .. n + 1 : i # n + 1 => i \in 1 .. n
      BY <1>1
    <3> HIDE DEF n
    <3> QED  BY <2>2, <2>4, <2>5, <3>1
  <2>7. gs = Append(fs, Frame(m))
    <3> HIDE DEF n
    <3> QED  BY <2>3, <2>5, <2>6, SeqEqual
  <2> QED  BY <2>7 DEF gs
<1> HIDE DEF fs
<1>3. FlattenSeq(Append(fs, Frame(m))) = FlattenSeq(fs) \o Frame(m)
  BY <1>1, FrameType, FlattenAppend
<1> QED  BY <1>2, <1>3 DEF Out, fs

-----------------------------------------------------------------------------
(* The inductive invariant *)

TypesOK ==
    /\ ring \in [Cells -> Symbols]
    /\ accepted \in Seq(Messages)
    /\ idxIn \in Cells /\ idxOut \in Cells
    /\ pc \in [Threads -> [op : Ops, msg : Messages \cup {<<>>}, num : Nat, seen : Nat]]

(* What the steps of usi_SendCmd and usi_TxProcess still to come rely on:  *)
(* with one sender nothing changes between the read of count and its       *)
(* write.                                                                  *)
InHandOK ==
    LET p == pc[Usi]
    IN  /\ p.op \in {"copied", "filled", "adding"} => p.msg \in Messages
        /\ p.op = "copied" => aux = Content(p.msg)
        /\ p.op \in {"filled", "adding"} => p.num = Len(Frame(p.msg))
        /\ p.op \in {"adding", "subtracting"} => p.seen = count
        /\ p.op \in {"written", "subtracting"} =>
              p.num \in 1 .. count /\ idxOut + p.num =< Size

(* idxIn is count bytes, and those of a frame not yet added to it, ahead   *)
(* of idxOut.                                                              *)
InSync(ahead) ==
    /\ count \in Nat /\ count + ahead < Size
    /\ idxIn = idxOut + count + ahead \/ idxIn + Size = idxOut + count + ahead

(* The count bytes from idxOut on are the last of the frames accepted, ... *)
Holds ==
    /\ count =< Len(Out)
    /\ \A j \in 1 .. count : ring[Wrap(idxOut + j - 1)] = Out[Len(Out) - count + j]

(* ... and behind them is the frame that is about to be. *)
Filled ==
    pc[Usi].op \in {"filled", "adding"} =>
        \A j \in 1 .. pc[Usi].num :
            ring[Wrap(idxOut + count + j - 1)] = Frame(pc[Usi].msg)[j]

IInv == TypesOK /\ InHandOK /\ InSync(Ahead) /\ Holds /\ Filled

-----------------------------------------------------------------------------
(* Arithmetic of the ring *)

LEMMA CountModType == CountMod \in Nat \ {0}
BY DEF CountMod

LEMMA SmallMod ==
    ASSUME NEW a \in Nat, NEW b \in Nat \ {0}, a < b
    PROVE  a % b = a
OBVIOUS

LEMMA GapIsFree ==
    ASSUME idxIn \in Cells, idxOut \in Cells, InSync(0)
    PROVE  Gap = Size - count /\ Gap \in Nat
BY TxAssumption DEF InSync, Gap, Cells

LEMMA FrameLen ==
    ASSUME NEW m \in Messages
    PROVE  Len(Frame(m)) \in Nat /\ Frame(m) \in Seq(Symbols)
BY FrameType

(* Writing a frame that fits changes none of the count bytes, and puts the *)
(* frame behind them.                                                      *)
LEMMA WrittenOK ==
    ASSUME NEW f \in Seq(Symbols), TypesOK, InSync(0)
    PROVE  /\ Written(f) \in [Cells -> Symbols]
           /\ \A j \in 1 .. count :
                Written(f)[Wrap(idxOut + j - 1)] = ring[Wrap(idxOut + j - 1)]
           /\ Len(f) < Gap =>
                \A j \in 1 .. Len(f) : Written(f)[Wrap(idxOut + count + j - 1)] = f[j]
<1>1. /\ Size \in Nat \ {0} /\ count \in Nat /\ count < Size
      /\ idxIn \in 0 .. Size - 1 /\ idxOut \in 0 .. Size - 1
      /\ idxIn = idxOut + count \/ idxIn + Size = idxOut + count
  BY TxAssumption DEF TypesOK, InSync, Cells
<1>2. Gap = Size - count /\ Gap \in Nat
  BY GapIsFree DEF TypesOK
<1>3. Len(f) \in Nat /\ \A j \in 1 .. Len(f) : f[j] \in Symbols
  OBVIOUS
<1> DEFINE Off(i) == (IF i >= idxIn THEN i - idxIn ELSE i + Size - idxIn) + 1
<1>4. Written(f) = [i \in Cells |-> IF Off(i) =< Len(f) /\ Off(i) =< Gap THEN f[Off(i)]
                                    ELSE ring[i]]
  BY DEF Written
<1>5. \A i \in Cells : Off(i) \in 1 .. Size
  BY <1>1 DEF Cells
<1>6. \A j \in 1 .. count : Off(Wrap(idxOut + j - 1)) > Gap
  BY <1>1, <1>2 DEF Wrap
<1>7. \A j \in 1 .. Gap : Off(Wrap(idxOut + count + j - 1)) = j
  BY <1>1, <1>2 DEF Wrap
<1>8. \A j \in 1 .. count : Wrap(idxOut + j - 1) \in Cells
  BY <1>1 DEF Wrap, Cells
<1>9. \A j \in 1 .. Gap : Wrap(idxOut + count + j - 1) \in Cells
  BY <1>1, <1>2 DEF Wrap, Cells
<1>10. ring \in [Cells -> Symbols]
  BY DEF TypesOK
<1> HIDE DEF Off, Symbols
<1>11. ASSUME NEW i \in Cells
       PROVE  Written(f)[i] = IF Off(i) =< Len(f) /\ Off(i) =< Gap THEN f[Off(i)]
                              ELSE ring[i]
  BY <1>4
<1>12. Written(f) \in [Cells -> Symbols]
  <2>1. \A i \in Cells : Written(f)[i] \in Symbols
    <3> SUFFICES ASSUME NEW i \in Cells PROVE Written(f)[i] \in Symbols
      OBVIOUS
    <3>1. Off(i) =< Len(f) => f[Off(i)] \in Symbols
      BY <1>3, <1>5
    <3> QED  BY <1>10, <1>11, <3>1
  <2>2. Written(f) = [i \in Cells |-> Written(f)[i]]
    BY <1>4
  <2> QED  BY <2>1, <2>2
<1>13. ASSUME NEW j \in 1 .. count
       PROVE  Written(f)[Wrap(idxOut + j - 1)] = ring[Wrap(idxOut + j - 1)]
  <2> DEFINE i == Wrap(idxOut + j - 1)
  <2>1. i \in Cells /\ Off(i) > Gap /\ Off(i) \in 1 .. Size
    BY <1>5, <1>6, <1>8
  <2> HIDE DEF i
  <2>2. Written(f)[i] = ring[i]
    BY <1>1, <1>2, <1>11, <2>1
  <2> QED  BY <2>2 DEF i
<1>14. ASSUME Len(f) < Gap, NEW j \in 1 .. Len(f)
       PROVE  Written(f)[Wrap(idxOut + count + j - 1)] = f[j]
  <2> DEFINE i == Wrap(idxOut + count + j - 1)
  <2>1. j \in 1 .. Gap /\ j =< Len(f) /\ j =< Gap
    BY <1>2, <1>3, <1>14
  <2>2. i \in Cells /\ Off(i) = j
    BY <1>7, <1>9, <2>1
  <2> HIDE DEF i
  <2>3. Written(f)[i] = f[j]
    BY <1>11, <2>1, <2>2
  <2> QED  BY <2>3 DEF i
<1> QED  BY <1>12, <1>13, <1>14

-----------------------------------------------------------------------------
(* The steps *)

LEMMA InitOK == Init => IInv
<1> SUFFICES ASSUME Init PROVE IInv
  OBVIOUS
<1>1. TxInit
  BY DEF Init
<1>2. Size \in Nat \ {0} /\ Usi \in Threads
  BY TxAssumption
<1>3. pc[Usi] = Idle /\ Idle.op = "idle" /\ Ahead = 0
  BY <1>1, <1>2 DEF TxInit, Idle, Doing, Ahead
<1>4. TypesOK
  <2>1. 0 \in Symbols
    BY DEF Symbols
  <2>2. ring \in [Cells -> Symbols]
    <3> HIDE DEF Symbols
    <3> QED  BY <1>1, <2>1 DEF TxInit
  <2>3. Idle \in [op : Ops, msg : Messages \cup {<<>>}, num : Nat, seen : Nat]
    BY DEF Idle, Doing, Ops
  <2>4. pc \in [Threads -> [op : Ops, msg : Messages \cup {<<>>}, num : Nat, seen : Nat]]
    BY <1>1, <2>3 DEF TxInit
  <2>5. accepted \in Seq(Messages) /\ idxIn \in Cells /\ idxOut \in Cells
    BY <1>1, <1>2 DEF TxInit, Cells
  <2> QED  BY <2>2, <2>4, <2>5 DEF TypesOK
<1>5. InHandOK
  BY <1>3 DEF InHandOK
<1>6. InSync(Ahead)
  BY <1>1, <1>2, <1>3 DEF TxInit, InSync
<1>7. Holds
  <2>1. count = 0
    BY <1>1 DEF TxInit
  <2>2. Len(Out) \in Nat
    <3>1. Out \in Seq(Symbols)
      BY <1>4, OutType DEF TypesOK
    <3> QED  BY <3>1
  <2> QED  BY <2>1, <2>2 DEF Holds
<1>8. Filled
  BY <1>3 DEF Filled
<1> QED  BY <1>4, <1>5, <1>6, <1>7, <1>8 DEF IInv

(* A step that changes nothing of the transmit side. *)
txRing == <<ring, indexes, aux, pc, accepted>>

LEMMA StutterOK == IInv /\ UNCHANGED txRing => IInv'
<1> SUFFICES ASSUME IInv, UNCHANGED txRing PROVE IInv'
  OBVIOUS
<1>1. /\ ring' = ring /\ idxIn' = idxIn /\ idxOut' = idxOut /\ count' = count /\ aux' = aux
      /\ pc' = pc /\ accepted' = accepted
  BY DEF txRing, indexes
<1>2. TypesOK'
  BY <1>1 DEF IInv, TypesOK, Cells, Symbols
<1>3. InHandOK'
  BY <1>1 DEF IInv, InHandOK
<1>4. InSync(Ahead)'
  BY <1>1 DEF IInv, InSync, Ahead
<1>5. Out' = Out
  BY <1>1 DEF Out
<1>6. Holds'
  BY <1>1, <1>5 DEF IInv, Holds, Wrap
<1>7. Filled'
  BY <1>1 DEF IInv, Filled, Wrap
<1> QED  BY <1>2, <1>3, <1>4, <1>6, <1>7 DEF IInv

LEMMA PcType ==
    ASSUME TypesOK, NEW op \in Ops, NEW msg \in Messages \cup {<<>>}, NEW num \in Nat,
           NEW seen \in Nat, pc' = [pc EXCEPT ![Usi] = Doing(op, msg, num, seen)]
    PROVE  /\ pc' \in [Threads -> [op : Ops, msg : Messages \cup {<<>>}, num : Nat, seen : Nat]]
           /\ pc'[Usi].op = op /\ pc'[Usi].msg = msg /\ pc'[Usi].num = num
           /\ pc'[Usi].seen = seen
<1>1. Doing(op, msg, num, seen)
        \in [op : Ops, msg : Messages \cup {<<>>}, num : Nat, seen : Nat]
  BY DEF Doing
<1>2. pc'[Usi] = Doing(op, msg, num, seen)
  BY TxAssumption DEF TypesOK
<1> QED  BY <1>1, <1>2, TxAssumption DEF TypesOK, Doing

(* What is known of the usi thread. *)
LEMMA PcOf ==
    ASSUME TypesOK
    PROVE  /\ pc[Usi].op \in Ops /\ pc[Usi].msg \in Messages \cup {<<>>}
           /\ pc[Usi].num \in Nat /\ pc[Usi].seen \in Nat
BY TxAssumption DEF TypesOK

LEMMA SendCopyOK ==
    ASSUME IInv, NEW m \in Messages, SendCopy(Usi, m)
    PROVE  IInv'
<1>1. /\ ring' = ring /\ idxIn' = idxIn /\ idxOut' = idxOut /\ count' = count
      /\ accepted' = accepted /\ aux' = Content(m) /\ pc[Usi] = Idle
      /\ pc' = [pc EXCEPT ![Usi] = Doing("copied", m, 0, 0)]
  BY DEF SendCopy, indexes
<1>2. TypesOK /\ InHandOK /\ InSync(Ahead) /\ Holds
  BY DEF IInv
<1>3. /\ pc' \in [Threads -> [op : Ops, msg : Messages \cup {<<>>}, num : Nat, seen : Nat]]
      /\ pc'[Usi].op = "copied" /\ pc'[Usi].msg = m
  <2>1. "copied" \in Ops
    BY DEF Ops
  <2> QED  BY <1>1, <1>2, <2>1, PcType
<1>4. TypesOK'
  BY <1>1, <1>2, <1>3 DEF TypesOK, Cells, Symbols
<1>5. InHandOK'
  BY <1>1, <1>3 DEF InHandOK
<1>6. InSync(Ahead)'
  <2>1. Ahead = 0 /\ Ahead' = 0
    BY <1>1, <1>3 DEF Ahead, Idle, Doing
  <2> QED  BY <1>1, <1>2, <2>1 DEF InSync
<1>7. Out' = Out
  BY <1>1 DEF Out
<1>8. Holds'
  BY <1>1, <1>2, <1>7 DEF Holds, Wrap
<1>9. Filled'
  BY <1>3 DEF Filled
<1> QED  BY <1>4, <1>5, <1>6, <1>8, <1>9 DEF IInv

LEMMA SendFillOK ==
    ASSUME IInv, SendFill(Usi)
    PROVE  IInv'
<1> DEFINE f == Framed(aux)
           m == pc[Usi].msg
<1>1. /\ pc[Usi].op = "copied" /\ ring' = Written(f) /\ idxOut' = idxOut /\ count' = count
      /\ aux' = aux /\ accepted' = accepted
  BY DEF SendFill
<1>2. TypesOK /\ InHandOK /\ InSync(Ahead) /\ Holds
  BY DEF IInv
<1>3. Ahead = 0 /\ InSync(0)
  BY <1>1, <1>2 DEF Ahead
<1>4. m \in Messages /\ f = Frame(m) /\ f \in Seq(Symbols) /\ Len(f) \in Nat
  <2>1. m \in Messages /\ aux = Content(m)
    BY <1>1, <1>2 DEF InHandOK
  <2>2. f = Frame(m)
    BY <2>1 DEF Frame
  <2> QED  BY <2>1, <2>2, FrameLen
<1> HIDE DEF f
<1>5. /\ Written(f) \in [Cells -> Symbols]
      /\ \A j \in 1 .. count :
           Written(f)[Wrap(idxOut + j - 1)] = ring[Wrap(idxOut + j - 1)]
      /\ Len(f) < Gap =>
           \A j \in 1 .. Len(f) : Written(f)[Wrap(idxOut + count + j - 1)] = f[j]
  BY <1>2, <1>3, <1>4, WrittenOK
<1>6. Gap = Size - count /\ Gap \in Nat
  BY <1>2, <1>3, GapIsFree DEF TypesOK
<1>7. Out' = Out
  BY <1>1 DEF Out
<1>8. Holds'
  BY <1>1, <1>2, <1>5, <1>7 DEF Holds, Wrap
<1>9. CASE Len(f) < Gap
  <2>1. /\ idxIn' = Wrap(idxIn + Len(f))
        /\ pc' = [pc EXCEPT ![Usi] = Doing("filled", @.msg, Len(f), 0)]
    BY <1>9 DEF SendFill, f
  <2>2. pc' = [pc EXCEPT ![Usi] = Doing("filled", m, Len(f), 0)]
    BY <1>2, <2>1, TxAssumption DEF TypesOK
  <2>3. /\ pc' \in [Threads -> [op : Ops, msg : Messages \cup {<<>>}, num : Nat, seen : Nat]]
        /\ pc'[Usi].op = "filled" /\ pc'[Usi].msg = m /\ pc'[Usi].num = Len(f)
    <3>1. "filled" \in Ops /\ m \in Messages \cup {<<>>}
      BY <1>4 DEF Ops
    <3> HIDE DEF m
    <3> QED  BY <1>2, <1>4, <2>2, <3>1, PcType
  <2>4. Ahead' = Len(f)
    BY <2>3 DEF Ahead
  <2>5. idxIn' \in Cells /\ InSync(Ahead)'
    <3>1. /\ Size \in Nat \ {0} /\ count \in Nat /\ count + Len(f) < Size
          /\ idxIn \in 0 .. Size - 1 /\ idxOut \in 0 .. Size - 1
          /\ idxIn = idxOut + count \/ idxIn + Size = idxOut + count
      BY <1>2, <1>3, <1>4, <1>6, <1>9, TxAssumption DEF TypesOK, InSync, Cells
    <3> QED  BY <1>1, <1>4, <2>1, <2>4, <3>1 DEF InSync, Cells, Wrap
  <2>6. TypesOK'
    BY <1>1, <1>2, <1>5, <2>3, <2>5 DEF TypesOK, Cells, Symbols
  <2>7. InHandOK'
    BY <1>4, <2>3 DEF InHandOK
  <2>8. Filled'
    <3>1. \A j \in 1 .. Len(f) : ring'[Wrap(idxOut + count + j - 1)] = f[j]
      BY <1>1, <1>5, <1>9
    <3> HIDE DEF m
    <3> QED  BY <1>1, <1>4, <2>3, <3>1 DEF Filled, Wrap
  <2> QED  BY <1>8, <2>5, <2>6, <2>7, <2>8 DEF IInv
<1>10. CASE ~(Len(f) < Gap)
  <2>1. idxIn' = idxIn /\ pc' = [pc EXCEPT ![Usi] = Doing("idle", <<>>, 0, 0)]
    BY <1>10 DEF SendFill, f, Idle
  <2>2. /\ pc' \in [Threads -> [op : Ops, msg : Messages \cup {<<>>}, num : Nat, seen : Nat]]
        /\ pc'[Usi].op = "idle"
    <3>1. "idle" \in Ops /\ <<>> \in Messages \cup {<<>>}
      BY DEF Ops
    <3> QED  BY <1>2, <2>1, <3>1, PcType
  <2>3. TypesOK'
    BY <1>1, <1>2, <1>5, <2>1, <2>2 DEF TypesOK, Cells, Symbols
  <2>4. InSync(Ahead)'
    <3>1. Ahead' = 0
      BY <2>2 DEF Ahead
    <3> QED  BY <1>1, <1>3, <2>1, <3>1 DEF InSync
  <2>5. InHandOK' /\ Filled'
    BY <2>2 DEF InHandOK, Filled
  <2> QED  BY <1>8, <2>3, <2>4, <2>5 DEF IInv
<1> QED  BY <1>9, <1>10

LEMMA SendLoadOK ==
    ASSUME IInv, SendLoad(Usi)
    PROVE  IInv'
<1> DEFINE m == pc[Usi].msg
           n == pc[Usi].num
<1>1. /\ pc[Usi].op = "filled" /\ ring' = ring /\ idxIn' = idxIn /\ idxOut' = idxOut
      /\ count' = count /\ aux' = aux /\ accepted' = accepted
  BY DEF SendLoad, indexes
<1>2. TypesOK /\ InHandOK /\ InSync(Ahead) /\ Holds /\ Filled
  BY DEF IInv
<1>3. m \in Messages /\ n = Len(Frame(m)) /\ n \in Nat /\ count \in Nat
  BY <1>1, <1>2, PcOf DEF InHandOK, InSync
<1>4. pc' = [pc EXCEPT ![Usi] = Doing("adding", m, n, count)]
  BY <1>2, TxAssumption DEF SendLoad, TypesOK
<1>5. /\ pc' \in [Threads -> [op : Ops, msg : Messages \cup {<<>>}, num : Nat, seen : Nat]]
      /\ pc'[Usi].op = "adding" /\ pc'[Usi].msg = m /\ pc'[Usi].num = n
      /\ pc'[Usi].seen = count
  <2>1. "adding" \in Ops /\ m \in Messages \cup {<<>>}
    BY <1>3 DEF Ops
  <2> HIDE DEF m, n
  <2> QED  BY <1>2, <1>3, <1>4, <2>1, PcType
<1>6. TypesOK'
  BY <1>1, <1>2, <1>5 DEF TypesOK, Cells, Symbols
<1>7. InHandOK'
  BY <1>1, <1>3, <1>5 DEF InHandOK
<1>8. InSync(Ahead)'
  <2>1. Ahead = n /\ Ahead' = n
    BY <1>1, <1>5 DEF Ahead
  <2> QED  BY <1>1, <1>2, <2>1 DEF InSync
<1>9. Out' = Out
  BY <1>1 DEF Out
<1>10. Holds'
  BY <1>1, <1>2, <1>9 DEF Holds, Wrap
<1>11. Filled'
  <2>1. \A j \in 1 .. n : ring[Wrap(idxOut + count + j - 1)] = Frame(m)[j]
    BY <1>1, <1>2 DEF Filled
  <2> HIDE DEF m, n
  <2> QED  BY <1>1, <1>5, <2>1 DEF Filled, Wrap
<1> QED  BY <1>6, <1>7, <1>8, <1>10, <1>11 DEF IInv

LEMMA OutLen == ASSUME TypesOK PROVE Out \in Seq(Symbols) /\ Len(Out) \in Nat
<1>1. Out \in Seq(Symbols)
  BY OutType DEF TypesOK
<1> QED  BY <1>1

LEMMA SendStoreOK ==
    ASSUME IInv, SendStore(Usi)
    PROVE  IInv'
<1> DEFINE m == pc[Usi].msg
           n == pc[Usi].num
           L == Len(Out)
<1>1. /\ pc[Usi].op = "adding" /\ ring' = ring /\ idxIn' = idxIn /\ idxOut' = idxOut
      /\ count' = (pc[Usi].seen + n) % CountMod /\ aux' = aux
      /\ accepted' = Append(accepted, m)
      /\ pc' = [pc EXCEPT ![Usi] = Doing("idle", <<>>, 0, 0)]
  BY DEF SendStore, Idle
<1>2. TypesOK /\ InHandOK /\ InSync(Ahead) /\ Holds /\ Filled
  BY DEF IInv
<1>3. /\ m \in Messages /\ n = Len(Frame(m)) /\ n \in Nat /\ count \in Nat
      /\ pc[Usi].seen = count /\ Ahead = n
  BY <1>1, <1>2, PcOf DEF InHandOK, InSync, Ahead
<1>4. /\ pc' \in [Threads -> [op : Ops, msg : Messages \cup {<<>>}, num : Nat, seen : Nat]]
      /\ pc'[Usi].op = "idle"
  <2>1. "idle" \in Ops /\ <<>> \in Messages \cup {<<>>}
    BY DEF Ops
  <2> QED  BY <1>1, <1>2, <2>1, PcType
<1>5. \A j \in 1 .. n : ring[Wrap(idxOut + count + j - 1)] = Frame(m)[j]
  BY <1>1, <1>2 DEF Filled
<1> HIDE DEF m, n
<1>6. count' = count + n
  <2>1. count + n < Size /\ Size < CountMod /\ Size \in Nat
    BY <1>2, <1>3, TxAssumption DEF InSync
  <2>2. count + n \in Nat /\ count + n < CountMod
    BY <1>3, <2>1, CountModType
  <2> QED  BY <1>1, <1>3, <2>2, CountModType, SmallMod
<1>7. TypesOK'
  <2>1. Append(accepted, m) \in Seq(Messages)
    BY <1>2, <1>3 DEF TypesOK
  <2> QED  BY <1>1, <1>2, <1>4, <2>1 DEF TypesOK, Cells, Symbols
<1>8. InHandOK' /\ Filled'
  BY <1>4 DEF InHandOK, Filled
<1>9. InSync(Ahead)'
  <2>1. Ahead' = 0
    BY <1>4 DEF Ahead
  <2>2. /\ idxIn \in Nat /\ idxOut \in Nat /\ Size \in Nat /\ count + n < Size
        /\ idxIn = idxOut + count + n \/ idxIn + Size = idxOut + count + n
    BY <1>2, <1>3, TxAssumption DEF InSync, TypesOK, Cells
  <2> QED  BY <1>1, <1>3, <1>6, <2>1, <2>2 DEF InSync
<1>10. Out \in Seq(Symbols) /\ L \in Nat
  BY <1>2, OutLen
<1>11. Out' = Out \o Frame(m)
  BY <1>1, <1>2, <1>3, OutAppend DEF TypesOK
<1>12. /\ Len(Out') = L + n
       /\ \A i \in 1 .. L + n : Out'[i] = IF i =< L THEN Out[i] ELSE Frame(m)[i - L]
  BY <1>3, <1>10, <1>11, FrameLen, ConcatProperties
<1>13. Holds'
  <2>1. count =< L /\ \A j \in 1 .. count : ring[Wrap(idxOut + j - 1)] = Out[L - count + j]
    BY <1>2 DEF Holds
  <2>2. idxOut \in Nat
    BY <1>2, TxAssumption DEF TypesOK, Cells
  <2> HIDE DEF L
  <2>3. ASSUME NEW j \in 1 .. count + n
        PROVE  ring[Wrap(idxOut + j - 1)] = Out'[L + n - (count + n) + j]
    <3>1. /\ L + n - (count + n) + j = L - count + j
          /\ L - count + j \in 1 .. L + n
      BY <1>3, <1>10, <2>1
    <3>2. CASE j =< count
      <4>1. j \in 1 .. count /\ L - count + j =< L
        BY <1>3, <1>10, <2>1, <3>2
      <4> QED  BY <1>12, <2>1, <3>1, <4>1
    <3>3. CASE ~(j =< count)
      <4> DEFINE k == j - count
      <4>1. k \in 1 .. n /\ ~(L - count + j =< L) /\ L - count + j - L = k
            /\ idxOut + count + k - 1 = idxOut + j - 1
        BY <1>3, <1>10, <2>1, <2>2, <3>3
      <4> HIDE DEF k
      <4>2. ring[Wrap(idxOut + j - 1)] = Frame(m)[k]
        BY <1>5, <4>1
      <4> DEFINE i == L - count + j
      <4>3. Out'[i] = Frame(m)[k]
        <5>1. i \in 1 .. L + n
          BY <3>1
        <5>2. ~(i =< L)
          BY <4>1
        <5>3. i - L = k
          BY <1>3, <1>10, <4>1
        <5> HIDE DEF i
        <5> QED  BY <1>12, <5>1, <5>2, <5>3
      <4>4. L + n - (count + n) + j = i
        BY <3>1
      <4> HIDE DEF i
      <4> QED  BY <4>2, <4>3, <4>4
    <3> QED  BY <3>2, <3>3
  <2>4. count + n =< L + n
    BY <1>3, <1>10, <2>1
  <2>5. ASSUME NEW j \in 1 .. count'
        PROVE  ring'[Wrap(idxOut + j - 1)'] = Out'[Len(Out') - count' + j]
    <3>1. ring[Wrap(idxOut + j - 1)] = Out'[L + n - (count + n) + j]
      BY <1>6, <2>3
    <3>2. ring' = ring /\ Wrap(idxOut + j - 1)' = Wrap(idxOut + j - 1)
          /\ Len(Out') = L + n /\ count' = count + n
      BY <1>1, <1>6, <1>12 DEF Wrap
    <3> DEFINE a == Wrap(idxOut + j - 1)
               b == L + n - (count + n) + j
    <3>3. Wrap(idxOut + j - 1)' = a /\ Len(Out') - count' + j = b
      <4>1. Wrap(idxOut + j - 1)' = a
        BY <3>2
      <4>2. Len(Out') - count' + j = b
        BY <1>3, <1>10, <3>2
      <4> QED  BY <4>1, <4>2
    <3>4. ring'[a] = Out'[b]
      BY <3>1, <3>2
    <3> HIDE DEF a, b
    <3> QED  BY <3>3, <3>4
  <2>6. count' =< Len(Out')
    BY <1>6, <1>12, <2>4
  <2> QED  BY <2>5, <2>6 DEF Holds
<1> QED  BY <1>7, <1>8, <1>9, <1>13 DEF IInv

LEMMA TxWriteOK ==
    ASSUME IInv, NEW k \in 1 .. TxLen, TxWrite(k)
    PROVE  IInv'
<1>1. /\ pc[Usi] = Idle /\ ring' = ring /\ idxIn' = idxIn /\ idxOut' = idxOut
      /\ count' = count /\ aux' = aux /\ accepted' = accepted
      /\ pc' = [pc EXCEPT ![Usi] = Doing("written", <<>>, k, 0)]
  BY DEF TxWrite, indexes
<1>2. TypesOK /\ InHandOK /\ InSync(Ahead) /\ Holds
  BY DEF IInv
<1>3. /\ pc' \in [Threads -> [op : Ops, msg : Messages \cup {<<>>}, num : Nat, seen : Nat]]
      /\ pc'[Usi].op = "written" /\ pc'[Usi].num = k
  <2>1. "written" \in Ops /\ <<>> \in Messages \cup {<<>>} /\ k \in Nat
    BY DEF Ops
  <2> QED  BY <1>1, <1>2, <2>1, PcType
<1>4. TypesOK'
  BY <1>1, <1>2, <1>3 DEF TypesOK, Cells, Symbols
<1>5. InHandOK'
  <2>1. k \in 1 .. count /\ idxOut + k =< Size
    <3>1. count \in Nat /\ idxOut \in 0 .. Size - 1 /\ Size \in Nat
      BY <1>2, TxAssumption DEF InSync, TypesOK, Cells
    <3> QED  BY <3>1 DEF TxLen
  <2> QED  BY <1>1, <1>3, <2>1 DEF InHandOK
<1>6. InSync(Ahead)'
  <2>1. Ahead = 0 /\ Ahead' = 0
    BY <1>1, <1>3 DEF Ahead, Idle, Doing
  <2> QED  BY <1>1, <1>2, <2>1 DEF InSync
<1>7. Out' = Out
  BY <1>1 DEF Out
<1>8. Holds'
  BY <1>1, <1>2, <1>7 DEF Holds, Wrap
<1>9. Filled'
  BY <1>3 DEF Filled
<1> QED  BY <1>4, <1>5, <1>6, <1>8, <1>9 DEF IInv

LEMMA TxLoadOK ==
    ASSUME IInv, TxLoad
    PROVE  IInv'
<1> DEFINE n == pc[Usi].num
<1>1. /\ pc[Usi].op = "written" /\ ring' = ring /\ idxIn' = idxIn /\ idxOut' = idxOut
      /\ count' = count /\ aux' = aux /\ accepted' = accepted
  BY DEF TxLoad, indexes
<1>2. TypesOK /\ InHandOK /\ InSync(Ahead) /\ Holds
  BY DEF IInv
<1>3. n \in Nat /\ n \in 1 .. count /\ idxOut + n =< Size /\ count \in Nat
  BY <1>1, <1>2, PcOf DEF InHandOK, InSync
<1>4. pc' = [pc EXCEPT ![Usi] = Doing("subtracting", <<>>, n, count)]
  BY <1>2, TxAssumption DEF TxLoad, TypesOK
<1>5. /\ pc' \in [Threads -> [op : Ops, msg : Messages \cup {<<>>}, num : Nat, seen : Nat]]
      /\ pc'[Usi].op = "subtracting" /\ pc'[Usi].num = n /\ pc'[Usi].seen = count
  <2>1. "subtracting" \in Ops /\ <<>> \in Messages \cup {<<>>}
    BY DEF Ops
  <2> HIDE DEF n
  <2> QED  BY <1>2, <1>3, <1>4, <2>1, PcType
<1>6. TypesOK'
  BY <1>1, <1>2, <1>5 DEF TypesOK, Cells, Symbols
<1>7. InHandOK'
  BY <1>1, <1>3, <1>5 DEF InHandOK
<1>8. InSync(Ahead)'
  <2>1. Ahead = 0 /\ Ahead' = 0
    BY <1>1, <1>5 DEF Ahead
  <2> QED  BY <1>1, <1>2, <2>1 DEF InSync
<1>9. Out' = Out
  BY <1>1 DEF Out
<1>10. Holds'
  BY <1>1, <1>2, <1>9 DEF Holds, Wrap
<1>11. Filled'
  BY <1>5 DEF Filled
<1> QED  BY <1>6, <1>7, <1>8, <1>10, <1>11 DEF IInv

LEMMA TxStoreOK ==
    ASSUME IInv, TxStore
    PROVE  IInv'
<1> DEFINE n == pc[Usi].num
           L == Len(Out)
<1>1. /\ pc[Usi].op = "subtracting" /\ ring' = ring /\ idxIn' = idxIn
      /\ idxOut' = Wrap(idxOut + n) /\ count' = (pc[Usi].seen - n) % CountMod
      /\ aux' = aux /\ accepted' = accepted
      /\ pc' = [pc EXCEPT ![Usi] = Doing("idle", <<>>, 0, 0)]
  BY DEF TxStore, Idle
<1>2. TypesOK /\ InHandOK /\ InSync(Ahead) /\ Holds
  BY DEF IInv
<1>3. /\ n \in Nat /\ n \in 1 .. count /\ idxOut + n =< Size /\ count \in Nat
      /\ pc[Usi].seen = count /\ Ahead = 0
  BY <1>1, <1>2, PcOf DEF InHandOK, InSync, Ahead
<1>4. /\ pc' \in [Threads -> [op : Ops, msg : Messages \cup {<<>>}, num : Nat, seen : Nat]]
      /\ pc'[Usi].op = "idle"
  <2>1. "idle" \in Ops /\ <<>> \in Messages \cup {<<>>}
    BY DEF Ops
  <2> QED  BY <1>1, <1>2, <2>1, PcType
<1> HIDE DEF n
<1>5. /\ Size \in Nat \ {0} /\ idxOut \in 0 .. Size - 1 /\ idxIn \in 0 .. Size - 1
      /\ count < Size
      /\ idxIn = idxOut + count \/ idxIn + Size = idxOut + count
  BY <1>2, <1>3, TxAssumption DEF TypesOK, InSync, Cells
<1>13. /\ Size \in Nat /\ idxOut \in Nat /\ idxIn \in Nat /\ count \in Nat /\ n \in Nat
       /\ n =< count /\ count < Size
  <2>1. n \in Nat /\ count \in Nat
    BY <1>3
  <2>2. n =< count
    BY <1>3
  <2>3. Size \in Nat /\ count < Size
    BY <1>5
  <2>4. Cells \subseteq Nat
    BY TxAssumption DEF Cells
  <2>5. idxOut \in Nat /\ idxIn \in Nat
    BY <1>2, <2>4 DEF TypesOK
  <2> QED  BY <2>1, <2>2, <2>3, <2>5
<1>6. count' = count - n
  <2>1. Size < CountMod
    BY TxAssumption
  <2>2. count - n \in Nat /\ count - n < Size
    BY <1>13
  <2>3. count - n < CountMod
    BY <1>13, <2>1, <2>2, CountModType
  <2> QED  BY <1>1, <1>3, <2>2, <2>3, CountModType, SmallMod
<1>7. idxOut' \in Cells
  BY <1>1, <1>3, <1>5 DEF Wrap, Cells
<1>8. TypesOK'
  BY <1>1, <1>2, <1>4, <1>7 DEF TypesOK, Cells, Symbols
<1>9. InHandOK' /\ Filled'
  BY <1>4 DEF InHandOK, Filled
<1>10. InSync(Ahead)'
  <2>1. Ahead' = 0
    BY <1>4 DEF Ahead
  <2>2. idxOut' = IF idxOut + n >= Size THEN 0 ELSE idxOut + n
    BY <1>1, <1>3, <1>5 DEF Wrap
  <2>3. count' \in Nat /\ count' < Size
    BY <1>6, <1>13
  <2>4. idxIn = idxOut' + count' \/ idxIn + Size = idxOut' + count'
    BY <1>3, <1>5, <1>6, <2>2
  <2>5. count' + 0 = count' /\ idxOut' + count' + 0 = idxOut' + count'
    <3>1. idxOut' \in Nat
      BY <1>7, TxAssumption DEF Cells
    <3>2. \A a, b \in Nat : b + 0 = b /\ a + b + 0 = a + b
      OBVIOUS
    <3> QED  BY <2>3, <3>1, <3>2
  <2> QED  BY <1>1, <2>1, <2>3, <2>4, <2>5 DEF InSync
<1>11. Out' = Out
  BY <1>1 DEF Out
<1>12. Holds'
  <2>1. count =< L /\ \A j \in 1 .. count : ring[Wrap(idxOut + j - 1)] = Out[L - count + j]
    BY <1>2 DEF Holds
  <2>2. L \in Nat
    BY <1>2, OutLen
  <2> HIDE DEF L
  <2>3. ASSUME NEW j \in 1 .. count - n
        PROVE  ring[Wrap(Wrap(idxOut + n) + j - 1)] = Out[L - (count - n) + j]
    <3>1. n + j \in 1 .. count /\ L - count + (n + j) = L - (count - n) + j
      BY <1>3, <2>1, <2>2
    <3>2. Wrap(Wrap(idxOut + n) + j - 1) = Wrap(idxOut + (n + j) - 1)
      BY <1>3, <1>5, <3>1 DEF Wrap
    <3> QED  BY <2>1, <3>1, <3>2
  <2>4. count - n =< L
    BY <1>3, <2>1, <2>2
  <2>5. Len(Out') = L
    BY <1>11 DEF L
  <2> QED  BY <1>1, <1>6, <1>11, <2>3, <2>4, <2>5 DEF Holds, Wrap
<1> QED  BY <1>8, <1>9, <1>10, <1>12 DEF IInv

-----------------------------------------------------------------------------
(* The invariant holds when only the usi thread sends *)

LEMMA NextOK == OneSender /\ IInv /\ [Next]_vars => IInv'
<1> SUFFICES ASSUME OneSender, IInv, [Next]_vars PROVE IInv'
  OBVIOUS
<1>1. CASE Transmit
  <2>1. TxNext
    BY <1>1 DEF Transmit
  <2>2. ASSUME NEW t \in Threads, SendStep(t) PROVE IInv'
    <3>1. t = Usi
      BY DEF OneSender
    <3> QED  BY <2>2, <3>1, SendFillOK, SendLoadOK, SendStoreOK DEF SendStep
  <2>3. ASSUME NEW t \in Threads, NEW m \in Messages, SendCopy(t, m) PROVE IInv'
    <3>1. t = Usi
      BY DEF OneSender
    <3> QED  BY <2>3, <3>1, SendCopyOK
  <2>4. CASE TxStep
    BY <2>4, TxWriteOK, TxLoadOK, TxStoreOK DEF TxStep
  <2> QED  BY <2>1, <2>2, <2>3, <2>4 DEF TxNext
<1>2. CASE TakeChar
  BY <1>2, StutterOK DEF TakeChar, txRing
<1>3. CASE Receive
  BY <1>3, StutterOK DEF Receive, txRing, txVars, indexes
<1>4. ASSUME NEW c \in Damages, Damage(c) PROVE IInv'
  BY <1>4, StutterOK DEF Damage, txRing
<1>5. CASE UNCHANGED vars
  BY <1>5, StutterOK DEF vars, txRing, txVars, indexes
<1> QED  BY <1>1, <1>2, <1>3, <1>4, <1>5 DEF Next

LEMMA Inductive == ASSUME OneSender PROVE Spec => []IInv
<1>1. Init => IInv
  BY InitOK
<1>2. IInv /\ [Next]_vars => IInv'
  BY OneSender, NextOK
<1> QED  BY <1>1, <1>2, PTL DEF Spec

(* While only the usi thread sends, the indexes and the count of the       *)
(* transmit ring agree: usi_SendCmd writes over nothing that usi_TxProcess *)
(* has still to send, and usi_TxProcess sends nothing that usi_SendCmd has *)
(* not written.  (With a second sender they do not: SendStore and TxStore  *)
(* then write a count that was read before the other one's step.)          *)
THEOREM IndexesAgree == OneSender /\ Spec => []RingInSync
<1> SUFFICES ASSUME OneSender PROVE Spec => []RingInSync
  OBVIOUS
<1>1. IInv => RingInSync
  BY DEF IInv, InSync, TypesOK, RingInSync
<1> QED  BY <1>1, Inductive, PTL

(* One sequence is the end of another if its elements are the last.  *)
LEMMA SuffixByIndex ==
    ASSUME NEW V, NEW s \in Seq(V), NEW t \in Seq(V), Len(s) =< Len(t),
           \A j \in 1 .. Len(s) : s[j] = t[Len(t) - Len(s) + j]
    PROVE  IsSuffix(s, t)
<1> DEFINE n == Len(s)
           L == Len(t)
           a == Reverse(s)
           b == Reverse(t)
<1>1. n \in Nat /\ L \in Nat /\ n =< L
  OBVIOUS
<1>2. a = [i \in 1 .. n |-> s[n - i + 1]] /\ b = [i \in 1 .. L |-> t[L - i + 1]]
  BY DEF Reverse
<1>3. a \in Seq(V) /\ Len(a) = n
  <2>1. \A i \in 1 .. n : s[n - i + 1] \in V
    <3>1. \A i \in 1 .. n : n - i + 1 \in 1 .. n
      BY <1>1
    <3> QED  BY <3>1
  <2> HIDE DEF a, n
  <2> QED  BY <1>1, <1>2, <2>1
<1>4. b \in Seq(V) /\ Len(b) = L
  <2>1. \A i \in 1 .. L : t[L - i + 1] \in V
    <3>1. \A i \in 1 .. L : L - i + 1 \in 1 .. L
      BY <1>1
    <3> QED  BY <3>1
  <2> HIDE DEF b, L
  <2> QED  BY <1>1, <1>2, <2>1
<1>5. ASSUME NEW i \in 1 .. n PROVE a[i] = b[i]
  <2> DEFINE j == n - i + 1
  <2> HIDE DEF n, L
  <2>0. i \in Nat /\ 1 =< i /\ i =< n
    BY <1>1
  <2>1. j \in 1 .. n /\ L - n + j = L - i + 1 /\ i \in 1 .. L
    <3>1. j \in 1 .. n
      BY <1>1, <2>0
    <3>2. i \in 1 .. L
      BY <1>1, <2>0
    <3>3. L - n + j = L - i + 1
      BY <1>1, <2>0
    <3> QED  BY <3>1, <3>2, <3>3
  <2> USE DEF n, L
  <2>2. s[j] = t[L - n + j]
    BY <2>1
  <2>3. a[i] = s[j]
    BY <1>2
  <2>4. b[i] = t[L - i + 1]
    <3> HIDE DEF b, L
    <3> QED  BY <1>2, <2>1
  <2> HIDE DEF a, b, j, n, L
  <2> QED  BY <2>1, <2>2, <2>3, <2>4
<1> HIDE DEF a, b, n, L
<1>6. SubSeq(a, 1, n) = SubSeq(b, 1, n)
  BY <1>1, <1>3, <1>4, <1>5
<1>7. IsPrefix(a, b)
  BY <1>1, <1>3, <1>4, <1>6 DEF IsPrefix
<1> QED  BY <1>7 DEF IsSuffix, a, b

(* While only the usi thread sends, the ring holds the end of the frames   *)
(* accepted, whole, in order and escaped: what usi_SendCmd says in "If     *)
(* this point is reached, message is correct in buffer" stays true of the  *)
(* frame until usi_TxProcess has sent it.                                  *)
THEOREM FramesStayWhole == OneSender /\ Spec => []RingHoldsFrames
<1> SUFFICES ASSUME OneSender PROVE Spec => []RingHoldsFrames
  OBVIOUS
<1>1. IInv => RingHoldsFrames
  <2> SUFFICES ASSUME IInv, \A t \in Threads : pc[t].op \in {"idle", "copied"}
               PROVE  count < Size /\ IsSuffix(Read(idxOut, count), Out)
    BY DEF RingHoldsFrames, Out
  <2>1. Ahead = 0
    BY TxAssumption DEF Ahead
  <2>2. count \in Nat /\ count < Size /\ Size \in Nat
    BY <2>1, TxAssumption DEF IInv, InSync
  <2>3. Out \in Seq(Symbols) /\ count =< Len(Out)
        /\ \A j \in 1 .. count : ring[Wrap(idxOut + j - 1)] = Out[Len(Out) - count + j]
    BY OutLen DEF IInv, Holds
  <2> DEFINE s == Read(idxOut, count)
  <2>4. s \in Seq(Symbols) /\ Len(s) = count
    <3>1. \A j \in 1 .. count : Wrap(idxOut + j - 1) \in Cells
      <4>1. idxOut \in 0 .. Size - 1
        BY DEF IInv, TypesOK, Cells
      <4> QED  BY <2>2, <4>1 DEF Wrap, Cells
    <3>2. \A j \in 1 .. count : ring[Wrap(idxOut + j - 1)] \in Symbols
      <4> HIDE DEF Symbols
      <4> QED  BY <3>1 DEF IInv, TypesOK
    <3>3. s = [j \in 1 .. count |-> ring[Wrap(idxOut + j - 1)]]
      BY DEF Read
    <3> HIDE DEF s, Symbols
    <3> QED  BY <2>2, <3>2, <3>3
  <2>5. \A j \in 1 .. count : s[j] = ring[Wrap(idxOut + j - 1)]
    BY DEF Read
  <2> HIDE DEF s
  <2>6. \A j \in 1 .. Len(s) : s[j] = Out[Len(Out) - Len(s) + j]
    BY <2>3, <2>4, <2>5
  <2>7. IsSuffix(s, Out)
    BY <2>3, <2>4, <2>6, SuffixByIndex
  <2> QED  BY <2>2, <2>7 DEF s
<1> QED  BY <1>1, Inductive, PTL

-----------------------------------------------------------------------------
(* The transmit side is a queue of bytes *)

(* The last n elements of a sequence. *)
End(s, n) == SubSeq(s, Len(s) - n + 1, Len(s))

LEMMA EndOf ==
    ASSUME NEW V, NEW s \in Seq(V), NEW n \in 0 .. Len(s)
    PROVE  /\ End(s, n) \in Seq(V) /\ Len(End(s, n)) = n
           /\ \A j \in 1 .. n : End(s, n)[j] = s[Len(s) - n + j]
<1> DEFINE a == Len(s) - n + 1
           b == Len(s)
<1>1. b \in Nat /\ n \in Nat /\ n =< b
  OBVIOUS
<1>2. a \in Int /\ b \in Int /\ a >= 1 /\ b - a + 1 = n
  BY <1>1
<1>3. \A i \in a .. b : s[i] \in V
  BY <1>1, <1>2
<1>4. End(s, n) = SubSeq(s, a, b)
  BY DEF End
<1>5. \A j \in 1 .. n : a + j - 1 = b - n + j
  BY <1>1
<1> HIDE DEF a, b
<1>6. /\ End(s, n) \in Seq(V) /\ Len(End(s, n)) = IF a =< b THEN b - a + 1 ELSE 0
      /\ \A j \in 1 .. b - a + 1 : End(s, n)[j] = s[a + j - 1]
  BY <1>2, <1>3, <1>4, SubSeqProperties
<1>7. a =< b \/ n = 0
  BY <1>1, <1>2
<1>8. (IF a =< b THEN b - a + 1 ELSE 0) = n
  BY <1>1, <1>2, <1>7
<1> QED  BY <1>2, <1>5, <1>6, <1>8 DEF b

(* What is put behind a sequence is put behind its end. *)
LEMMA EndMore ==
    ASSUME NEW V, NEW s \in Seq(V), NEW t \in Seq(V), NEW n \in 0 .. Len(s)
    PROVE  End(s \o t, n + Len(t)) = End(s, n) \o t
<1> DEFINE u == s \o t
           k == Len(t)
           L == Len(s)
           e == End(s, n)
           d == End(u, n + k)
<1>1. k \in Nat /\ L \in Nat /\ n \in Nat /\ n =< L
  OBVIOUS
<1>2. u \in Seq(V) /\ Len(u) = L + k
      /\ \A i \in 1 .. L + k : u[i] = IF i =< L THEN s[i] ELSE t[i - L]
  BY ConcatProperties
<1>3. e \in Seq(V) /\ Len(e) = n /\ \A j \in 1 .. n : e[j] = s[L - n + j]
  BY EndOf
<1>4. n + k \in 0 .. Len(u)
  BY <1>1, <1>2
<1>5. d \in Seq(V) /\ Len(d) = n + k /\ \A j \in 1 .. n + k : d[j] = u[L - n + j]
  <2> HIDE DEF u, k, L
  <2>1. d \in Seq(V) /\ Len(d) = n + k /\ \A j \in 1 .. n + k : d[j] = u[L - n + j]
    <3> DEFINE q == n + k
    <3>1. d = End(u, q) /\ q \in 0 .. Len(u)
      BY <1>4
    <3> HIDE DEF q, d
    <3>2. d \in Seq(V) /\ Len(d) = q /\ \A j \in 1 .. q : d[j] = u[Len(u) - q + j]
      BY <1>2, <3>1, EndOf
    <3>3. q = n + k /\ \A j \in 1 .. q : Len(u) - q + j = L - n + j
      BY <1>1, <1>2 DEF q
    <3> QED  BY <3>2, <3>3
  <2> QED  BY <1>2, <2>1
<1>6. e \o t \in Seq(V) /\ Len(e \o t) = n + k
      /\ \A j \in 1 .. n + k : (e \o t)[j] = IF j =< n THEN e[j] ELSE t[j - n]
  <2> HIDE DEF e
  <2> QED  BY <1>3, ConcatProperties
<1> HIDE DEF u, k, L, e, d
<1>7. ASSUME NEW j \in 1 .. n + k PROVE d[j] = (e \o t)[j]
  <2>1. /\ L - n + j \in 1 .. L + k
        /\ j =< n => L - n + j =< L /\ j \in 1 .. n
        /\ ~(j =< n) => ~(L - n + j =< L) /\ L - n + j - L = j - n
    BY <1>1
  <2> DEFINE i == L - n + j
  <2>2. d[j] = u[i]
    BY <1>5, <2>1
  <2>3. u[i] = IF i =< L THEN s[i] ELSE t[i - L]
    <3>1. i \in 1 .. L + k
      BY <2>1
    <3> HIDE DEF i
    <3> QED  BY <1>2, <3>1
  <2>4. CASE j =< n
    BY <1>3, <1>6, <2>1, <2>2, <2>3, <2>4
  <2>5. CASE ~(j =< n)
    <3>1. d[j] = t[i - L] /\ i - L = j - n
      BY <1>1, <2>1, <2>2, <2>3, <2>5
    <3>2. (e \o t)[j] = t[j - n]
      BY <1>6, <2>5
    <3> HIDE DEF i
    <3> QED  BY <3>1, <3>2
  <2> QED  BY <2>4, <2>5
<1>8. d = e \o t
  BY <1>5, <1>6, <1>7, SeqEqual
<1> QED  BY <1>8 DEF d, e, u, k

(* The end of an end. *)
LEMMA EndOfEnd ==
    ASSUME NEW V, NEW s \in Seq(V), NEW n \in 0 .. Len(s), NEW k \in 0 .. n
    PROVE  SubSeq(End(s, n), k + 1, n) = End(s, n - k)
<1> DEFINE L == Len(s)
           e == End(s, n)
           d == End(s, n - k)
           r == SubSeq(e, k + 1, n)
<1>1. L \in Nat /\ n \in Nat /\ n =< L /\ k \in Nat /\ k =< n
  OBVIOUS
<1>2. e \in Seq(V) /\ Len(e) = n /\ \A j \in 1 .. n : e[j] = s[L - n + j]
  BY EndOf
<1>3. d \in Seq(V) /\ Len(d) = n - k /\ \A j \in 1 .. n - k : d[j] = s[L - (n - k) + j]
  <2>1. n - k \in 0 .. Len(s)
    BY <1>1
  <2> QED  BY <2>1, EndOf
<1>4. r \in Seq(V) /\ Len(r) = n - k /\ \A j \in 1 .. n - k : r[j] = e[k + j]
  <2>0. e = SubSeq(e, 1, n) /\ r = End(e, n - k) /\ n - k \in 0 .. Len(e)
    <3>1. Len(e) - (n - k) + 1 = k + 1 /\ n - k \in 0 .. Len(e)
      BY <1>1, <1>2
    <3> HIDE DEF e
    <3> QED  BY <1>2, <3>1, SubSeqFull DEF End
  <2> HIDE DEF e, r
  <2>1. r \in Seq(V) /\ Len(r) = n - k /\ \A j \in 1 .. n - k : r[j] = e[Len(e) - (n - k) + j]
    BY <1>2, <2>0, EndOf
  <2>2. \A j \in 1 .. n - k : Len(e) - (n - k) + j = k + j
    BY <1>1, <1>2
  <2> QED  BY <2>1, <2>2
<1> HIDE DEF L, e, d, r
<1>5. ASSUME NEW j \in 1 .. n - k PROVE r[j] = d[j]
  <2>1. k + j \in 1 .. n /\ L - n + (k + j) = L - (n - k) + j
    BY <1>1
  <2>2. e[k + j] = s[L - n + (k + j)]
    BY <1>2, <2>1
  <2> QED  BY <1>3, <1>4, <2>1, <2>2
<1>6. r = d
  BY <1>3, <1>4, <1>5, SeqEqual
<1> QED  BY <1>6 DEF r, d, e

(* How many bytes are still to be written to the port: *)
Left == count - Taken

(* ... the last ones of the frames accepted. *)
EndIsUnsent ==
    /\ Out \in Seq(Symbols) /\ Left \in 0 .. Len(Out) /\ Left \in 0 .. count
    /\ Unsent = End(Out, Left)

LEMMA UnsentIsEnd == IInv => EndIsUnsent
<1> SUFFICES ASSUME IInv PROVE EndIsUnsent
  OBVIOUS
<1> DEFINE s == Read(idxOut, count)
<1>1. TypesOK /\ InHandOK /\ InSync(Ahead) /\ Holds
  BY DEF IInv
<1>2. Out \in Seq(Symbols) /\ Len(Out) \in Nat
  BY <1>1, OutLen
<1>3. count \in Nat /\ count =< Len(Out)
      /\ \A j \in 1 .. count : ring[Wrap(idxOut + j - 1)] = Out[Len(Out) - count + j]
  BY <1>1 DEF InSync, Holds
<1>4. Taken \in 0 .. count
  <2>1. CASE pc[Usi].op \in {"written", "subtracting"}
    <3>1. Taken = pc[Usi].num /\ pc[Usi].num \in 1 .. count
      BY <1>1, <2>1 DEF InHandOK, Taken
    <3> QED  BY <1>3, <3>1
  <2>2. CASE pc[Usi].op \notin {"written", "subtracting"}
    BY <1>3, <2>2 DEF Taken
  <2> QED  BY <2>1, <2>2
<1>5. End(Out, count) \in Seq(Symbols) /\ Len(End(Out, count)) = count
      /\ \A j \in 1 .. count : End(Out, count)[j] = Out[Len(Out) - count + j]
  <2>1. count \in 0 .. Len(Out)
    BY <1>2, <1>3
  <2> HIDE DEF Symbols
  <2> QED  BY <1>2, <2>1, EndOf
<1>6. s = End(Out, count)
  <2>1. s = [j \in 1 .. count |-> ring[Wrap(idxOut + j - 1)]]
    BY DEF Read
  <2>2. \A j \in 1 .. count : ring[Wrap(idxOut + j - 1)] = End(Out, count)[j]
    BY <1>3, <1>5
  <2>3. \A j \in 1 .. count : End(Out, count)[j] \in Symbols
    <3> HIDE DEF Symbols
    <3> QED  BY <1>5
  <2>4. s \in Seq(Symbols) /\ Len(s) = count /\ \A j \in 1 .. count : s[j] = End(Out, count)[j]
    <3> HIDE DEF Symbols
    <3> QED  BY <1>3, <2>1, <2>2, <2>3
  <2> HIDE DEF s, Symbols
  <2> QED  BY <1>5, <2>4, SeqEqual
<1>7. Left \in 0 .. count /\ Left \in 0 .. Len(Out)
  BY <1>2, <1>3, <1>4 DEF Left
<1>8. Unsent = End(Out, Left)
  <2>1. count \in 0 .. Len(Out) /\ Taken \in 0 .. count
    BY <1>2, <1>3, <1>4
  <2>2. Unsent = SubSeq(End(Out, count), Taken + 1, count)
    BY <1>6 DEF Unsent
  <2>3. SubSeq(End(Out, count), Taken + 1, count) = End(Out, count - Taken)
    <3> HIDE DEF Symbols
    <3> QED  BY <1>2, <2>1, EndOfEnd
  <2> QED  BY <2>2, <2>3 DEF Left
<1> QED  BY <1>2, <1>7, <1>8 DEF EndIsUnsent

LEMMA UnsentIsEndNext == IInv' => EndIsUnsent'
BY UnsentIsEnd, PTL

(* The steps, seen from the queue. *)
QueueStep == [Queue!Next]_<<Unsent, accepted, line>>

LEMMA QueueKept ==
    ASSUME IInv, IInv', Out' = Out, Left' = Left
    PROVE  Unsent' = Unsent
BY UnsentIsEnd, UnsentIsEndNext DEF EndIsUnsent, End

LEMMA QueueUntouched ==
    ASSUME IInv, IInv', Left' = Left, accepted' = accepted, line' = line
    PROVE  QueueStep
<1>1. Out' = Out
  BY DEF Out
<1> QED  BY <1>1, QueueKept DEF QueueStep

LEMMA SendStoreQueue ==
    ASSUME IInv, IInv', SendStore(Usi)
    PROVE  QueueStep
<1> DEFINE m == pc[Usi].msg
           n == pc[Usi].num
<1>1. /\ pc[Usi].op = "adding" /\ count' = (pc[Usi].seen + n) % CountMod
      /\ accepted' = Append(accepted, m) /\ line' = line
      /\ pc' = [pc EXCEPT ![Usi] = Idle]
  BY DEF SendStore
<1>2. TypesOK /\ InHandOK /\ InSync(Ahead)
  BY DEF IInv
<1>3. /\ m \in Messages /\ n = Len(Frame(m)) /\ n \in Nat /\ count \in Nat
      /\ pc[Usi].seen = count /\ Ahead = n /\ Taken = 0
  BY <1>1, <1>2, PcOf DEF InHandOK, InSync, Ahead, Taken
<1>4. pc'[Usi].op = "idle"
  BY <1>1, <1>2, TxAssumption DEF TypesOK, Idle, Doing
<1>5. Taken' = 0
  BY <1>4 DEF Taken
<1> HIDE DEF m, n
<1>6. count' = count + n
  <2>1. count + n < Size /\ Size < CountMod /\ Size \in Nat
    BY <1>2, <1>3, TxAssumption DEF InSync
  <2>2. count + n \in Nat /\ count + n < CountMod
    BY <1>3, <2>1, CountModType
  <2> QED  BY <1>1, <1>3, <2>2, CountModType, SmallMod
<1>7. Left = count /\ Left' = count + n
  BY <1>3, <1>5, <1>6 DEF Left
<1>8. Out' = Out \o Frame(m)
  BY <1>1, <1>2, <1>3, OutAppend DEF TypesOK
<1>9. Out \in Seq(Symbols) /\ count \in 0 .. Len(Out) /\ Unsent = End(Out, count)
  BY <1>7, UnsentIsEnd DEF EndIsUnsent
<1>10. Unsent' = End(Out \o Frame(m), count + n)
  BY <1>7, <1>8, UnsentIsEndNext DEF EndIsUnsent, End
<1>11. Frame(m) \in Seq(Symbols)
  BY <1>3, FrameLen
<1>12. Unsent' = Unsent \o Frame(m)
  <2> HIDE DEF Symbols
  <2>1. End(Out \o Frame(m), count + Len(Frame(m))) = End(Out, count) \o Frame(m)
    BY <1>9, <1>11, EndMore
  <2> QED  BY <1>3, <1>9, <1>10, <2>1
<1>13. Queue!Put(m)
  BY <1>1, <1>12 DEF Queue!Put
<1> QED  BY <1>3, <1>13 DEF QueueStep, Queue!Next

LEMMA TxWriteQueue ==
    ASSUME IInv, IInv', NEW k \in 1 .. TxLen, TxWrite(k)
    PROVE  QueueStep
<1>1. /\ pc[Usi] = Idle /\ count' = count /\ accepted' = accepted
      /\ line' = line \o Read(idxOut, k)
      /\ pc' = [pc EXCEPT ![Usi] = Doing("written", <<>>, k, 0)]
  BY DEF TxWrite, indexes
<1>2. TypesOK /\ InSync(Ahead)
  BY DEF IInv
<1>3. k \in 1 .. count /\ count \in Nat
  <2>1. count \in Nat /\ idxOut \in 0 .. Size - 1 /\ Size \in Nat
    BY <1>2, TxAssumption DEF InSync, TypesOK, Cells
  <2> QED  BY <2>1 DEF TxLen
<1>4. Taken = 0 /\ Taken' = k
  <2>1. pc'[Usi].op = "written" /\ pc'[Usi].num = k
    BY <1>1, <1>2, TxAssumption DEF TypesOK, Doing
  <2> QED  BY <1>1, <2>1 DEF Taken, Idle, Doing
<1>5. Left = count /\ Left' = count - k
  BY <1>1, <1>3, <1>4 DEF Left
<1>6. /\ Out \in Seq(Symbols) /\ count \in 0 .. Len(Out) /\ Unsent = End(Out, count)
  BY <1>5, UnsentIsEnd DEF EndIsUnsent
<1>7. Out' = Out
  BY <1>1 DEF Out
<1>8. Unsent' = End(Out, count - k)
  BY <1>5, <1>7, UnsentIsEndNext DEF EndIsUnsent, End
<1>9. Unsent \in Seq(Symbols) /\ Len(Unsent) = count
  <2> HIDE DEF Symbols
  <2> QED  BY <1>6, EndOf
<1>10. Unsent' = SubSeq(Unsent, k + 1, Len(Unsent))
  <2>1. k \in 0 .. count
    BY <1>3
  <2>2. SubSeq(End(Out, count), k + 1, count) = End(Out, count - k)
    <3> HIDE DEF Symbols
    <3> QED  BY <1>6, <2>1, EndOfEnd
  <2> QED  BY <1>6, <1>8, <1>9, <2>2
<1>11. SubSeq(Unsent, 1, k) = Read(idxOut, k)
  <2> DEFINE s == Read(idxOut, count)
             r == Read(idxOut, k)
  <2>1. Unsent = SubSeq(s, 1, count)
    BY <1>4 DEF Unsent
  <2> DEFINE b(j) == ring[Wrap(idxOut + j - 1)]
  <2>2. s = [j \in 1 .. count |-> b(j)] /\ r = [j \in 1 .. k |-> b(j)]
    BY DEF Read
  <2> HIDE DEF b
  <2>3. \A j \in 1 .. count : Unsent[j] = b(j)
    BY <1>3, <2>1, <2>2
  <2>4. r \in Seq(Symbols) /\ Len(r) = k /\ \A j \in 1 .. k : r[j] = Unsent[j]
    <3>1. \A j \in 1 .. k : j \in 1 .. count
      BY <1>3
    <3>2. \A j \in 1 .. k : b(j) \in Symbols
      <4> SUFFICES ASSUME NEW j \in 1 .. k PROVE b(j) \in Symbols
        OBVIOUS
      <4>1. j \in 1 .. count /\ b(j) = Unsent[j]
        BY <2>3, <3>1
      <4> HIDE DEF Symbols
      <4> QED  BY <1>9, <4>1
    <3>3. k \in Nat
      BY <1>3
    <3> HIDE DEF Symbols, s, r
    <3> QED  BY <2>2, <2>3, <3>1, <3>2, <3>3
  <2> DEFINE u == SubSeq(Unsent, 1, k)
  <2>5. u \in Seq(Symbols) /\ Len(u) = k /\ \A j \in 1 .. k : u[j] = Unsent[j]
    <3> HIDE DEF Symbols
    <3> QED  BY <1>3, <1>9
  <2> HIDE DEF u, r, Symbols
  <2>6. u = r
    BY <2>4, <2>5, SeqEqual
  <2> QED  BY <2>6 DEF u, r
<1>12. Queue!Write(k)
  BY <1>1, <1>10, <1>11 DEF Queue!Write
<1> QED  BY <1>3, <1>9, <1>12 DEF QueueStep, Queue!Next

LEMMA TxStoreLeft ==
    ASSUME IInv, IInv', TxStore
    PROVE  Left' = Left
<1> DEFINE n == pc[Usi].num
<1>1. /\ pc[Usi].op = "subtracting" /\ count' = (pc[Usi].seen - n) % CountMod
      /\ pc' = [pc EXCEPT ![Usi] = Idle]
  BY DEF TxStore
<1>2. TypesOK /\ InHandOK /\ InSync(Ahead)
  BY DEF IInv
<1>3. /\ n \in Nat /\ n \in 1 .. count /\ count \in Nat /\ pc[Usi].seen = count /\ Ahead = 0
      /\ Taken = n
  BY <1>1, <1>2, PcOf DEF InHandOK, InSync, Ahead, Taken
<1>4. pc'[Usi].op = "idle"
  BY <1>1, <1>2, TxAssumption DEF TypesOK, Idle, Doing
<1>5. Taken' = 0
  BY <1>4 DEF Taken
<1> HIDE DEF n
<1>6. count' = count - n
  <2>1. Size < CountMod /\ Size \in Nat /\ count < Size
    BY <1>2, <1>3, TxAssumption DEF InSync
  <2>2. count - n \in Nat /\ count - n < Size
    BY <1>3, <2>1
  <2>3. count - n < CountMod
    BY <1>3, <2>1, <2>2, CountModType
  <2> QED  BY <1>1, <1>3, <2>2, <2>3, CountModType, SmallMod
<1> QED  BY <1>3, <1>5, <1>6 DEF Left

(* The bytes on the line. *)
LineOK == line \in Seq(Symbols \cup Damages)

LEMMA OnLineStep ==
    ASSUME IInv, LineOK, TakeChar \/ \E c \in Damages : Damage(c)
    PROVE  QueueStep /\ LineOK'
<1>1. /\ line # <<>> /\ UNCHANGED txRing
      /\ line' = Tail(line) \/ \E c \in Damages : line' = [line EXCEPT ![1] = c]
  BY DEF TakeChar, Damage, txRing
<1>2. Unsent' = Unsent /\ accepted' = accepted
  BY <1>1 DEF txRing, indexes, Unsent, Taken, Read, Wrap
<1> DEFINE V == Symbols \cup Damages
<1> HIDE DEF V
<1>3. line \in Seq(V)
  BY DEF LineOK, V
<1>4. CASE line' = Tail(line)
  <2>1. line' \in Seq(V)
    BY <1>1, <1>3, <1>4
  <2>2. Queue!OnLine
    BY <1>1, <1>2, <1>4 DEF Queue!OnLine
  <2> QED  BY <2>1, <2>2 DEF QueueStep, Queue!Next, LineOK, V
<1>5. ASSUME NEW c \in Damages, line' = [line EXCEPT ![1] = c]
      PROVE  QueueStep /\ LineOK'
  <2>0. c \in V /\ 1 \in 1 .. Len(line)
    BY <1>1, <1>3 DEF V
  <2>1. /\ line' \in Seq(V) /\ Len(line') = Len(line)
        /\ \A j \in 1 .. Len(line) : line'[j] = IF j = 1 THEN c ELSE line[j]
    BY <1>3, <1>5, <2>0, ExceptSeq
  <2>2. line' # <<>>
    BY <1>1, <1>3, <2>1
  <2>3. Tail(line') = Tail(line)
    <3>1. /\ Tail(line) \in Seq(V) /\ Len(Tail(line)) = Len(line) - 1
          /\ \A i \in 1 .. Len(Tail(line)) : Tail(line)[i] = line[i + 1]
      BY <1>1, <1>3, HeadTailProperties
    <3>2. /\ Tail(line') \in Seq(V) /\ Len(Tail(line')) = Len(line') - 1
          /\ \A i \in 1 .. Len(Tail(line')) : Tail(line')[i] = line'[i + 1]
      BY <2>1, <2>2, HeadTailProperties
    <3>3. ASSUME NEW i \in 1 .. Len(Tail(line')) PROVE Tail(line')[i] = Tail(line)[i]
      <4>1. i + 1 \in 1 .. Len(line) /\ i + 1 # 1
        BY <1>3, <2>1, <3>2
      <4> QED  BY <2>1, <3>1, <3>2, <4>1
    <3> QED  BY <2>1, <3>1, <3>2, <3>3, SeqEqual
  <2>4. Queue!OnLine
    BY <1>1, <1>2, <2>2, <2>3 DEF Queue!OnLine
  <2> QED  BY <2>1, <2>4 DEF QueueStep, Queue!Next, LineOK, V
<1> QED  BY <1>1, <1>4, <1>5

(* A step writes to the line only what is unsent. *)
LEMMA QueueLine ==
    ASSUME IInv, LineOK, QueueStep, line' = line \/ \E k \in 1 .. TxLen : TxWrite(k)
    PROVE  LineOK'
<1>1. CASE line' = line
  BY <1>1 DEF LineOK, Symbols
<1>2. ASSUME NEW k \in 1 .. TxLen, TxWrite(k) PROVE LineOK'
  <2>1. line' = line \o Read(idxOut, k) /\ TypesOK /\ InSync(Ahead)
    BY <1>2 DEF TxWrite, IInv
  <2>2. /\ count \in Nat /\ idxOut \in 0 .. Size - 1 /\ Size \in Nat /\ k \in 1 .. count
        /\ idxOut + k =< Size
    <3>1. count \in Nat /\ idxOut \in 0 .. Size - 1 /\ Size \in Nat
      BY <2>1, TxAssumption DEF InSync, TypesOK, Cells
    <3> QED  BY <3>1 DEF TxLen
  <2>3. \A j \in 1 .. k : Wrap(idxOut + j - 1) \in Cells
    BY <2>2 DEF Wrap, Cells
  <2> DEFINE V == Symbols \cup Damages
  <2>4. \A j \in 1 .. k : ring[Wrap(idxOut + j - 1)] \in V
    <3> HIDE DEF Symbols
    <3> QED  BY <2>1, <2>3 DEF TypesOK
  <2> HIDE DEF V
  <2>5. Read(idxOut, k) \in Seq(V)
    <3> DEFINE r == Read(idxOut, k)
    <3>1. r = [j \in 1 .. k |-> ring[Wrap(idxOut + j - 1)]] /\ k \in Nat
      BY <2>2 DEF Read
    <3> HIDE DEF r
    <3>2. r \in Seq(V)
      BY <2>4, <3>1
    <3> QED  BY <3>2 DEF r
  <2>6. line' \in Seq(V)
    <3>1. line \in Seq(V)
      BY DEF LineOK, V
    <3> QED  BY <2>1, <2>5, <3>1
  <2> QED  BY <2>6 DEF LineOK, V
<1> QED  BY <1>1, <1>2

LEMMA NextQueue ==
    ASSUME OneSender, IInv, LineOK, IInv', [Next]_vars
    PROVE  QueueStep /\ LineOK'
<1>0. Usi \in Threads /\ TypesOK
  BY TxAssumption DEF IInv, TypesOK
<1>1. CASE Transmit
  <2>0. TxNext
    BY <1>1 DEF Transmit
  <2>1. ASSUME NEW m \in Messages, SendCopy(Usi, m) PROVE QueueStep /\ LineOK'
    <3>1. pc[Usi] = Idle /\ count' = count /\ accepted' = accepted /\ line' = line
          /\ pc'[Usi].op = "copied"
      BY <1>0, <2>1 DEF SendCopy, indexes, TypesOK, Doing
    <3>2. Left' = Left
      BY <3>1 DEF Left, Taken, Idle, Doing
    <3> QED  BY <3>1, <3>2, QueueUntouched, QueueLine
  <2>2. CASE SendFill(Usi)
    <3>1. pc[Usi].op = "copied" /\ count' = count /\ accepted' = accepted /\ line' = line
          /\ pc'[Usi].op \in {"filled", "idle"}
      BY <1>0, <2>2 DEF SendFill, TypesOK, Doing, Idle
    <3>2. Left' = Left
      BY <3>1 DEF Left, Taken
    <3> QED  BY <3>1, <3>2, QueueUntouched, QueueLine
  <2>3. CASE SendLoad(Usi)
    <3>1. pc[Usi].op = "filled" /\ count' = count /\ accepted' = accepted /\ line' = line
          /\ pc'[Usi].op = "adding"
      BY <1>0, <2>3 DEF SendLoad, indexes, TypesOK, Doing
    <3>2. Left' = Left
      BY <3>1 DEF Left, Taken
    <3> QED  BY <3>1, <3>2, QueueUntouched, QueueLine
  <2>4. CASE SendStore(Usi)
    <3>1. line' = line
      BY <2>4 DEF SendStore
    <3> QED  BY <2>4, <3>1, SendStoreQueue, QueueLine
  <2>5. ASSUME NEW k \in 1 .. TxLen, TxWrite(k) PROVE QueueStep /\ LineOK'
    BY <2>5, TxWriteQueue, QueueLine
  <2>6. CASE TxLoad
    <3>1. pc[Usi].op = "written" /\ count' = count /\ accepted' = accepted /\ line' = line
          /\ pc'[Usi].op = "subtracting" /\ pc'[Usi].num = pc[Usi].num
      BY <1>0, <2>6 DEF TxLoad, indexes, TypesOK, Doing
    <3>2. Left' = Left
      BY <3>1 DEF Left, Taken
    <3> QED  BY <3>1, <3>2, QueueUntouched, QueueLine
  <2>7. CASE TxStore
    <3>1. accepted' = accepted /\ line' = line
      BY <2>7 DEF TxStore
    <3> QED  BY <2>7, <3>1, TxStoreLeft, QueueUntouched, QueueLine
  <2> QED
    BY <2>0, <2>1, <2>2, <2>3, <2>4, <2>5, <2>6, <2>7 DEF TxNext, TxStep, SendStep, OneSender
<1>2. CASE TakeChar \/ \E c \in Damages : Damage(c)
  BY <1>2, OnLineStep
<1>3. CASE Receive \/ UNCHANGED vars
  <2>1. /\ ring' = ring /\ idxOut' = idxOut /\ count' = count /\ pc' = pc
        /\ accepted' = accepted /\ line' = line
    BY <1>3 DEF Receive, vars, txVars, indexes
  <2>2. Left' = Left
    BY <2>1 DEF Left, Taken
  <2> QED  BY <2>1, <2>2, QueueUntouched, QueueLine
<1> QED  BY <1>1, <1>2, <1>3 DEF Next

(* While only the usi thread sends, the transmit side implements the queue *)
(* of bytes of UsiQueue: usi_SendCmd adds the whole frame of a message or  *)
(* nothing, and usi_TxProcess writes the bytes to the port in order, each  *)
(* once, wherever the ring wraps and however few bytes the port takes.     *)
THEOREM TransmitIsQueue == OneSender /\ Spec => SendsInOrder
<1> SUFFICES ASSUME OneSender PROVE Spec => SendsInOrder
  OBVIOUS
<1>1. Init => Queue!Init /\ LineOK
  <2> SUFFICES ASSUME Init PROVE Queue!Init /\ LineOK
    OBVIOUS
  <2>1. TxInit
    BY DEF Init
  <2>2. count = 0 /\ Taken = 0 /\ accepted = <<>> /\ line = <<>>
    BY <2>1, TxAssumption DEF TxInit, Taken, Idle, Doing
  <2>3. Unsent = <<>>
    BY <2>2, SubSeqEmpty DEF Unsent
  <2> QED  BY <2>2, <2>3 DEF Queue!Init, LineOK
<1>2. IInv /\ LineOK /\ IInv' /\ [Next]_vars => QueueStep /\ LineOK'
  BY NextQueue
<1>3. QueueStep => [Queue!Next]_<<Unsent, accepted, line>>
  BY DEF QueueStep
<1> QED  BY <1>1, <1>2, <1>3, Inductive, PTL DEF Spec, SendsInOrder, Queue!Spec

-----------------------------------------------------------------------------
(* Types, whoever sends *)

Doings == [op : Ops, msg : Messages \cup {<<>>}, num : 0 .. CountMod,
           seen : 0 .. CountMod - 1]

(* What usi_TxProcess has written it has not read past the end of the ring *)
(* for, even where another thread has spoilt count.                        *)
BelowEnd == pc[Usi].op \in {"written", "subtracting"} => idxOut + pc[Usi].num =< Size

TxTypes ==
    /\ idxIn \in Cells /\ idxOut \in Cells /\ count \in 0 .. CountMod - 1
    /\ pc \in [Threads -> Doings]
    /\ aux \in Seq(Symbols)
    /\ BelowEnd

RxTypes ==
    /\ rxStat \in RxStates /\ rxIdx \in 0 .. RxSize /\ ready \in BOOLEAN
    /\ rxOpen \in BOOLEAN
    /\ ready => rxStat = "eorx" /\ ~rxOpen

(* The place in the buffer, which is behind it only after a byte has been  *)
(* written there.                                                          *)
RxPlace ==
    rxAt \in 0 .. RxSize + 1 /\ rxSpilt \in BOOLEAN /\ (rxAt > RxSize => rxSpilt)

LEMMA ModType == \A a \in Int : a % CountMod \in 0 .. CountMod - 1
<1>1. \A a \in Int, b \in Nat \ {0} : a % b \in 0 .. b - 1
  OBVIOUS
<1> QED  BY <1>1, CountModType

LEMMA ZeroFits == 0 \in 0 .. CountMod /\ 0 \in 0 .. CountMod - 1 /\ CountMod \in Nat
BY CountModType

LEMMA DoingType ==
    ASSUME NEW op \in Ops, NEW msg \in Messages \cup {<<>>}, NEW num \in 0 .. CountMod,
           NEW seen \in 0 .. CountMod - 1
    PROVE  Doing(op, msg, num, seen) \in Doings /\ Idle \in Doings
<1>1. <<>> \in Messages \cup {<<>>} /\ 0 \in 0 .. CountMod /\ 0 \in 0 .. CountMod - 1
  BY ZeroFits
<1>2. "idle" \in Ops
  BY DEF Ops
<1> HIDE DEF Ops
<1> QED  BY <1>1, <1>2 DEF Doing, Idle, Doings

(* A step of thread t that leaves idxOut alone and starts no write. *)
LEMMA StepOfThread ==
    ASSUME TxTypes, NEW t \in Threads, NEW p \in Doings, pc' = [pc EXCEPT ![t] = p],
           p.op \notin {"written", "subtracting"}, idxOut' = idxOut,
           idxIn' \in Cells, count' \in 0 .. CountMod - 1, aux' \in Seq(Symbols)
    PROVE  TxTypes'
<1>1. pc' \in [Threads -> Doings]
  BY DEF TxTypes
<1>2. BelowEnd'
  <2>1. CASE t = Usi
    BY <2>1 DEF TxTypes, BelowEnd
  <2>2. CASE t # Usi
    <3>1. pc'[Usi] = pc[Usi]
      BY <2>2, TxAssumption DEF TxTypes
    <3> QED  BY <3>1 DEF TxTypes, BelowEnd
  <2> QED  BY <2>1, <2>2
<1>3. idxOut' \in Cells /\ Cells' = Cells /\ Symbols' = Symbols /\ Doings' = Doings
  BY DEF TxTypes, Cells, Symbols, Doings
<1> HIDE DEF Symbols, Cells
<1> QED  BY <1>1, <1>2, <1>3 DEF TxTypes

(* A frame that is written in full ends before the ring does. *)
LEMMA FillsBelowSize ==
    ASSUME TxTypes, NEW n \in Nat, n < Gap
    PROVE  Wrap(idxIn + n) \in Cells /\ n \in 0 .. CountMod
<1>1. Size \in Nat /\ Size < CountMod /\ idxIn \in 0 .. Size - 1 /\ idxOut \in 0 .. Size - 1
  BY TxAssumption DEF TxTypes, Cells
<1>2. CountMod \in Nat
  BY CountModType
<1> QED  BY <1>1, <1>2 DEF Gap, Wrap, Cells

LEMMA SendTypes ==
    ASSUME TxTypes, NEW t \in Threads,
           SendStep(t) \/ \E m \in Messages : SendCopy(t, m)
    PROVE  TxTypes'
<1>0. /\ pc[t] \in Doings /\ count \in 0 .. CountMod - 1 /\ idxIn \in Cells /\ aux \in Seq(Symbols)
      /\ pc[t].op \in Ops /\ pc[t].msg \in Messages \cup {<<>>} /\ pc[t].num \in 0 .. CountMod
      /\ pc[t].seen \in 0 .. CountMod - 1
  BY DEF TxTypes, Doings
<1>1. 0 \in 0 .. CountMod /\ 0 \in 0 .. CountMod - 1 /\ CountMod \in Nat
  BY ZeroFits
<1>2. ASSUME NEW m \in Messages, SendCopy(t, m) PROVE TxTypes'
  <2>1. /\ pc' = [pc EXCEPT ![t] = Doing("copied", m, 0, 0)] /\ aux' = Content(m)
        /\ idxOut' = idxOut /\ idxIn' = idxIn /\ count' = count
    BY <1>2 DEF SendCopy, indexes
  <2>2. aux' \in Seq(Symbols)
    BY <2>1, FrameType
  <2>3. Doing("copied", m, 0, 0) \in Doings
    BY <1>1, DoingType DEF Ops
  <2> HIDE DEF Symbols
  <2> QED  BY <1>0, <2>1, <2>2, <2>3, StepOfThread DEF Doing
<1>3. CASE SendFill(t)
  <2> DEFINE f == Framed(aux)
             m == pc[t].msg
  <2>1. idxOut' = idxOut /\ count' = count /\ aux' = aux
    BY <1>3 DEF SendFill
  <2>2. Len(f) \in Nat
    <3>1. f \in Seq(Symbols)
      BY <1>0, FramedType
    <3> QED  BY <3>1
  <2>3. CASE Len(f) < Gap
    <3>1. idxIn' = Wrap(idxIn + Len(f)) /\ pc' = [pc EXCEPT ![t] = Doing("filled", @.msg, Len(f), 0)]
      BY <1>3, <2>3 DEF SendFill, f
    <3> HIDE DEF f
    <3>2. pc' = [pc EXCEPT ![t] = Doing("filled", m, Len(f), 0)]
      BY <3>1 DEF TxTypes
    <3>3. idxIn' \in Cells /\ Len(f) \in 0 .. CountMod
      BY <2>2, <2>3, <3>1, FillsBelowSize
    <3>4. Doing("filled", m, Len(f), 0) \in Doings
      <4>1. "filled" \in Ops
        BY DEF Ops
      <4> QED  BY <1>0, <1>1, <3>3, <4>1, DoingType
    <3> HIDE DEF Symbols, m
    <3> QED  BY <1>0, <2>1, <3>2, <3>3, <3>4, StepOfThread DEF Doing
  <2>4. CASE ~(Len(f) < Gap)
    <3>1. idxIn' = idxIn /\ pc' = [pc EXCEPT ![t] = Idle]
      BY <1>3, <2>4 DEF SendFill, f
    <3>2. Idle \in Doings
      BY <1>0, DoingType
    <3> HIDE DEF Symbols
    <3> QED  BY <1>0, <2>1, <3>1, <3>2, StepOfThread DEF Doing, Idle
  <2> QED  BY <2>3, <2>4
<1>4. CASE SendLoad(t)
  <2>1. /\ idxOut' = idxOut /\ idxIn' = idxIn /\ count' = count /\ aux' = aux
        /\ pc' = [pc EXCEPT ![t] = Doing("adding", pc[t].msg, pc[t].num, count)]
    BY <1>4 DEF SendLoad, indexes, TxTypes
  <2>2. Doing("adding", pc[t].msg, pc[t].num, count) \in Doings
    <3>1. "adding" \in Ops
      BY DEF Ops
    <3> QED  BY <1>0, <3>1, DoingType
  <2> HIDE DEF Symbols
  <2> QED  BY <1>0, <2>1, <2>2, StepOfThread DEF Doing
<1>5. CASE SendStore(t)
  <2>1. /\ idxOut' = idxOut /\ idxIn' = idxIn /\ aux' = aux
        /\ count' = (pc[t].seen + pc[t].num) % CountMod /\ pc' = [pc EXCEPT ![t] = Idle]
    BY <1>5 DEF SendStore
  <2>2. count' \in 0 .. CountMod - 1
    <3>1. pc[t].seen + pc[t].num \in Int
      BY <1>0, <1>1
    <3> QED  BY <2>1, <3>1, ModType
  <2>3. Idle \in Doings
    BY <1>0, DoingType
  <2> HIDE DEF Symbols
  <2> QED  BY <1>0, <2>1, <2>2, <2>3, StepOfThread DEF Doing, Idle
<1> QED  BY <1>2, <1>3, <1>4, <1>5 DEF SendStep

LEMMA TxStepTypes == ASSUME TxTypes, TxStep PROVE TxTypes'
<1>0. /\ Usi \in Threads /\ pc[Usi] \in Doings /\ count \in 0 .. CountMod - 1
      /\ pc[Usi].num \in 0 .. CountMod /\ pc[Usi].seen \in 0 .. CountMod - 1
      /\ idxOut \in 0 .. Size - 1 /\ Size \in Nat /\ Size < CountMod /\ CountMod \in Nat
  BY TxAssumption, CountModType DEF TxTypes, Doings, Cells
<1>1. <<>> \in Messages \cup {<<>>} /\ 0 \in 0 .. CountMod - 1
  BY ZeroFits
<1>2. ASSUME NEW k \in 1 .. TxLen, TxWrite(k) PROVE TxTypes'
  <2>1. /\ pc' = [pc EXCEPT ![Usi] = Doing("written", <<>>, k, 0)]
        /\ idxIn' = idxIn /\ idxOut' = idxOut /\ count' = count /\ aux' = aux
    BY <1>2 DEF TxWrite, indexes
  <2>2. k \in 0 .. CountMod /\ idxOut + k =< Size
    BY <1>0 DEF TxLen
  <2>3. Doing("written", <<>>, k, 0) \in Doings
    BY <1>1, <2>2, DoingType DEF Ops
  <2>4. pc' \in [Threads -> Doings] /\ pc'[Usi].num = k
    BY <1>0, <2>1, <2>3 DEF TxTypes, Doing
  <2>5. BelowEnd'
    BY <2>1, <2>2, <2>4 DEF BelowEnd
  <2> QED  BY <2>1, <2>4, <2>5 DEF TxTypes, Cells, Symbols, Doings
<1>3. CASE TxLoad
  <2>1. /\ pc' = [pc EXCEPT ![Usi] = Doing("subtracting", <<>>, pc[Usi].num, count)]
        /\ idxIn' = idxIn /\ idxOut' = idxOut /\ count' = count /\ aux' = aux
        /\ pc[Usi].op = "written"
    BY <1>0, <1>3 DEF TxLoad, indexes, TxTypes
  <2>3. Doing("subtracting", <<>>, pc[Usi].num, count) \in Doings
    BY <1>0, <1>1, DoingType DEF Ops
  <2>4. pc' \in [Threads -> Doings] /\ pc'[Usi].num = pc[Usi].num
    BY <1>0, <2>1, <2>3 DEF TxTypes, Doing
  <2>5. BelowEnd'
    BY <2>1, <2>4 DEF TxTypes, BelowEnd
  <2> QED  BY <2>1, <2>4, <2>5 DEF TxTypes, Cells, Symbols, Doings
<1>4. CASE TxStore
  <2>1. /\ pc' = [pc EXCEPT ![Usi] = Idle] /\ idxIn' = idxIn /\ aux' = aux
        /\ idxOut' = Wrap(idxOut + pc[Usi].num)
        /\ count' = (pc[Usi].seen - pc[Usi].num) % CountMod /\ pc[Usi].op = "subtracting"
    BY <1>4 DEF TxStore
  <2>2. count' \in 0 .. CountMod - 1
    <3>1. pc[Usi].seen - pc[Usi].num \in Int
      BY <1>0
    <3> QED  BY <2>1, <3>1, ModType
  <2>3. Wrap(idxOut + pc[Usi].num) \in Cells
    <3>1. idxOut + pc[Usi].num =< Size
      BY <2>1 DEF TxTypes, BelowEnd
    <3> QED  BY <1>0, <3>1, TxAssumption DEF Wrap, Cells
  <2>4. pc' \in [Threads -> Doings] /\ pc'[Usi].op = "idle"
    <3>1. Idle \in Doings
      BY <1>0, <1>1, DoingType DEF Ops
    <3> QED  BY <1>0, <2>1, <3>1 DEF TxTypes, Idle, Doing
  <2>5. BelowEnd'
    BY <2>4 DEF BelowEnd
  <2> HIDE DEF Symbols
  <2>6. Cells' = Cells /\ Symbols' = Symbols /\ Doings' = Doings
    BY DEF Cells, Symbols, Doings
  <2> QED  BY <2>1, <2>2, <2>3, <2>4, <2>5, <2>6 DEF TxTypes
<1> QED  BY <1>2, <1>3, <1>4 DEF TxStep

LEMMA RxCharTypes ==
    ASSUME RxTypes, NEW c, RxChar(c)
    PROVE  RxTypes'
<1>1. rxOpen /\ ~ready /\ RxSize \in Nat \ {0}
  BY RxAssumption DEF RxTypes, RxChar
<1>2. CASE RxOutside(c)
  BY <1>1, <1>2 DEF RxTypes, RxStates, RxOutside
<1>3. CASE RxEscape(c)
  BY <1>1, <1>3 DEF RxTypes, RxStates, RxEscape
<1>4. CASE RxSecondMark(c)
  BY <1>1, <1>4 DEF RxTypes, RxStates, RxSecondMark, rxVars
<1>5. CASE RxEndOfMessage(c)
  <2>1. rxIdx' \in 0 .. RxSize
    BY <1>1, <1>5 DEF RxTypes, RxEndOfMessage, Reset
  <2>2. /\ rxStat' \in RxStates /\ ready' \in BOOLEAN /\ rxOpen' \in BOOLEAN
        /\ ready' => rxStat' = "eorx" /\ ~rxOpen'
    <3>1. rxOpen' = FALSE
      BY <1>5 DEF RxEndOfMessage, Leave
    <3>2. (rxStat' = "eorx" /\ ready' = TRUE) \/ (rxStat' = "idle" /\ ready' = ready)
      BY <1>5 DEF RxEndOfMessage, Reset
    <3>3. rxStat' \in RxStates /\ rxOpen' \in BOOLEAN
      BY <3>1, <3>2 DEF RxStates
    <3>4. ready' \in BOOLEAN
      <4>1. ready \in BOOLEAN
        BY DEF RxTypes
      <4> QED  BY <3>2, <4>1, Zenon
    <3>5. ready' => rxStat' = "eorx" /\ ~rxOpen'
      BY <1>1, <3>1, <3>2, Zenon
    <3> QED  BY <3>3, <3>4, <3>5
  <2> QED  BY <2>1, <2>2, Zenon DEF RxTypes
<1>6. CASE RxSecondEscape(c)
  BY <1>1, <1>6 DEF RxTypes, RxStates, RxSecondEscape, Reset
<1>7. CASE RxStore(c)
  <2>1. rxIdx' \in 0 .. RxSize
    <3>1. rxIdx' = 0 \/ (~(rxIdx >= RxSize) /\ rxIdx' = rxIdx + 1)
      BY <1>7, Zenon DEF RxStore, Reset
    <3> QED  BY <1>1, <3>1 DEF RxTypes
  <2>2. rxStat' \in RxStates /\ ready' = ready
    BY <1>7 DEF RxStore, Reset, RxStates
  <2>3. rxOpen' \in BOOLEAN
    BY <1>1, <1>7, Zenon DEF RxTypes, RxStore, Leave
  <2> QED  BY <1>1, <2>1, <2>2, <2>3, Zenon DEF RxTypes
<1> QED  BY <1>2, <1>3, <1>4, <1>5, <1>6, <1>7 DEF RxChar

LEMMA RxPlaceKept ==
    ASSUME RxTypes, RxPlace, [Next]_vars
    PROVE  RxPlace'
<1>0. RxSize \in Nat \ {0} /\ rxIdx \in 0 .. RxSize
  BY RxAssumption DEF RxTypes
<1>1. CASE UNCHANGED <<rxAt, rxSpilt>>
  BY <1>1 DEF RxPlace
<1>2. CASE rxAt' \in 0 .. RxSize /\ UNCHANGED rxSpilt
  BY <1>0, <1>2 DEF RxPlace
<1>3. ASSUME NEW c, RxChar(c), ~rxSpilt PROVE RxPlace'
  <2>1. rxAt \in 0 .. RxSize
    BY <1>0, <1>3 DEF RxPlace
  <2>2. CASE RxEndOfMessage(c)
    BY <1>0, <1>2, <2>2 DEF RxEndOfMessage, Leave
  <2>3. CASE RxStore(c)
    <3>1. CASE rxIdx >= RxSize
      BY <1>0, <1>2, <2>3, <3>1 DEF RxStore, Leave
    <3>2. CASE ~(rxIdx >= RxSize) /\ rxAt < RxSize
      BY <1>0, <1>2, <2>1, <2>3, <3>2 DEF RxStore
    <3>3. CASE ~(rxIdx >= RxSize) /\ ~(rxAt < RxSize)
      <4>1. rxSpilt' = TRUE /\ rxAt' = rxAt + 1
        BY <2>3, <3>3 DEF RxStore
      <4> QED  BY <1>0, <2>1, <4>1 DEF RxPlace
    <3> QED  BY <3>1, <3>2, <3>3
  <2>4. CASE RxOutside(c) \/ RxEscape(c) \/ RxSecondMark(c) \/ RxSecondEscape(c)
    BY <1>1, <2>4 DEF RxOutside, RxEscape, RxSecondMark, RxSecondEscape, rxVars
  <2> QED  BY <1>3, <2>2, <2>3, <2>4 DEF RxChar
<1>4. CASE TakeChar /\ ~rxSpilt
  BY <1>3, <1>4 DEF TakeChar
<1>5. CASE Receive
  <2>1. CASE RxCall
    BY <1>0, <1>2, <2>1 DEF RxCall
  <2>2. CASE RxReturn
    BY <1>0, <1>2, <2>2 DEF RxReturn, Leave
  <2>3. CASE ProcessMsg
    BY <1>1, <2>3 DEF ProcessMsg
  <2> QED  BY <1>5, <2>1, <2>2, <2>3 DEF Receive
<1>6. CASE Transmit \/ (\E c \in Damages : Damage(c)) \/ UNCHANGED vars
  <2>1. UNCHANGED rxVars
    BY <1>6, Zenon DEF Transmit, Damage, vars
  <2> QED  BY <1>1, <2>1 DEF rxVars
<1> QED  BY <1>4, <1>5, <1>6 DEF Next

LEMMA TypesNext ==
    ASSUME TxTypes, RxTypes, noise \in 0 .. MaxNoise, [Next]_vars
    PROVE  TxTypes' /\ RxTypes' /\ noise' \in 0 .. MaxNoise
<1>1. ASSUME UNCHANGED <<indexes, aux, pc>> PROVE TxTypes'
  BY <1>1 DEF TxTypes, BelowEnd, indexes, Cells, Symbols, Doings
<1>2. ASSUME UNCHANGED rxVars PROVE RxTypes'
  BY <1>2 DEF RxTypes, rxVars
<1>3. CASE Transmit
  <2>1. TxTypes'
    <3>1. ASSUME NEW t \in Threads, SendStep(t) \/ \E m \in Messages : SendCopy(t, m)
          PROVE  TxTypes'
      BY <3>1, SendTypes
    <3> QED  BY <1>3, <3>1, TxStepTypes DEF Transmit, TxNext
  <2> QED  BY <1>2, <1>3, <2>1 DEF Transmit
<1>4. CASE TakeChar
  <2>1. RxTypes'
    BY <1>4, RxCharTypes DEF TakeChar
  <2> QED  BY <1>1, <1>4, <2>1 DEF TakeChar
<1>5. CASE Receive
  <2>1. TxTypes' /\ noise' = noise
    <3>1. UNCHANGED txVars /\ noise' = noise
      BY <1>5, Zenon DEF Receive
    <3> QED  BY <1>1, <3>1 DEF txVars, indexes
  <2>2. RxTypes'
    <3>1. CASE RxCall
      BY <3>1 DEF RxCall, RxTypes
    <3>2. CASE RxReturn
      BY <3>2 DEF RxReturn, Leave, RxTypes
    <3>3. CASE ProcessMsg
      <4>1. rxIdx' \in 0 .. RxSize
        BY <3>3, RxAssumption DEF ProcessMsg, Reset
      <4>2. rxStat' = "idle" /\ ready' = FALSE /\ rxOpen' = rxOpen
        BY <3>3 DEF ProcessMsg, Reset
      <4> QED  BY <4>1, <4>2, Zenon DEF RxTypes, RxStates
    <3> QED  BY <1>5, <3>1, <3>2, <3>3 DEF Receive
  <2> QED  BY <2>1, <2>2
<1>6. ASSUME NEW c \in Damages, Damage(c)
      PROVE  TxTypes' /\ RxTypes' /\ noise' \in 0 .. MaxNoise
  <2>1. noise' \in 0 .. MaxNoise
    BY <1>6, LinkAssumption DEF Damage
  <2> QED  BY <1>1, <1>2, <1>6, <2>1 DEF Damage
<1>7. CASE UNCHANGED vars
  <2>1. UNCHANGED <<indexes, aux, pc>> /\ UNCHANGED rxVars /\ noise' = noise
    BY <1>7 DEF vars, txVars, indexes
  <2> QED  BY <1>1, <1>2, <2>1
<1> QED  BY <1>3, <1>4, <1>5, <1>6, <1>7 DEF Next

(* Whoever sends, and whatever is damaged: the indexes stay in the ring    *)
(* though a second sender may spoil count, a message is ready only between *)
(* two calls of usi_RxProcess, and the place where it puts the next byte   *)
(* is in the receive buffer or at its end, up to the first byte that it    *)
(* writes behind the buffer, if there is one.                              *)
THEOREM TypeCorrect == Spec => []TypeOK
<1> DEFINE I == TxTypes /\ RxTypes /\ RxPlace /\ noise \in 0 .. MaxNoise
<1>1. Init => I
  <2> SUFFICES ASSUME Init PROVE I
    OBVIOUS
  <2>1. TxInit /\ RxInit /\ noise = 0
    BY DEF Init
  <2>2. Idle \in Doings
    <3>1. "idle" \in Ops /\ <<>> \in Messages \cup {<<>>} /\ 0 \in 0 .. CountMod
          /\ 0 \in 0 .. CountMod - 1
      BY ZeroFits DEF Ops
    <3> QED  BY <3>1, DoingType
  <2>3. pc \in [Threads -> Doings] /\ pc[Usi].op = "idle"
    BY <2>1, <2>2, TxAssumption DEF TxInit, Idle, Doing
  <2>4. /\ aux \in Seq(Symbols) /\ idxIn \in Cells /\ idxOut \in Cells
        /\ count \in 0 .. CountMod - 1
    <3> HIDE DEF Symbols
    <3> QED  BY <2>1, ZeroFits, TxAssumption DEF TxInit, Cells
  <2>5. BelowEnd
    BY <2>3 DEF BelowEnd
  <2>6. RxTypes
    <3>1. rxIdx \in 0 .. RxSize
      BY <2>1, RxAssumption DEF RxInit
    <3>2. rxStat = "idle" /\ ready = FALSE /\ rxOpen = FALSE
      BY <2>1 DEF RxInit
    <3> QED  BY <3>1, <3>2, Zenon DEF RxTypes, RxStates
  <2>7. RxPlace
    <3>1. rxAt = 0 /\ rxSpilt = FALSE
      BY <2>1 DEF RxInit
    <3>2. 0 \in 0 .. RxSize + 1 /\ ~(0 > RxSize)
      BY RxAssumption
    <3> QED  BY <3>1, <3>2, Zenon DEF RxPlace
  <2> QED  BY <2>1, <2>3, <2>4, <2>5, <2>6, <2>7, LinkAssumption DEF TxTypes
<1>2. I /\ [Next]_vars => I'
  BY TypesNext, RxPlaceKept
<1>3. I => TypeOK
  BY DEF TxTypes, RxTypes, RxPlace, TypeOK, Doings
<1> QED  BY <1>1, <1>2, <1>3, PTL DEF Spec
=============================================================================
