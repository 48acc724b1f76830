------------------------------ MODULE UsiFrame ------------------------------
(***************************************************************************)
(* The frames of the USI serial link: Usi.c.  A message is sent as its     *)
(* length, its bytes and a checksum, between two marks; a mark or an       *)
(* escape inside is replaced by an escape and the flipped byte.            *)
(*                                                                         *)
(* Bytes are the numbers 0 .. 7, of which 2 and 1 stand for the mark and   *)
(* the escape.  The two header bytes (10 bits of length, 6 of type) are    *)
(* one symbol, escaped where it is 1 or 2; so are the bytes of the         *)
(* checksum, which is as good as a checksum can be: it tells all contents  *)
(* apart, and is never a mark or an escape.                                *)
(***************************************************************************)
EXTENDS Naturals, Sequences, SequencesExt

CONSTANT LenMod    \* the length field holds Len % LenMod; 1024 in the code

ASSUME LenModAssumption == LenMod \in Nat \ {0}

Bytes == 0 .. 7
Mark  == 2                     \* MSGMARK, 0x7E
Esc   == 1                     \* ESCMARK, 0x7D
Flip(c) == (c + 4) % 8         \* ch ^ 0x20

Checksum(s) == FoldLeft(LAMBDA a, b : 8 * a + b, 8, s)

(* Header, data and checksum. *)
Content(m) ==
    LET body == <<Len(m) % LenMod>> \o m
    IN  Append(body, Checksum(body))

(* Mistake: only the mark is replaced. *)
EscapesMarksOnly(c) == IF c = Mark THEN <<Esc, Flip(c)>> ELSE <<c>>

Escaped(c) == IF c \in {Mark, Esc} THEN <<Esc, Flip(c)>> ELSE <<c>>

Stuff(s) == FlattenSeq([i \in DOMAIN s |-> Escaped(s[i])])

(* The bytes of a content on the line. *)
Framed(s) == <<Mark>> \o Stuff(s) \o <<Mark>>
Frame(m)  == Framed(Content(m))

(* _doEoMsg: the first n bytes of the receive buffer hold a message.  Only *)
(* the checksum over the length that the header names is compared.  What   *)
(* lies behind the buffer is taken not to have the right checksum.         *)
MinContent == 2
Intact(buf, n) ==
    /\ n >= MinContent
    /\ buf[1] + 1 <= Len(buf)
    /\ buf[n] = Checksum(SubSeq(buf, 1, buf[1] + 1))

(* _processMsg: the message that the layer above is given. *)
Payload(buf) == SubSeq(buf, 2, buf[1] + 1)
=============================================================================
