------------------------------- MODULE MCUsi -------------------------------
(* Instances of UsiLink for TLC. *)
EXTENDS UsiLink, TLC

(* Two messages with an escaped header, one of which is all escapes but    *)
(* for the checksum, and one without an escape.                            *)
MixedMessages == {<<4>>, <<Esc, Mark>>, <<3, 0, 4>>}
OneThread  == {Usi}
AnyDamage  == {3, Mark, Esc, Gone}
=============================================================================
