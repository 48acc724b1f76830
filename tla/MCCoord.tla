------------------------------ MODULE MCCoord ------------------------------
(* Instances of CoordApp for TLC. *)
EXTENDS CoordApp, TLC

(* Parameters of both layers, one of them the number of hops, which is     *)
(* read later.                                                             *)
SomeParams == <<[type |-> "macset", attr |-> "key"],
                [type |-> "set", attr |-> "hops"]>>
AllAttributes == {"key", "hops", "prefix"}
=============================================================================
