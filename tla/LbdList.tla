------------------------------ MODULE LbdList ------------------------------
(***************************************************************************)
(* The table of registered devices of the G3 coordinator: g_lbds_list,     *)
(* g_lbds_list_size and the initial short address of g_current_context     *)
(* (src/g3coordd_linux/g3/bootstrap/source/bs_functions.c).  A device's    *)
(* short address is its position in the table plus the initial short       *)
(* address.  The table is a record l, every operation a function of l.     *)
(***************************************************************************)
EXTENDS Integers, FiniteSets, FiniteSetsExt

CONSTANTS
    Devices,       \* extended addresses (EUI-64) of the devices
    NoDevice,      \* the null extended address: a free position
    MaxLbds,       \* MAX_LBDS, the number of positions of g_lbds_list
    ShortFromExt,  \* bGetShortAddressFromExtended
    ExtShort       \* bytes 6 and 7 of an extended address

ASSUME LbdListAssumption ==
    /\ MaxLbds \in Nat \ {0}
    /\ NoDevice \notin Devices
    /\ ShortFromExt \in BOOLEAN
    /\ ExtShort \in [Devices -> Nat]

(***************************************************************************)
(* Cells are the positions the operations can touch.  _is_valid_address    *)
(* accepts an offset equal to MAX_LBDS, so position MaxLbds, one past the  *)
(* array, is a cell too; the memory there is zero at start-up.             *)
(***************************************************************************)
Positions == 0 .. MaxLbds - 1
Cells     == 0 .. MaxLbds

Lists == [ext : [Cells -> Devices \cup {NoDevice}],
          size : 0 .. MaxLbds,
          initial : Nat \ {0}]

EmptyList == [ext |-> [i \in Cells |-> NoDevice], size |-> 0, initial |-> 1]

IsValidAddress(l, a) == /\ a >= l.initial
                        /\ a - l.initial =< MaxLbds

DeviceIsInList(l, a) == /\ IsValidAddress(l, a)
                        /\ l.ext[a - l.initial] # NoDevice

(* Mistake: the count starts at the second position. *)
LbdsCountFromSecond(l) == Cardinality({i \in Positions : i > 0 /\ l.ext[i] # NoDevice})

(* get_lbds_count counts the whole table, not the part below the size. *)
LbdsCount(l) == Cardinality({i \in Positions : l.ext[i] # NoDevice})

RemoveEntry(l, a) ==
    IF DeviceIsInList(l, a)
    THEN [l EXCEPT !.ext = [@ EXCEPT ![a - l.initial] = NoDevice]]
    ELSE l

(* Mistake: the last position in use is not searched. *)
FoundAtAllButLast(l, d) == {j \in Positions : j < l.size - 1 /\ l.ext[j] = d}

(* The positions at which bs_get_short_addr_by_ext finds a device: it only *)
(* searches the positions below g_lbds_list_size.                          *)
FoundAt(l, d) == {j \in Positions : j < l.size /\ l.ext[j] = d}

(* Process_Joining0: a device found in the list loses its entry ... *)
Forget(l, d) ==
    IF FoundAt(l, d) = {} THEN l ELSE RemoveEntry(l, Min(FoundAt(l, d)) + l.initial)

FreePositions(l) == {i \in Positions : l.ext[i] = NoDevice}

(* Mistake: freed addresses are given again before new ones. *)
ReuseAddress(l, d) ==
    IF FreePositions(l) = {} THEN 0 ELSE Min(FreePositions(l)) + l.initial

(* ... and is given the address returned by get_new_address. *)
NewAddress(l, d) ==
    IF l.size < MaxLbds
    THEN IF ShortFromExt THEN ExtShort[d] ELSE l.size + l.initial
    ELSE IF ShortFromExt \/ FreePositions(l) = {}
         THEN 0
         ELSE Min(FreePositions(l)) + l.initial

(* Mistakes: the size grows without bound; it does not grow. *)
GrowAlways(l) == [l EXCEPT !.size = @ + 1]
GrowNever(l)  == l

(* get_new_address also takes one more position while there are any. *)
Grow(l) == IF l.size < MaxLbds THEN [l EXCEPT !.size = @ + 1] ELSE l

CanAdd(l, d, a) == /\ IsValidAddress(l, a)
                   /\ l.ext[a - l.initial] = NoDevice
                   /\ FoundAt(l, d) = {}

AddEntry(l, d, a) ==
    IF CanAdd(l, d, a)
    THEN [l EXCEPT !.ext = [@ EXCEPT ![a - l.initial] = d]]
    ELSE l

SetInitial(l, a) == [l EXCEPT !.initial = a]

(* The device registered at a position, for the properties. *)
ListedAt(l, i, d) == l.ext[i] = d /\ d # NoDevice
Listed(l) == {d \in Devices : \E i \in Positions : l.ext[i] = d}
=============================================================================
