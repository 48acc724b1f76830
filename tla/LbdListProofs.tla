--------------------------- MODULE LbdListProofs ---------------------------
(***************************************************************************)
(* Lemmas about the operations on the table of registered devices, for     *)
(* every set of devices and every size of the table.                       *)
(***************************************************************************)
EXTENDS LbdList, BasicLemmas, TLAPS, FiniteSetTheorems

-----------------------------------------------------------------------------
(* Smallest and greatest elements *)

(* Min of a set of naturals is one of its elements, and the smallest. *)
LEMMA MinIn ==
    ASSUME NEW T \in SUBSET Nat, T # {}
    PROVE  Min(T) \in T /\ \A y \in T : Min(T) =< y
  BY MinExists DEF Min

(* So is Max of a set with an upper bound, and the greatest. *)
LEMMA MaxIn ==
    ASSUME NEW n \in Nat, NEW T \in SUBSET (0 .. n), T # {}
    PROVE  Max(T) \in T
<1> DEFINE U == {n - x : x \in T}
<1>1. U \in SUBSET Nat /\ U # {}
  <2>1. \A x \in T : n - x \in Nat
    OBVIOUS
  <2>2. PICK x \in T : TRUE
    OBVIOUS
  <2>3. n - x \in U
    OBVIOUS
  <2> QED  BY <2>1, <2>3
<1>2. PICK u \in U : \A v \in U : u =< v
  <2> HIDE DEF U
  <2> QED  BY <1>1, MinExists
<1>3. PICK x \in T : u = n - x
  OBVIOUS
<1>4. ASSUME NEW y \in T PROVE x >= y
  <2>1. n - y \in U
    OBVIOUS
  <2>2. n - x =< n - y
    BY <1>2, <1>3, <2>1
  <2>3. x \in Int /\ y \in Int
    OBVIOUS
  <2> QED  BY <2>2, <2>3
<1> QED  BY <1>4 DEF Max

-----------------------------------------------------------------------------
(* Types *)

(* get_lbds_count never exceeds the size of the array. *)
LEMMA LbdsCountType ==
    ASSUME NEW l
    PROVE  LbdsCount(l) \in 0 .. MaxLbds
<1> DEFINE P == {i \in Positions : l.ext[i] # NoDevice}
<1>1. MaxLbds \in Nat
  BY LbdListAssumption
<1>2. IsFiniteSet(Positions) /\ Cardinality(Positions) = MaxLbds
  BY <1>1, LbdListAssumption, FS_Interval DEF Positions
<1>3. P \in SUBSET Positions
  OBVIOUS
<1>4. IsFiniteSet(P) /\ Cardinality(P) =< MaxLbds
  <2> HIDE DEF P
  <2> QED  BY <1>2, <1>3, FS_Subset
<1>5. Cardinality(P) \in Nat
  <2> HIDE DEF P
  <2> QED  BY <1>4, FS_CardinalityType
<1> QED  BY <1>1, <1>4, <1>5 DEF LbdsCount

(* A position that an operation finds is in the array. *)
LEMMA FoundAtMin ==
    ASSUME NEW l, NEW d, FoundAt(l, d) # {}
    PROVE  /\ Min(FoundAt(l, d)) \in Positions
           /\ Min(FoundAt(l, d)) < l.size
           /\ l.ext[Min(FoundAt(l, d))] = d
<1>1. FoundAt(l, d) \in SUBSET Nat
  BY LbdListAssumption DEF FoundAt, Positions
<1>2. Min(FoundAt(l, d)) \in FoundAt(l, d)
  BY <1>1, MinIn
<1> QED  BY <1>2 DEF FoundAt

(* So is a position that get_new_address reuses. *)
LEMMA FreePositionsMin ==
    ASSUME NEW l, FreePositions(l) # {}
    PROVE  Min(FreePositions(l)) \in Positions /\ l.ext[Min(FreePositions(l))] = NoDevice
<1>1. FreePositions(l) \in SUBSET Nat
  BY LbdListAssumption DEF FreePositions, Positions
<1>2. Min(FreePositions(l)) \in FreePositions(l)
  BY <1>1, MinIn
<1> QED  BY <1>2 DEF FreePositions

(* The operations of the table return a table. *)
LEMMA EmptyListType == EmptyList \in Lists
  BY LbdListAssumption DEF EmptyList, Lists, Cells

(* remove_lbds_entry clears a position of the table. *)
LEMMA RemoveEntryType ==
    ASSUME NEW l \in Lists, NEW a \in Int
    PROVE  RemoveEntry(l, a) \in Lists
  BY DEF RemoveEntry, Lists

(* So does Process_Joining0 with the old entry of a device. *)
LEMMA ForgetType ==
    ASSUME NEW l \in Lists, NEW d
    PROVE  Forget(l, d) \in Lists
<1>1. CASE FoundAt(l, d) = {}
  BY <1>1 DEF Forget
<1>2. CASE FoundAt(l, d) # {}
  <2>1. Min(FoundAt(l, d)) + l.initial \in Int
    BY <1>2, FoundAtMin DEF Positions, Lists
  <2> QED  BY <1>2, <2>1, RemoveEntryType DEF Forget
<1> QED  BY <1>1, <1>2

(* get_new_address returns a natural number. *)
LEMMA NewAddressType ==
    ASSUME NEW l \in Lists, NEW d \in Devices
    PROVE  NewAddress(l, d) \in Nat
<1>1. FreePositions(l) # {} => Min(FreePositions(l)) \in Nat
  BY FreePositionsMin, LbdListAssumption DEF Positions
<1>2. l.size \in Nat /\ l.initial \in Nat /\ ExtShort[d] \in Nat
  BY LbdListAssumption DEF Lists
<1> QED  BY <1>1, <1>2 DEF NewAddress

(* g_lbds_list_size stays within MAX_LBDS. *)
LEMMA GrowType ==
    ASSUME NEW l \in Lists
    PROVE  Grow(l) \in Lists
  BY LbdListAssumption DEF Grow, Lists

(* add_lbds_entry writes a device into a position of the table. *)
LEMMA AddEntryType ==
    ASSUME NEW l \in Lists, NEW d \in Devices, NEW a \in Int
    PROVE  AddEntry(l, d, a) \in Lists
  BY DEF AddEntry, Lists

(* set_initial_short_address moves the addresses, not the entries. *)
LEMMA SetInitialType ==
    ASSUME NEW l \in Lists, NEW a \in Nat \ {0}
    PROVE  SetInitial(l, a) \in Lists
  BY DEF SetInitial, Lists

-----------------------------------------------------------------------------
(* What the searches below g_lbds_list_size rely on: every entry is below  *)
(* the size, so that a device that is registered is found, and no device   *)
(* has two entries.                                                        *)
WellFormed(l) ==
    /\ \A i \in Cells : l.ext[i] # NoDevice => i < l.size
    /\ \A i, j \in Cells : l.ext[i] = l.ext[j] /\ i # j => l.ext[i] = NoDevice

(* The table is well-formed at start-up. *)
LEMMA EmptyListWellFormed == WellFormed(EmptyList)
  BY DEF EmptyList, WellFormed

(* Clearing an entry keeps the table well-formed. *)
LEMMA RemoveEntryWellFormed ==
    ASSUME NEW l \in Lists, WellFormed(l), NEW a \in Int
    PROVE  WellFormed(RemoveEntry(l, a)) /\ RemoveEntry(l, a).size = l.size
           /\ RemoveEntry(l, a).initial = l.initial
<1>1. CASE ~DeviceIsInList(l, a)
  BY <1>1 DEF RemoveEntry
<1>2. CASE DeviceIsInList(l, a)
  <2> DEFINE m == RemoveEntry(l, a)
  <2>1. m = [l EXCEPT !.ext = [@ EXCEPT ![a - l.initial] = NoDevice]]
    BY <1>2 DEF RemoveEntry
  <2>2. m.size = l.size /\ m.initial = l.initial
    BY <2>1 DEF Lists
  <2>3. \A i \in Cells : m.ext[i] = IF i = a - l.initial THEN NoDevice ELSE l.ext[i]
    BY <2>1 DEF Lists
  <2> HIDE DEF m
  <2>4. WellFormed(m)
    BY <2>2, <2>3 DEF WellFormed
  <2> QED  BY <2>2, <2>4 DEF m
<1> QED  BY <1>1, <1>2

(* So does forgetting a device, which is in no entry afterwards. *)
LEMMA ForgetWellFormed ==
    ASSUME NEW l \in Lists, WellFormed(l), NEW d
    PROVE  WellFormed(Forget(l, d)) /\ Forget(l, d).size = l.size
           /\ Forget(l, d).initial = l.initial
<1>1. CASE FoundAt(l, d) = {}
  BY <1>1 DEF Forget
<1>2. CASE FoundAt(l, d) # {}
  <2>1. Min(FoundAt(l, d)) + l.initial \in Int
    BY <1>2, FoundAtMin DEF Positions, Lists
  <2> QED  BY <1>2, <2>1, RemoveEntryWellFormed DEF Forget
<1> QED  BY <1>1, <1>2

(* A size that grows keeps every entry below it. *)
LEMMA GrowWellFormed ==
    ASSUME NEW l \in Lists, WellFormed(l)
    PROVE  WellFormed(Grow(l)) /\ Grow(l).size >= l.size /\ Grow(l).initial = l.initial
<1>1. Grow(l).ext = l.ext /\ Grow(l).size >= l.size /\ Grow(l).initial = l.initial
  BY DEF Grow, Lists
<1>2. l.size \in Int /\ Grow(l).size \in Int
  BY GrowType DEF Lists
<1>3. Cells \subseteq Int
  BY LbdListAssumption DEF Cells
<1>4. ASSUME NEW i \in Cells, l.ext[i] # NoDevice PROVE i < Grow(l).size
  <2>1. i < l.size
    BY <1>4 DEF WellFormed
  <2> QED  BY <1>1, <1>2, <1>3, <2>1
<1> QED  BY <1>1, <1>4 DEF WellFormed

(* An address set aside for a joining device is below the size that        *)
(* get_new_address leaves, unless it is taken from the extended address.   *)
LEMMA NewAddressBelow ==
    ASSUME NEW l \in Lists, NEW d \in Devices, ~ShortFromExt
    PROVE  NewAddress(l, d) < Grow(l).size + l.initial
<1>1. l.size \in Nat /\ l.initial \in Nat \ {0} /\ l.size =< MaxLbds /\ MaxLbds \in Nat \ {0}
  BY LbdListAssumption DEF Lists
<1>2. CASE l.size < MaxLbds
  <2>1. Grow(l).size = l.size + 1
    BY <1>2 DEF Grow, Lists
  <2>2. NewAddress(l, d) = l.size + l.initial
    BY <1>2 DEF NewAddress
  <2> QED  BY <1>1, <2>1, <2>2
<1>3. CASE ~(l.size < MaxLbds)
  <2>1. Grow(l).size = MaxLbds
    BY <1>1, <1>3 DEF Grow
  <2>2. FreePositions(l) # {} => /\ Min(FreePositions(l)) < MaxLbds
                                 /\ Min(FreePositions(l)) \in Nat
    BY <1>1, FreePositionsMin DEF Positions
  <2>3. NewAddress(l, d) = IF FreePositions(l) = {} THEN 0
                           ELSE Min(FreePositions(l)) + l.initial
    BY <1>3 DEF NewAddress
  <2> QED  BY <1>1, <2>1, <2>2, <2>3
<1> QED  BY <1>2, <1>3

(* add_lbds_list_entry keeps the table well-formed when the address it is  *)
(* given is below the size.                                                *)
LEMMA AddEntryWellFormed ==
    ASSUME NEW l \in Lists, WellFormed(l), NEW d \in Devices, NEW a \in Int,
           a < l.size + l.initial
    PROVE  WellFormed(AddEntry(l, d, a)) /\ AddEntry(l, d, a).size = l.size
           /\ AddEntry(l, d, a).initial = l.initial
<1>1. CASE ~CanAdd(l, d, a)
  BY <1>1 DEF AddEntry
<1>2. CASE CanAdd(l, d, a)
  <2> DEFINE m == AddEntry(l, d, a)
             k == a - l.initial
  <2>1. m = [l EXCEPT !.ext = [@ EXCEPT ![k] = d]]
    BY <1>2 DEF AddEntry
  <2>2. m.size = l.size /\ m.initial = l.initial
    BY <2>1 DEF Lists
  <2>3. \A i \in Cells : m.ext[i] = IF i = k THEN d ELSE l.ext[i]
    BY <2>1 DEF Lists
  <2>4. k < l.size
    BY DEF Lists
  <2>5. \A i \in Cells : l.ext[i] # d
    <3>1. SUFFICES ASSUME NEW i \in Cells, l.ext[i] = d PROVE FALSE
      OBVIOUS
    <3>2. i < l.size
      BY <3>1, LbdListAssumption DEF WellFormed
    <3>3. i \in Positions
      BY <3>2, LbdListAssumption DEF Cells, Positions, Lists
    <3>4. i \in FoundAt(l, d)
      BY <3>1, <3>2, <3>3 DEF FoundAt
    <3> QED  BY <1>2, <3>4 DEF CanAdd
  <2> HIDE DEF m, k
  <2>6. \A i \in Cells : m.ext[i] # NoDevice => i < m.size
    BY <2>2, <2>3, <2>4 DEF WellFormed
  <2>7. \A i, j \in Cells : m.ext[i] = m.ext[j] /\ i # j => m.ext[i] = NoDevice
    BY <2>3, <2>5 DEF WellFormed
  <2>8. WellFormed(m)
    BY <2>6, <2>7 DEF WellFormed
  <2> QED  BY <2>2, <2>8 DEF m
<1> QED  BY <1>1, <1>2
=============================================================================
