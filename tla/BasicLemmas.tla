---------------------------- MODULE BasicLemmas ----------------------------
(* Facts about natural numbers and sequences that the proofs of several    *)
(* components rest on and the library does not state.                      *)
EXTENDS Naturals, SequencesExt, WellFoundedInduction, TLAPS

(* Induction over the naturals in the form that the proofs here use: a set *)
(* of naturals that is not empty has a smallest element.                   *)
LEMMA MinExists ==
    ASSUME NEW T \in SUBSET Nat, T # {}
    PROVE  \E x \in T : \A y \in T : x =< y
<1> DEFINE R == {p \in Nat \X Nat : p[1] < p[2]}
<1>1. OpToRel(<, Nat) = R
  BY DEF OpToRel
<1>2. IsWellFoundedOn(R, Nat)
  BY <1>1, NatLessThanWellFounded
<1>3. PICK x \in T : \A y \in T : ~(<<y, x>> \in R)
  <2> HIDE DEF R
  <2> QED  BY <1>2, WFMin
<1>4. ASSUME NEW y \in T PROVE x =< y
  <2>1. x \in Nat /\ y \in Nat /\ ~(<<y, x>> \in R)
    BY <1>3
  <2>2. y < x => <<y, x>> \in R
    BY <2>1
  <2> QED  BY <2>1, <2>2
<1> QED  BY <1>3, <1>4

-----------------------------------------------------------------------------
(* FlattenSeq: the concatenation of a sequence of sequences *)

(* f[i] is the concatenation of the first i of s: the recursive function   *)
(* in the definition of FlattenSeq.                                        *)
Flat(s, f) ==
    f = [i \in 1 .. Len(s) |-> IF i = 1 THEN s[i] ELSE f[i - 1] \o s[i]]

LEMMA FlatExists ==
    ASSUME NEW V, NEW s \in Seq(Seq(V))
    PROVE  \E f : Flat(s, f)
<1> DEFINE T == {n \in Nat : \E t \in Seq(Seq(V)) : Len(t) = n /\ ~\E f : Flat(t, f)}
<1>1. SUFFICES ASSUME T # {} PROVE FALSE
  OBVIOUS
<1>2. PICK n \in T : \A m \in T : n =< m
  <2>1. T \in SUBSET Nat
    OBVIOUS
  <2> HIDE DEF T
  <2> QED  BY <1>1, <2>1, MinExists
<1>3. PICK t \in Seq(Seq(V)) : Len(t) = n /\ ~\E f : Flat(t, f)
  BY <1>2
<1>4. CASE n = 0
  <2>1. Flat(t, [i \in 1 .. 0 |-> 0])
    BY <1>3, <1>4 DEF Flat
  <2> QED  BY <1>3, <2>1
<1>5. CASE n # 0
  <2> DEFINE u == SubSeq(t, 1, n - 1)
  <2>0. n \in Nat \ {0}
    BY <1>5
  <2>1. u \in Seq(Seq(V)) /\ Len(u) = n - 1 /\ n - 1 \in Nat
        /\ \A i \in 1 .. n - 1 : u[i] = t[i]
    BY <1>3, <1>5
  <2>2. PICK g : Flat(u, g)
    <3>1. n - 1 \notin T
      BY <1>2, <2>1
    <3> QED  BY <2>1, <3>1
  <2> HIDE DEF u, T
  <2> DEFINE h == [i \in 1 .. n |-> IF i = n THEN IF n = 1 THEN t[1] ELSE g[n - 1] \o t[n]
                                    ELSE g[i]]
  <2>3. ASSUME NEW i \in 1 .. n
        PROVE  h[i] = IF i = 1 THEN t[i] ELSE h[i - 1] \o t[i]
    <3>1. g = [k \in 1 .. n - 1 |-> IF k = 1 THEN u[k] ELSE g[k - 1] \o u[k]]
      BY <2>1, <2>2 DEF Flat
    <3>2. CASE i = n
      <4>1. CASE n = 1
        BY <3>2, <4>1
      <4>2. CASE n # 1
        <5>1. n \in 1 .. n /\ n - 1 \in 1 .. n /\ n - 1 # n
          BY <2>0, <4>2
        <5>2. h[n] = g[n - 1] \o t[n] /\ h[n - 1] = g[n - 1]
          BY <4>2, <5>1
        <5> QED  BY <3>2, <4>2, <5>2
      <4> QED  BY <4>1, <4>2
    <3>3. CASE i # n
      <4>1. i \in 1 .. n - 1
        BY <2>0, <3>3
      <4>2. g[i] = IF i = 1 THEN u[i] ELSE g[i - 1] \o u[i]
        BY <3>1, <4>1
      <4>3. h[i] = g[i] /\ u[i] = t[i] /\ (i # 1 => h[i - 1] = g[i - 1])
        <5>1. i # 1 => i - 1 \in 1 .. n /\ i - 1 # n
          BY <2>0, <4>1
        <5> QED  BY <2>1, <3>3, <4>1, <5>1
      <4> HIDE DEF h
      <4> QED  BY <4>2, <4>3
    <3> QED  BY <3>2, <3>3
  <2>4. h = [i \in 1 .. n |-> IF i = 1 THEN t[i] ELSE h[i - 1] \o t[i]]
    <3>1. DOMAIN h = 1 .. n /\ h = [i \in 1 .. n |-> h[i]]
      OBVIOUS
    <3> HIDE DEF h
    <3> QED  BY <2>3, <3>1
  <2> HIDE DEF h
  <2>5. Flat(t, h)
    BY <1>3, <2>4 DEF Flat
  <2> QED  BY <1>3, <2>5
<1> QED  BY <1>4, <1>5

(* What is concatenated of two sequences that begin alike is the same. *)
LEMMA FlatAgree ==
    ASSUME NEW V, NEW s \in Seq(Seq(V)), NEW t \in Seq(Seq(V)), Len(s) =< Len(t),
           \A i \in 1 .. Len(s) : s[i] = t[i],
           NEW f, Flat(s, f), NEW g, Flat(t, g), NEW k \in 1 .. Len(s)
    PROVE  f[k] = g[k]
<1> DEFINE T == {i \in 1 .. Len(s) : f[i] # g[i]}
<1>1. SUFFICES ASSUME T # {} PROVE FALSE
  OBVIOUS
<1>2. PICK n \in T : \A m \in T : n =< m
  <2>1. T \in SUBSET Nat
    OBVIOUS
  <2> HIDE DEF T
  <2> QED  BY <1>1, <2>1, MinExists
<1>3. n \in 1 .. Len(s) /\ n \in 1 .. Len(t) /\ f[n] # g[n] /\ Len(s) \in Nat
  OBVIOUS
<1>4. /\ f[n] = IF n = 1 THEN s[n] ELSE f[n - 1] \o s[n]
      /\ g[n] = IF n = 1 THEN t[n] ELSE g[n - 1] \o t[n]
  BY <1>3 DEF Flat
<1>5. n # 1 => f[n - 1] = g[n - 1]
  <2>1. n # 1 => n - 1 \in 1 .. Len(s) /\ ~(n =< n - 1)
    BY <1>3
  <2>2. n - 1 \notin T \/ n =< n - 1
    BY <1>2
  <2> QED  BY <2>1, <2>2
<1> HIDE DEF T
<1> QED  BY <1>3, <1>4, <1>5

LEMMA FlatType ==
    ASSUME NEW V, NEW s \in Seq(Seq(V)), NEW f, Flat(s, f), NEW k \in 1 .. Len(s)
    PROVE  f[k] \in Seq(V)
<1> DEFINE T == {i \in 1 .. Len(s) : f[i] \notin Seq(V)}
<1>1. SUFFICES ASSUME T # {} PROVE FALSE
  OBVIOUS
<1>2. PICK n \in T : \A m \in T : n =< m
  <2>1. T \in SUBSET Nat
    OBVIOUS
  <2> HIDE DEF T
  <2> QED  BY <1>1, <2>1, MinExists
<1>3. n \in 1 .. Len(s) /\ f[n] \notin Seq(V) /\ s[n] \in Seq(V)
  OBVIOUS
<1>4. f[n] = IF n = 1 THEN s[n] ELSE f[n - 1] \o s[n]
  BY <1>3 DEF Flat
<1>5. n # 1 => f[n - 1] \in Seq(V)
  <2>1. n # 1 => n - 1 \in 1 .. Len(s) /\ ~(n =< n - 1)
    BY <1>3
  <2>2. n - 1 \notin T \/ n =< n - 1
    BY <1>2
  <2> QED  BY <2>1, <2>2
<1> HIDE DEF T
<1> QED  BY <1>3, <1>4, <1>5

-----------------------------------------------------------------------------
LEMMA FlattenIsFlat ==
    ASSUME NEW V, NEW s \in Seq(Seq(V)), s # <<>>
    PROVE  \E f : Flat(s, f) /\ FlattenSeq(s) = f[Len(s)]
<1> DEFINE flatten == CHOOSE f : f = [i \in 1 .. Len(s) |->
                                        IF i = 1 THEN s[i] ELSE f[i - 1] \o s[i]]
<1>1. Flat(s, flatten)
  BY FlatExists DEF Flat
<1>2. Len(s) # 0
  OBVIOUS
<1>3. FlattenSeq(s) = flatten[Len(s)]
  BY <1>2 DEF FlattenSeq
<1> QED  BY <1>1, <1>3

(* The concatenation of sequences over V is one. *)
LEMMA FlattenType ==
    ASSUME NEW V, NEW s \in Seq(Seq(V))
    PROVE  FlattenSeq(s) \in Seq(V)
<1>1. CASE s = <<>>
  BY <1>1 DEF FlattenSeq
<1>2. CASE s # <<>>
  <2>1. PICK f : Flat(s, f) /\ FlattenSeq(s) = f[Len(s)]
    BY <1>2, FlattenIsFlat
  <2>2. Len(s) \in 1 .. Len(s)
    BY <1>2
  <2> QED  BY <2>1, <2>2, FlatType
<1> QED  BY <1>1, <1>2

(* One more sequence goes to the end. *)
LEMMA FlattenAppend ==
    ASSUME NEW V, NEW s \in Seq(Seq(V)), NEW x \in Seq(V)
    PROVE  FlattenSeq(Append(s, x)) = FlattenSeq(s) \o x
<1> DEFINE t == Append(s, x)
           n == Len(s)
<1>1. /\ t \in Seq(Seq(V)) /\ t # <<>> /\ Len(t) = n + 1 /\ n \in Nat
      /\ t[n + 1] = x /\ \A i \in 1 .. n : t[i] = s[i]
  <2>1. n \in Nat
    OBVIOUS
  <2>2. t \in Seq(Seq(V)) /\ Len(t) = n + 1
    OBVIOUS
  <2>3. t[n + 1] = x
    OBVIOUS
  <2>4. \A i \in 1 .. n : t[i] = s[i]
    OBVIOUS
  <2>5. t # <<>>
    <3>1. Len(<<>>) = 0 /\ n + 1 # 0
      BY <2>1
    <3> HIDE DEF t, n
    <3> QED  BY <2>2, <3>1
  <2> QED  BY <2>1, <2>2, <2>3, <2>4, <2>5
<1>2. PICK g : Flat(t, g) /\ FlattenSeq(t) = g[n + 1]
  <2> HIDE DEF t
  <2> QED  BY <1>1, FlattenIsFlat
<1>3. \A k \in 1 .. Len(t) : g[k] = IF k = 1 THEN t[k] ELSE g[k - 1] \o t[k]
  <2> HIDE DEF t, n
  <2> QED  BY <1>2 DEF Flat
<1>4. CASE s = <<>>
  <2>1. FlattenSeq(s) = <<>> /\ n = 0
    BY <1>4 DEF FlattenSeq
  <2>2. g[1] = x
    <3>1. t[1] = x /\ 1 \in 1 .. Len(t)
      BY <1>1, <2>1
    <3> HIDE DEF t, n
    <3> QED  BY <1>3, <3>1
  <2> QED  BY <1>2, <2>1, <2>2
<1>5. CASE s # <<>>
  <2>1. PICK f : Flat(s, f) /\ FlattenSeq(s) = f[n]
    BY <1>5, FlattenIsFlat
  <2>2. n \in 1 .. n /\ n + 1 # 1 /\ n + 1 - 1 = n
    BY <1>1, <1>5
  <2>3. f[n] = g[n]
    <3> HIDE DEF t
    <3>1. Len(s) =< Len(t) /\ \A i \in 1 .. Len(s) : s[i] = t[i]
      BY <1>1
    <3>2. n \in 1 .. Len(s) /\ Flat(t, g) /\ Flat(s, f) /\ t \in Seq(Seq(V))
      BY <1>1, <1>2, <2>1, <2>2
    <3> HIDE DEF n
    <3> QED  BY <3>1, <3>2, FlatAgree
  <2> HIDE DEF t, n
  <2>4. n + 1 \in 1 .. Len(t) /\ t[n + 1] = x
    BY <1>1
  <2>5. g[n + 1] = g[n] \o x
    <3> DEFINE m == n + 1
    <3>1. m \in 1 .. Len(t) /\ t[m] = x /\ m # 1 /\ m - 1 = n
      BY <2>2, <2>4
    <3> HIDE DEF m
    <3>2. g[m] = g[m - 1] \o t[m]
      BY <1>3, <3>1
    <3>3. g[m] = g[n] \o x
      BY <3>1, <3>2
    <3> QED  BY <3>3 DEF m
  <2> QED  BY <1>2, <2>1, <2>3, <2>5 DEF t
<1> QED  BY <1>4, <1>5

-----------------------------------------------------------------------------
(* Where an element of two sequences put together comes from. *)
LEMMA JoinedAt ==
    ASSUME NEW S, NEW p \in Seq(S), NEW q \in Seq(S), NEW i \in DOMAIN (p \o q)
    PROVE  \/ i \in DOMAIN p /\ (p \o q)[i] = p[i]
           \/ i - Len(p) \in DOMAIN q /\ (p \o q)[i] = q[i - Len(p)]
<1>1. /\ Len(p) \in Nat /\ Len(q) \in Nat /\ DOMAIN p = 1 .. Len(p)
      /\ DOMAIN q = 1 .. Len(q) /\ i \in 1 .. Len(p) + Len(q)
  OBVIOUS
<1>2. CASE i =< Len(p)
  BY <1>1, <1>2
<1>3. CASE i > Len(p)
  BY <1>1, <1>3
<1> QED  BY <1>1, <1>2, <1>3
=============================================================================
