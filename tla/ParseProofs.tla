----------------------------- MODULE ParseProofs -----------------------------
(***************************************************************************)
(* What Parse reads, for texts and token streams of every length.  The     *)
(* scan and the token walk are recursive functions of a position.  Each    *)
(* agrees with its reference definition because a first position at which  *)
(* it does not would follow one at which it does.                          *)
(***************************************************************************)
EXTENDS Parse, WellFoundedInduction, FiniteSetTheorems, TLAPS

LEMMA Least ==
  ASSUME NEW T \in SUBSET Nat, T # {}
  PROVE  \E i \in T : \A j \in T : i <= j
<1> DEFINE R == OpToRel(<, Nat)
<1>1. IsWellFoundedOn(R, Nat)
  BY NatLessThanWellFounded
<1>2. ASSUME NEW x \in Nat, NEW y \in Nat, x < y PROVE <<x, y>> \in R
  BY <1>2 DEF OpToRel
<1> HIDE DEF R
<1>3. PICK x \in T : \A y \in T : ~ (<<y, x>> \in R)
  BY <1>1, WFMin
<1>4. ASSUME NEW y \in T PROVE x <= y
  <2>1. x \in Nat /\ y \in Nat
    OBVIOUS
  <2>2. ~ (<<y, x>> \in R)
    BY <1>3
  <2> QED
    BY <2>1, <2>2, <1>2
<1> QED
  BY <1>4

(* The same from the other end. *)
LEMMA Greatest ==
  ASSUME NEW n \in Nat, NEW T \in SUBSET (0..n), T # {}
  PROVE  \E i \in T : \A j \in T : j <= i
<1> DEFINE D == {n - m : m \in T}
<1>1. D \in SUBSET Nat /\ D # {}
  <2>1. \A m \in T : n - m \in Nat
    OBVIOUS
  <2> QED
    BY <2>1
<1>2. PICK i \in D : \A j \in D : i <= j
  BY <1>1, Least
<1>3. PICK m \in T : i = n - m
  BY <1>2
<1>4. ASSUME NEW y \in T PROVE y <= m
  <2>1. n - y \in D /\ m \in 0..n /\ y \in 0..n
    OBVIOUS
  <2>2. n - m <= n - y
    BY <1>2, <1>3, <2>1
  <2> HIDE DEF D
  <2> QED
    BY <2>1, <2>2
<1> QED
  BY <1>3, <1>4

(***************************************************************************)
(* Runs of backslashes.                                                    *)
(***************************************************************************)
LEMMA Characters ==
  /\ Backslash # "end" /\ Backslash # "u" /\ Backslash # "n"
  /\ "u" # "n" /\ "end" \notin Hex4 /\ "end" # "u" /\ "end" # "n"
  /\ Hex4 = {"H", "L", "B"} /\ "H" # "L" /\ "B" # "H" /\ "B" # "L"
BY DEF Backslash, Hex4

LEMMA InText ==
  ASSUME NEW T, NEW text \in Seq(T), NEW i \in Int
  PROVE  /\ i \in 1..Len(text) => CharAt(text, i) = text[i]
         /\ i \notin 1..Len(text) => CharAt(text, i) = "end"
BY DEF CharAt

IsRunEnd(text, i, j) ==
  CharAt(text, j) # Backslash /\ \A k \in i..(j - 1) : text[k] = Backslash

LEMMA RunEnds ==
  ASSUME NEW T, NEW text \in Seq(T), NEW i \in 1..(Len(text) + 1)
  PROVE  /\ RunEnd(text, i) \in i..(Len(text) + 1)
         /\ IsRunEnd(text, i, RunEnd(text, i))
<1> DEFINE n == Len(text)
           ends == {j \in i..(n + 1) : CharAt(text, j) # Backslash}
<1>1. ends \in SUBSET Nat /\ n + 1 \in ends /\ n \in Nat
  BY InText, Characters
<1>2. PICK j \in ends : \A m \in ends : j <= m
  <2> HIDE DEF ends
  <2> QED
    BY <1>1, Least
<1>3. ASSUME NEW k \in i..(j - 1) PROVE text[k] = Backslash
  <2>1. k \in i..(n + 1) /\ k \in 1..n /\ k \notin ends
    BY <1>2
  <2> QED
    BY <2>1, InText
<1>4. \E m \in i..(n + 1) : IsRunEnd(text, i, m)
  BY <1>2, <1>3 DEF IsRunEnd
<1>5. RunEnd(text, i) = CHOOSE m \in i..(n + 1) : IsRunEnd(text, i, m)
  BY DEF RunEnd, IsRunEnd
<1> QED
  BY <1>4, <1>5

LEMMA RunEndIs ==
  ASSUME NEW T, NEW text \in Seq(T), NEW i \in 1..(Len(text) + 1),
         NEW j \in i..(Len(text) + 1), IsRunEnd(text, i, j)
  PROVE  RunEnd(text, i) = j
<1> DEFINE m == RunEnd(text, i)
<1>1. m \in i..(Len(text) + 1) /\ IsRunEnd(text, i, m)
  BY RunEnds
<1> HIDE DEF m
<1>2. ~(m < j)
  <2> SUFFICES ASSUME m < j PROVE FALSE
    OBVIOUS
  <2>1. m \in i..(j - 1) /\ m \in 1..Len(text)
    BY <1>1
  <2> QED
    BY <1>1, <2>1, InText DEF IsRunEnd
<1>3. ~(j < m)
  <2> SUFFICES ASSUME j < m PROVE FALSE
    OBVIOUS
  <2>1. j \in i..(m - 1) /\ j \in 1..Len(text)
    BY <1>1
  <2> QED
    BY <1>1, <2>1, InText DEF IsRunEnd
<1> QED
  BY <1>1, <1>2, <1>3 DEF m

LEMMA RunIsLonger ==
  ASSUME NEW T, NEW text \in Seq(T), NEW i \in 1..Len(text), text[i] = Backslash
  PROVE  /\ RunEnd(text, i) \in (i + 1)..(Len(text) + 1)
         /\ RunEnd(text, i) = RunEnd(text, i + 1)
<1> DEFINE j == RunEnd(text, i + 1)
<1>1. i + 1 \in 1..(Len(text) + 1) /\ i \in 1..(Len(text) + 1)
  OBVIOUS
<1>2. j \in (i + 1)..(Len(text) + 1) /\ IsRunEnd(text, i + 1, j)
  BY <1>1, RunEnds
<1> HIDE DEF j
<1>3. j \in i..(Len(text) + 1) /\ IsRunEnd(text, i, j)
  <2>1. \A k \in i..(j - 1) : k = i \/ k \in (i + 1)..(j - 1)
    OBVIOUS
  <2> QED
    BY <1>2, <2>1 DEF IsRunEnd
<1>4. RunEnd(text, i) = j
  BY <1>1, <1>3, RunEndIs
<1> QED
  BY <1>2, <1>4 DEF j

(***************************************************************************)
(* The scan, as the function it is.                                        *)
(***************************************************************************)
IsScan(f, text, from) ==
  f = [i \in from..(Len(text) + 1) |-> ScanFrom(text, f, i)]

LEMMA ScanLocal ==
  ASSUME NEW T, NEW text \in Seq(T), NEW i \in 1..(Len(text) + 1), NEW f, NEW g,
         \A k \in (i + 1)..(Len(text) + 1) : f[k] = g[k]
  PROVE  ScanFrom(text, f, i) = ScanFrom(text, g, i)
<1> DEFINE n == Len(text)
           j == RunEnd(text, i)
<1>1. CASE i > n
  BY <1>1 DEF ScanFrom
<1>2. CASE i <= n /\ text[i] # Backslash
  <2>1. i + 1 \in (i + 1)..(n + 1)
    BY <1>2
  <2> QED
    BY <1>2, <2>1 DEF ScanFrom
<1>3. CASE i <= n /\ text[i] = Backslash
  <2>1. j \in (i + 1)..(n + 1)
    BY <1>3, RunIsLonger
  <2>2. CharAt(text, j) = "u" => j + 1 \in (i + 1)..(n + 1)
    BY <2>1, InText, Characters
  <2>3. CharAt(text, j + 1) \in Hex4 => j + 2 \in (i + 1)..(n + 1)
    BY <2>1, InText, Characters
  <2>4. LowEscapeAt(text, j + 2) => j + 5 \in (i + 1)..(n + 1)
    <3>1. LowEscapeAt(text, j + 2) => CharAt(text, j + 4) = "L"
      BY <2>1 DEF LowEscapeAt
    <3> QED
      BY <2>1, <3>1, InText, Characters
  <2> HIDE DEF j
  <2>5. /\ f[j] = g[j]
        /\ CharAt(text, j) = "u" => f[j + 1] = g[j + 1]
        /\ CharAt(text, j + 1) \in Hex4 => f[j + 2] = g[j + 2]
        /\ LowEscapeAt(text, j + 2) => f[j + 5] = g[j + 5]
    BY <2>1, <2>2, <2>3, <2>4
  <2> QED
    BY <1>3, <2>5, Zenon DEF ScanFrom, j
<1> QED
  BY <1>1, <1>2, <1>3

LEMMA ScanExists ==
  ASSUME NEW T, NEW text \in Seq(T)
  PROVE  \E f : IsScan(f, text, 1)
<1> DEFINE n == Len(text)
           none == {i \in 1..(n + 1) : ~ \E f : IsScan(f, text, i)}
<1>0. n \in Nat
  OBVIOUS
<1>1. CASE none # {}
  <2>1. none \in SUBSET (0..(n + 1)) /\ n + 1 \in Nat
    OBVIOUS
  <2>2. PICK i \in none : \A j \in none : j <= i
    <3> HIDE DEF none
    <3> QED
      BY <1>1, <2>1, Greatest
  <2>3. CASE i = n + 1
    <3> DEFINE f == [k \in i..(n + 1) |-> TRUE]
    <3>1. ASSUME NEW k \in i..(n + 1) PROVE ScanFrom(text, f, k) = TRUE
      <4>1. k > Len(text)
        BY <2>3
      <4> HIDE DEF f
      <4> QED
        BY <4>1 DEF ScanFrom
    <3>2. f = [k \in i..(n + 1) |-> ScanFrom(text, f, k)]
      BY <3>1
    <3> QED
      BY <2>2, <3>2 DEF IsScan
  <2>4. CASE i # n + 1
    <3>1. i + 1 \in 1..(n + 1) /\ i + 1 \notin none /\ i \in 1..(n + 1)
      BY <2>2, <2>4
    <3>2. PICK f : IsScan(f, text, i + 1)
      BY <3>1
    <3>3. f = [k \in (i + 1)..(n + 1) |-> ScanFrom(text, f, k)]
      BY <3>2 DEF IsScan
    <3> DEFINE g == [k \in i..(n + 1) |-> IF k = i THEN ScanFrom(text, f, i) ELSE f[k]]
    <3>4. \A k \in (i + 1)..(n + 1) : f[k] = g[k]
      BY <3>1
    <3>5. ASSUME NEW k \in i..(n + 1) PROVE g[k] = ScanFrom(text, g, k)
      <4>1. k \in 1..(n + 1) /\ \A m \in (k + 1)..(n + 1) : m \in (i + 1)..(n + 1)
        BY <3>1
      <4>2. \A m \in (k + 1)..(n + 1) : f[m] = g[m]
        BY <3>4, <4>1
      <4>3. ScanFrom(text, f, k) = ScanFrom(text, g, k)
        <5> HIDE DEF g
        <5> QED
          BY <4>1, <4>2, ScanLocal
      <4>4. g[k] = ScanFrom(text, f, k)
        <5>1. CASE k = i
          BY <5>1
        <5>2. CASE k # i
          <6>1. k \in (i + 1)..(n + 1)
            BY <5>2, <3>1
          <6> QED
            BY <6>1, <3>3, <5>2
        <5> QED
          BY <5>1, <5>2
      <4> QED
        BY <4>3, <4>4
    <3>6. g = [k \in i..(n + 1) |-> g[k]]
      OBVIOUS
    <3> HIDE DEF g
    <3>7. IsScan(g, text, i)
      BY <3>5, <3>6 DEF IsScan
    <3> QED
      BY <2>2, <3>7
  <2> QED
    BY <2>3, <2>4
<1>2. CASE none = {}
  <2>1. 1 \in 1..(n + 1)
    OBVIOUS
  <2> QED
    BY <1>2, <2>1
<1> QED
  BY <1>1, <1>2

LEMMA ScanIsScan ==
  ASSUME NEW T, NEW text \in Seq(T)
  PROVE  \E f : /\ ScanAccepts(text) = f[1]
                /\ \A i \in 1..(Len(text) + 1) : f[i] = ScanFrom(text, f, i)
<1> DEFINE f == CHOOSE g : IsScan(g, text, 1)
<1>1. ScanAccepts(text) = f[1]
  BY DEF ScanAccepts, IsScan
<1>2. IsScan(f, text, 1)
  BY ScanExists
<1> HIDE DEF f
<1> QED
  BY <1>1, <1>2 DEF IsScan

(***************************************************************************)
(* The units, as the function they are.                                    *)
(***************************************************************************)
AnyUnit == Hex4 \cup {"char", "malformed"}

IsUnits(f, text, from) ==
  f = [i \in from..(Len(text) + 1) |-> UnitsFrom(text, f, i)]

LEMMA UnitsLocal ==
  ASSUME NEW T, NEW text \in Seq(T), NEW i \in 1..(Len(text) + 1), NEW f, NEW g,
         \A k \in (i + 1)..(Len(text) + 1) : f[k] = g[k]
  PROVE  UnitsFrom(text, f, i) = UnitsFrom(text, g, i)
<1> DEFINE n == Len(text)
<1>1. CASE i > n
  BY <1>1 DEF UnitsFrom
<1>2. CASE i <= n
  <2>1. i + 1 \in (i + 1)..(n + 1)
    BY <1>2
  <2>2. CharAt(text, i + 1) \in {"n", Backslash} => i + 2 \in (i + 1)..(n + 1)
    BY <1>2, InText, Characters
  <2>3. CharAt(text, i + 2) \in Hex4 => i + 3 \in (i + 1)..(n + 1)
    BY <1>2, InText, Characters
  <2>4. /\ f[i + 1] = g[i + 1]
        /\ CharAt(text, i + 1) \in {"n", Backslash} => f[i + 2] = g[i + 2]
        /\ CharAt(text, i + 2) \in Hex4 => f[i + 3] = g[i + 3]
    BY <2>1, <2>2, <2>3
  <2> QED
    BY <1>2, <2>4, Zenon DEF UnitsFrom
<1> QED
  BY <1>1, <1>2

LEMMA UnitsExist ==
  ASSUME NEW T, NEW text \in Seq(T)
  PROVE  \E f : IsUnits(f, text, 1)
<1> DEFINE n == Len(text)
           none == {i \in 1..(n + 1) : ~ \E f : IsUnits(f, text, i)}
<1>0. n \in Nat
  OBVIOUS
<1>1. CASE none # {}
  <2>1. none \in SUBSET (0..(n + 1)) /\ n + 1 \in Nat
    OBVIOUS
  <2>2. PICK i \in none : \A j \in none : j <= i
    <3> HIDE DEF none
    <3> QED
      BY <1>1, <2>1, Greatest
  <2>3. CASE i = n + 1
    <3> DEFINE f == [k \in i..(n + 1) |-> <<>>]
    <3>1. ASSUME NEW k \in i..(n + 1) PROVE UnitsFrom(text, f, k) = <<>>
      <4>1. k > Len(text)
        BY <2>3
      <4> HIDE DEF f
      <4> QED
        BY <4>1 DEF UnitsFrom
    <3>2. f = [k \in i..(n + 1) |-> UnitsFrom(text, f, k)]
      BY <3>1
    <3> QED
      BY <2>2, <3>2 DEF IsUnits
  <2>4. CASE i # n + 1
    <3>1. i + 1 \in 1..(n + 1) /\ i + 1 \notin none /\ i \in 1..(n + 1)
      BY <2>2, <2>4
    <3>2. PICK f : IsUnits(f, text, i + 1)
      BY <3>1
    <3>3. f = [k \in (i + 1)..(n + 1) |-> UnitsFrom(text, f, k)]
      BY <3>2 DEF IsUnits
    <3> DEFINE g == [k \in i..(n + 1) |-> IF k = i THEN UnitsFrom(text, f, i) ELSE f[k]]
    <3>4. \A k \in (i + 1)..(n + 1) : f[k] = g[k]
      BY <3>1
    <3>5. ASSUME NEW k \in i..(n + 1) PROVE g[k] = UnitsFrom(text, g, k)
      <4>1. k \in 1..(n + 1) /\ \A m \in (k + 1)..(n + 1) : m \in (i + 1)..(n + 1)
        BY <3>1
      <4>2. \A m \in (k + 1)..(n + 1) : f[m] = g[m]
        BY <3>4, <4>1
      <4>3. UnitsFrom(text, f, k) = UnitsFrom(text, g, k)
        <5> HIDE DEF g
        <5> QED
          BY <4>1, <4>2, UnitsLocal
      <4>4. g[k] = UnitsFrom(text, f, k)
        <5>1. CASE k = i
          BY <5>1
        <5>2. CASE k # i
          <6>1. k \in (i + 1)..(n + 1)
            BY <5>2, <3>1
          <6> QED
            BY <6>1, <3>3, <5>2
        <5> QED
          BY <5>1, <5>2
      <4> QED
        BY <4>3, <4>4
    <3>6. g = [k \in i..(n + 1) |-> g[k]]
      OBVIOUS
    <3> HIDE DEF g
    <3>7. IsUnits(g, text, i)
      BY <3>5, <3>6 DEF IsUnits
    <3> QED
      BY <2>2, <3>7
  <2> QED
    BY <2>3, <2>4
<1>2. CASE none = {}
  <2>1. 1 \in 1..(n + 1)
    OBVIOUS
  <2> QED
    BY <1>2, <2>1
<1> QED
  BY <1>1, <1>2

LEMMA UnitsAreUnits ==
  ASSUME NEW T, NEW text \in Seq(T)
  PROVE  \E f : /\ Units(text) = f[1]
                /\ \A i \in 1..(Len(text) + 1) : f[i] = UnitsFrom(text, f, i)
<1> DEFINE f == CHOOSE g : IsUnits(g, text, 1)
<1>1. Units(text) = f[1]
  BY DEF Units, IsUnits
<1>2. IsUnits(f, text, 1)
  BY UnitsExist
<1> HIDE DEF f
<1> QED
  BY <1>1, <1>2 DEF IsUnits

(* One unit at a time, from the end. *)
LEMMA UnitsTyped ==
  ASSUME NEW T, NEW text \in Seq(T), NEW f,
         \A i \in 1..(Len(text) + 1) : f[i] = UnitsFrom(text, f, i)
  PROVE  \A i \in 1..(Len(text) + 1) : f[i] \in Seq(AnyUnit)
<1> DEFINE n == Len(text)
           odd == {i \in 1..(n + 1) : f[i] \notin Seq(AnyUnit)}
<1>1. CASE odd # {}
  <2>1. odd \in SUBSET (0..(n + 1)) /\ n + 1 \in Nat
    OBVIOUS
  <2>2. PICK i \in odd : \A j \in odd : j <= i
    <3> HIDE DEF odd
    <3> QED
      BY <1>1, <2>1, Greatest
  <2>3. f[i] = UnitsFrom(text, f, i) /\ i \in 1..(n + 1) /\ f[i] \notin Seq(AnyUnit)
    BY <2>2
  <2>4. /\ i <= n => f[i + 1] \in Seq(AnyUnit)
        /\ i + 1 <= n => f[i + 2] \in Seq(AnyUnit)
        /\ i + 2 <= n => f[i + 3] \in Seq(AnyUnit)
    BY <2>2
  <2>5. CharAt(text, i + 1) \in {"n", Backslash} => i + 1 <= n
    BY <2>3, InText, Characters
  <2>6. CharAt(text, i + 2) \in Hex4 => i + 2 <= n /\ text[i + 2] \in Hex4
    BY <2>3, InText, Characters
  <2>7. \A x \in AnyUnit, u \in Seq(AnyUnit) : <<x>> \in Seq(AnyUnit) /\ <<x>> \o u \in Seq(AnyUnit)
    OBVIOUS
  <2>8. <<>> \in Seq(AnyUnit) /\ Hex4 \subseteq AnyUnit /\ {"char", "malformed"} \subseteq AnyUnit
    BY DEF AnyUnit
  <2> HIDE DEF odd
  <2> QED
    BY <2>3, <2>4, <2>5, <2>6, <2>7, <2>8 DEF UnitsFrom
<1>2. CASE odd = {}
  BY <1>2
<1> QED
  BY <1>1, <1>2

LEMMA OneMore ==
  ASSUME NEW x \in AnyUnit, NEW u \in Seq(AnyUnit)
  PROVE  /\ Len(<<x>> \o u) = Len(u) + 1 /\ (<<x>> \o u)[1] = x
         /\ DOMAIN (<<x>> \o u) = 1..(Len(u) + 1) /\ DOMAIN u = 1..Len(u)
         /\ \A i \in 1..Len(u) : (<<x>> \o u)[i + 1] = u[i]
OBVIOUS

LEMMA MalformedMore ==
  ASSUME NEW x \in AnyUnit, NEW u \in Seq(AnyUnit)
  PROVE  "malformed" \in ToSet(<<x>> \o u) <=> x = "malformed" \/ "malformed" \in ToSet(u)
<1> DEFINE v == <<x>> \o u
<1>1. /\ v[1] = x /\ DOMAIN v = 1..(Len(u) + 1) /\ DOMAIN u = 1..Len(u) /\ Len(u) \in Nat
      /\ \A i \in 1..Len(u) : v[i + 1] = u[i]
  BY OneMore
<1> HIDE DEF v
<1>2. \A i \in 2..(Len(u) + 1) : i - 1 \in 1..Len(u) /\ v[i] = u[i - 1]
  <2>1. \A i \in 2..(Len(u) + 1) : i - 1 \in 1..Len(u) /\ (i - 1) + 1 = i
    BY <1>1
  <2> QED
    BY <1>1, <2>1
<1>3. ToSet(v) = {v[i] : i \in 1..(Len(u) + 1)} /\ ToSet(u) = {u[i] : i \in 1..Len(u)}
  BY <1>1 DEF ToSet
<1>4. "malformed" \in ToSet(v) => x = "malformed" \/ "malformed" \in ToSet(u)
  <2> SUFFICES ASSUME NEW i \in 1..(Len(u) + 1), v[i] = "malformed"
               PROVE  x = "malformed" \/ "malformed" \in ToSet(u)
    BY <1>3
  <2>1. i = 1 \/ i \in 2..(Len(u) + 1)
    BY <1>1
  <2> QED
    BY <1>1, <1>2, <1>3, <2>1
<1>5. x = "malformed" => "malformed" \in ToSet(v)
  <2>1. 1 \in 1..(Len(u) + 1)
    BY <1>1
  <2> QED
    BY <1>1, <1>3, <2>1
<1>6. "malformed" \in ToSet(u) => "malformed" \in ToSet(v)
  <2> SUFFICES ASSUME NEW i \in 1..Len(u), u[i] = "malformed"
               PROVE  "malformed" \in ToSet(v)
    BY <1>3
  <2>1. i + 1 \in 1..(Len(u) + 1) /\ v[i + 1] = "malformed"
    BY <1>1
  <2> QED
    BY <1>3, <2>1
<1> QED
  BY <1>4, <1>5, <1>6 DEF v

(* What a unit at the front needs of what follows it. *)
LEMMA PairedMore ==
  ASSUME NEW x \in AnyUnit, NEW u \in Seq(AnyUnit)
  PROVE  /\ x \notin {"H", "L"} => (Paired(<<x>> \o u) <=> Paired(u))
         /\ x = "L" => ~Paired(<<x>> \o u)
         /\ x = "H" /\ Paired(<<x>> \o u) => Len(u) > 0 /\ u[1] = "L"
<1> DEFINE v == <<x>> \o u
<1>1. /\ v[1] = x /\ DOMAIN v = 1..(Len(u) + 1) /\ DOMAIN u = 1..Len(u) /\ Len(u) \in Nat
      /\ Len(v) = Len(u) + 1 /\ \A i \in 1..Len(u) : v[i + 1] = u[i]
  BY OneMore
<1> HIDE DEF v
<1>2. \A i \in 2..(Len(u) + 1) : i - 1 \in 1..Len(u) /\ v[i] = u[i - 1]
  <2>1. \A i \in 2..(Len(u) + 1) : i - 1 \in 1..Len(u) /\ (i - 1) + 1 = i
    BY <1>1
  <2> QED
    BY <1>1, <2>1
<1>3. 1 \in DOMAIN v /\ \A i \in DOMAIN v : i = 1 \/ i \in 2..(Len(u) + 1)
  BY <1>1
<1>4. x = "L" => ~Paired(v)
  <2> SUFFICES ASSUME x = "L", Paired(v) PROVE FALSE
    OBVIOUS
  <2>1. v[1] = "L" => 1 > 1
    BY <1>3, Zenon DEF Paired
  <2> QED
    BY <1>1, <2>1
<1>5. x = "H" /\ Paired(v) => Len(u) > 0 /\ u[1] = "L"
  <2> SUFFICES ASSUME x = "H", Paired(v) PROVE Len(u) > 0 /\ u[1] = "L"
    OBVIOUS
  <2>1. 1 < Len(v) /\ v[1 + 1] = "L"
    BY <1>1, <1>3 DEF Paired
  <2>2. 1 \in 1..Len(u)
    BY <1>1, <2>1
  <2> QED
    BY <1>1, <2>1, <2>2
<1>6. ASSUME x \notin {"H", "L"}, Paired(v) PROVE Paired(u)
  <2> SUFFICES ASSUME NEW i \in 1..Len(u)
               PROVE  /\ u[i] = "H" => i < Len(u) /\ u[i + 1] = "L"
                      /\ u[i] = "L" => i > 1 /\ u[i - 1] = "H"
    BY <1>1 DEF Paired
  <2>1. i + 1 \in DOMAIN v /\ v[i + 1] = u[i] /\ (i + 1) - 1 = i
    BY <1>1
  <2>2. /\ v[i + 1] = "H" => i + 1 < Len(v) /\ v[(i + 1) + 1] = "L"
        /\ v[i + 1] = "L" => v[i] = "H"
    BY <1>6, <2>1 DEF Paired
  <2>3. i < Len(u) => i + 1 \in 1..Len(u) /\ v[(i + 1) + 1] = u[i + 1]
    BY <1>1
  <2>4. i > 1 => i \in 2..(Len(u) + 1) /\ v[i] = u[i - 1]
    BY <1>1, <1>2
  <2>5. i = 1 => v[i] # "H"
    BY <1>1, <1>6
  <2> QED
    BY <1>1, <2>1, <2>2, <2>3, <2>4, <2>5
<1>7. ASSUME x \notin {"H", "L"}, Paired(u) PROVE Paired(v)
  <2> SUFFICES ASSUME NEW i \in DOMAIN v
               PROVE  /\ v[i] = "H" => i < Len(v) /\ v[i + 1] = "L"
                      /\ v[i] = "L" => i > 1 /\ v[i - 1] = "H"
    BY DEF Paired
  <2>1. CASE i = 1
    BY <1>1, <1>7, <2>1
  <2>2. CASE i # 1
    <3>1. i \in 2..(Len(u) + 1) /\ i \in Nat /\ i > 1
      BY <1>3, <2>2
    <3>2. i - 1 \in DOMAIN u /\ v[i] = u[i - 1] /\ (i - 1) + 1 = i
      BY <1>1, <1>2, <3>1
    <3>3. /\ u[i - 1] = "H" => i - 1 < Len(u) /\ u[i] = "L"
          /\ u[i - 1] = "L" => i - 1 > 1 /\ u[(i - 1) - 1] = "H"
      BY <1>7, <3>2 DEF Paired
    <3>4. i - 1 < Len(u) => v[i + 1] = u[i] /\ i < Len(v)
      BY <1>1, <3>1
    <3>5. i - 1 > 1 => v[i - 1] = u[(i - 1) - 1]
      BY <1>2, <3>1
    <3> QED
      BY <3>1, <3>2, <3>3, <3>4, <3>5
  <2> QED
    BY <2>1, <2>2
<1> QED
  BY <1>4, <1>5, <1>6, <1>7 DEF v

LEMMA PairedPair ==
  ASSUME NEW u \in Seq(AnyUnit)
  PROVE  Paired(<<"H">> \o (<<"L">> \o u)) <=> Paired(u)
<1> DEFINE v == <<"H">> \o (<<"L">> \o u)
<1>1. /\ v[1] = "H" /\ v[2] = "L" /\ DOMAIN v = 1..(Len(u) + 2) /\ DOMAIN u = 1..Len(u)
      /\ Len(u) \in Nat /\ Len(v) = Len(u) + 2 /\ \A i \in 1..Len(u) : v[i + 2] = u[i]
  OBVIOUS
<1> HIDE DEF v
<1>2. \A i \in 3..(Len(u) + 2) : i - 2 \in 1..Len(u) /\ v[i] = u[i - 2]
  <2>1. \A i \in 3..(Len(u) + 2) : i - 2 \in 1..Len(u) /\ (i - 2) + 2 = i
    BY <1>1
  <2> QED
    BY <1>1, <2>1
<1>3. ASSUME Paired(v) PROVE Paired(u)
  <2> SUFFICES ASSUME NEW i \in 1..Len(u)
               PROVE  /\ u[i] = "H" => i < Len(u) /\ u[i + 1] = "L"
                      /\ u[i] = "L" => i > 1 /\ u[i - 1] = "H"
    BY <1>1 DEF Paired
  <2>1. i + 2 \in DOMAIN v /\ v[i + 2] = u[i] /\ (i + 2) - 1 = i + 1
    BY <1>1
  <2>2. /\ v[i + 2] = "H" => i + 2 < Len(v) /\ v[(i + 2) + 1] = "L"
        /\ v[i + 2] = "L" => v[i + 1] = "H"
    BY <1>3, <2>1 DEF Paired
  <2>3. i < Len(u) => i + 1 \in 1..Len(u) /\ v[(i + 2) + 1] = u[i + 1]
    <3> SUFFICES ASSUME i < Len(u) PROVE i + 1 \in 1..Len(u) /\ v[(i + 2) + 1] = u[i + 1]
      OBVIOUS
    <3>1. i + 1 \in 1..Len(u) /\ (i + 1) + 2 = (i + 2) + 1
      BY <1>1
    <3> QED
      BY <1>1, <3>1
  <2>4. i > 1 => i + 1 \in 3..(Len(u) + 2) /\ v[i + 1] = u[i - 1]
    <3> SUFFICES ASSUME i > 1 PROVE i + 1 \in 3..(Len(u) + 2) /\ v[i + 1] = u[i - 1]
      OBVIOUS
    <3>1. i + 1 \in 3..(Len(u) + 2) /\ (i + 1) - 2 = i - 1
      BY <1>1
    <3> QED
      BY <1>2, <3>1
  <2>5. i = 1 => v[i + 1] # "H"
    BY <1>1
  <2> QED
    BY <1>1, <2>1, <2>2, <2>3, <2>4, <2>5
<1>4. ASSUME Paired(u) PROVE Paired(v)
  <2> SUFFICES ASSUME NEW i \in DOMAIN v
               PROVE  /\ v[i] = "H" => i < Len(v) /\ v[i + 1] = "L"
                      /\ v[i] = "L" => i > 1 /\ v[i - 1] = "H"
    BY DEF Paired
  <2>1. CASE i = 1
    <3>1. v[i + 1] = "L" /\ i < Len(v) /\ v[i] = "H"
      BY <1>1, <2>1
    <3> QED
      BY <3>1
  <2>5. CASE i = 2
    <3>1. v[i - 1] = "H" /\ i > 1 /\ v[i] = "L"
      BY <1>1, <2>5
    <3> QED
      BY <3>1
  <2>2. CASE i # 1 /\ i # 2
    <3>1. i \in 3..(Len(u) + 2) /\ i \in Nat /\ i > 1
      BY <1>1, <2>2
    <3>2. i - 2 \in DOMAIN u /\ v[i] = u[i - 2] /\ (i - 2) + 1 = i - 1 /\ (i - 2) - 1 = i - 3
      BY <1>1, <1>2, <3>1
    <3>3. /\ u[i - 2] = "H" => i - 2 < Len(u) /\ u[i - 1] = "L"
          /\ u[i - 2] = "L" => i - 2 > 1 /\ u[i - 3] = "H"
      BY <1>4, <3>2 DEF Paired
    <3>4. i - 2 < Len(u) => v[i + 1] = u[i - 1] /\ i < Len(v)
      <4> SUFFICES ASSUME i - 2 < Len(u) PROVE v[i + 1] = u[i - 1] /\ i < Len(v)
        OBVIOUS
      <4>1. i - 1 \in 1..Len(u) /\ (i - 1) + 2 = i + 1
        BY <1>1, <3>1
      <4> QED
        BY <1>1, <3>1, <4>1
    <3>5. i - 2 > 1 => v[i - 1] = u[i - 3]
      <4> SUFFICES ASSUME i - 2 > 1 PROVE v[i - 1] = u[i - 3]
        OBVIOUS
      <4>1. i - 1 \in 3..(Len(u) + 2) /\ (i - 1) - 2 = i - 3
        BY <3>1
      <4> QED
        BY <1>2, <4>1
    <3> QED
      BY <3>1, <3>2, <3>3, <3>4, <3>5
  <2> QED
    BY <2>1, <2>2, <2>5
<1> QED
  BY <1>3, <1>4 DEF v

(***************************************************************************)
(* The scan and the decoder take the same steps, from every position.      *)
(***************************************************************************)
LEMMA ScanSkips ==
  ASSUME NEW text, NEW f, NEW i, ~(i > Len(text))
  PROVE  /\ text[i] # Backslash => ScanFrom(text, f, i) = f[i + 1]
         /\ text[i] = Backslash /\ (~Introduces(i, RunEnd(text, i)) \/ CharAt(text, RunEnd(text, i)) # "u")
              => ScanFrom(text, f, i) = f[RunEnd(text, i)]
BY Zenon DEF ScanFrom

LEMMA ScanOfSameRun ==
  ASSUME NEW text, NEW f, NEW i, NEW k, ~(i > Len(text)), ~(k > Len(text)),
         text[i] = Backslash, text[k] = Backslash, RunEnd(text, i) = RunEnd(text, k),
         Introduces(i, RunEnd(text, i)) <=> Introduces(k, RunEnd(text, k))
  PROVE  ScanFrom(text, f, i) = ScanFrom(text, f, k)
<1> DEFINE j == RunEnd(text, i)
<1>1. CASE Introduces(i, j)
  <2>1. Introduces(k, j)
    BY <1>1
  <2> QED
    BY <1>1, <2>1, Zenon DEF ScanFrom
<1>2. CASE ~Introduces(i, j)
  BY <1>2, ScanSkips
<1> QED
  BY <1>1, <1>2

LEMMA NothingIsPaired == Paired(<<>>)
<1>1. DOMAIN <<>> = {}
  OBVIOUS
<1> QED
  BY <1>1 DEF Paired

WellScanned(scan, units, i) ==
  "malformed" \notin ToSet(units[i]) => (scan[i] = TRUE <=> Paired(units[i]))

LEMMA ScanAgrees ==
  ASSUME NEW T, NEW text \in Seq(T), NEW scan, NEW units,
         \A i \in 1..(Len(text) + 1) : scan[i] = ScanFrom(text, scan, i),
         \A i \in 1..(Len(text) + 1) : units[i] = UnitsFrom(text, units, i),
         NEW i \in 1..(Len(text) + 1),
         \A k \in (i + 1)..(Len(text) + 1) : WellScanned(scan, units, k)
  PROVE  WellScanned(scan, units, i)
<1> DEFINE n == Len(text)
           j == RunEnd(text, i)
           unit == CharAt(text, i + 2)
<1> SUFFICES ASSUME "malformed" \notin ToSet(units[i])
             PROVE  scan[i] = TRUE <=> Paired(units[i])
  BY DEF WellScanned
<1>1. scan[i] = ScanFrom(text, scan, i) /\ units[i] = UnitsFrom(text, units, i)
  OBVIOUS
<1>2. \A k \in 1..(n + 1) : units[k] \in Seq(AnyUnit)
  BY UnitsTyped
<1>3. AnyUnit = {"H", "L", "B", "char", "malformed"}
  BY Characters DEF AnyUnit
<1>4. CASE i > n
  <2>1. scan[i] = TRUE /\ units[i] = <<>>
    BY <1>1, <1>4 DEF ScanFrom, UnitsFrom
  <2> QED
    BY <2>1, NothingIsPaired, Zenon
<1>5. CASE i <= n /\ text[i] # Backslash
  <2>1. scan[i] = scan[i + 1] /\ units[i] = <<"char">> \o units[i + 1]
    <3>1. ~(i > Len(text)) /\ text[i] # Backslash
      BY <1>5
    <3>2. scan[i] = scan[i + 1]
      BY <1>1, <3>1, ScanSkips, Zenon
    <3> QED
      BY <1>1, <3>1, <3>2, Zenon DEF UnitsFrom
  <2>2. i + 1 \in (i + 1)..(n + 1) /\ units[i + 1] \in Seq(AnyUnit) /\ "char" \in AnyUnit
    BY <1>2, <1>3, <1>5
  <2>3. "malformed" \notin ToSet(units[i + 1]) /\ (Paired(units[i]) <=> Paired(units[i + 1]))
    BY <2>1, <2>2, MalformedMore, PairedMore
  <2> QED
    BY <2>1, <2>2, <2>3 DEF WellScanned
<1>6. CASE i <= n /\ text[i] = Backslash /\ CharAt(text, i + 1) = Backslash
  <2>1. i + 1 \in 1..n /\ text[i + 1] = Backslash
    BY <1>6, InText, Characters
  <2>2. /\ j = RunEnd(text, i + 2) /\ j \in (i + 1)..(n + 1)
        /\ i + 2 \in (i + 1)..(n + 1) /\ i + 2 \in 1..(n + 1)
    <3>1. j = RunEnd(text, i + 1) /\ RunEnd(text, i + 1) = RunEnd(text, (i + 1) + 1)
      BY <1>6, <2>1, RunIsLonger
    <3>2. j \in (i + 1)..(n + 1) /\ (i + 1) + 1 = i + 2
      BY <1>6, RunIsLonger
    <3> QED
      BY <2>1, <3>1, <3>2
  <2>3. scan[i] = scan[i + 2]
    <3>1. scan[i + 2] = ScanFrom(text, scan, i + 2)
      BY <2>2
    <3>2. Introduces(i, j) <=> Introduces(i + 2, j)
      BY <2>2 DEF Introduces
    <3>3. CASE i + 2 <= n /\ text[i + 2] = Backslash
      <4>1. ~(i > Len(text)) /\ ~(i + 2 > Len(text))
        BY <1>6, <3>3
      <4> QED
        BY <1>1, <1>6, <2>2, <3>1, <3>2, <3>3, <4>1, ScanOfSameRun, Zenon
    <3>4. CASE ~(i + 2 <= n /\ text[i + 2] = Backslash)
      <4>1. CharAt(text, i + 2) # Backslash
        BY <2>2, <3>4, InText, Characters
      <4>2. IsRunEnd(text, i + 2, i + 2)
        BY <2>2, <4>1 DEF IsRunEnd
      <4>3. j = i + 2
        BY <2>2, <4>2, RunEndIs
      <4>4. ~Introduces(i, j)
        BY <4>3 DEF Introduces
      <4> QED
        <5>1. ~(i > Len(text)) /\ text[i] = Backslash /\ ~Introduces(i, RunEnd(text, i))
          BY <1>6, <4>4
        <5>2. scan[i] = scan[RunEnd(text, i)]
          BY <1>1, <5>1, ScanSkips, Zenon
        <5> QED
          BY <4>3, <5>2
    <3> QED
      BY <3>3, <3>4
  <2>4. units[i] = <<"char">> \o units[i + 2]
    BY <1>1, <1>6 DEF UnitsFrom
  <2>5. units[i + 2] \in Seq(AnyUnit) /\ "char" \in AnyUnit
    BY <1>2, <1>3, <2>2
  <2>6. "malformed" \notin ToSet(units[i + 2]) /\ (Paired(units[i]) <=> Paired(units[i + 2]))
    BY <2>4, <2>5, MalformedMore, PairedMore
  <2> QED
    BY <2>2, <2>3, <2>6 DEF WellScanned
<1>7. CASE i <= n /\ text[i] = Backslash /\ CharAt(text, i + 1) # Backslash
  <2>1. j = i + 1
    <3>1. i + 1 \in i..(n + 1) /\ IsRunEnd(text, i, i + 1)
      <4>1. i + 1 \in i..(n + 1) /\ \A k \in i..((i + 1) - 1) : k = i
        BY <1>7
      <4> QED
        BY <1>7, <4>1, InText, Characters DEF IsRunEnd
    <3> QED
      BY <3>1, RunEndIs
  <2>2. Introduces(i, j)
    BY <2>1 DEF Introduces
  <2>3. CASE CharAt(text, i + 1) = "n"
    <3>1. units[i] = <<"char">> \o units[i + 2]
      BY <1>1, <1>7, <2>3 DEF UnitsFrom
    <3>2. i + 1 \in 1..n /\ text[i + 1] # Backslash
      BY <1>7, <2>3, InText, Characters
    <3>3. scan[i] = scan[i + 1]
      <4>1. ~(i > Len(text)) /\ text[i] = Backslash /\ CharAt(text, RunEnd(text, i)) # "u"
        BY <1>7, <2>1, <2>3, Characters
      <4>2. scan[i] = scan[RunEnd(text, i)]
        BY <1>1, <4>1, ScanSkips, Zenon
      <4> QED
        BY <2>1, <4>2
    <3>4. scan[i + 1] = scan[i + 2]
      <4>1. i + 1 \in 1..(n + 1) /\ ~(i + 1 > n) /\ (i + 1) + 1 = i + 2
        BY <3>2
      <4>2. scan[i + 1] = ScanFrom(text, scan, i + 1)
        BY <4>1
      <4> QED
        BY <3>2, <4>1, <4>2 DEF ScanFrom
    <3>5. i + 2 \in (i + 1)..(n + 1) /\ units[i + 2] \in Seq(AnyUnit) /\ "char" \in AnyUnit
      BY <1>2, <1>3, <3>2
    <3>6. "malformed" \notin ToSet(units[i + 2]) /\ (Paired(units[i]) <=> Paired(units[i + 2]))
      BY <3>1, <3>5, MalformedMore, PairedMore
    <3> QED
      BY <3>3, <3>4, <3>5, <3>6 DEF WellScanned
  <2>4. CASE CharAt(text, i + 1) = "u" /\ unit \in Hex4
    <3>1. i + 2 \in 1..n /\ text[i + 2] = unit
      BY <1>7, <2>4, InText, Characters
    <3>2. units[i] = <<unit>> \o units[i + 3]
      BY <1>1, <1>7, <2>4, <3>1, Characters DEF UnitsFrom
    <3>3. /\ i + 3 \in (i + 1)..(n + 1) /\ i + 3 \in 1..(n + 1)
          /\ units[i + 3] \in Seq(AnyUnit) /\ unit \in AnyUnit
      BY <1>2, <2>4, <3>1 DEF AnyUnit
    <3>4. "malformed" \notin ToSet(units[i + 3])
      BY <3>2, <3>3, MalformedMore
    <3>5. scan[i] = IF unit = "H" /\ LowEscapeAt(text, i + 3) THEN scan[i + 6]
                    ELSE IF unit \in {"H", "L"} THEN FALSE ELSE scan[i + 3]
      <4>1. j + 1 = i + 2 /\ j + 2 = i + 3 /\ j + 5 = i + 6 /\ CharAt(text, j) = "u" /\ ~(i > n)
        BY <1>7, <2>1, <2>4
      <4>2. CharAt(text, j + 1) = unit
        BY <4>1
      <4> HIDE DEF j, unit
      <4> QED
        BY <1>1, <1>7, <2>2, <2>4, <4>1, <4>2 DEF ScanFrom, j
    <3>6. CASE unit = "L"
      <4>1. scan[i] = FALSE
        BY <3>5, <3>6, Characters
      <4> QED
        BY <3>2, <3>3, <3>6, <4>1, PairedMore
    <3>7. CASE unit = "B"
      <4>1. scan[i] = scan[i + 3]
        BY <3>5, <3>7, Characters
      <4>2. Paired(units[i]) <=> Paired(units[i + 3])
        BY <3>2, <3>3, <3>7, PairedMore, Characters
      <4> QED
        BY <3>3, <3>4, <4>1, <4>2 DEF WellScanned
    <3>8. CASE unit = "H"
      <4>1. units[i + 3] = UnitsFrom(text, units, i + 3)
        BY <3>3
      <4>2. CASE LowEscapeAt(text, i + 3)
        <5>1. /\ CharAt(text, i + 3) = Backslash /\ CharAt(text, i + 4) = "u"
              /\ CharAt(text, i + 5) = "L"
          <6>1. (i + 3) + 1 = i + 4 /\ (i + 3) + 2 = i + 5
            OBVIOUS
          <6> QED
            BY <4>2, <6>1 DEF LowEscapeAt
        <5>2. /\ i + 3 \in 1..n /\ text[i + 3] = Backslash /\ i + 5 \in 1..n /\ text[i + 5] = "L"
          BY <5>1, InText, Characters
        <5>3. units[i + 3] = <<"L">> \o units[i + 6]
          <6>1. /\ (i + 3) + 1 = i + 4 /\ (i + 3) + 2 = i + 5 /\ (i + 3) + 3 = i + 6
                /\ ~(i + 3 > n) /\ "L" \in Hex4
            BY <5>2, Characters
          <6> QED
            BY <4>1, <5>1, <5>2, <6>1, Characters DEF UnitsFrom
        <5>4. /\ i + 6 \in (i + 1)..(n + 1) /\ units[i + 6] \in Seq(AnyUnit)
              /\ "L" \in AnyUnit
          BY <1>2, <1>3, <5>2
        <5>5. "malformed" \notin ToSet(units[i + 6])
          BY <3>4, <5>3, <5>4, MalformedMore
        <5>6. Paired(units[i]) <=> Paired(units[i + 6])
          BY <3>2, <3>8, <5>3, <5>4, PairedPair
        <5>7. scan[i] = scan[i + 6]
          BY <3>5, <3>8, <4>2
        <5> QED
          BY <5>4, <5>5, <5>6, <5>7 DEF WellScanned
      <4>3. CASE ~LowEscapeAt(text, i + 3)
        <5>1. scan[i] = FALSE
          BY <3>5, <3>8, <4>3
        <5>2. ~(Len(units[i + 3]) > 0 /\ units[i + 3][1] = "L")
          <6>1. CASE i + 3 > n
            <7>1. units[i + 3] = <<>>
              BY <4>1, <6>1 DEF UnitsFrom
            <7> QED
              BY <7>1
          <6>2. CASE i + 3 <= n /\ units[i + 3] = <<"malformed">>
            BY <6>2
          <6>3. ASSUME i + 3 <= n, NEW k \in {i + 4, i + 5}, units[i + 3] = <<"char">> \o units[k],
                       k \in 1..(n + 1)
                PROVE  units[i + 3][1] # "L"
            <7>1. units[k] \in Seq(AnyUnit) /\ "char" \in AnyUnit
              BY <1>2, <1>3, <6>3
            <7>2. units[i + 3][1] = "char"
              BY <6>3, <7>1, OneMore
            <7> QED
              BY <7>2
          <6>4. CASE i + 3 <= n /\ text[i + 3] # Backslash
            <7>1. units[i + 3] = <<"char">> \o units[i + 4] /\ i + 4 \in 1..(n + 1)
              <8>1. (i + 3) + 1 = i + 4 /\ ~(i + 3 > n) /\ i + 4 \in 1..(n + 1)
                BY <6>4
              <8> QED
                BY <4>1, <6>4, <8>1 DEF UnitsFrom
            <7> QED
              BY <6>3, <6>4, <7>1
          <6>5. CASE i + 3 <= n /\ text[i + 3] = Backslash /\ CharAt(text, i + 4) \in {"n", Backslash}
            <7>1. units[i + 3] = <<"char">> \o units[i + 5] /\ i + 5 \in 1..(n + 1)
              <8>1. (i + 3) + 1 = i + 4 /\ (i + 3) + 2 = i + 5 /\ ~(i + 3 > n)
                BY <6>5
              <8>2. i + 5 \in 1..(n + 1)
                BY <6>5, InText, Characters
              <8> QED
                BY <4>1, <6>5, <8>1, <8>2 DEF UnitsFrom
            <7> QED
              BY <6>3, <6>5, <7>1
          <6>6. CASE i + 3 <= n /\ text[i + 3] = Backslash /\ CharAt(text, i + 4) \notin {"n", Backslash}
            <7>1. /\ (i + 3) + 1 = i + 4 /\ (i + 3) + 2 = i + 5 /\ (i + 3) + 3 = i + 6
                  /\ ~(i + 3 > n) /\ i + 3 \in 1..n
              BY <6>6
            <7>2. CharAt(text, i + 3) = Backslash
              BY <6>6, <7>1, InText
            <7>3. CharAt(text, i + 4) = "u" => CharAt(text, i + 5) # "L"
              BY <4>3, <7>1, <7>2 DEF LowEscapeAt
            <7>4. CASE CharAt(text, i + 4) = "u" /\ CharAt(text, i + 5) \in Hex4
              <8>1. units[i + 3] = <<text[i + 5]>> \o units[i + 6]
                BY <4>1, <6>6, <7>1, <7>4 DEF UnitsFrom
              <8>2. i + 5 \in 1..n /\ text[i + 5] = CharAt(text, i + 5)
                BY <7>4, InText, Characters
              <8>3. i + 6 \in 1..(n + 1) /\ text[i + 5] \in AnyUnit
                BY <7>4, <8>2 DEF AnyUnit
              <8>4. units[i + 3][1] = text[i + 5]
                BY <1>2, <8>1, <8>3, OneMore
              <8> QED
                BY <7>3, <7>4, <8>2, <8>4
            <7>5. CASE ~(CharAt(text, i + 4) = "u" /\ CharAt(text, i + 5) \in Hex4)
              <8>1. units[i + 3] = <<"malformed">>
                BY <4>1, <6>6, <7>1, <7>5 DEF UnitsFrom
              <8> QED
                BY <8>1
            <7> QED
              BY <7>4, <7>5
          <6>7. i + 3 \in Int /\ n \in Int
            OBVIOUS
          <6> QED
            BY <6>1, <6>4, <6>5, <6>6, <6>7
        <5>3. ~Paired(units[i])
          BY <3>2, <3>3, <3>8, <5>2, PairedMore
        <5> QED
          BY <5>1, <5>3
      <4> QED
        BY <4>2, <4>3
    <3> QED
      BY <2>4, <3>6, <3>7, <3>8, Characters
  <2>5. CASE CharAt(text, i + 1) # "n" /\ ~(CharAt(text, i + 1) = "u" /\ unit \in Hex4)
    <3>1. units[i] = <<"malformed">>
      BY <1>1, <1>7, <2>5 DEF UnitsFrom
    <3>2. 1 \in DOMAIN <<"malformed">> /\ <<"malformed">>[1] = "malformed"
      OBVIOUS
    <3>3. "malformed" \in ToSet(units[i])
      BY <3>1, <3>2 DEF ToSet
    <3> QED
      BY <3>3
  <2> QED
    BY <2>3, <2>4, <2>5
<1>8. i > n \/ i <= n
  OBVIOUS
<1> QED
  BY <1>4, <1>5, <1>6, <1>7, <1>8, Zenon

(* The scan accepts a text whose escapes are JSON's exactly if its surrogates
   come in pairs.                                                          *)
LEMMA EscapesAreDecided ==
  ASSUME NEW T, NEW text \in Seq(T), WellEscaped(text)
  PROVE  ScanAccepts(text) <=> Paired(Units(text))
<1> DEFINE n == Len(text)
<1>1. PICK scan : /\ ScanAccepts(text) = scan[1]
                  /\ \A i \in 1..(n + 1) : scan[i] = ScanFrom(text, scan, i)
  BY ScanIsScan
<1>2. PICK units : /\ Units(text) = units[1]
                   /\ \A i \in 1..(n + 1) : units[i] = UnitsFrom(text, units, i)
  BY UnitsAreUnits
<1> DEFINE apart == {i \in 1..(n + 1) : ~WellScanned(scan, units, i)}
<1>3. apart = {}
  <2> SUFFICES ASSUME apart # {} PROVE FALSE
    OBVIOUS
  <2>1. apart \in SUBSET (0..(n + 1)) /\ n + 1 \in Nat
    OBVIOUS
  <2>2. PICK i \in apart : \A j \in apart : j <= i
    <3> HIDE DEF apart
    <3> QED
      BY <2>1, Greatest
  <2>3. i \in 1..(n + 1) /\ \A k \in (i + 1)..(n + 1) : WellScanned(scan, units, k)
    BY <2>2
  <2>4. WellScanned(scan, units, i)
    BY <1>1, <1>2, <2>3, ScanAgrees
  <2> QED
    BY <2>2, <2>4
<1>4. 1 \in 1..(n + 1)
  OBVIOUS
<1>5. scan[1] = TRUE <=> Paired(units[1])
  BY <1>2, <1>3, <1>4 DEF WellScanned, WellEscaped
<1> QED
  BY <1>1, <1>2, <1>5

(***************************************************************************)
(* The token walk, as the function it is.                                  *)
(***************************************************************************)
IsWalk(f, tokens, upto) ==
  f = [n \in 0..upto |-> IF n = 0 THEN Walking ELSE WalkToken(f[n - 1], tokens[n])]

LEMMA WalkExists ==
  ASSUME NEW tokens
  PROVE  \A n \in Nat : \E f : IsWalk(f, tokens, n)
<1> DEFINE none == {n \in Nat : ~ \E f : IsWalk(f, tokens, n)}
<1>1. CASE none # {}
  <2>1. PICK n \in none : \A m \in none : n <= m
    <3>1. none \in SUBSET Nat
      OBVIOUS
    <3> HIDE DEF none
    <3> QED
      BY <1>1, <3>1, Least
  <2>2. CASE n = 0
    <3> DEFINE f == [k \in 0..0 |-> Walking]
    <3>1. IsWalk(f, tokens, 0)
      BY DEF IsWalk
    <3> HIDE DEF f
    <3> QED
      BY <2>1, <2>2, <3>1
  <2>3. CASE n # 0
    <3>1. n \in Nat /\ n - 1 \in Nat /\ n - 1 \notin none
      BY <2>1, <2>3
    <3>2. PICK f : IsWalk(f, tokens, n - 1)
      BY <3>1
    <3>3. \A k \in 0..(n - 1) :
            f[k] = IF k = 0 THEN Walking ELSE WalkToken(f[k - 1], tokens[k])
      BY <3>2 DEF IsWalk
    <3> DEFINE g == [k \in 0..n |-> IF k = n THEN WalkToken(f[n - 1], tokens[n]) ELSE f[k]]
    <3>4. \A k \in 0..(n - 1) : g[k] = f[k]
      BY <3>1
    <3>5. ASSUME NEW k \in 0..n
          PROVE  g[k] = IF k = 0 THEN Walking ELSE WalkToken(g[k - 1], tokens[k])
      <4>1. CASE k = n
        <5>1. g[k] = WalkToken(f[n - 1], tokens[n]) /\ n - 1 \in 0..(n - 1)
          BY <3>1, <4>1
        <5>2. g[k - 1] = f[n - 1]
          BY <3>4, <4>1, <5>1
        <5> HIDE DEF g
        <5> QED
          BY <2>3, <4>1, <5>1, <5>2
      <4>2. CASE k # n
        <5>1. k \in 0..(n - 1) /\ (k # 0 => k - 1 \in 0..(n - 1))
          BY <3>1, <4>2
        <5>2. g[k] = f[k] /\ (k # 0 => g[k - 1] = f[k - 1])
          BY <3>4, <5>1
        <5> HIDE DEF g
        <5> QED
          BY <3>3, <5>1, <5>2
      <4> QED
        BY <4>1, <4>2
    <3>6. g = [k \in 0..n |-> g[k]]
      OBVIOUS
    <3> HIDE DEF g
    <3>7. IsWalk(g, tokens, n)
      BY <3>5, <3>6 DEF IsWalk
    <3> QED
      BY <2>1, <3>7
  <2> QED
    BY <2>2, <2>3
<1>2. CASE none = {}
  BY <1>2
<1> QED
  BY <1>1, <1>2

LEMMA WalkIsWalk ==
  ASSUME NEW T, NEW tokens \in Seq(T)
  PROVE  \E f : /\ CheckStrictJSON(tokens) = f[Len(tokens)].Error
                /\ f[0] = Walking
                /\ \A n \in 1..Len(tokens) : f[n] = WalkToken(f[n - 1], tokens[n])
<1> DEFINE f == CHOOSE g : IsWalk(g, tokens, Len(tokens))
<1>1. CheckStrictJSON(tokens) = f[Len(tokens)].Error
  BY DEF CheckStrictJSON, IsWalk
<1>2. IsWalk(f, tokens, Len(tokens))
  <2>1. Len(tokens) \in Nat
    OBVIOUS
  <2> QED
    BY <2>1, WalkExists
<1> HIDE DEF f
<1>3. f[0] = Walking /\ \A n \in 1..Len(tokens) : f[n] = WalkToken(f[n - 1], tokens[n])
  <2>1. 0 \in 0..Len(tokens) /\ \A n \in 1..Len(tokens) : n \in 0..Len(tokens) /\ n # 0
    OBVIOUS
  <2> QED
    BY <1>2, <2>1 DEF IsWalk
<1> QED
  BY <1>1, <1>3

(***************************************************************************)
(* Depths, and the object that is open at a depth.                         *)
(***************************************************************************)
LEMMA Brackets ==
  /\ Opening \cap Closing = {} /\ "null" \notin Opening \cup Closing
  /\ "value" \notin Opening \cup Closing /\ "null" # "value"
BY DEF Opening, Closing

TokensIn(tokens, S, n) == {j \in 1..n : tokens[j] \in S}
CountOf(tokens, S, n) == Cardinality(TokensIn(tokens, S, n))

LEMMA CountNext ==
  ASSUME NEW S, NEW tokens, NEW i \in Nat
  PROVE  /\ CountOf(tokens, S, 0) = 0 /\ CountOf(tokens, S, i) \in Nat
         /\ CountOf(tokens, S, i + 1)
              = CountOf(tokens, S, i) + (IF tokens[i + 1] \in S THEN 1 ELSE 0)
<1>1. IsFiniteSet(1..i) /\ TokensIn(tokens, S, i) \subseteq 1..i
  BY FS_Interval DEF TokensIn
<1>2. IsFiniteSet(TokensIn(tokens, S, i))
  BY <1>1, FS_Subset
<1>3. CountOf(tokens, S, 0) = 0 /\ CountOf(tokens, S, i) \in Nat
  <2>1. TokensIn(tokens, S, 0) = {}
    BY DEF TokensIn
  <2> QED
    BY <1>2, <2>1, FS_EmptySet, FS_CardinalityType DEF CountOf
<1>4. CASE tokens[i + 1] \in S
  <2>1. /\ TokensIn(tokens, S, i + 1) = TokensIn(tokens, S, i) \cup {i + 1}
        /\ i + 1 \notin TokensIn(tokens, S, i)
    BY <1>4 DEF TokensIn
  <2>2. CountOf(tokens, S, i + 1) = CountOf(tokens, S, i) + 1
    BY <1>2, <2>1, FS_AddElement DEF CountOf
  <2> QED
    BY <1>3, <1>4, <2>2
<1>5. CASE tokens[i + 1] \notin S
  <2>1. TokensIn(tokens, S, i + 1) = TokensIn(tokens, S, i)
    BY <1>5 DEF TokensIn
  <2>2. CountOf(tokens, S, i + 1) = CountOf(tokens, S, i)
    BY <2>1 DEF CountOf
  <2> QED
    BY <1>3, <1>5, <2>2
<1> QED
  BY <1>4, <1>5

LEMMA DepthNext ==
  ASSUME NEW tokens, NEW i \in Nat
  PROVE  /\ Depth(tokens, 0) = 0 /\ Depth(tokens, i) \in Int
         /\ tokens[i + 1] \in Opening => Depth(tokens, i + 1) = Depth(tokens, i) + 1
         /\ tokens[i + 1] \in Closing => Depth(tokens, i + 1) = Depth(tokens, i) - 1
         /\ tokens[i + 1] \notin Opening \cup Closing => Depth(tokens, i + 1) = Depth(tokens, i)
<1>1. \A n : Depth(tokens, n) = CountOf(tokens, Opening, n) - CountOf(tokens, Closing, n)
  BY DEF Depth, CountOf, TokensIn
<1> QED
  BY <1>1, CountNext, Brackets

(* The position that opened what is open at depth d after i tokens. *)
OpensAt(tokens, i, d, j) ==
  /\ tokens[j] \in Opening /\ Depth(tokens, j) = d
  /\ \A k \in (j + 1)..i : tokens[k] \in Opening => Depth(tokens, k) # d

OpenerAt(tokens, i, d) == CHOOSE j \in 1..i : OpensAt(tokens, i, d, j)

LEMMA DepthReached ==
  ASSUME NEW tokens, NEW i \in Nat, NEW d \in 1..Depth(tokens, i)
  PROVE  \E j \in 1..i : tokens[j] \in Opening /\ Depth(tokens, j) = d
<1> DEFINE deep == {j \in 0..i : Depth(tokens, j) >= d}
<1>1. i \in deep /\ deep \in SUBSET Nat
  BY DepthNext
<1>2. PICK j \in deep : \A m \in deep : j <= m
  <2> HIDE DEF deep
  <2> QED
    BY <1>1, Least
<1>3. j # 0
  BY <1>2, DepthNext
<1>4. j \in 1..i /\ j - 1 \in 0..i /\ j - 1 \in Nat /\ j - 1 \notin deep /\ (j - 1) + 1 = j
  BY <1>2, <1>3
<1>5. Depth(tokens, j - 1) < d /\ Depth(tokens, j - 1) \in Int /\ Depth(tokens, j) >= d
  BY <1>2, <1>4, DepthNext
<1>6. /\ tokens[j] \in Opening => Depth(tokens, j) = Depth(tokens, j - 1) + 1
      /\ tokens[j] \in Closing => Depth(tokens, j) = Depth(tokens, j - 1) - 1
      /\ tokens[j] \notin Opening \cup Closing => Depth(tokens, j) = Depth(tokens, j - 1)
  BY <1>4, DepthNext
<1> QED
  BY <1>4, <1>5, <1>6

LEMMA OpenerOpens ==
  ASSUME NEW tokens, NEW i \in Nat, NEW d \in 1..Depth(tokens, i)
  PROVE  OpenerAt(tokens, i, d) \in 1..i /\ OpensAt(tokens, i, d, OpenerAt(tokens, i, d))
<1> DEFINE there == {j \in 1..i : tokens[j] \in Opening /\ Depth(tokens, j) = d}
<1>1. there # {} /\ there \in SUBSET (0..i)
  BY DepthReached
<1>2. PICK j \in there : \A m \in there : m <= j
  <2> HIDE DEF there
  <2> QED
    BY <1>1, Greatest
<1>3. OpensAt(tokens, i, d, j) /\ j \in 1..i
  <2>1. \A k \in (j + 1)..i : k \notin there /\ k \in 1..i
    BY <1>2
  <2> QED
    BY <1>2, <2>1 DEF OpensAt
<1> QED
  BY <1>3 DEF OpenerAt

LEMMA OpenerIs ==
  ASSUME NEW tokens, NEW i \in Nat, NEW d, NEW j \in 1..i, OpensAt(tokens, i, d, j)
  PROVE  OpenerAt(tokens, i, d) = j
<1> DEFINE m == OpenerAt(tokens, i, d)
<1>1. m \in 1..i /\ OpensAt(tokens, i, d, m)
  BY DEF OpenerAt
<1> HIDE DEF m
<1>2. ~(m < j)
  <2> SUFFICES ASSUME m < j PROVE FALSE
    OBVIOUS
  <2>1. j \in (m + 1)..i
    BY <1>1
  <2> QED
    BY <1>1, <2>1 DEF OpensAt
<1>3. ~(j < m)
  <2> SUFFICES ASSUME j < m PROVE FALSE
    OBVIOUS
  <2>1. m \in (j + 1)..i
    BY <1>1
  <2> QED
    BY <1>1, <2>1 DEF OpensAt
<1> QED
  BY <1>1, <1>2, <1>3 DEF m

(* A token opens its own depth and leaves the openers below it. *)
LEMMA OpenerNext ==
  ASSUME NEW tokens, NEW i \in Nat
  PROVE  /\ \A d \in 1..Depth(tokens, i) : d <= Depth(tokens, i + 1) =>
              OpenerAt(tokens, i + 1, d) = OpenerAt(tokens, i, d)
         /\ tokens[i + 1] \in Opening =>
              OpenerAt(tokens, i + 1, Depth(tokens, i + 1)) = i + 1
<1>1. ASSUME NEW d \in 1..Depth(tokens, i), d <= Depth(tokens, i + 1)
      PROVE  OpenerAt(tokens, i + 1, d) = OpenerAt(tokens, i, d)
  <2> DEFINE j == OpenerAt(tokens, i, d)
  <2>1. j \in 1..i /\ OpensAt(tokens, i, d, j)
    BY OpenerOpens
  <2> HIDE DEF j
  <2>2. tokens[i + 1] \in Opening => Depth(tokens, i + 1) # d
    BY DepthNext
  <2>3. \A k \in (j + 1)..(i + 1) : k \in (j + 1)..i \/ k = i + 1
    BY <2>1
  <2>4. j \in 1..(i + 1) /\ i + 1 \in Nat /\ OpensAt(tokens, i + 1, d, j)
    BY <2>1, <2>2, <2>3 DEF OpensAt
  <2> QED
    BY <2>4, OpenerIs DEF j
<1>2. ASSUME tokens[i + 1] \in Opening
      PROVE  OpenerAt(tokens, i + 1, Depth(tokens, i + 1)) = i + 1
  <2>1. i + 1 \in 1..(i + 1) /\ i + 1 \in Nat /\ ((i + 1) + 1)..(i + 1) = {}
    OBVIOUS
  <2>2. OpensAt(tokens, i + 1, Depth(tokens, i + 1), i + 1)
    BY <1>2, <2>1, Zenon DEF OpensAt
  <2> QED
    BY <2>1, <2>2, OpenerIs
<1> QED
  BY <1>1, <1>2

LEMMA ObjectIsOpener ==
  ASSUME NEW tokens, NEW i
  PROVE  ObjectOf(tokens, i) = OpenerAt(tokens, i, Depth(tokens, i))
BY DEF ObjectOf, OpenerAt, OpensAt

(***************************************************************************)
(* The walk keeps, for every open object, the keys read in it.             *)
(***************************************************************************)
StrictUpto(tokens, n) ==
  /\ \A i \in 1..n : tokens[i] # "null"
  /\ \A i \in 1..(n - 1) : Depth(tokens, i) > 0
  /\ \A i, k \in KeysAt(tokens) :
       i < k /\ k <= n /\ tokens[i] = tokens[k] => ObjectOf(tokens, i) # ObjectOf(tokens, k)

KeysSeen(tokens, n, object) ==
  {tokens[k] : k \in {m \in KeysAt(tokens) : m <= n /\ ObjectOf(tokens, m) = object}}

KeySets(tokens) == SUBSET ToSet(tokens)
Walks(K) == [Open : Seq(K), Read : BOOLEAN, Error : {""}]

WalkFits(tokens, walk, n) ==
  /\ walk.Error = "" <=> StrictUpto(tokens, n)
  /\ StrictUpto(tokens, n) =>
       /\ walk \in Walks(KeySets(tokens))
       /\ Len(walk.Open) = Depth(tokens, n)
       /\ n = 0 => walk.Read = FALSE
       /\ n > 0 /\ Depth(tokens, n) = 0 => walk.Read = TRUE
       /\ \A d \in 1..Depth(tokens, n) :
            walk.Open[d] = KeysSeen(tokens, n, OpenerAt(tokens, n, d))

LEMMA KeysSeenNext ==
  ASSUME NEW T, NEW tokens \in Seq(T), NEW n \in Nat, n + 1 \in 1..Len(tokens), NEW object
  PROVE  KeysSeen(tokens, n + 1, object)
           = KeysSeen(tokens, n, object)
               \cup (IF IsKey(tokens[n + 1]) /\ ObjectOf(tokens, n + 1) = object
                       THEN {tokens[n + 1]} ELSE {})
<1> DEFINE seen(m) == {k \in KeysAt(tokens) : k <= m /\ ObjectOf(tokens, k) = object}
           new == IF IsKey(tokens[n + 1]) /\ ObjectOf(tokens, n + 1) = object THEN {n + 1} ELSE {}
<1>1. seen(n + 1) = seen(n) \cup new
  <2>1. KeysAt(tokens) \subseteq 1..Len(tokens) /\ (n + 1 \in KeysAt(tokens) <=> IsKey(tokens[n + 1]))
    BY DEF KeysAt
  <2>2. \A k \in KeysAt(tokens) : k \in Nat /\ (k <= n + 1 <=> k <= n \/ k = n + 1)
    BY <2>1
  <2> QED
    BY <2>1, <2>2
<1>2. KeysSeen(tokens, n + 1, object) = {tokens[k] : k \in seen(n + 1)}
  BY DEF KeysSeen
<1>3. KeysSeen(tokens, n, object) = {tokens[k] : k \in seen(n)}
  BY DEF KeysSeen
<1> HIDE DEF seen
<1> QED
  BY <1>1, <1>2, <1>3

LEMMA StrictNext ==
  ASSUME NEW T, NEW tokens \in Seq(T), NEW n \in Nat, n + 1 \in 1..Len(tokens)
  PROVE  StrictUpto(tokens, n + 1) <=>
           /\ StrictUpto(tokens, n) /\ tokens[n + 1] # "null"
           /\ n > 0 => Depth(tokens, n) > 0
           /\ IsKey(tokens[n + 1]) =>
                tokens[n + 1] \notin KeysSeen(tokens, n, ObjectOf(tokens, n + 1))
<1> DEFINE t == tokens[n + 1]
           old == KeysSeen(tokens, n, ObjectOf(tokens, n + 1))
           apart(i, k) == tokens[i] = tokens[k] => ObjectOf(tokens, i) # ObjectOf(tokens, k)
<1>1. (\A i \in 1..(n + 1) : tokens[i] # "null") <=> (\A i \in 1..n : tokens[i] # "null") /\ t # "null"
  <2>1. \A i : i \in 1..(n + 1) <=> i \in 1..n \/ i = n + 1
    OBVIOUS
  <2> QED
    BY <2>1
<1>2. (\A i \in 1..((n + 1) - 1) : Depth(tokens, i) > 0)
        <=> (\A i \in 1..(n - 1) : Depth(tokens, i) > 0) /\ (n > 0 => Depth(tokens, n) > 0)
  <2>1. \A i : i \in 1..((n + 1) - 1) <=> i \in 1..(n - 1) \/ (i = n /\ n > 0)
    OBVIOUS
  <2> QED
    BY <2>1
<1>3. /\ KeysAt(tokens) \subseteq 1..Len(tokens) /\ (n + 1 \in KeysAt(tokens) <=> IsKey(t))
      /\ \A k \in KeysAt(tokens) : k \in Nat /\ (k <= n + 1 <=> k <= n \/ k = n + 1)
  <2>1. KeysAt(tokens) \subseteq 1..Len(tokens) /\ (n + 1 \in KeysAt(tokens) <=> IsKey(t))
    BY DEF KeysAt
  <2> QED
    BY <2>1
<1>4. t \in old <=> \E i \in KeysAt(tokens) :
                      i <= n /\ ObjectOf(tokens, i) = ObjectOf(tokens, n + 1) /\ tokens[i] = t
  BY DEF KeysSeen
<1> HIDE DEF old
<1>5. (\A i, k \in KeysAt(tokens) : i < k /\ k <= n + 1 => apart(i, k))
        <=> /\ \A i, k \in KeysAt(tokens) : i < k /\ k <= n => apart(i, k)
            /\ IsKey(t) => t \notin old
  <2>1. ASSUME \A i, k \in KeysAt(tokens) : i < k /\ k <= n + 1 => apart(i, k)
        PROVE  /\ \A i, k \in KeysAt(tokens) : i < k /\ k <= n => apart(i, k)
               /\ IsKey(t) => t \notin old
    <3>1. \A i, k \in KeysAt(tokens) : i < k /\ k <= n => apart(i, k)
      BY <1>3, <2>1
    <3>2. IsKey(t) => t \notin old
      <4> SUFFICES ASSUME IsKey(t), t \in old PROVE FALSE
        OBVIOUS
      <4>1. PICK i \in KeysAt(tokens) :
              i <= n /\ ObjectOf(tokens, i) = ObjectOf(tokens, n + 1) /\ tokens[i] = t
        BY <1>4
      <4>2. n + 1 \in KeysAt(tokens) /\ i < n + 1 /\ n + 1 <= n + 1
        BY <1>3, <4>1
      <4>3. apart(i, n + 1)
        BY <2>1, <4>2
      <4> QED
        BY <4>1, <4>3
    <3> QED
      BY <3>1, <3>2
  <2>2. ASSUME \A i, k \in KeysAt(tokens) : i < k /\ k <= n => apart(i, k),
               IsKey(t) => t \notin old,
               NEW i \in KeysAt(tokens), NEW k \in KeysAt(tokens), i < k, k <= n + 1
        PROVE  apart(i, k)
    <3>1. CASE k <= n
      BY <2>2, <3>1
    <3>2. CASE k = n + 1
      <4>1. IsKey(t) /\ i <= n
        BY <1>3, <2>2, <3>2
      <4> QED
        BY <1>4, <2>2, <3>2, <4>1
    <3> QED
      BY <1>3, <2>2, <3>1, <3>2
  <2> QED
    BY <2>1, <2>2
<1>6. /\ StrictUpto(tokens, n) <=>
           /\ \A i \in 1..n : tokens[i] # "null"
           /\ \A i \in 1..(n - 1) : Depth(tokens, i) > 0
           /\ \A i, k \in KeysAt(tokens) : i < k /\ k <= n => apart(i, k)
      /\ StrictUpto(tokens, n + 1) <=>
           /\ \A i \in 1..(n + 1) : tokens[i] # "null"
           /\ \A i \in 1..((n + 1) - 1) : Depth(tokens, i) > 0
           /\ \A i, k \in KeysAt(tokens) : i < k /\ k <= n + 1 => apart(i, k)
  BY DEF StrictUpto
<1> QED
  BY <1>1, <1>2, <1>5, <1>6, Zenon DEF t, old

(* What WalkToken does, case by case. *)
Failed(walk, e) == [walk EXCEPT !.Error = e]
Entered(walk) == [walk EXCEPT !.Open = Append(@, {})]
Valued(walk) == [walk EXCEPT !.Read = TRUE]
Saw(walk, key) == [walk EXCEPT !.Open[Len(walk.Open)] = @ \cup {key}]

LEMMA WalkCases ==
  ASSUME NEW w, NEW t
  PROVE  /\ w.Error # "" => WalkToken(w, t) = w
         /\ w.Error = "" /\ w.Open = <<>> /\ w.Read = TRUE =>
              WalkToken(w, t) = Failed(w, "INVALID_CONTRACT")
         /\ w.Error = "" /\ ~(w.Open = <<>> /\ w.Read = TRUE) =>
              /\ t = "null" => WalkToken(w, t) = Failed(w, "SEMANTIC_NULL")
              /\ t \in Opening => WalkToken(w, t) = Entered(w)
              /\ t \in Closing => WalkToken(w, t) = Leave(w)
              /\ t = "value" => WalkToken(w, t) = Valued(w)
              /\ IsKey(t) /\ t \in w.Open[Len(w.Open)] => WalkToken(w, t) = Failed(w, "DUPLICATE")
              /\ IsKey(t) /\ t \notin w.Open[Len(w.Open)] => WalkToken(w, t) = Saw(w, t)
<1>1. w.Error # "" => WalkToken(w, t) = w
  BY Zenon DEF WalkToken
<1>2. w.Error = "" /\ w.Open = <<>> /\ w.Read = TRUE => WalkToken(w, t) = Failed(w, "INVALID_CONTRACT")
  BY DEF WalkToken, Failed
<1>3. ASSUME w.Error = "", ~(w.Open = <<>> /\ w.Read = TRUE)
      PROVE  /\ t = "null" => WalkToken(w, t) = Failed(w, "SEMANTIC_NULL")
             /\ t \in Opening => WalkToken(w, t) = Entered(w)
             /\ t \in Closing => WalkToken(w, t) = Leave(w)
             /\ t = "value" => WalkToken(w, t) = Valued(w)
             /\ IsKey(t) /\ t \in w.Open[Len(w.Open)] => WalkToken(w, t) = Failed(w, "DUPLICATE")
             /\ IsKey(t) /\ t \notin w.Open[Len(w.Open)] => WalkToken(w, t) = Saw(w, t)
  BY <1>3, Brackets DEF WalkToken, IsKey, InnerSeen, Failed, Entered, Valued, Saw
<1> QED
  BY <1>1, <1>2, <1>3

(* An entry of Open after a token that leaves it open. *)
LEMMA SeenKept ==
  ASSUME NEW T, NEW tokens \in Seq(T), NEW n \in Nat, n + 1 \in 1..Len(tokens),
         ~IsKey(tokens[n + 1]), NEW d \in 1..Depth(tokens, n), d <= Depth(tokens, n + 1)
  PROVE  KeysSeen(tokens, n + 1, OpenerAt(tokens, n + 1, d))
           = KeysSeen(tokens, n, OpenerAt(tokens, n, d))
<1>1. OpenerAt(tokens, n + 1, d) = OpenerAt(tokens, n, d)
  BY OpenerNext
<1>2. KeysSeen(tokens, n + 1, OpenerAt(tokens, n, d))
        = KeysSeen(tokens, n, OpenerAt(tokens, n, d)) \cup {}
  BY KeysSeenNext
<1> QED
  BY <1>1, <1>2

(* An object just opened has no keys. *)
LEMMA NoneSeen ==
  ASSUME NEW T, NEW tokens \in Seq(T), NEW n \in Nat, n + 1 \in 1..Len(tokens),
         TokenStream(tokens), tokens[n + 1] \in Opening
  PROVE  KeysSeen(tokens, n + 1, n + 1) = {}
<1> SUFFICES ASSUME NEW k \in KeysAt(tokens), k <= n + 1, ObjectOf(tokens, k) = n + 1
             PROVE  FALSE
  BY DEF KeysSeen
<1>1. k \in 1..Len(tokens) /\ IsKey(tokens[k]) /\ Depth(tokens, k) > 0
  BY DEF KeysAt, TokenStream
<1>2. k # n + 1
  BY <1>1 DEF IsKey
<1>3. k \in Nat /\ Depth(tokens, k) \in 1..Depth(tokens, k)
  BY <1>1, DepthNext
<1>4. ObjectOf(tokens, k) \in 1..k
  BY <1>3, OpenerOpens, ObjectIsOpener
<1> QED
  BY <1>1, <1>2, <1>4

(* A key belongs to the innermost open object. *)
LEMMA KeyIsInnermost ==
  ASSUME NEW T, NEW tokens \in Seq(T), NEW n \in Nat, n + 1 \in 1..Len(tokens),
         TokenStream(tokens), IsKey(tokens[n + 1])
  PROVE  LET depth == Depth(tokens, n) IN
         /\ depth \in Nat /\ depth > 0 /\ Depth(tokens, n + 1) = depth
         /\ ObjectOf(tokens, n + 1) = OpenerAt(tokens, n, depth)
         /\ KeysSeen(tokens, n + 1, OpenerAt(tokens, n + 1, depth))
              = KeysSeen(tokens, n, OpenerAt(tokens, n, depth)) \cup {tokens[n + 1]}
         /\ \A d \in 1..depth : d # depth =>
              KeysSeen(tokens, n + 1, OpenerAt(tokens, n + 1, d))
                = KeysSeen(tokens, n, OpenerAt(tokens, n, d))
<1> DEFINE depth == Depth(tokens, n)
<1>1. depth \in Nat /\ depth > 0 /\ Depth(tokens, n + 1) = depth
  <2>1. tokens[n + 1] \notin Opening \cup Closing /\ Depth(tokens, n + 1) > 0
    BY DEF IsKey, TokenStream
  <2> QED
    BY <2>1, DepthNext
<1> HIDE DEF depth
<1>2. \A d \in 1..depth : OpenerAt(tokens, n + 1, d) = OpenerAt(tokens, n, d)
  BY <1>1, OpenerNext DEF depth
<1>3. ObjectOf(tokens, n + 1) = OpenerAt(tokens, n, depth)
  <2>1. depth \in 1..depth
    BY <1>1
  <2> QED
    BY <1>1, <1>2, <2>1, ObjectIsOpener
<1>4. KeysSeen(tokens, n + 1, OpenerAt(tokens, n, depth))
        = KeysSeen(tokens, n, OpenerAt(tokens, n, depth)) \cup {tokens[n + 1]}
  BY <1>3, KeysSeenNext
<1>5. ASSUME NEW d \in 1..depth, d # depth
      PROVE  KeysSeen(tokens, n + 1, OpenerAt(tokens, n, d))
               = KeysSeen(tokens, n, OpenerAt(tokens, n, d))
  <2>1. OpenerAt(tokens, n, d) # OpenerAt(tokens, n, depth)
    <3>1. d \in 1..Depth(tokens, n) /\ depth \in 1..Depth(tokens, n)
      BY <1>1 DEF depth
    <3>2. /\ Depth(tokens, OpenerAt(tokens, n, d)) = d
          /\ Depth(tokens, OpenerAt(tokens, n, depth)) = depth
      BY <3>1, OpenerOpens DEF OpensAt
    <3> QED
      BY <1>5, <3>2
  <2>2. KeysSeen(tokens, n + 1, OpenerAt(tokens, n, d))
          = KeysSeen(tokens, n, OpenerAt(tokens, n, d)) \cup {}
    BY <1>3, <2>1, KeysSeenNext
  <2> QED
    BY <2>2
<1>6. depth \in 1..depth
  BY <1>1
<1> QED
  BY <1>1, <1>2, <1>3, <1>4, <1>5, <1>6, Zenon DEF depth

(* What a walk without an error becomes. *)
LEMMA WalkTyped ==
  ASSUME NEW K, NEW w \in Walks(K)
  PROVE  /\ w.Error = "" /\ w.Open \in Seq(K) /\ w.Read \in BOOLEAN
         /\ Len(w.Open) \in Nat /\ (w.Open = <<>> <=> Len(w.Open) = 0)
<1>1. w.Error = "" /\ w.Open \in Seq(K) /\ w.Read \in BOOLEAN
  BY DEF Walks
<1> DEFINE open == w.Open
<1>2. open \in Seq(K)
  BY <1>1
<1> HIDE DEF open
<1>3. Len(open) \in Nat /\ (open = <<>> <=> Len(open) = 0)
  BY <1>2
<1> QED
  BY <1>1, <1>3, Zenon DEF open

LEMMA FailedWalk ==
  ASSUME NEW K, NEW w \in Walks(K), NEW e
  PROVE  Failed(w, e).Error = e
BY DEF Walks, Failed

LEMMA ValuedWalk ==
  ASSUME NEW K, NEW w \in Walks(K)
  PROVE  Valued(w) \in Walks(K) /\ Valued(w).Open = w.Open /\ Valued(w).Read = TRUE
BY DEF Walks, Valued

LEMMA EnteredWalk ==
  ASSUME NEW K, {} \in K, NEW w \in Walks(K)
  PROVE  /\ Entered(w) \in Walks(K) /\ Len(Entered(w).Open) = Len(w.Open) + 1
         /\ Entered(w).Open[Len(w.Open) + 1] = {}
         /\ \A d \in 1..Len(w.Open) : Entered(w).Open[d] = w.Open[d]
<1>1. w.Open \in Seq(K)
  BY WalkTyped
<1>2. PICK open \in Seq(K) : open = Append(w.Open, {})
  <2>1. Append(w.Open, {}) \in Seq(K)
    BY <1>1
  <2> QED
    BY <2>1
<1>3. /\ Len(open) = Len(w.Open) + 1 /\ open[Len(w.Open) + 1] = {}
      /\ \A d \in 1..Len(w.Open) : open[d] = w.Open[d]
  BY <1>1, <1>2
<1>4. Entered(w) \in Walks(K) /\ Entered(w).Open = open
  BY <1>2 DEF Walks, Entered
<1> QED
  BY <1>3, <1>4, Zenon

LEMMA LeftWalk ==
  ASSUME NEW K, NEW w \in Walks(K), Len(w.Open) > 0
  PROVE  /\ Leave(w) \in Walks(K) /\ Len(Leave(w).Open) = Len(w.Open) - 1 /\ Leave(w).Read = TRUE
         /\ \A d \in 1..(Len(w.Open) - 1) : Leave(w).Open[d] = w.Open[d]
<1>1. w.Open \in Seq(K)
  BY WalkTyped
<1>2. PICK open \in Seq(K) : open = Front(w.Open)
  <2>1. Front(w.Open) \in Seq(K)
    BY <1>1 DEF Front
  <2> QED
    BY <2>1
<1>3. /\ Len(open) = Len(w.Open) - 1
      /\ \A d \in 1..(Len(w.Open) - 1) : open[d] = w.Open[d]
  BY <1>1, <1>2 DEF Front
<1>4. Leave(w) \in Walks(K) /\ Leave(w).Open = open /\ Leave(w).Read = TRUE
  BY <1>2 DEF Walks, Leave
<1> QED
  BY <1>3, <1>4, Zenon

LEMMA SawWalk ==
  ASSUME NEW K, NEW w \in Walks(K), NEW d \in 1..Len(w.Open), d = Len(w.Open),
         NEW t, w.Open[d] \cup {t} \in K
  PROVE  /\ Saw(w, t) \in Walks(K) /\ Len(Saw(w, t).Open) = d
         /\ Saw(w, t).Open[d] = w.Open[d] \cup {t}
         /\ \A e \in 1..d : e # d => Saw(w, t).Open[e] = w.Open[e]
<1> DEFINE more == w.Open[d] \cup {t}
<1>1. w.Open \in Seq(K)
  BY WalkTyped
<1>2. more \in K /\ Saw(w, t) = [w EXCEPT !.Open = [w.Open EXCEPT ![d] = more]]
  BY Zenon DEF Saw
<1> HIDE DEF more
<1>3. PICK open \in Seq(K) : open = [w.Open EXCEPT ![d] = more]
  <2>1. [w.Open EXCEPT ![d] = more] \in Seq(K)
    BY <1>1, <1>2
  <2> QED
    BY <2>1
<1>4. /\ Len(open) = Len(w.Open) /\ open[d] = more
      /\ \A e \in 1..Len(w.Open) : e # d => open[e] = w.Open[e]
  BY <1>1, <1>2, <1>3
<1>5. Saw(w, t) = [w EXCEPT !.Open = open]
  BY <1>2, <1>3
<1>6. Saw(w, t) \in Walks(K) /\ Saw(w, t).Open = open
  BY <1>5 DEF Walks
<1> QED
  BY <1>4, <1>6, Zenon DEF more

LEMMA FitsWhen ==
  ASSUME NEW tokens, NEW v \in Walks(KeySets(tokens)), NEW n \in Nat, n > 0, StrictUpto(tokens, n),
         Len(v.Open) = Depth(tokens, n), Depth(tokens, n) = 0 => v.Read = TRUE,
         \A d \in 1..Depth(tokens, n) :
           v.Open[d] = KeysSeen(tokens, n, OpenerAt(tokens, n, d))
  PROVE  WalkFits(tokens, v, n)
<1>1. v.Error = ""
  BY WalkTyped, Zenon
<1>2. n # 0
  OBVIOUS
<1> QED
  BY <1>1, <1>2, Zenon DEF WalkFits

LEMMA MisfitsWhen ==
  ASSUME NEW tokens, NEW v, NEW n, ~StrictUpto(tokens, n), v.Error # ""
  PROVE  WalkFits(tokens, v, n)
BY Zenon DEF WalkFits

(* One token, in a walk without an error. *)
LEMMA WalkGoesOn ==
  ASSUME NEW T, NEW tokens \in Seq(T), TokenStream(tokens),
         NEW n \in Nat, n + 1 \in 1..Len(tokens),
         NEW w, WalkFits(tokens, w, n), StrictUpto(tokens, n)
  PROVE  WalkFits(tokens, WalkToken(w, tokens[n + 1]), n + 1)
<1> DEFINE open(d) == KeysSeen(tokens, n, OpenerAt(tokens, n, d))
           opened(d) == KeysSeen(tokens, n + 1, OpenerAt(tokens, n + 1, d))
           mine == KeysSeen(tokens, n, ObjectOf(tokens, n + 1))
<1> SUFFICES ASSUME NEW t, t = tokens[n + 1], NEW next, next = WalkToken(w, t),
                    NEW depth, depth = Depth(tokens, n), NEW after, after = Depth(tokens, n + 1),
                    NEW m, m = n + 1
             PROVE  WalkFits(tokens, next, m)
  BY Zenon
<1>1. /\ depth \in Int /\ after \in Int
      /\ t \in Opening => after = depth + 1
      /\ t \in Closing => after = depth - 1
      /\ t \notin Opening \cup Closing => after = depth
      /\ n = 0 => depth = 0
  <2>1. /\ Depth(tokens, n) \in Int /\ Depth(tokens, n + 1) \in Int
        /\ tokens[n + 1] \in Opening => Depth(tokens, n + 1) = Depth(tokens, n) + 1
        /\ tokens[n + 1] \in Closing => Depth(tokens, n + 1) = Depth(tokens, n) - 1
        /\ tokens[n + 1] \notin Opening \cup Closing => Depth(tokens, n + 1) = Depth(tokens, n)
        /\ n = 0 => Depth(tokens, n) = 0
    <3>1. n + 1 \in Nat
      OBVIOUS
    <3> QED
      BY <3>1, DepthNext
  <2> QED
    BY <2>1
<1>2. after >= 0
  BY DEF TokenStream
<1>3. depth >= 0
  <2>1. n # 0 => n \in 1..Len(tokens)
    OBVIOUS
  <2> QED
    BY <1>1, <2>1 DEF TokenStream
<1>4. StrictUpto(tokens, m) <=> t # "null" /\ (n > 0 => depth > 0) /\ (IsKey(t) => t \notin mine)
  BY StrictNext, Zenon
<1>5. /\ w \in Walks(KeySets(tokens)) /\ Len(w.Open) = depth
      /\ n = 0 => w.Read = FALSE
      /\ n > 0 /\ depth = 0 => w.Read = TRUE
      /\ \A d \in 1..depth : w.Open[d] = open(d)
  BY Zenon DEF WalkFits
<1>6. w.Error = "" /\ (w.Open = <<>> <=> depth = 0)
  BY <1>5, WalkTyped, Zenon
<1>7. ~IsKey(t) => \A d \in 1..depth : d <= after => opened(d) = open(d)
  BY SeenKept, Zenon
<1>8. t \in Opening => opened(after) = {}
  <2> SUFFICES ASSUME t \in Opening PROVE opened(after) = {}
    OBVIOUS
  <2>1. OpenerAt(tokens, n + 1, after) = n + 1
    BY OpenerNext
  <2>2. KeysSeen(tokens, n + 1, n + 1) = {}
    BY NoneSeen
  <2> QED
    BY <2>1, <2>2, Zenon
<1>9. IsKey(t) =>
        /\ depth \in Nat /\ depth > 0 /\ after = depth /\ mine = open(depth)
        /\ opened(depth) = open(depth) \cup {t}
        /\ \A d \in 1..depth : d # depth => opened(d) = open(d)
  BY KeyIsInnermost, Zenon
<1>10. t \in ToSet(tokens) /\ m \in Nat /\ m > 0
  BY DEF ToSet
<1>11. ASSUME ~StrictUpto(tokens, m), next.Error # "" PROVE WalkFits(tokens, next, m)
  BY <1>11, MisfitsWhen, Zenon
<1>12. ASSUME StrictUpto(tokens, m), next \in Walks(KeySets(tokens)), Len(next.Open) = after,
              after = 0 => next.Read = TRUE,
              \A d \in 1..after : next.Open[d] = opened(d)
       PROVE  WalkFits(tokens, next, m)
  BY <1>10, <1>12, FitsWhen, Zenon
<1>13. /\ Failed(w, "INVALID_CONTRACT").Error = "INVALID_CONTRACT"
       /\ Failed(w, "SEMANTIC_NULL").Error = "SEMANTIC_NULL"
       /\ Failed(w, "DUPLICATE").Error = "DUPLICATE"
  BY <1>5, FailedWalk, Zenon
<1> HIDE DEF open, opened, mine
<1>14. CASE n > 0 /\ depth = 0
  <2>1. w.Open = <<>> /\ w.Read = TRUE
    BY <1>5, <1>6, <1>14, Zenon
  <2>2. next = Failed(w, "INVALID_CONTRACT")
    BY <1>6, <2>1, WalkCases, Zenon
  <2>3. next.Error # ""
    BY <1>13, <2>2
  <2>4. ~StrictUpto(tokens, m)
    BY <1>4, <1>14
  <2> QED
    BY <1>11, <2>3, <2>4, Zenon
<1>15. CASE ~(n > 0 /\ depth = 0)
  <2>1. n > 0 => depth > 0
    BY <1>1, <1>3, <1>15
  <2>2. ~(w.Open = <<>> /\ w.Read = TRUE)
    <3>1. depth = 0 => n = 0
      BY <2>1
    <3>2. w.Open = <<>> => w.Read = FALSE
      BY <1>5, <1>6, <3>1, Zenon
    <3> QED
      BY <3>2
  <2>3. /\ t = "null" => next = Failed(w, "SEMANTIC_NULL")
        /\ t \in Opening => next = Entered(w)
        /\ t \in Closing => next = Leave(w)
        /\ t = "value" => next = Valued(w)
        /\ IsKey(t) /\ t \in w.Open[Len(w.Open)] => next = Failed(w, "DUPLICATE")
        /\ IsKey(t) /\ t \notin w.Open[Len(w.Open)] => next = Saw(w, t)
    BY <1>6, <2>2, WalkCases, Zenon
  <2>4. CASE t = "null"
    <3>1. next.Error # ""
      BY <1>13, <2>3, <2>4
    <3>2. ~StrictUpto(tokens, m)
      BY <1>4, <2>4, Zenon
    <3> QED
      BY <1>11, <3>1, <3>2, Zenon
  <2>5. CASE t \in Opening
    <3>1. t # "null" /\ ~IsKey(t)
      BY <2>5, Brackets DEF IsKey
    <3>2. StrictUpto(tokens, m) /\ after = depth + 1
      BY <1>1, <1>4, <2>1, <2>5, <3>1, Zenon
    <3>3. {} \in KeySets(tokens)
      BY DEF KeySets
    <3>4. /\ next \in Walks(KeySets(tokens)) /\ Len(next.Open) = after /\ next.Open[after] = {}
          /\ \A d \in 1..depth : next.Open[d] = w.Open[d]
      <4>1. /\ Entered(w) \in Walks(KeySets(tokens)) /\ Len(Entered(w).Open) = Len(w.Open) + 1
            /\ Entered(w).Open[Len(w.Open) + 1] = {}
            /\ \A d \in 1..Len(w.Open) : Entered(w).Open[d] = w.Open[d]
        BY <1>5, <3>3, EnteredWalk, Zenon
      <4>2. next = Entered(w)
        BY <2>3, <2>5
      <4> QED
        BY <1>5, <3>2, <4>1, <4>2
    <3>5. \A d \in 1..after : d = after \/ d \in 1..depth
      BY <1>1, <1>3, <3>2
    <3>6. \A d \in 1..depth : opened(d) = open(d)
      <4>1. \A d \in 1..depth : d <= after
        BY <1>1, <3>2
      <4> QED
        BY <1>7, <3>1, <4>1, Zenon
    <3>7. \A d \in 1..after : next.Open[d] = opened(d)
      BY <1>5, <1>8, <2>5, <3>4, <3>5, <3>6, Zenon
    <3>8. after # 0
      BY <1>1, <1>3, <3>2
    <3> QED
      BY <1>12, <3>2, <3>4, <3>7, <3>8, Zenon
  <2>6. CASE t \in Closing
    <3>1. t # "null" /\ ~IsKey(t)
      BY <2>6, Brackets DEF IsKey
    <3>2. StrictUpto(tokens, m) /\ after = depth - 1
      BY <1>1, <1>4, <2>1, <2>6, <3>1, Zenon
    <3>3. depth > 0
      BY <1>1, <1>2, <3>2
    <3>4. /\ next \in Walks(KeySets(tokens)) /\ Len(next.Open) = after /\ next.Read = TRUE
          /\ \A d \in 1..after : next.Open[d] = w.Open[d]
      <4>1. Len(w.Open) > 0
        BY <1>5, <3>3
      <4>2. /\ Leave(w) \in Walks(KeySets(tokens)) /\ Len(Leave(w).Open) = Len(w.Open) - 1
            /\ Leave(w).Read = TRUE
            /\ \A d \in 1..(Len(w.Open) - 1) : Leave(w).Open[d] = w.Open[d]
        BY <1>5, <4>1, LeftWalk, Zenon
      <4>3. next = Leave(w)
        BY <2>3, <2>6
      <4> QED
        BY <1>5, <3>2, <4>2, <4>3
    <3>5. \A d \in 1..after : d \in 1..depth /\ d <= after
      BY <1>1, <3>2
    <3>6. \A d \in 1..after : next.Open[d] = opened(d)
      BY <1>5, <1>7, <3>1, <3>4, <3>5, Zenon
    <3> QED
      BY <1>12, <3>2, <3>4, <3>6, Zenon
  <2>7. CASE t = "value"
    <3>1. t # "null" /\ ~IsKey(t) /\ t \notin Opening \cup Closing
      BY <2>7, Brackets DEF IsKey
    <3>2. StrictUpto(tokens, m) /\ after = depth
      BY <1>1, <1>4, <2>1, <3>1, Zenon
    <3>3. next \in Walks(KeySets(tokens)) /\ next.Open = w.Open /\ next.Read = TRUE
      BY <1>5, <2>3, <2>7, ValuedWalk, Zenon
    <3>4. \A d \in 1..after : d \in 1..depth /\ d <= after
      BY <1>1, <3>2
    <3>5. Len(next.Open) = after /\ \A d \in 1..after : next.Open[d] = opened(d)
      BY <1>5, <1>7, <3>1, <3>2, <3>3, <3>4, Zenon
    <3> QED
      BY <1>12, <3>2, <3>3, <3>5, Zenon
  <2>8. CASE IsKey(t)
    <3>1. t # "null"
      BY <2>8 DEF IsKey
    <3>2. /\ depth \in Nat /\ depth > 0 /\ after = depth /\ mine = open(depth)
          /\ opened(depth) = open(depth) \cup {t}
          /\ \A d \in 1..depth : d # depth => opened(d) = open(d)
      BY <1>9, <2>8, Zenon
    <3>3. depth \in 1..depth
      BY <3>2
    <3>4. depth \in 1..Len(w.Open) /\ w.Open[Len(w.Open)] = open(depth)
      BY <1>5, <3>3, Zenon
    <3>5. CASE t \in mine
      <4>1. ~StrictUpto(tokens, m)
        BY <1>4, <2>8, <3>5, Zenon
      <4>2. next = Failed(w, "DUPLICATE")
        BY <2>3, <2>8, <3>2, <3>4, <3>5, Zenon
      <4>3. next.Error # ""
        BY <1>13, <4>2
      <4> QED
        BY <1>11, <4>1, <4>3, Zenon
    <3>6. CASE t \notin mine
      <4>1. StrictUpto(tokens, m)
        BY <1>4, <2>1, <3>1, <3>6, Zenon
      <4>2. next = Saw(w, t)
        BY <2>3, <2>8, <3>2, <3>4, <3>6, Zenon
      <4>3. w.Open[depth] \cup {t} \in KeySets(tokens)
        <5>1. w.Open \in Seq(KeySets(tokens))
          BY <1>5, WalkTyped, Zenon
        <5>2. w.Open[depth] \in KeySets(tokens)
          BY <3>4, <5>1
        <5> QED
          BY <1>10, <5>2 DEF KeySets
      <4>4. /\ next \in Walks(KeySets(tokens)) /\ Len(next.Open) = depth
            /\ next.Open[depth] = w.Open[depth] \cup {t}
            /\ \A d \in 1..depth : d # depth => next.Open[d] = w.Open[d]
        <5>1. depth = Len(w.Open)
          BY <1>5
        <5>2. /\ Saw(w, t) \in Walks(KeySets(tokens)) /\ Len(Saw(w, t).Open) = depth
              /\ Saw(w, t).Open[depth] = w.Open[depth] \cup {t}
              /\ \A d \in 1..depth : d # depth => Saw(w, t).Open[d] = w.Open[d]
          <6>1. w \in Walks(KeySets(tokens)) /\ depth \in 1..Len(w.Open)
            BY <1>5, <3>4
          <6> QED
            BY <4>3, <5>1, <6>1, SawWalk
        <5> QED
          BY <4>2, <5>2
      <4>5. after # 0
        BY <3>2
      <4>6. \A d \in 1..after : next.Open[d] = opened(d)
        BY <1>5, <3>2, <3>4, <4>4, Zenon
      <4> QED
        BY <1>12, <3>2, <4>1, <4>4, <4>5, <4>6, Zenon
    <3> QED
      BY <3>5, <3>6
  <2> QED
    BY <2>4, <2>5, <2>6, <2>7, <2>8 DEF IsKey
<1> QED
  BY <1>14, <1>15

LEMMA WalkStep ==
  ASSUME NEW T, NEW tokens \in Seq(T), TokenStream(tokens),
         NEW n \in Nat, n + 1 \in 1..Len(tokens),
         NEW w, WalkFits(tokens, w, n)
  PROVE  WalkFits(tokens, WalkToken(w, tokens[n + 1]), n + 1)
<1>1. CASE ~StrictUpto(tokens, n)
  <2>1. w.Error # "" /\ ~StrictUpto(tokens, n + 1)
    BY <1>1, StrictNext DEF WalkFits
  <2>2. WalkToken(w, tokens[n + 1]) = w
    BY <2>1, WalkCases
  <2> QED
    BY <2>1, <2>2, MisfitsWhen
<1>2. CASE StrictUpto(tokens, n)
  BY <1>2, WalkGoesOn
<1> QED
  BY <1>1, <1>2

LEMMA WalkStarts ==
  ASSUME NEW T, NEW tokens \in Seq(T)
  PROVE  WalkFits(tokens, Walking, 0)
<1>1. StrictUpto(tokens, 0)
  <2>1. KeysAt(tokens) \subseteq 1..Len(tokens) /\ 1..0 = {} /\ 1..(0 - 1) = {}
    BY DEF KeysAt
  <2>2. \A k \in KeysAt(tokens) : ~(k <= 0)
    BY <2>1
  <2> QED
    BY <2>1, <2>2 DEF StrictUpto
<1>2. Depth(tokens, 0) = 0 /\ 1..0 = {}
  BY DepthNext
<1>3. /\ Walking.Error = "" /\ Walking.Read = FALSE /\ Walking.Open = <<>> /\ Len(<<>>) = 0
  BY DEF Walking
<1>4. Walking \in Walks(KeySets(tokens))
  <2>1. <<>> \in Seq(KeySets(tokens))
    OBVIOUS
  <2> QED
    BY <2>1 DEF Walking, Walks
<1> SUFFICES ASSUME NEW w, w = Walking PROVE WalkFits(tokens, w, 0)
  BY Zenon
<1>5. w.Error = "" /\ w.Read = FALSE /\ Len(w.Open) = 0
  BY <1>3
<1>6. \A d \in 1..Depth(tokens, 0) : w.Open[d] = KeysSeen(tokens, 0, OpenerAt(tokens, 0, d))
  BY <1>2
<1>7. ~(0 > 0)
  OBVIOUS
<1>8. w \in Walks(KeySets(tokens)) /\ Len(w.Open) = Depth(tokens, 0)
  BY <1>2, <1>4, <1>5, Zenon
<1> QED
  BY <1>1, <1>5, <1>6, <1>7, <1>8, Zenon DEF WalkFits

(* The walk accepts a token stream exactly if it is one value without nulls in
   which no object repeats a key.                                          *)
LEMMA StructureIsDecided ==
  ASSUME NEW T, NEW tokens \in Seq(T), TokenStream(tokens)
  PROVE  CheckStrictJSON(tokens) = "" <=> StrictUpto(tokens, Len(tokens))
<1>1. PICK f : /\ CheckStrictJSON(tokens) = f[Len(tokens)].Error
               /\ f[0] = Walking
               /\ \A n \in 1..Len(tokens) : f[n] = WalkToken(f[n - 1], tokens[n])
  BY WalkIsWalk
<1> DEFINE apart == {n \in 0..Len(tokens) : ~WalkFits(tokens, f[n], n)}
<1>2. apart = {}
  <2> SUFFICES ASSUME apart # {} PROVE FALSE
    OBVIOUS
  <2>1. PICK n \in apart : \A m \in apart : n <= m
    <3>1. apart \in SUBSET Nat
      OBVIOUS
    <3> HIDE DEF apart
    <3> QED
      BY <3>1, Least
  <2>2. n # 0
    BY <1>1, <2>1, WalkStarts
  <2>3. /\ n \in 1..Len(tokens) /\ n - 1 \in Nat /\ (n - 1) + 1 = n
        /\ n - 1 \in 0..Len(tokens) /\ n - 1 \notin apart
    BY <2>1, <2>2
  <2>4. WalkFits(tokens, f[n - 1], n - 1) /\ f[n] = WalkToken(f[n - 1], tokens[n])
    BY <1>1, <2>3
  <2>5. WalkFits(tokens, f[n], n)
    <3> DEFINE m == n - 1
    <3>1. m \in Nat /\ m + 1 \in 1..Len(tokens) /\ m + 1 = n /\ WalkFits(tokens, f[m], m)
      BY <2>3, <2>4
    <3> HIDE DEF m
    <3>2. WalkFits(tokens, WalkToken(f[m], tokens[m + 1]), m + 1)
      BY <3>1, WalkStep
    <3> QED
      BY <2>4, <3>1, <3>2 DEF m
  <2> QED
    BY <2>1, <2>5
<1>3. Len(tokens) \in 0..Len(tokens)
  OBVIOUS
<1> QED
  BY <1>1, <1>2, <1>3 DEF WalkFits

(***************************************************************************)
(* What Parse decides of a body, by its text and by its tokens.            *)
(***************************************************************************)
LEMMA StrictIsDecided ==
  ASSUME NEW T, NEW tokens \in Seq(T), TokenStream(tokens)
  PROVE  Strict(tokens) <=>
           CheckStrictJSON(tokens) = "" /\ \A i \in KeysAt(tokens) : Known(tokens, i)
<1>1. "null" \notin ToSet(tokens) <=> \A i \in 1..Len(tokens) : tokens[i] # "null"
  BY DEF ToSet
<1>2. OneValue(tokens) <=> \A i \in 1..(Len(tokens) - 1) : Depth(tokens, i) > 0
  <2>1. \A i : i \in DOMAIN tokens /\ i < Len(tokens) <=> i \in 1..(Len(tokens) - 1)
    OBVIOUS
  <2> QED
    BY <2>1 DEF OneValue
<1>3. \A k \in KeysAt(tokens) : k <= Len(tokens)
  BY DEF KeysAt
<1>4. StrictUpto(tokens, Len(tokens)) <=>
        /\ "null" \notin ToSet(tokens) /\ OneValue(tokens)
        /\ \A i, k \in KeysAt(tokens) :
             i < k /\ tokens[i] = tokens[k] => ObjectOf(tokens, i) # ObjectOf(tokens, k)
  BY <1>1, <1>2, <1>3, Zenon DEF StrictUpto
<1> QED
  BY <1>4, StructureIsDecided, Zenon DEF Strict

LEMMA EmptyTextIsRead ==
  ScanAccepts(<<>>) /\ WellEscaped(<<>>) /\ "bytes" \notin ToSet(<<>>)
<1>1. <<>> \in Seq({}) /\ Len(<<>>) = 0 /\ 1 \in 1..(0 + 1) /\ 1 > 0
  OBVIOUS
<1>2. PICK scan : /\ ScanAccepts(<<>>) = scan[1]
                  /\ \A i \in 1..(Len(<<>>) + 1) : scan[i] = ScanFrom(<<>>, scan, i)
  BY <1>1, ScanIsScan
<1>3. scan[1] = TRUE
  BY <1>1, <1>2 DEF ScanFrom
<1>4. PICK units : /\ Units(<<>>) = units[1]
                   /\ \A i \in 1..(Len(<<>>) + 1) : units[i] = UnitsFrom(<<>>, units, i)
  BY <1>1, UnitsAreUnits
<1>5. units[1] = <<>>
  BY <1>1, <1>4 DEF UnitsFrom
<1>6. ToSet(<<>>) = {}
  BY DEF ToSet
<1> QED
  BY <1>2, <1>3, <1>4, <1>5, <1>6 DEF WellEscaped

LEMMA ParseDecides ==
  ASSUME NEW body, NEW T, body.Text \in Seq(T), NEW U, body.Tokens \in Seq(U),
         TokenStream(body.Tokens)
  PROVE  /\ CheckStrictJSON(body.Tokens) = "" /\ ~More(body) =>
              (ParseError(body) \in {"", "UNKNOWN_KEY"} <=>
                 /\ "bytes" \notin ToSet(body.Text) /\ WellEscaped(body.Text)
                 /\ Paired(Units(body.Text)))
         /\ body.Text = <<>> => (ParseError(body) = "" <=> Strict(body.Tokens) /\ body.Rest # "other")
<1> DEFINE text == body.Text
           tokens == body.Tokens
           strict == CheckStrictJSON(tokens)
           known == \A i \in KeysAt(tokens) : Known(tokens, i)
<1>1. ParseError(body) =
        IF "bytes" \in ToSet(text) \/ ~ScanAccepts(text) THEN "INVALID_CONTRACT"
        ELSE IF strict # "" THEN strict
        ELSE IF ~WellEscaped(text) THEN "INVALID_CONTRACT" ELSE IF ~known THEN "UNKNOWN_KEY"
        ELSE IF More(body) THEN "INVALID_CONTRACT" ELSE ""
  BY Zenon DEF ParseError, DecodeError
<1>2. WellEscaped(text) => (ScanAccepts(text) <=> Paired(Units(text)))
  BY EscapesAreDecided
<1>3. Strict(tokens) <=> strict = "" /\ known
  BY StrictIsDecided
<1>4. text = <<>> => ScanAccepts(text) /\ WellEscaped(text) /\ "bytes" \notin ToSet(text)
  BY EmptyTextIsRead
<1> HIDE DEF text, tokens, strict, known
<1>5. strict = "" /\ ~More(body) => (ParseError(body) \in {"", "UNKNOWN_KEY"} <=>
                        "bytes" \notin ToSet(text) /\ WellEscaped(text) /\ Paired(Units(text)))
  BY <1>1, <1>2
<1>6. text = <<>> => (ParseError(body) = "" <=> Strict(tokens) /\ body.Rest # "other")
  BY <1>1, <1>3, <1>4 DEF More
<1> QED
  BY <1>5, <1>6, Zenon DEF text, tokens, strict
=============================================================================
