------------------------- MODULE MemoryStore_proofs -------------------------
(***************************************************************************)
(* Facts about MemoryStore, and about the sorting its queries do, for any  *)
(* records, limits and eviction share.  They are lemmas, for Storage and   *)
(* Gateway to instantiate: each has the assumption of MemoryStore and the  *)
(* invariant of its methods among its hypotheses.                          *)
(***************************************************************************)
EXTENDS MemoryStore, FiniteSetTheorems, FunctionTheorems, SequenceTheorems,
        NaturalsInduction, TLAPS

-----------------------------------------------------------------------------
(* Natural numbers.                                                        *)

\* The natural numbers are well-founded, with the relation written out.
LEMMA NatWellFounded == IsWellFoundedOn({p \in Nat \X Nat : p[1] < p[2]}, Nat)
<1>1. OpToRel(<, Nat) = {p \in Nat \X Nat : p[1] < p[2]}
  BY DEF OpToRel
<1> QED
  BY <1>1, NatLessThanWellFounded

\* Induction, for a set of natural numbers.
LEMMA SetInduction ==
    ASSUME NEW A, 0 \in A, \A n \in Nat : n \in A => n + 1 \in A
    PROVE  Nat \subseteq A
<1> SUFFICES ASSUME Nat \ A # {} PROVE FALSE
  OBVIOUS
<1> DEFINE R == {p \in Nat \X Nat : p[1] < p[2]}
<1>1. PICK n \in Nat \ A : \A m \in Nat \ A : <<m, n>> \notin R
  <2>1. Nat \ A \subseteq Nat
    OBVIOUS
  <2> QED
    BY <2>1, NatWellFounded, WFMin
<1>2. n - 1 \in Nat /\ <<n - 1, n>> \in R
  BY <1>1
<1>3. n - 1 \in A
  BY <1>1, <1>2
<1> QED
  BY <1>1, <1>2, <1>3

\* A bounded set of natural numbers has a greatest element.
LEMMA HasGreatest ==
    ASSUME NEW A \in SUBSET Nat, A # {}, NEW b \in Nat, \A x \in A : x <= b
    PROVE  \E m \in A : \A x \in A : x <= m
<1> DEFINE U == {n \in Nat : \A x \in A : x <= n}
           R == {p \in Nat \X Nat : p[1] < p[2]}
<1>1. PICK n \in U : \A m \in U : <<m, n>> \notin R
  <2>1. U \subseteq Nat /\ U # {}
    OBVIOUS
  <2> HIDE DEF U
  <2> QED
    BY <2>1, NatWellFounded, WFMin
<1>2. n \in A
  <2> SUFFICES ASSUME n \notin A PROVE FALSE
    OBVIOUS
  <2>1. n \in Nat /\ \A x \in A : x < n
    BY <1>1
  <2>2. PICK a \in A : a < n /\ a \in Nat
    BY <2>1
  <2>4. n - 1 \in Nat /\ \A x \in A : x <= n - 1
    BY <2>1, <2>2
  <2>5. n - 1 \in U
    BY <2>4
  <2>3. <<n - 1, n>> \in R
    BY <2>1, <2>4
  <2> QED
    BY <1>1, <2>5, <2>3
<1> QED
  BY <1>1, <1>2

-----------------------------------------------------------------------------
(* Sorting.                                                                *)

\* f lists the elements of S once each, in the order R.
Orders(f, S, R) ==
    /\ f \in Bijection(1..Cardinality(S), S)
    /\ \A i, j \in 1..Cardinality(S) : i < j => <<f[j], f[i]>> \notin R

\* R is a strict order of S.
StrictOn(R, S) ==
    /\ \A x \in S : <<x, x>> \notin R
    /\ \A x, y, z \in S : <<x, y>> \in R /\ <<y, z>> \in R => <<x, z>> \in R

\* A finite set has an element that nothing in it comes after.
LEMMA HasLast ==
    ASSUME NEW S, IsFiniteSet(S), S # {}, NEW R, StrictOn(R, S)
    PROVE  \E x \in S : \A y \in S : <<x, y>> \notin R
<1> DEFINE Below(x) == {y \in S : <<y, x>> \in R}
           A == {Cardinality(Below(x)) : x \in S}
<1>1. \A x \in S : IsFiniteSet(Below(x)) /\ Cardinality(Below(x)) \in Nat
                   /\ Cardinality(Below(x)) <= Cardinality(S)
  <2> TAKE x \in S
  <2>1. Below(x) \in SUBSET S
    OBVIOUS
  <2> HIDE DEF Below
  <2> QED
    BY <2>1, FS_Subset, FS_CardinalityType
<1>2. A \in SUBSET Nat /\ A # {} /\ Cardinality(S) \in Nat /\ \A n \in A : n <= Cardinality(S)
  BY <1>1, FS_CardinalityType
<1>3. PICK m \in A : \A n \in A : n <= m
  BY <1>2, HasGreatest
<1>4. PICK x \in S : m = Cardinality(Below(x))
  BY <1>3
<1>5. ASSUME NEW y \in S, <<x, y>> \in R PROVE FALSE
  <2>1. Below(x) \in SUBSET Below(y) /\ x \in Below(y) /\ x \notin Below(x)
    BY <1>5 DEF StrictOn
  <2>2. Cardinality(Below(y)) <= Cardinality(Below(x))
    BY <1>3, <1>4
  <2>3. IsFiniteSet(Below(y)) /\ Cardinality(Below(x)) \in Nat /\ Cardinality(Below(y)) \in Nat
    BY <1>1
  <2> HIDE DEF Below
  <2>4. Cardinality(Below(x)) <= Cardinality(Below(y))
       /\ (Cardinality(Below(y)) = Cardinality(Below(x)) => Below(y) = Below(x))
    BY <2>1, <2>3, FS_Subset
  <2> QED
    BY <2>1, <2>2, <2>3, <2>4
<1> QED
  BY <1>5

\* So a finite set can be sorted, and Arranged sorts it: by induction on its size.
LEMMA ArrangedOrders ==
    ASSUME NEW S, IsFiniteSet(S), NEW R, StrictOn(R, S)
    PROVE  Orders(Arranged(S, R), S, R)
<1> DEFINE A == {n \in Nat : \A T \in SUBSET S : Cardinality(T) = n => \E f : Orders(f, T, R)}
<1>0. \A T \in SUBSET S : IsFiniteSet(T) /\ Cardinality(T) \in Nat
  BY FS_Subset, FS_CardinalityType
<1>1. 0 \in A
  <2> SUFFICES ASSUME NEW T \in SUBSET S, Cardinality(T) = 0 PROVE \E f : Orders(f, T, R)
    OBVIOUS
  <2>1. T = {}
    BY <1>0, FS_EmptySet
  <2>2. [i \in 1..0 |-> i] \in Bijection(1..0, T)
    BY <2>1 DEF Bijection, Injection, Surjection, IsInjective
  <2> QED
    BY <2>2 DEF Orders
<1>2. ASSUME NEW n \in Nat, n \in A PROVE n + 1 \in A
  <2> SUFFICES ASSUME NEW T \in SUBSET S, Cardinality(T) = n + 1 PROVE \E f : Orders(f, T, R)
    OBVIOUS
  <2>1. IsFiniteSet(T) /\ T # {} /\ StrictOn(R, T)
    BY <1>0, FS_EmptySet DEF StrictOn
  <2>2. PICK x \in T : \A y \in T : <<x, y>> \notin R
    BY <2>1, HasLast
  <2>3. T \ {x} \in SUBSET S /\ Cardinality(T \ {x}) = n
    <3>1. Cardinality(T \ {x}) = Cardinality(T) - 1
      BY <2>1, <2>2, FS_RemoveElement
    <3> QED
      BY <3>1
  <2>4. PICK f : Orders(f, T \ {x}, R)
    BY <1>2, <2>3
  <2> DEFINE g == [i \in 1..n + 1 |-> IF i = n + 1 THEN x ELSE f[i]]
  <2>5. /\ f \in [1..n -> T \ {x}]
        /\ \A i, j \in 1..n : f[i] = f[j] => i = j
        /\ \A y \in T \ {x} : \E i \in 1..n : f[i] = y
        /\ \A i, j \in 1..n : i < j => <<f[j], f[i]>> \notin R
    <3>1. /\ f \in Bijection(1..n, T \ {x})
          /\ \A i, j \in 1..n : i < j => <<f[j], f[i]>> \notin R
      BY <2>3, <2>4 DEF Orders
    <3>2. f \in Injection(1..n, T \ {x}) /\ f \in Surjection(1..n, T \ {x})
      BY <3>1, Fun_BijectionProperties
    <3> QED
      BY <3>1, <3>2 DEF Injection, Surjection, IsInjective
  <2>6. \A i \in 1..n + 1 : i # n + 1 => i \in 1..n
    OBVIOUS
  <2>7. g \in [1..n + 1 -> T]
    BY <2>2, <2>5, <2>6
  <2>8. \A i, j \in 1..n + 1 : g[i] = g[j] => i = j
    BY <2>5, <2>6
  <2>9. \A y \in T : \E i \in 1..n + 1 : g[i] = y
    BY <2>5
  <2>10. \A i, j \in 1..n + 1 : i < j => <<g[j], g[i]>> \notin R
    BY <2>2, <2>5, <2>6, <2>7
  <2> HIDE DEF g
  <2>11. g \in Bijection(1..n + 1, T)
    BY <2>7, <2>8, <2>9, Fun_IsBij
  <2> QED
    BY <2>10, <2>11 DEF Orders
<1>3. Nat \subseteq A
  <2> HIDE DEF A
  <2> QED
    BY <1>1, <1>2, SetInduction
<1>4. \E f : Orders(f, S, R)
  BY <1>0, <1>3
<1> QED
  BY <1>4 DEF Arranged, Orders

-----------------------------------------------------------------------------
(* Facts about sequences.                                                  *)

\* s is the end of t, element by element.
EndOf(s, t) ==
    /\ Len(s) <= Len(t)
    /\ \A i \in 1 .. Len(s) : s[i] = t[Len(t) - Len(s) + i]

LEMMA EndOfIsSuffix ==
    ASSUME NEW S, NEW s \in Seq(S), NEW t \in Seq(S), EndOf(s, t)
    PROVE  IsSuffix(s, t)
<1> DEFINE m == Len(s)
           n == Len(t)
           rs == Reverse(s)
           rt == Reverse(t)
<1>1. m \in Nat /\ n \in Nat /\ m <= n
  BY DEF EndOf
<1>2. \A i \in 1 .. m : s[i] = t[n - m + i]
  BY DEF EndOf
<1>3. /\ rs \in Seq(S) /\ rt \in Seq(S) /\ Len(rs) = m /\ Len(rt) = n
      /\ \A i \in 1 .. m : rs[i] = s[(m - i) + 1]
      /\ \A i \in 1 .. n : rt[i] = t[(n - i) + 1]
  BY <1>1 DEF Reverse
<1>4. ASSUME NEW i \in 1 .. m PROVE rs[i] = rt[i]
  <2>1. i \in 1 .. n /\ (m - i) + 1 \in 1 .. m /\ n - m + ((m - i) + 1) = (n - i) + 1
    BY <1>1
  <2>2. s[(m - i) + 1] = t[n - m + ((m - i) + 1)]
    BY <1>2, <2>1
  <2> QED
    BY <1>3, <2>1, <2>2
<1> HIDE DEF m, n, rs, rt
<1>5. SubSeq(rs, 1, m) = SubSeq(rt, 1, m)
  BY <1>1, <1>3, <1>4
<1>6. Len(rs) <= Len(rt) /\ SubSeq(rs, 1, Len(rs)) = SubSeq(rt, 1, Len(rs))
  BY <1>1, <1>3, <1>5
<1> QED
  BY <1>6 DEF IsSuffix, IsPrefix, rs, rt

\* Dropping elements from the front and saving one more keeps the end.
LEMMA EndOfAppend ==
    ASSUME NEW S, NEW s \in Seq(S), NEW t \in Seq(S), EndOf(s, t), NEW e \in S
    PROVE  EndOf(Append(s, e), Append(t, e))
<1> DEFINE a == Append(s, e)
           b == Append(t, e)
<1>1. Len(s) \in Nat /\ Len(t) \in Nat /\ Len(s) <= Len(t)
  BY DEF EndOf
<1>2. \A i \in 1 .. Len(s) : s[i] = t[Len(t) - Len(s) + i]
  BY DEF EndOf
<1>3. /\ Len(a) = Len(s) + 1 /\ Len(b) = Len(t) + 1
      /\ \A i \in 1 .. Len(s) : a[i] = s[i]
      /\ \A i \in 1 .. Len(t) : b[i] = t[i]
      /\ a[Len(s) + 1] = e /\ b[Len(t) + 1] = e
  OBVIOUS
<1> HIDE DEF a, b
<1>4. ASSUME NEW i \in 1 .. Len(a)
      PROVE  a[i] = b[Len(b) - Len(a) + i]
  <2>1. i \in Nat /\ Len(b) - Len(a) + i = Len(t) - Len(s) + i
    BY <1>1, <1>3
  <2>2. CASE i = Len(s) + 1
    <3>1. Len(t) - Len(s) + i = Len(t) + 1
      BY <1>1, <2>2
    <3> QED
      BY <1>3, <2>1, <2>2, <3>1
  <2>3. CASE i # Len(s) + 1
    <3>1. i \in 1 .. Len(s) /\ Len(t) - Len(s) + i \in 1 .. Len(t)
      BY <1>1, <1>3, <2>3
    <3> QED
      BY <1>2, <1>3, <2>1, <3>1
  <2> QED
    BY <2>2, <2>3
<1>5. EndOf(a, b)
  BY <1>1, <1>3, <1>4 DEF EndOf
<1> QED
  BY <1>5 DEF a, b

LEMMA EndOfDrop ==
    ASSUME NEW S, NEW s \in Seq(S), NEW t \in Seq(S), EndOf(s, t), NEW k \in 0 .. Len(s)
    PROVE  /\ EndOf(SubSeq(s, k + 1, Len(s)), t)
           /\ SubSeq(s, k + 1, Len(s)) \in Seq(S)
           /\ Len(SubSeq(s, k + 1, Len(s))) = Len(s) - k
<1> DEFINE d == SubSeq(s, k + 1, Len(s))
<1>1. Len(s) \in Nat /\ Len(t) \in Nat /\ Len(s) <= Len(t) /\ k \in Nat /\ k <= Len(s)
  BY DEF EndOf
<1>2. \A i \in 1 .. Len(s) : s[i] = t[Len(t) - Len(s) + i]
  BY DEF EndOf
<1>3. d \in Seq(S) /\ Len(d) = Len(s) - k /\ \A i \in 1 .. Len(s) - k : d[i] = s[k + i]
  BY <1>1
<1> HIDE DEF d
<1>4. ASSUME NEW i \in 1 .. Len(d)
      PROVE  d[i] = t[Len(t) - Len(d) + i]
  <2>1. i \in Nat /\ k + i \in 1 .. Len(s) /\ d[i] = s[k + i]
    BY <1>1, <1>3
  <2>2. s[k + i] = t[Len(t) - Len(s) + (k + i)]
    BY <1>2, <2>1
  <2>3. Len(t) - Len(s) + (k + i) = Len(t) - Len(d) + i
    BY <1>1, <1>3, <2>1
  <2> QED
    BY <2>1, <2>2, <2>3
<1>5. EndOf(d, t)
  BY <1>1, <1>3, <1>4 DEF EndOf
<1> QED
  BY <1>3, <1>5 DEF d

LEMMA ToSetAppend ==
    ASSUME NEW S, NEW s \in Seq(S), NEW e \in S
    PROVE  ToSet(Append(s, e)) = ToSet(s) \cup {e}
<1> DEFINE t == Append(s, e)
<1>1. /\ Len(s) \in Nat /\ DOMAIN s = 1 .. Len(s) /\ DOMAIN t = 1 .. Len(s) + 1
      /\ t[Len(s) + 1] = e /\ \A i \in 1 .. Len(s) : t[i] = s[i]
  OBVIOUS
<1> HIDE DEF t
<1>2. {t[i] : i \in DOMAIN t} = {s[i] : i \in DOMAIN s} \cup {e}
  BY <1>1
<1> QED
  BY <1>2 DEF ToSet, t

-----------------------------------------------------------------------------
(* The invariant of the store.                                             *)

\* What is stored is the end of what was saved, within the limit.
KeptInv ==
    /\ Len(telemetry) <= MaxRecords
    /\ EndOf(telemetry, log)
    /\ telemetry = log \/ Len(telemetry) > MaxRecords - EvictCount

\* The set of GPUs with telemetry is that of the stored records.
GpusInv == gpusWithTelemetry = {r.gpu : r \in ToSet(telemetry)}

\* s lists the elements of P, once each.
Lists(s, P) ==
    /\ s \in Seq(Nat)
    /\ \A k \in 1..Len(s) : s[k] \in P
    /\ \A k, l \in 1..Len(s) : s[k] = s[l] => k = l
    /\ \A i \in P : \E k \in 1..Len(s) : s[k] = i

\* The places in t, counted from zero, of the records of g.
PlacesOf(g, t) == {i \in 0..Len(t) - 1 : t[i + 1].gpu = g}

\* The index of a GPU lists the places of its records.
IndexInv == \A g \in Gpu : Lists(gpuTelemetryIndex[g], PlacesOf(g, telemetry))

StoreInv == TypeOK /\ KeptInv /\ GpusInv /\ IndexInv

-----------------------------------------------------------------------------
(* Eviction.                                                               *)

\* At least one record goes, and no more than there are.
LEMMA EvictCountType ==
    ASSUME StoreAssumption
    PROVE  EvictCount \in 1 .. MaxRecords
<1>1. MaxRecords \in Nat \ {0} /\ EvictShare \in Nat \ {0}
  BY DEF StoreAssumption
<1>2. MaxRecords \div EvictShare \in Int /\ MaxRecords \div EvictShare <= MaxRecords
  BY <1>1
<1> QED
  BY <1>1, <1>2 DEF EvictCount

\* What eviction leaves makes room for the record to be saved.
LEMMA KeptFacts ==
    ASSUME StoreAssumption, TypeOK, KeptInv
    PROVE  /\ Kept \in Seq(Record)
           /\ EndOf(Kept, log)
           /\ Len(Kept) < MaxRecords /\ Len(Kept) <= Len(telemetry)
           /\ Kept = log \/ Len(Kept) >= MaxRecords - EvictCount
<1> DEFINE k == EvictCount
<1>1. /\ k \in 1 .. MaxRecords /\ MaxRecords \in Nat
      /\ telemetry \in Seq(Record) /\ log \in Seq(Record) /\ Len(telemetry) \in Nat
      /\ Len(telemetry) <= MaxRecords
  BY EvictCountType DEF StoreAssumption, TypeOK, KeptInv
<1>2. CASE ~Full
  <2>1. Kept = telemetry /\ Len(telemetry) < MaxRecords
    BY <1>1, <1>2 DEF Kept, Full
  <2>2. EndOf(telemetry, log) /\ (telemetry = log \/ Len(telemetry) > MaxRecords - k)
    BY DEF KeptInv
  <2> QED
    BY <1>1, <2>1, <2>2
<1>3. CASE Full
  <2>1. Len(telemetry) = MaxRecords /\ Kept = SubSeq(telemetry, k + 1, Len(telemetry))
    BY <1>1, <1>3 DEF Kept, Full
  <2>2. k \in 0 .. Len(telemetry) /\ EndOf(telemetry, log)
    BY <1>1, <2>1 DEF KeptInv
  <2>3. /\ EndOf(Kept, log) /\ Kept \in Seq(Record)
        /\ Len(Kept) = MaxRecords - k
    BY <1>1, <2>1, <2>2, EndOfDrop
  <2> QED
    BY <1>1, <2>1, <2>3
<1> QED
  BY <1>2, <1>3

\* A rebuilt index lists the places of the GPU's records.
LEMMA PositionsLists ==
    ASSUME NEW t \in Seq(Record), NEW g
    PROVE  Lists(Positions(t, g), PlacesOf(g, t))
<1> DEFINE held == PlacesOf(g, t)
           before == {p \in held \X held : p[1] < p[2]}
           f == Positions(t, g)
           n == Cardinality(held)
<1>1. held \subseteq Nat /\ IsFiniteSet(held)
  <2>1. Len(t) - 1 \in Int /\ held \subseteq 0..Len(t) - 1
    BY DEF PlacesOf
  <2>2. IsFiniteSet(0..Len(t) - 1)
    BY <2>1, FS_Interval
  <2>3. 0..Len(t) - 1 \subseteq Nat
    BY <2>1
  <2> HIDE DEF held
  <2>4. IsFiniteSet(held)
    BY <2>1, <2>2, FS_Subset
  <2> QED
    BY <2>1, <2>3, <2>4
<1>2. n \in Nat
  BY <1>1, FS_CardinalityType
<1>3. StrictOn(before, held)
  BY <1>1 DEF StrictOn
<1>4. f = Arranged(held, before)
  BY DEF Positions, PlacesOf
<1> HIDE DEF held, f
<1>5. f \in Bijection(1..n, held)
  BY <1>1, <1>3, <1>4, ArrangedOrders DEF Orders
<1>6. /\ f \in [1..n -> held]
      /\ \A k, l \in 1..n : f[k] = f[l] => k = l
      /\ \A i \in held : \E k \in 1..n : f[k] = i
  <2>1. f \in Injection(1..n, held) /\ f \in Surjection(1..n, held)
    BY <1>5, Fun_BijectionProperties
  <2> QED
    BY <2>1 DEF Injection, Surjection, IsInjective
<1>7. f \in Seq(Nat) /\ Len(f) = n
  <2>1. f \in [1..n -> Nat]
    BY <1>1, <1>6
  <2> QED
    BY <1>2, <2>1
<1>8. Lists(f, held)
  BY <1>6, <1>7 DEF Lists
<1> QED
  BY <1>8 DEF f, held

\* What eviction leaves of the index lists the places of what it leaves.
LEMMA IndexFacts ==
    ASSUME StoreAssumption, StoreInv, NEW g \in Gpu
    PROVE  Lists(IndexAfterEviction[g], PlacesOf(g, Kept))
<1>1. CASE Full
  BY <1>1, KeptFacts, PositionsLists DEF IndexAfterEviction, StoreInv
<1>2. CASE ~Full
  BY <1>2 DEF IndexAfterEviction, Kept, StoreInv, IndexInv
<1> QED
  BY <1>1, <1>2

\* A place more, for the record that is saved.
LEMMA ListsAppend ==
    ASSUME NEW s, NEW t \in Seq(Record), NEW g, Lists(s, PlacesOf(g, t)),
           NEW r \in Record
    PROVE  Lists(IF r.gpu = g THEN Append(s, Len(t)) ELSE s, PlacesOf(g, Append(t, r)))
<1> DEFINE u == Append(t, r)
           n == Len(t)
           a == Append(s, n)
<1>1. /\ n \in Nat /\ Len(u) = n + 1 /\ u[n + 1] = r
      /\ \A i \in 1..n : u[i] = t[i]
  OBVIOUS
<1>2. s \in Seq(Nat) /\ Len(s) \in Nat
  BY DEF Lists
<1>3. /\ a \in Seq(Nat) /\ Len(a) = Len(s) + 1 /\ a[Len(s) + 1] = n
      /\ \A k \in 1..Len(s) : a[k] = s[k]
  BY <1>1, <1>2
<1>4. PlacesOf(g, t) \subseteq 0..n - 1
  BY DEF PlacesOf
<1> HIDE DEF u, a
<1>5. PlacesOf(g, u) = PlacesOf(g, t) \cup (IF r.gpu = g THEN {n} ELSE {})
  <2>1. \A i \in 0..n - 1 : i + 1 \in 1..n /\ u[i + 1] = t[i + 1]
    BY <1>1
  <2>2. 0..Len(u) - 1 = (0..n - 1) \cup {n}
    BY <1>1
  <2> HIDE DEF n
  <2>3. PlacesOf(g, u) = {i \in 0..n - 1 : u[i + 1].gpu = g} \cup {i \in {n} : u[i + 1].gpu = g}
    BY <2>2 DEF PlacesOf
  <2>4. {i \in 0..n - 1 : u[i + 1].gpu = g} = PlacesOf(g, t)
    BY <2>1 DEF PlacesOf, n
  <2> QED
    BY <1>1, <2>3, <2>4
<1>6. /\ \A k \in 1..Len(s) : s[k] \in PlacesOf(g, t)
      /\ \A k, l \in 1..Len(s) : s[k] = s[l] => k = l
      /\ \A i \in PlacesOf(g, t) : \E k \in 1..Len(s) : s[k] = i
  BY DEF Lists
<1>7. CASE r.gpu # g
  BY <1>5, <1>7 DEF u
<1>8. CASE r.gpu = g
  <2>1. n \notin PlacesOf(g, t)
    BY <1>1, <1>4
  <2>2. \A k \in 1..Len(a) : k = Len(s) + 1 \/ k \in 1..Len(s)
    BY <1>2, <1>3
  <2>3. \A k \in 1..Len(a) : a[k] \in PlacesOf(g, u)
    BY <1>3, <1>5, <1>6, <1>8, <2>2
  <2>4. \A k, l \in 1..Len(a) : a[k] = a[l] => k = l
    BY <1>3, <1>6, <2>1, <2>2
  <2>5. \A i \in PlacesOf(g, u) : \E k \in 1..Len(a) : a[k] = i
    <3> SUFFICES ASSUME NEW i \in PlacesOf(g, u) PROVE \E k \in 1..Len(a) : a[k] = i
      OBVIOUS
    <3>1. CASE i = n
      BY <1>2, <1>3, <3>1
    <3>2. CASE i # n
      <4>1. PICK k \in 1..Len(s) : s[k] = i
        BY <1>5, <1>6, <1>8, <3>2
      <4> QED
        BY <1>2, <1>3, <4>1
    <3> QED
      BY <3>1, <3>2
  <2>6. Lists(a, PlacesOf(g, u))
    BY <1>3, <2>3, <2>4, <2>5 DEF Lists
  <2> QED
    BY <1>8, <2>6 DEF a, u
<1> QED
  BY <1>7, <1>8 DEF u
-----------------------------------------------------------------------------
(* The methods keep the invariant.                                         *)

LEMMA InitInv ==
    ASSUME StoreAssumption, Init
    PROVE  StoreInv
<1> USE DEF Init
<1>1. TypeOK
  BY DEF TypeOK
<1>2. KeptInv
  BY DEF KeptInv, EndOf, StoreAssumption
<1>3. GpusInv
  BY DEF GpusInv, ToSet
<1>4. IndexInv
  BY DEF IndexInv, Lists, PlacesOf
<1> QED
  BY <1>1, <1>2, <1>3, <1>4 DEF StoreInv

LEMMA UnchangedInv ==
    ASSUME StoreInv, UNCHANGED <<telemetry, gpuTelemetryIndex, gpusWithTelemetry, log>>,
           gpus' \subseteq Gpu
    PROVE  StoreInv'
<1>1. EvictCount' = EvictCount
  BY DEF EvictCount
<1>2. TypeOK'
  BY DEF StoreInv, TypeOK
<1>3. KeptInv' /\ GpusInv'
  BY <1>1 DEF StoreInv, KeptInv, GpusInv, EndOf, ToSet
<1>4. IndexInv'
  BY DEF StoreInv, IndexInv, Lists, PlacesOf
<1> QED
  BY <1>2, <1>3, <1>4 DEF StoreInv

LEMMA SaveGPUInv ==
    ASSUME StoreInv, NEW g \in Gpu, SaveGPU(g)
    PROVE  StoreInv'
<1>1. gpus' \subseteq Gpu /\ UNCHANGED <<telemetry, gpuTelemetryIndex, gpusWithTelemetry, log>>
  BY DEF SaveGPU, StoreInv, TypeOK
<1> QED
  BY <1>1, UnchangedInv

LEMMA SaveTelemetryInv ==
    ASSUME StoreAssumption, StoreInv, NEW r \in Record, SaveTelemetry(r)
    PROVE  StoreInv'
<1> DEFINE kept == Kept
           index == IndexAfterEviction
<1>1. /\ telemetry' = Append(kept, r) /\ log' = Append(log, r) /\ gpus' = gpus
      /\ gpuTelemetryIndex' = [index EXCEPT ![r.gpu] = Append(@, Len(kept))]
      /\ gpusWithTelemetry' = GpusAfterEviction \cup {r.gpu}
  BY DEF SaveTelemetry
<1>2. /\ kept \in Seq(Record) /\ log \in Seq(Record) /\ EndOf(kept, log)
      /\ Len(kept) < MaxRecords
      /\ kept = log \/ Len(kept) >= MaxRecords - EvictCount
  BY KeptFacts DEF StoreInv, TypeOK
<1>3. gpusWithTelemetry' = {q.gpu : q \in ToSet(kept)} \cup {r.gpu}
  <2>1. ~Full => kept = telemetry
    BY DEF Kept
  <2>2. GpusAfterEviction = {q.gpu : q \in ToSet(kept)}
    BY <2>1 DEF GpusAfterEviction, StoreInv, GpusInv
  <2> QED
    BY <1>1, <2>2
<1>4. \A g \in Gpu : Lists(index[g], PlacesOf(g, kept))
  BY IndexFacts
<1>5. index = [g \in Gpu |-> index[g]]
  BY DEF IndexAfterEviction, StoreInv, TypeOK
<1> HIDE DEF kept, index
<1>6. MaxRecords \in Nat /\ EvictCount \in Nat /\ r.gpu \in Gpu
  BY EvictCountType DEF StoreAssumption
<1>7. /\ telemetry' \in Seq(Record) /\ log' \in Seq(Record)
      /\ Len(telemetry') = Len(kept) + 1 /\ Len(kept) \in Nat
  BY <1>1, <1>2
<1>8. ToSet(Append(kept, r)) = ToSet(kept) \cup {r}
  BY <1>2, ToSetAppend
<1>9. GpusInv'
  <2>1. gpusWithTelemetry' = {q.gpu : q \in ToSet(telemetry')}
    BY <1>1, <1>3, <1>8
  <2> QED
    BY <2>1 DEF GpusInv, ToSet
<1>10. KeptInv'
  <2>1. EndOf(telemetry', log')
    BY <1>1, <1>2, EndOfAppend
  <2>2. Len(telemetry') <= MaxRecords
    BY <1>2, <1>6, <1>7
  <2>3. telemetry' = log' \/ Len(telemetry') > MaxRecords - EvictCount
    BY <1>1, <1>2, <1>6, <1>7
  <2>4. EvictCount' = EvictCount
    BY DEF EvictCount
  <2>5. EndOf(telemetry, log)' <=> EndOf(telemetry', log')
    BY DEF EndOf
  <2> QED
    BY <2>1, <2>2, <2>3, <2>4, <2>5 DEF KeptInv
<1>11. ASSUME NEW g \in Gpu
       PROVE  Lists(gpuTelemetryIndex'[g], PlacesOf(g, telemetry'))
  <2>1. gpuTelemetryIndex'[g] = IF r.gpu = g THEN Append(index[g], Len(kept)) ELSE index[g]
    BY <1>1, <1>5, <1>6
  <2>2. Lists(IF r.gpu = g THEN Append(index[g], Len(kept)) ELSE index[g],
              PlacesOf(g, Append(kept, r)))
    BY <1>2, <1>4, ListsAppend
  <2> QED
    BY <1>1, <2>1, <2>2
<1>12. IndexInv'
  BY <1>11 DEF IndexInv, Lists, PlacesOf
<1>13. TypeOK'
  <2>1. gpuTelemetryIndex' \in [Gpu -> Seq(Nat)]
    <3>1. gpuTelemetryIndex' = [g \in Gpu |-> gpuTelemetryIndex'[g]]
      BY <1>1, <1>5
    <3>2. \A g \in Gpu : gpuTelemetryIndex'[g] \in Seq(Nat)
      BY <1>11 DEF Lists
    <3> QED
      BY <3>1, <3>2
  <2>2. gpusWithTelemetry' \subseteq Gpu
    <3>1. ToSet(kept) \subseteq Record
      BY <1>2 DEF ToSet
    <3> QED
      BY <1>3, <1>6, <3>1 DEF StoreAssumption
  <2> QED
    BY <1>1, <1>7, <2>1, <2>2 DEF TypeOK, StoreInv
<1> QED
  BY <1>9, <1>10, <1>12, <1>13 DEF StoreInv

LEMMA RestartInv ==
    ASSUME StoreAssumption, Restart
    PROVE  StoreInv'
<1> USE DEF Restart
<1>1. TypeOK'
  BY DEF TypeOK
<1>2. KeptInv'
  BY DEF KeptInv, EndOf, StoreAssumption
<1>3. GpusInv'
  BY DEF GpusInv, ToSet
<1>4. IndexInv'
  BY DEF IndexInv, Lists, PlacesOf
<1> QED
  BY <1>1, <1>2, <1>3, <1>4 DEF StoreInv
-----------------------------------------------------------------------------
(* What the methods promise.                                               *)

LEMMA NewestKept ==
    ASSUME StoreInv
    PROVE  KeepsTheNewest
<1>1. IsSuffix(telemetry, log)
  BY EndOfIsSuffix DEF StoreInv, TypeOK, KeptInv
<1> QED
  BY <1>1 DEF StoreInv, KeptInv, KeepsTheNewest

\* The places of the records a query is about.
Stored(g, start, end) ==
    {p \in DOMAIN telemetry :
        /\ telemetry[p].gpu = g
        /\ start = None \/ start <= telemetry[p].time
        /\ end = None \/ telemetry[p].time <= end}

\* A query lists the records at those places, once each and oldest first.
LEMMA QueryAnswers ==
    ASSUME StoreAssumption, StoreInv, NEW g \in Gpu,
           NEW start \in Nat \cup {None}, NEW end \in Nat \cup {None}
    PROVE  LET answer == GetTelemetryByGPU(g, start, end) IN
           /\ answer \in Seq(Record)
           /\ \A i \in 1..Len(answer) - 1 : answer[i].time <= answer[i + 1].time
           /\ \E place \in Bijection(DOMAIN answer, Stored(g, start, end)) :
                 \A i \in DOMAIN answer : answer[i] = telemetry[place[i]]
<1> DEFINE index == gpuTelemetryIndex[g]
           At(k) == telemetry[index[k] + 1]
           results == {k \in DOMAIN index :
                         index[k] < Len(telemetry) /\ Within(At(k).time, start, end)}
           later == {p \in results \X results : At(p[1]).time < At(p[2]).time}
           n == Cardinality(results)
           order == Arranged(results, later)
           answer == [i \in 1..n |-> At(order[i])]
           stored == Stored(g, start, end)
           place == [i \in 1..n |-> index[order[i]] + 1]
<1>1. GetTelemetryByGPU(g, start, end) = answer
  BY DEF GetTelemetryByGPU
<1>2. /\ index \in Seq(Nat) /\ Len(index) \in Nat /\ DOMAIN index = 1..Len(index)
      /\ \A k \in 1..Len(index) : index[k] \in PlacesOf(g, telemetry)
      /\ \A k, l \in 1..Len(index) : index[k] = index[l] => k = l
      /\ \A i \in PlacesOf(g, telemetry) : \E k \in 1..Len(index) : index[k] = i
  BY DEF StoreInv, IndexInv, Lists
<1>3. telemetry \in Seq(Record) /\ Len(telemetry) \in Nat /\ DOMAIN telemetry = 1..Len(telemetry)
  BY DEF StoreInv, TypeOK
<1>4. \A k \in 1..Len(index) :
          /\ index[k] \in Nat /\ index[k] < Len(telemetry) /\ index[k] + 1 \in DOMAIN telemetry
          /\ At(k) \in Record /\ At(k).gpu = g
  BY <1>2, <1>3 DEF PlacesOf
<1>5. \A rec \in Record : rec.time \in Nat
  BY DEF StoreAssumption
<1>6. results \subseteq 1..Len(index) /\ IsFiniteSet(results) /\ n \in Nat
  <2>1. results \subseteq 1..Len(index)
    BY <1>2
  <2> HIDE DEF index, results
  <2>2. 1 \in Int /\ Len(index) \in Int
    BY <1>2
  <2>3. IsFiniteSet(1..Len(index))
    BY <2>2, FS_Interval
  <2> QED
    BY <2>1, <2>3, FS_Subset, FS_CardinalityType
<1>7. \A k \in 1..Len(index) : k \in results <=> index[k] + 1 \in stored
  <2> SUFFICES ASSUME NEW k \in 1..Len(index) PROVE k \in results <=> index[k] + 1 \in stored
    OBVIOUS
  <2>1. At(k).time \in Nat
    BY <1>4, <1>5
  <2>2. Within(At(k).time, start, end) <=>
            /\ start = None \/ start <= At(k).time
            /\ end = None \/ At(k).time <= end
    BY <2>1 DEF Within
  <2>3. k \in results <=> Within(At(k).time, start, end)
    BY <1>2, <1>4
  <2>4. index[k] + 1 \in stored <=>
            /\ start = None \/ start <= At(k).time
            /\ end = None \/ At(k).time <= end
    BY <1>4 DEF Stored
  <2> QED
    BY <2>2, <2>3, <2>4
<1>8. \A p \in stored : \E k \in results : index[k] + 1 = p
  <2> SUFFICES ASSUME NEW p \in stored PROVE \E k \in results : index[k] + 1 = p
    OBVIOUS
  <2>1. p \in 1..Len(telemetry) /\ telemetry[p].gpu = g
    BY <1>3 DEF Stored
  <2>2. p - 1 \in PlacesOf(g, telemetry) /\ (p - 1) + 1 = p
    BY <1>3, <2>1 DEF PlacesOf
  <2>3. PICK k \in 1..Len(index) : index[k] = p - 1
    BY <1>2, <2>2
  <2> HIDE DEF results, stored
  <2> QED
    BY <1>7, <2>2, <2>3
<1>9. StrictOn(later, results)
  <2>1. \A k \in results : At(k).time \in Nat
    BY <1>4, <1>5, <1>6
  <2> HIDE DEF results
  <2> QED
    BY <2>1 DEF StrictOn
<1>10. Orders(order, results, later)
  <2> HIDE DEF results, later
  <2> QED
    BY <1>6, <1>9, ArrangedOrders
<1> HIDE DEF results, order, stored, n
<1>11. /\ order \in [1..n -> results]
       /\ \A i, j \in 1..n : order[i] = order[j] => i = j
       /\ \A k \in results : \E i \in 1..n : order[i] = k
       /\ \A i, j \in 1..n : i < j => <<order[j], order[i]>> \notin later
  <2>1. /\ order \in Bijection(1..n, results)
        /\ \A i, j \in 1..n : i < j => <<order[j], order[i]>> \notin later
    BY <1>10 DEF Orders, n
  <2>2. order \in Injection(1..n, results) /\ order \in Surjection(1..n, results)
    BY <2>1, Fun_BijectionProperties
  <2> HIDE DEF later
  <2> QED
    BY <2>1, <2>2 DEF Injection, Surjection, IsInjective
<1>12. \A i \in 1..n : order[i] \in results /\ order[i] \in 1..Len(index)
  BY <1>6, <1>11
<1>13. answer \in Seq(Record) /\ Len(answer) = n /\ DOMAIN answer = 1..n
  <2>1. \A i \in 1..n : At(order[i]) \in Record
    BY <1>4, <1>12
  <2>2. answer \in [1..n -> Record]
    BY <2>1
  <2> HIDE DEF answer
  <2> QED
    BY <1>6, <2>2
<1>14. ASSUME NEW i \in 1..n - 1
       PROVE  answer[i].time <= answer[i + 1].time
  <2>1. i \in 1..n /\ i + 1 \in 1..n /\ i < i + 1
    BY <1>6
  <2>2. <<order[i + 1], order[i]>> \notin later
    BY <1>11, <2>1
  <2>3. ~(At(order[i + 1]).time < At(order[i]).time)
    BY <1>12, <2>1, <2>2
  <2>4. At(order[i + 1]).time \in Nat /\ At(order[i]).time \in Nat
    BY <1>4, <1>5, <1>12, <2>1
  <2> QED
    BY <2>1, <2>3, <2>4
<1>15. place \in Bijection(1..n, stored)
  <2>1. place \in [1..n -> stored]
    BY <1>7, <1>12
  <2>2. \A i, j \in 1..n : place[i] = place[j] => i = j
    <3> SUFFICES ASSUME NEW i \in 1..n, NEW j \in 1..n, place[i] = place[j] PROVE i = j
      OBVIOUS
    <3>1. index[order[i]] + 1 = index[order[j]] + 1
      OBVIOUS
    <3>2. index[order[i]] \in Nat /\ index[order[j]] \in Nat
      BY <1>4, <1>12
    <3>3. index[order[i]] = index[order[j]]
      BY <3>1, <3>2
    <3>4. order[i] = order[j]
      BY <1>2, <1>12, <3>3
    <3> QED
      BY <1>11, <3>4
  <2>3. \A p \in stored : \E i \in 1..n : place[i] = p
    BY <1>8, <1>11
  <2> HIDE DEF place
  <2> QED
    BY <2>1, <2>2, <2>3, Fun_IsBij
<1>16. \A i \in 1..n : answer[i] = telemetry[place[i]]
  OBVIOUS
<1> HIDE DEF answer, place
<1> QED
  BY <1>1, <1>13, <1>14, <1>15, <1>16 DEF stored

\* What a query returns, as a set.
LEMMA QueryReturns ==
    ASSUME StoreAssumption, StoreInv, NEW g \in Gpu,
           NEW start \in Nat \cup {None}, NEW end \in Nat \cup {None}
    PROVE  ToSet(GetTelemetryByGPU(g, start, end)) = {telemetry[p] : p \in Stored(g, start, end)}
<1> DEFINE answer == GetTelemetryByGPU(g, start, end)
           stored == Stored(g, start, end)
<1>1. PICK place \in Bijection(DOMAIN answer, stored) :
          \A i \in DOMAIN answer : answer[i] = telemetry[place[i]]
  BY QueryAnswers
<1> HIDE DEF answer, stored
<1>2. place \in Surjection(DOMAIN answer, stored)
  BY Fun_BijectionProperties
<1>3. /\ \A i \in DOMAIN answer : place[i] \in stored
      /\ \A p \in stored : \E i \in DOMAIN answer : place[i] = p
  BY <1>2 DEF Surjection
<1>4. {answer[i] : i \in DOMAIN answer} = {telemetry[p] : p \in stored}
  BY <1>1, <1>3
<1> QED
  BY <1>4 DEF ToSet, answer, stored

LEMMA ListExact ==
    ASSUME StoreInv
    PROVE  ListGPUs = {g \in gpus : \E r \in ToSet(telemetry) : r.gpu = g}
BY DEF StoreInv, GpusInv, ListGPUs

LEMMA QueriesExact ==
    ASSUME StoreAssumption, StoreInv
    PROVE  QueryExact
<1>1. ASSUME NEW g \in Gpu, NEW start \in Instant \cup {None}, NEW end \in Instant \cup {None}
      PROVE  LET answer == GetTelemetryByGPU(g, start, end) IN
             /\ \A i \in 1..Len(answer) - 1 : answer[i].time <= answer[i + 1].time
             /\ \E place \in Bijection(DOMAIN answer, Stored(g, start, end)) :
                   \A i \in DOMAIN answer : answer[i] = telemetry[place[i]]
  <2>1. start \in Nat \cup {None} /\ end \in Nat \cup {None}
    BY DEF StoreAssumption
  <2> QED
    BY <2>1, QueryAnswers
<1> QED
  BY <1>1, ListExact DEF QueryExact, Stored
=============================================================================
