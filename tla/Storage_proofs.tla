--------------------------- MODULE Storage_proofs ---------------------------
(***************************************************************************)
(* Machine-checked facts about the two repositories of Storage, for any    *)
(* records, limits and eviction share.  Those about the in-memory one      *)
(* alone are instantiated from MemoryStore_proofs.                         *)
(***************************************************************************)
EXTENDS Storage, FiniteSetTheorems, FunctionTheorems, SequenceTheorems, TLAPS

Facts == INSTANCE MemoryStore_proofs

-----------------------------------------------------------------------------
(* The inductive invariant.                                                *)

MemInv == Facts!StoreInv

TableInv ==
    /\ Pg!TypeOK
    /\ IsFiniteSet(rows)
    /\ LastSavedWins

HistoryType ==
    /\ accepted \in Seq(Record)
    /\ refused \in Seq(Record)
    /\ restarts \in 0..MaxRestarts

Unrefused(g) == \A r \in ToSet(refused) : r.gpu # g

\* What the two have in common.  The table knows every GPU the store knows, it
\* has a row with the key of every record of an unrefused GPU, and the row of
\* one that no later record in the store supersedes; and until the first
\* restart it has nothing else.
SharedInv ==
    /\ gpus \subseteq pgGpus
    /\ \A row \in Latest(telemetry) : Unrefused(row.gpu) => row \in rows
    /\ \A i \in DOMAIN telemetry : Unrefused(telemetry[i].gpu) =>
          \E row \in rows : Pg!SameKey(row, Pg!RowOf(telemetry[i]))
    /\ restarts = 0 =>
          /\ pgGpus = gpus
          /\ \A row \in rows : \E i \in DOMAIN log : row = Pg!RowOf(log[i])

Inv == MemInv /\ TableInv /\ HistoryType /\ SharedInv

-----------------------------------------------------------------------------
(* The store is MemoryStore_proofs' store.                                 *)

LEMMA SameAssumption == Facts!StoreAssumption
<1>1. Mem!StoreAssumption
  BY StorageAssumption DEF StorageAssumption
<1> QED
  BY <1>1 DEF Mem!StoreAssumption, Facts!StoreAssumption

LEMMA SameMethods ==
    /\ Mem!Init <=> Facts!Init
    /\ \A g : Mem!SaveGPU(g) <=> Facts!SaveGPU(g)
    /\ \A r : Mem!SaveTelemetry(r) <=> Facts!SaveTelemetry(r)
    /\ Mem!Restart <=> Facts!Restart
<1>1. Mem!Init <=> Facts!Init
  BY DEF Mem!Init, Facts!Init
<1>2. ASSUME NEW g PROVE Mem!SaveGPU(g) <=> Facts!SaveGPU(g)
  BY DEF Mem!SaveGPU, Facts!SaveGPU
<1>3. ASSUME NEW r PROVE Mem!SaveTelemetry(r) <=> Facts!SaveTelemetry(r)
  BY DEF Mem!SaveTelemetry, Mem!Kept, Mem!Full, Mem!EvictCount, Mem!IndexAfterEviction,
         Mem!Positions, Mem!Arranged, Mem!Bijection, Mem!Injection, Mem!Surjection,
         Mem!IsInjective, Mem!Cardinality, Mem!IsFiniteSet, Mem!GpusAfterEviction, Mem!ToSet,
         Facts!SaveTelemetry, Facts!Kept, Facts!Full, Facts!EvictCount,
         Facts!IndexAfterEviction, Facts!Positions, Facts!Arranged, Facts!Bijection,
         Facts!Injection, Facts!Surjection, Facts!IsInjective, Facts!Cardinality,
         Facts!IsFiniteSet, Facts!GpusAfterEviction, Facts!ToSet
<1>4. Mem!Restart <=> Facts!Restart
  BY DEF Mem!Restart, Facts!Restart
<1> QED
  BY <1>1, <1>2, <1>3, <1>4

LEMMA SameQueries ==
    /\ Mem!ListGPUs = Facts!ListGPUs
    /\ \A g, start, end : Mem!GetTelemetryByGPU(g, start, end) = Facts!GetTelemetryByGPU(g, start, end)
<1>1. Mem!ListGPUs = Facts!ListGPUs
  BY DEF Mem!ListGPUs, Facts!ListGPUs
<1>2. ASSUME NEW g, NEW start, NEW end
      PROVE  Mem!GetTelemetryByGPU(g, start, end) = Facts!GetTelemetryByGPU(g, start, end)
  BY DEF Mem!GetTelemetryByGPU, Mem!Within, Mem!Arranged, Mem!Bijection, Mem!Injection,
         Mem!Surjection, Mem!IsInjective, Mem!Cardinality, Mem!IsFiniteSet,
         Facts!GetTelemetryByGPU, Facts!Within, Facts!Arranged, Facts!Bijection,
         Facts!Injection, Facts!Surjection, Facts!IsInjective, Facts!Cardinality,
         Facts!IsFiniteSet
<1> QED
  BY <1>1, <1>2

LEMMA SameProperties ==
    /\ Mem!TypeOK <=> Facts!TypeOK
    /\ Mem!KeepsTheNewest <=> Facts!KeepsTheNewest
    /\ Mem!QueryExact <=> Facts!QueryExact
<1>1. Mem!TypeOK <=> Facts!TypeOK
  BY DEF Mem!TypeOK, Facts!TypeOK
<1>2. Mem!KeepsTheNewest <=> Facts!KeepsTheNewest
  BY DEF Mem!KeepsTheNewest, Mem!EvictCount, Mem!IsSuffix, Mem!IsPrefix, Mem!Reverse,
         Facts!KeepsTheNewest, Facts!EvictCount, Facts!IsSuffix, Facts!IsPrefix, Facts!Reverse
<1>3. Mem!QueryExact <=> Facts!QueryExact
  BY DEF Mem!QueryExact, Mem!ListGPUs, Mem!GetTelemetryByGPU, Mem!Within, Mem!Arranged,
         Mem!Bijection, Mem!Injection, Mem!Surjection, Mem!IsInjective, Mem!Cardinality,
         Mem!IsFiniteSet, Mem!ToSet,
         Facts!QueryExact, Facts!ListGPUs, Facts!GetTelemetryByGPU, Facts!Within,
         Facts!Arranged, Facts!Bijection, Facts!Injection, Facts!Surjection,
         Facts!IsInjective, Facts!Cardinality, Facts!IsFiniteSet, Facts!ToSet
<1> QED
  BY <1>1, <1>2, <1>3

-----------------------------------------------------------------------------
(* The table.                                                              *)

\* The value saved last for each key, after one more is saved: the new one, and
\* the old ones with other keys.
LEMMA LatestAppend ==
    ASSUME NEW s \in Seq(Record), NEW r \in Record
    PROVE  Latest(Append(s, r)) =
               {old \in Latest(s) : ~Pg!SameKey(old, Pg!RowOf(r))} \cup {Pg!RowOf(r)}
<1> DEFINE t == Append(s, r)
           n == Len(s)
           Row(i) == Pg!RowOf(s[i])
           row == Pg!RowOf(r)
           NoLaterIn(i) == \A j \in i + 1 .. n : ~Pg!SameKey(Row(i), Row(j))
           NoLaterNow(i) == \A j \in i + 1 .. Len(t) : ~Pg!SameKey(Pg!RowOf(t[i]), Pg!RowOf(t[j]))
<1>1. /\ n \in Nat /\ DOMAIN s = 1 .. n /\ DOMAIN t = 1 .. n + 1 /\ Len(t) = n + 1
      /\ t[n + 1] = r /\ \A i \in 1 .. n : t[i] = s[i]
  OBVIOUS
<1>2. Latest(s) = {Row(i) : i \in {i \in 1 .. n : NoLaterIn(i)}}
  BY <1>1 DEF Latest
<1>3. Latest(t) = {Pg!RowOf(t[i]) : i \in {i \in 1 .. n + 1 : NoLaterNow(i)}}
  BY <1>1 DEF Latest
<1> HIDE DEF t
<1>4. NoLaterNow(n + 1)
  BY <1>1
<1>5. ASSUME NEW i \in 1 .. n
      PROVE  NoLaterNow(i) <=> NoLaterIn(i) /\ ~Pg!SameKey(Row(i), row)
  <2>1. i + 1 .. Len(t) = (i + 1 .. n) \cup {n + 1}
    BY <1>1
  <2>2. \A j \in i + 1 .. n : t[j] = s[j]
    BY <1>1
  <2>3. t[i] = s[i] /\ t[n + 1] = r
    BY <1>1
  <2> HIDE DEF n
  <2> QED
    BY <2>1, <2>2, <2>3
<1>6. ASSUME NEW x \in Latest(t)
      PROVE  x \in {old \in Latest(s) : ~Pg!SameKey(old, row)} \cup {row}
  <2>1. PICK i \in 1 .. n + 1 : x = Pg!RowOf(t[i]) /\ NoLaterNow(i)
    BY <1>3
  <2>2. CASE i = n + 1
    BY <1>1, <2>1, <2>2
  <2>3. CASE i # n + 1
    <3>1. i \in 1 .. n
      BY <1>1, <2>3
    <3>2. x = Row(i) /\ NoLaterIn(i) /\ ~Pg!SameKey(Row(i), row)
      BY <1>1, <1>5, <2>1, <3>1
    <3> QED
      BY <1>2, <3>1, <3>2
  <2> QED
    BY <2>2, <2>3
<1>7. ASSUME NEW x \in {old \in Latest(s) : ~Pg!SameKey(old, row)}
      PROVE  x \in Latest(t)
  <2>1. PICK i \in 1 .. n : x = Row(i) /\ NoLaterIn(i)
    BY <1>2
  <2>2. NoLaterNow(i) /\ i \in 1 .. n + 1 /\ x = Pg!RowOf(t[i])
    BY <1>1, <1>5, <2>1
  <2> QED
    BY <1>3, <2>2
<1>8. row \in Latest(t)
  BY <1>1, <1>3, <1>4
<1>9. Latest(t) = {old \in Latest(s) : ~Pg!SameKey(old, row)} \cup {row}
  BY <1>6, <1>7, <1>8
<1> QED
  BY <1>9 DEF t

LEMMA SameSorting ==
    ASSUME NEW S, NEW R
    PROVE  Pg!Arranged(S, R) = Facts!Arranged(S, R)
BY DEF Pg!Arranged, Pg!Bijection, Pg!Injection, Pg!Surjection, Pg!IsInjective,
       Pg!Cardinality, Pg!IsFiniteSet,
       Facts!Arranged, Facts!Bijection, Facts!Injection, Facts!Surjection,
       Facts!IsInjective, Facts!Cardinality, Facts!IsFiniteSet

\* A row holds an integer column, and its record's key.
LEMMA RowType ==
    ASSUME NEW r \in Record
    PROVE  /\ Pg!Column(r) \in Int
           /\ Pg!RowOf(r).gpu = r.gpu /\ Pg!RowOf(r).column = Pg!Column(r)
<1>1. Micro \in Nat \ {0} /\ r.time \in Nat /\ r.zone \in Int
  BY StorageAssumption DEF StorageAssumption, Pg!PostgresAssumption
<1>2. r.time \div Micro \in Int
  BY <1>1
<1>3. Pg!Rounded(r.time) \in Int
  BY <1>2 DEF Pg!Rounded
<1> QED
  BY <1>1, <1>3 DEF Pg!Column, Pg!RowOf

\* A query of the table returns the rows it is about.
LEMMA TableAnswers ==
    ASSUME Pg!TypeOK, IsFiniteSet(rows), NEW g, NEW start, NEW end
    PROVE  ToSet(Pg!GetTelemetryByGPU(g, start, end)) =
               {row \in rows : row.gpu = g /\ Pg!Within(row.column, start, end)}
<1> DEFINE found == {row \in rows : row.gpu = g /\ Pg!Within(row.column, start, end)}
           before == {p \in found \X found : p[1].column < p[2].column}
           f == Pg!GetTelemetryByGPU(g, start, end)
           n == Cardinality(found)
<1>1. found \subseteq rows
  OBVIOUS
<1>2. \A row \in found : row.column \in Int
  BY <1>1, RowType DEF Pg!TypeOK
<1>3. f = Facts!Arranged(found, before)
  BY SameSorting DEF Pg!GetTelemetryByGPU
<1> HIDE DEF found, f
<1>4. IsFiniteSet(found)
  BY <1>1, FS_Subset
<1>5. Facts!StrictOn(before, found)
  BY <1>2 DEF Facts!StrictOn
<1>6. Facts!IsFiniteSet(found)
  BY <1>4 DEF Facts!IsFiniteSet, IsFiniteSet
<1>7. Facts!Orders(f, found, before)
  BY <1>3, <1>5, <1>6, Facts!ArrangedOrders
<1>8. f \in Surjection(1..n, found)
  <2>1. f \in Facts!Bijection(1..Facts!Cardinality(found), found)
    BY <1>7 DEF Facts!Orders
  <2>2. Facts!Cardinality(found) = n
    BY DEF Facts!Cardinality, Facts!IsFiniteSet, Cardinality, IsFiniteSet
  <2> QED
    BY <2>1, <2>2 DEF Facts!Bijection, Facts!Surjection, Surjection
<1>9. /\ DOMAIN f = 1..n
      /\ \A i \in 1..n : f[i] \in found
      /\ \A row \in found : \E i \in 1..n : f[i] = row
  BY <1>8 DEF Surjection
<1>10. {f[i] : i \in DOMAIN f} = found
  BY <1>9
<1> QED
  BY <1>10 DEF ToSet, f, found

-----------------------------------------------------------------------------
(* What the store and the table have in common.                            *)

\* A save appends to an end of what is stored.
LEMMA StoreSave ==
    ASSUME MemInv, NEW r \in Record, Mem!SaveTelemetry(r)
    PROVE  /\ MemInv'
           /\ gpus' = gpus /\ log \in Seq(Record) /\ log' = Append(log, r)
           /\ telemetry \in Seq(Record)
           /\ \E kept \in Seq(Record) :
                 Facts!EndOf(kept, telemetry) /\ telemetry' = Append(kept, r)
<1> DEFINE kept == Facts!Kept
           k == Len(kept)
           n == Len(telemetry)
           l == Len(log)
<1>1. Facts!SaveTelemetry(r)
  BY SameMethods
<1>2. MemInv'
  BY <1>1, SameAssumption, Facts!SaveTelemetryInv DEF MemInv
<1>3. gpus' = gpus /\ log' = Append(log, r) /\ telemetry' = Append(kept, r)
  BY <1>1 DEF Facts!SaveTelemetry
<1>4. /\ Facts!TypeOK /\ Facts!KeptInv
      /\ telemetry \in Seq(Record) /\ log \in Seq(Record)
  BY DEF MemInv, Facts!StoreInv, Facts!TypeOK
<1>5. kept \in Seq(Record) /\ Facts!EndOf(kept, log) /\ k <= n
  BY <1>4, SameAssumption, Facts!KeptFacts
<1>6. /\ k <= l /\ \A i \in 1..k : kept[i] = log[l - k + i]
      /\ n <= l /\ \A i \in 1..n : telemetry[i] = log[l - n + i]
      /\ k \in Nat /\ n \in Nat /\ l \in Nat
  BY <1>4, <1>5 DEF Facts!KeptInv, Facts!EndOf
<1> HIDE DEF kept, k, n, l
<1>7. ASSUME NEW i \in 1..k PROVE kept[i] = telemetry[n - k + i]
  <2>1. n - k + i \in 1..n /\ l - n + (n - k + i) = l - k + i
    BY <1>5, <1>6
  <2>2. telemetry[n - k + i] = log[l - n + (n - k + i)]
    BY <1>6, <2>1
  <2> QED
    BY <1>6, <2>1, <2>2
<1>8. Facts!EndOf(kept, telemetry)
  BY <1>5, <1>7 DEF Facts!EndOf, k, n
<1> QED
  BY <1>2, <1>3, <1>4, <1>5, <1>8

\* What is latest in the end of a sequence is latest in all of it.
LEMMA LatestOfEnd ==
    ASSUME NEW s \in Seq(Record), NEW t \in Seq(Record), Facts!EndOf(s, t)
    PROVE  Latest(s) \subseteq Latest(t)
<1> DEFINE k == Len(s)
           n == Len(t)
<1>1. /\ k \in Nat /\ n \in Nat /\ k <= n /\ DOMAIN s = 1..k /\ DOMAIN t = 1..n
      /\ \A i \in 1..k : s[i] = t[n - k + i]
  BY DEF Facts!EndOf
<1> SUFFICES ASSUME NEW row \in Latest(s) PROVE row \in Latest(t)
  OBVIOUS
<1>2. PICK i \in 1..k : /\ row = Pg!RowOf(s[i])
                        /\ \A j \in i + 1..k : ~Pg!SameKey(Pg!RowOf(s[i]), Pg!RowOf(s[j]))
  BY <1>1 DEF Latest
<1> HIDE DEF k, n
<1>3. n - k + i \in 1..n /\ t[n - k + i] = s[i]
  BY <1>1
<1>4. ASSUME NEW j \in (n - k + i) + 1..n
      PROVE  ~Pg!SameKey(Pg!RowOf(t[n - k + i]), Pg!RowOf(t[j]))
  <2>1. j - (n - k) \in i + 1..k /\ j - (n - k) \in 1..k /\ n - k + (j - (n - k)) = j
    BY <1>1
  <2>2. t[j] = s[j - (n - k)]
    BY <1>1, <2>1
  <2> QED
    BY <1>2, <1>3, <2>1, <2>2
<1> QED
  BY <1>1, <1>2, <1>3, <1>4 DEF Latest, n

\* A saved record: the store appends it to what it keeps; the table has a row
\* for it, and the others as they were, or has refused it and is unchanged.
LEMMA SharedSave ==
    ASSUME MemInv, SharedInv, refused \in Seq(Record), NEW r \in Record, Mem!SaveTelemetry(r),
           pgGpus' = pgGpus, restarts' = restarts,
           \/ rows' = Pg!Upsert(Pg!RowOf(r)) /\ refused' = refused
           \/ rows' = rows /\ refused' = Append(refused, r)
    PROVE  SharedInv'
<1> DEFINE new == Pg!RowOf(r)
           UnrefusedNow(g) == \A q \in ToSet(refused') : q.gpu # g
<1>1. PICK kept \in Seq(Record) : Facts!EndOf(kept, telemetry) /\ telemetry' = Append(kept, r)
  BY StoreSave
<1>2. /\ gpus' = gpus /\ log \in Seq(Record) /\ log' = Append(log, r)
      /\ telemetry \in Seq(Record)
  BY StoreSave
<1>3. Latest(telemetry') = {old \in Latest(kept) : ~Pg!SameKey(old, new)} \cup {new}
  BY <1>1, LatestAppend
<1>4. Latest(kept) \subseteq Latest(telemetry)
  BY <1>1, <1>2, LatestOfEnd
<1>5. /\ \A g : UnrefusedNow(g) => Unrefused(g)
      /\ (rows' = rows /\ refused' = Append(refused, r)) => ~UnrefusedNow(r.gpu)
  <2>1. CASE refused' = refused
    <3>1. refused' # Append(refused, r)
      BY <2>1
    <3> QED
      BY <2>1, <3>1 DEF Unrefused
  <2>2. CASE refused' = Append(refused, r)
    <3>1. ToSet(refused') = ToSet(refused) \cup {r}
      <4>1. Facts!ToSet(Append(refused, r)) = Facts!ToSet(refused) \cup {r}
        BY Facts!ToSetAppend
      <4> QED
        BY <2>2, <4>1 DEF Facts!ToSet, ToSet
    <3> QED
      BY <3>1 DEF Unrefused
  <2> QED
    BY <2>1, <2>2
<1>6. new.gpu = r.gpu
  BY RowType
<1>7. ASSUME NEW row \in rows, ~Pg!SameKey(row, new) PROVE row \in rows'
  BY <1>7 DEF Pg!Upsert
<1>8. UnrefusedNow(r.gpu) => new \in rows'
  BY <1>5 DEF Pg!Upsert
<1> HIDE DEF UnrefusedNow
<1>9. ASSUME NEW row \in Latest(telemetry'), UnrefusedNow(row.gpu) PROVE row \in rows'
  <2>1. CASE row = new
    BY <1>6, <1>8, <1>9, <2>1
  <2>2. CASE row \in Latest(kept) /\ ~Pg!SameKey(row, new)
    <3>1. row \in rows
      BY <1>4, <1>5, <1>9, <2>2 DEF SharedInv
    <3> QED
      BY <1>7, <2>2, <3>1
  <2> QED
    BY <1>3, <1>9, <2>1, <2>2
<1>10. ASSUME NEW i \in DOMAIN telemetry', UnrefusedNow(telemetry'[i].gpu)
       PROVE  \E row \in rows' : Pg!SameKey(row, Pg!RowOf(telemetry'[i]))
  <2>1. /\ Len(kept) \in Nat /\ i \in 1..Len(kept) + 1
        /\ telemetry'[Len(kept) + 1] = r
        /\ \A j \in 1..Len(kept) : telemetry'[j] = kept[j]
    BY <1>1
  <2>2. CASE i = Len(kept) + 1
    <3>1. Pg!SameKey(new, new)
      BY DEF Pg!SameKey
    <3> QED
      BY <1>8, <1>10, <2>1, <2>2, <3>1
  <2>3. CASE i # Len(kept) + 1
    <3>1. i \in 1..Len(kept) /\ telemetry'[i] = kept[i]
      BY <2>1, <2>3
    <3>2. PICK j \in DOMAIN telemetry : telemetry[j] = kept[i]
      <4>1. /\ Len(kept) <= Len(telemetry) /\ DOMAIN telemetry = 1..Len(telemetry)
            /\ Len(telemetry) \in Nat
            /\ kept[i] = telemetry[Len(telemetry) - Len(kept) + i]
        BY <1>1, <1>2, <3>1 DEF Facts!EndOf
      <4>2. Len(telemetry) - Len(kept) + i \in 1..Len(telemetry)
        BY <2>1, <3>1, <4>1
      <4> QED
        BY <4>1, <4>2
    <3>3. PICK row \in rows : Pg!SameKey(row, Pg!RowOf(telemetry[j]))
      BY <1>5, <1>10, <3>1, <3>2 DEF SharedInv
    <3>4. CASE Pg!SameKey(row, new)
      <4>1. telemetry[j] \in Record /\ Pg!RowOf(telemetry[j]).gpu = telemetry[j].gpu
        BY <1>2, RowType
      <4>2. r.gpu = telemetry[j].gpu
        BY <1>6, <3>3, <3>4, <4>1 DEF Pg!SameKey
      <4>3. new \in rows'
        BY <1>8, <1>10, <3>1, <3>2, <4>2
      <4>4. Pg!SameKey(new, Pg!RowOf(telemetry[j]))
        BY <3>3, <3>4 DEF Pg!SameKey
      <4> QED
        BY <3>1, <3>2, <4>3, <4>4
    <3>5. CASE ~Pg!SameKey(row, new)
      BY <1>7, <3>1, <3>2, <3>3, <3>5
    <3> QED
      BY <3>4, <3>5
  <2> QED
    BY <2>2, <2>3
<1>11. restarts' = 0 =>
          /\ pgGpus' = gpus'
          /\ \A row \in rows' : \E i \in DOMAIN log' : row = Pg!RowOf(log'[i])
  <2> SUFFICES ASSUME restarts = 0, NEW row \in rows'
               PROVE  \E i \in DOMAIN log' : row = Pg!RowOf(log'[i])
    BY <1>2 DEF SharedInv
  <2>1. /\ Len(log) \in Nat /\ DOMAIN log = 1..Len(log) /\ DOMAIN log' = 1..Len(log) + 1
        /\ log'[Len(log) + 1] = r /\ \A i \in 1..Len(log) : log'[i] = log[i]
    BY <1>2
  <2>2. row \in rows \/ row = new
    BY DEF Pg!Upsert
  <2>3. CASE row = new
    BY <2>1, <2>3
  <2>4. CASE row \in rows
    <3>1. PICK i \in 1..Len(log) : row = Pg!RowOf(log[i])
      BY <2>1, <2>4 DEF SharedInv
    <3> QED
      BY <2>1, <3>1
  <2> QED
    BY <2>2, <2>3, <2>4
<1>12. gpus' \subseteq pgGpus'
  BY <1>2 DEF SharedInv
<1>13. /\ \A row \in Latest(telemetry') : UnrefusedNow(row.gpu) => row \in rows'
       /\ \A i \in DOMAIN telemetry' : UnrefusedNow(telemetry'[i].gpu) =>
             \E row \in rows' : Pg!SameKey(row, Pg!RowOf(telemetry'[i]))
  BY <1>9, <1>10
<1> QED
  BY <1>11, <1>12, <1>13 DEF SharedInv, Latest, Unrefused, ToSet, UnrefusedNow

-----------------------------------------------------------------------------
(* The invariant.                                                          *)

LEMMA InitInv == Init => Inv
<1> SUFFICES ASSUME Init PROVE Inv
  OBVIOUS
<1>1. /\ gpus = {} /\ telemetry = <<>> /\ log = <<>>
      /\ pgGpus = {} /\ rows = {} /\ accepted = <<>> /\ refused = <<>> /\ restarts = 0
  BY DEF Init, Mem!Init, Pg!Init
<1>2. MemInv
  BY SameAssumption, SameMethods, Facts!InitInv DEF Init, MemInv
<1>3. TableInv
  <2>1. IsFiniteSet(rows)
    BY <1>1, FS_EmptySet
  <2> QED
    BY <1>1, <2>1 DEF TableInv, Pg!TypeOK, LastSavedWins, Latest
<1>4. HistoryType
  BY <1>1, StorageAssumption DEF HistoryType, StorageAssumption
<1>5. SharedInv
  BY <1>1 DEF SharedInv, Latest
<1> QED
  BY <1>2, <1>3, <1>4, <1>5 DEF Inv

\* A row more, in the place of those with its key.
LEMMA UpsertTable ==
    ASSUME TableInv, accepted \in Seq(Record), NEW r \in Record,
           pgGpus' = pgGpus, rows' = Pg!Upsert(Pg!RowOf(r)), accepted' = Append(accepted, r)
    PROVE  TableInv'
<1> DEFINE new == Pg!RowOf(r)
           others == {old \in rows : ~Pg!SameKey(old, new)}
<1>1. rows' = others \cup {new}
  BY DEF Pg!Upsert
<1>2. Pg!TypeOK'
  BY <1>1 DEF TableInv, Pg!TypeOK, Pg!RowOf, Pg!Column, Pg!Rounded
<1>3. IsFiniteSet(rows')
  <2>1. others \subseteq rows /\ IsFiniteSet(rows)
    BY DEF TableInv
  <2> HIDE DEF others, new
  <2>2. IsFiniteSet(others \cup {new})
    BY <2>1, FS_Subset, FS_AddElement
  <2> QED
    BY <1>1, <2>2
<1>4. rows' = Latest(accepted')
  BY <1>1, LatestAppend DEF TableInv, LastSavedWins
<1>5. LastSavedWins'
  BY <1>4 DEF LastSavedWins, Latest
<1> QED
  BY <1>2, <1>3, <1>5 DEF TableInv

LEMMA UnchangedTable ==
    ASSUME TableInv, UNCHANGED <<rows, accepted>>, pgGpus' \subseteq Gpu
    PROVE  TableInv'
<1>1. Pg!TypeOK' /\ IsFiniteSet(rows')
  BY DEF TableInv, Pg!TypeOK
<1>2. LastSavedWins'
  BY DEF TableInv, LastSavedWins, Latest
<1> QED
  BY <1>1, <1>2 DEF TableInv

LEMMA InvStep == Inv /\ [Next]_vars => Inv'
<1> SUFFICES ASSUME Inv, [Next]_vars PROVE Inv'
  OBVIOUS
<1>i. MemInv /\ TableInv /\ HistoryType /\ SharedInv
  BY DEF Inv
<1>t. /\ gpus \subseteq Gpu /\ pgGpus \subseteq Gpu
      /\ accepted \in Seq(Record) /\ refused \in Seq(Record)
  BY <1>i DEF MemInv, Facts!StoreInv, Facts!TypeOK, TableInv, Pg!TypeOK, HistoryType
<1>1. ASSUME NEW g \in Gpu, SaveGPU(g) PROVE Inv'
  <2>1. /\ UNCHANGED <<telemetry, log, rows, accepted, refused, restarts>>
        /\ gpus' = gpus \cup {g} /\ pgGpus' = pgGpus \cup {g}
    BY <1>1 DEF SaveGPU, Mem!SaveGPU, Pg!SaveGPU
  <2>2. MemInv'
    BY <1>1, <1>i, SameMethods, Facts!SaveGPUInv DEF SaveGPU, MemInv
  <2>3. TableInv'
    BY <1>i, <1>t, <2>1, UnchangedTable
  <2>4. HistoryType'
    BY <1>i, <2>1 DEF HistoryType
  <2>5. SharedInv'
    BY <1>i, <2>1 DEF SharedInv, Latest, Unrefused, ToSet
  <2> QED
    BY <2>2, <2>3, <2>4, <2>5 DEF Inv
<1>2. ASSUME NEW r \in Record, SaveTelemetry(r) PROVE Inv'
  <2>1. /\ Mem!SaveTelemetry(r) /\ accepted' = Append(accepted, r)
        /\ rows' = Pg!Upsert(Pg!RowOf(r)) /\ UNCHANGED <<pgGpus, refused, restarts>>
    BY <1>2 DEF SaveTelemetry, Pg!SaveTelemetry
  <2>2. MemInv'
    BY <1>i, <2>1, StoreSave
  <2>3. TableInv'
    BY <1>i, <1>t, <2>1, UpsertTable
  <2>4. HistoryType'
    BY <1>i, <1>t, <2>1 DEF HistoryType
  <2>5. SharedInv'
    BY <1>i, <1>t, <2>1, SharedSave
  <2> QED
    BY <2>2, <2>3, <2>4, <2>5 DEF Inv
<1>3. ASSUME NEW r \in Record, SaveRefused(r) PROVE Inv'
  <2>1. /\ Mem!SaveTelemetry(r) /\ refused' = Append(refused, r)
        /\ UNCHANGED <<pgGpus, rows, accepted, restarts>>
    BY <1>3 DEF SaveRefused, Pg!RefuseTelemetry, Pg!vars
  <2>2. MemInv'
    BY <1>i, <2>1, StoreSave
  <2>3. TableInv'
    BY <1>i, <1>t, <2>1, UnchangedTable
  <2>4. HistoryType'
    BY <1>i, <1>t, <2>1 DEF HistoryType
  <2>5. SharedInv'
    BY <1>i, <1>t, <2>1, SharedSave
  <2> QED
    BY <2>2, <2>3, <2>4, <2>5 DEF Inv
<1>4. CASE Restart
  <2>1. /\ gpus' = {} /\ telemetry' = <<>> /\ log' = <<>> /\ Mem!Restart
        /\ restarts < MaxRestarts /\ restarts' = restarts + 1
        /\ UNCHANGED <<pgGpus, rows, accepted, refused>>
    BY <1>4 DEF Restart, Mem!Restart
  <2>2. MemInv'
    BY <2>1, SameAssumption, SameMethods, Facts!RestartInv DEF MemInv
  <2>3. TableInv'
    BY <1>i, <1>t, <2>1, UnchangedTable
  <2>4. HistoryType' /\ restarts' # 0
    BY <1>i, <2>1, StorageAssumption DEF HistoryType, StorageAssumption
  <2>5. SharedInv'
    BY <2>1, <2>4 DEF SharedInv, Latest
  <2> QED
    BY <2>2, <2>3, <2>4, <2>5 DEF Inv
<1>5. CASE UNCHANGED vars
  <2>1. /\ UNCHANGED <<gpus, telemetry, gpuTelemetryIndex, gpusWithTelemetry, log>>
        /\ UNCHANGED <<pgGpus, rows, accepted, refused, restarts>>
    BY <1>5 DEF vars, memVars
  <2>2. MemInv'
    BY <1>i, <1>t, <2>1, Facts!UnchangedInv DEF MemInv
  <2>3. TableInv'
    BY <1>i, <1>t, <2>1, UnchangedTable
  <2>4. HistoryType' /\ SharedInv'
    BY <1>i, <2>1 DEF HistoryType, SharedInv, Latest, Unrefused, ToSet
  <2> QED
    BY <2>2, <2>3, <2>4 DEF Inv
<1> QED
  BY <1>1, <1>2, <1>3, <1>4, <1>5 DEF Next

LEMMA Invariance == Spec => []Inv
BY InitInv, InvStep, PTL DEF Spec

-----------------------------------------------------------------------------
(* Where both are asked the same.                                          *)

\* Of whole microseconds a column keeps the order.
LEMMA WholeColumns ==
    ASSUME NEW t \in Nat, NEW u \in Nat, t % Micro = 0, u % Micro = 0
    PROVE  /\ Pg!Rounded(t) \in Int
           /\ Pg!Rounded(t) <= Pg!Rounded(u) <=> t <= u
<1>1. Micro \in Nat /\ Micro > 0
  BY StorageAssumption DEF StorageAssumption, Pg!PostgresAssumption
<1>2. ASSUME NEW x \in Nat, x % Micro = 0
      PROVE  Pg!Rounded(x) = x \div Micro
  <2>1. ~(2 * (x % Micro) > Micro) /\ 2 * (x % Micro) # Micro
    BY <1>1, <1>2
  <2> QED
    BY <2>1 DEF Pg!Rounded
<1> DEFINE a == t \div Micro
           b == u \div Micro
<1>3. a \in Int /\ b \in Int /\ t = Micro * a /\ u = Micro * b
  BY <1>1
<1> HIDE DEF a, b
<1>4. a <= b => Micro * a <= Micro * b
  BY <1>1, <1>3
<1>5. a > b => Micro * a > Micro * b
  BY <1>1, <1>3
<1>6. a <= b <=> t <= u
  BY <1>1, <1>3, <1>4, <1>5
<1> QED
  BY <1>2, <1>3, <1>6 DEF a, b

\* So a bound in UTC selects the same records by time and by column.
LEMMA SameBounds ==
    ASSUME NEW r \in Record, IsExact(r),
           NEW start \in {t \in Instant : t % Micro = 0} \cup {None},
           NEW end \in {t \in Instant : t % Micro = 0} \cup {None}
    PROVE  Pg!Within(Pg!RowOf(r).column, UTC(start), UTC(end)) <=>
               /\ start = None \/ start <= r.time
               /\ end = None \/ r.time <= end
<1>1. /\ r.time \in Nat /\ r.time % Micro = 0 /\ r.zone = 0
      /\ Instant \subseteq Nat
      /\ \A t \in Instant : None # [time |-> t, zone |-> 0] /\ t # None
  BY StorageAssumption
  DEF StorageAssumption, Mem!StoreAssumption, Pg!PostgresAssumption, IsExact
<1>2. Pg!RowOf(r).column = Pg!Rounded(r.time)
  <2>1. Pg!Rounded(r.time) \in Int
    BY <1>1, WholeColumns
  <2> QED
    BY <1>1, <2>1 DEF Pg!RowOf, Pg!Column
<1>3. ASSUME NEW t \in {t \in Instant : t % Micro = 0} \cup {None}
      PROVE  \/ t = None /\ UTC(t) = None
             \/ /\ t # None /\ UTC(t) # None /\ t \in Nat /\ t % Micro = 0
                /\ Pg!Column(UTC(t)) = Pg!Rounded(t)
  <2>1. CASE t = None
    BY <2>1 DEF UTC
  <2>2. CASE t # None
    <3>1. t \in Nat /\ t % Micro = 0 /\ UTC(t) = [time |-> t, zone |-> 0] /\ UTC(t) # None
      BY <1>1, <2>2 DEF UTC
    <3>2. Pg!Rounded(t) \in Int
      BY <3>1, WholeColumns
    <3> QED
      BY <2>2, <3>1, <3>2 DEF Pg!Column
  <2> QED
    BY <2>1, <2>2
<1>4. UTC(start) = None \/ Pg!RowOf(r).column >= Pg!Column(UTC(start))
         <=> start = None \/ start <= r.time
  <2>1. CASE start = None
    BY <1>3, <2>1
  <2>2. CASE start # None
    <3>1. /\ start \in Nat /\ start % Micro = 0 /\ UTC(start) # None
          /\ Pg!Column(UTC(start)) = Pg!Rounded(start)
      BY <1>3, <2>2
    <3>2. /\ Pg!Rounded(start) \in Int /\ Pg!Rounded(r.time) \in Int
          /\ Pg!Rounded(start) <= Pg!Rounded(r.time) <=> start <= r.time
      BY <1>1, <3>1, WholeColumns
    <3> QED
      BY <1>2, <2>2, <3>1, <3>2
  <2> QED
    BY <2>1, <2>2
<1>5. UTC(end) = None \/ Pg!RowOf(r).column <= Pg!Column(UTC(end))
         <=> end = None \/ r.time <= end
  <2>1. CASE end = None
    BY <1>3, <2>1
  <2>2. CASE end # None
    <3>1. /\ end \in Nat /\ end % Micro = 0 /\ UTC(end) # None
          /\ Pg!Column(UTC(end)) = Pg!Rounded(end)
      BY <1>3, <2>2
    <3>2. Pg!Rounded(r.time) <= Pg!Rounded(end) <=> r.time <= end
      BY <1>1, <3>1, WholeColumns
    <3> QED
      BY <1>2, <2>2, <3>1, <3>2
  <2> QED
    BY <2>1, <2>2
<1> QED
  BY <1>4, <1>5 DEF Pg!Within

LEMMA Agreement == Inv => BackendsAgree
<1> SUFFICES ASSUME Inv, NEW g \in Gpu,
                    \A r \in ToSet(telemetry) : r.gpu = g => IsExact(r),
                    Unrefused(g)
             PROVE  /\ g \in Mem!ListGPUs => g \in Pg!ListGPUs
                    /\ \A start, end \in {t \in Instant : t % Micro = 0} \cup {None} :
                         LET mem == ToSet(Mem!GetTelemetryByGPU(g, start, end))
                             pg == ToSet(Pg!GetTelemetryByGPU(g, UTC(start), UTC(end)))
                         IN  /\ Latest(telemetry) \cap {Pg!RowOf(r) : r \in mem} \subseteq pg
                             /\ \A r \in mem : \E row \in pg : Pg!SameKey(row, Pg!RowOf(r))
                             /\ (telemetry = log /\ restarts = 0) =>
                                   /\ pg \subseteq {Pg!RowOf(r) : r \in mem}
                                   /\ g \in Pg!ListGPUs => g \in Mem!ListGPUs
  BY DEF BackendsAgree, Unrefused
<1>i. MemInv /\ TableInv /\ SharedInv
  BY DEF Inv
<1>1. telemetry \in Seq(Record) /\ \A p \in DOMAIN telemetry : telemetry[p] \in Record
  <2>1. telemetry \in Seq(Record)
    BY <1>i DEF MemInv, Facts!StoreInv, Facts!TypeOK
  <2> QED
    BY <2>1
<1>2. \A p \in DOMAIN telemetry : telemetry[p].gpu = g => IsExact(telemetry[p])
  BY DEF ToSet
<1>3. Mem!ListGPUs = {h \in gpus : \E p \in DOMAIN telemetry : telemetry[p].gpu = h}
  <2>1. Facts!ListGPUs = {h \in gpus : \E r \in Facts!ToSet(telemetry) : r.gpu = h}
    BY <1>i, Facts!ListExact DEF MemInv
  <2> QED
    BY <2>1, SameQueries DEF Facts!ToSet
<1>4. ASSUME NEW p \in DOMAIN telemetry, telemetry[p].gpu = g
      PROVE  \E row \in rows : row.gpu = g /\ Pg!SameKey(row, Pg!RowOf(telemetry[p]))
                               /\ row.column = Pg!RowOf(telemetry[p]).column
  <2>1. PICK row \in rows : Pg!SameKey(row, Pg!RowOf(telemetry[p]))
    BY <1>i, <1>4 DEF SharedInv
  <2>2. Pg!RowOf(telemetry[p]).gpu = g
    BY <1>1, <1>4, RowType
  <2> QED
    BY <2>1, <2>2 DEF Pg!SameKey
<1>5. g \in Mem!ListGPUs => g \in Pg!ListGPUs
  BY <1>i, <1>3, <1>4 DEF Pg!ListGPUs, SharedInv
<1>6. ASSUME NEW start \in {t \in Instant : t % Micro = 0} \cup {None},
             NEW end \in {t \in Instant : t % Micro = 0} \cup {None}
      PROVE  LET mem == ToSet(Mem!GetTelemetryByGPU(g, start, end))
                 pg == ToSet(Pg!GetTelemetryByGPU(g, UTC(start), UTC(end)))
             IN  /\ Latest(telemetry) \cap {Pg!RowOf(r) : r \in mem} \subseteq pg
                 /\ \A r \in mem : \E row \in pg : Pg!SameKey(row, Pg!RowOf(r))
                 /\ (telemetry = log /\ restarts = 0) =>
                       /\ pg \subseteq {Pg!RowOf(r) : r \in mem}
                       /\ g \in Pg!ListGPUs => g \in Mem!ListGPUs
  <2> DEFINE mem == ToSet(Mem!GetTelemetryByGPU(g, start, end))
             pg == ToSet(Pg!GetTelemetryByGPU(g, UTC(start), UTC(end)))
             In(r) == (start = None \/ start <= r.time) /\ (end = None \/ r.time <= end)
  <2>1. mem = {telemetry[p] : p \in {p \in DOMAIN telemetry : telemetry[p].gpu = g /\ In(telemetry[p])}}
    <3>1. start \in Nat \cup {None} /\ end \in Nat \cup {None}
      BY StorageAssumption DEF StorageAssumption, Mem!StoreAssumption
    <3>2. Facts!ToSet(Facts!GetTelemetryByGPU(g, start, end)) =
              {telemetry[p] : p \in Facts!Stored(g, start, end)}
      BY <1>i, <3>1, SameAssumption, Facts!QueryReturns DEF MemInv
    <3>3. mem = Facts!ToSet(Facts!GetTelemetryByGPU(g, start, end))
      BY SameQueries DEF ToSet, Facts!ToSet
    <3> QED
      BY <3>2, <3>3 DEF Facts!Stored
  <2>2. pg = {row \in rows : row.gpu = g /\ Pg!Within(row.column, UTC(start), UTC(end))}
    BY <1>i, TableAnswers DEF TableInv
  <2>3. ASSUME NEW r \in Record, IsExact(r)
        PROVE  Pg!Within(Pg!RowOf(r).column, UTC(start), UTC(end)) <=> In(r)
    BY <2>3, SameBounds
  <2> HIDE DEF mem, pg, In
  <2>4. Latest(telemetry) \cap {Pg!RowOf(r) : r \in mem} \subseteq pg
    <3> SUFFICES ASSUME NEW r \in mem, Pg!RowOf(r) \in Latest(telemetry)
                 PROVE  Pg!RowOf(r) \in pg
      OBVIOUS
    <3>1. r \in Record /\ r.gpu = g /\ In(r) /\ IsExact(r)
      BY <1>1, <1>2, <2>1
    <3>2. Pg!RowOf(r).gpu = g
      BY <3>1, RowType
    <3>3. Pg!RowOf(r) \in rows
      BY <1>i, <3>2 DEF SharedInv
    <3> QED
      BY <2>2, <2>3, <3>1, <3>2, <3>3
  <2>5. \A r \in mem : \E row \in pg : Pg!SameKey(row, Pg!RowOf(r))
    <3> SUFFICES ASSUME NEW r \in mem PROVE \E row \in pg : Pg!SameKey(row, Pg!RowOf(r))
      OBVIOUS
    <3>1. PICK p \in DOMAIN telemetry : r = telemetry[p] /\ r.gpu = g /\ In(r)
      BY <2>1
    <3>2. r \in Record /\ IsExact(r)
      BY <1>1, <1>2, <3>1
    <3>3. PICK row \in rows : /\ row.gpu = g /\ Pg!SameKey(row, Pg!RowOf(r))
                              /\ row.column = Pg!RowOf(r).column
      BY <1>4, <3>1
    <3> QED
      BY <2>2, <2>3, <3>1, <3>2, <3>3
  <2>6. ASSUME telemetry = log, restarts = 0, NEW row \in rows, row.gpu = g
        PROVE  \E p \in DOMAIN telemetry :
                  row = Pg!RowOf(telemetry[p]) /\ telemetry[p].gpu = g /\ IsExact(telemetry[p])
    <3>1. PICK p \in DOMAIN telemetry : row = Pg!RowOf(telemetry[p])
      BY <1>i, <2>6 DEF SharedInv
    <3>2. telemetry[p].gpu = g
      BY <1>1, <2>6, <3>1, RowType
    <3> QED
      BY <1>2, <3>1, <3>2
  <2>7. ASSUME telemetry = log, restarts = 0 PROVE pg \subseteq {Pg!RowOf(r) : r \in mem}
    <3> SUFFICES ASSUME NEW row \in pg PROVE \E r \in mem : row = Pg!RowOf(r)
      OBVIOUS
    <3>1. row \in rows /\ row.gpu = g /\ Pg!Within(row.column, UTC(start), UTC(end))
      BY <2>2
    <3>2. PICK p \in DOMAIN telemetry :
              row = Pg!RowOf(telemetry[p]) /\ telemetry[p].gpu = g /\ IsExact(telemetry[p])
      BY <2>6, <2>7, <3>1
    <3>3. In(telemetry[p])
      BY <1>1, <2>3, <3>1, <3>2
    <3> QED
      BY <2>1, <3>2, <3>3
  <2>8. ASSUME telemetry = log, restarts = 0, g \in Pg!ListGPUs PROVE g \in Mem!ListGPUs
    <3>1. g \in gpus
      BY <1>i, <2>8 DEF SharedInv, Pg!ListGPUs
    <3>2. PICK row \in rows : row.gpu = g
      BY <2>8 DEF Pg!ListGPUs
    <3> QED
      BY <1>3, <2>6, <2>8, <3>1, <3>2
  <2> QED
    BY <2>4, <2>5, <2>7, <2>8 DEF mem, pg
<1> QED
  BY <1>5, <1>6

-----------------------------------------------------------------------------
(* The theorems.                                                           *)

\* Every reachable state of the two repositories is well typed.
THEOREM TypeCorrect == Spec => []TypeOK
<1>1. Inv => TypeOK
  BY SameProperties DEF Inv, MemInv, Facts!StoreInv, TableInv, HistoryType, TypeOK
<1> QED
  BY <1>1, Invariance, PTL

\* The in-memory store never holds more than its limit, and what it holds is
\* the end of what was saved: eviction takes the oldest records, at most its
\* share of them beyond what the new record needs.
THEOREM OldestAreEvicted == Spec => []KeepsTheNewest
<1>1. Inv => KeepsTheNewest
  BY SameProperties, Facts!NewestKept DEF Inv, MemInv, KeepsTheNewest
<1> QED
  BY <1>1, Invariance, PTL

\* A query of the in-memory store returns the stored records it is about, once
\* each and oldest first, and its list names the registered GPUs of which a
\* record is stored: eviction, which moves every record, leaves the index true.
THEOREM QueriesAnswerWhatIsStored == Spec => []QueryExact
<1>1. Inv => QueryExact
  BY SameAssumption, SameProperties, Facts!QueriesExact DEF Inv, MemInv, QueryExact
<1> QED
  BY <1>1, Invariance, PTL

\* The table holds for each key the value accepted last, and nothing else,
\* through repeated saves and restarts of the service.
THEOREM TableHoldsTheLatest == Spec => []LastSavedWins
<1>1. Inv => LastSavedWins
  BY DEF Inv, TableInv
<1> QED
  BY <1>1, Invariance, PTL

\* For records in whole microseconds of UTC that were not refused, the two
\* repositories answer alike: the database all that the in-memory store does,
\* and no more unless that has evicted or restarted.
THEOREM RepositoriesAgree == Spec => []BackendsAgree
BY Agreement, Invariance, PTL
=============================================================================
