------------------------- MODULE SyncCommandProofs -------------------------
(***************************************************************************)
(* What is proved about SyncCommand, and about the chunk plan of           *)
(* EasCollectionStore it saves with, for every value of the constants.     *)
(***************************************************************************)
EXTENDS SyncCommand, FiniteSetTheorems, TLAPS

(* What a save of a held set writes, for any number of items and any size  *)
(* of a chunk row (EasCollectionStore).                                    *)

Below == {ss \in Nat \X Nat : ss[1] < ss[2]}

\* A set of natural numbers has a least one: what stands for induction here.
LEMMA LeastNumber ==
  ASSUME NEW T \in SUBSET Nat, T # {}
  PROVE  \E m \in T : \A k \in T : m <= k
<1>1. IsWellFoundedOn(Below, Nat)
  BY NatLessThanWellFounded DEF OpToRel, Below
<1>2. PICK m \in T : \A k \in T : ~(<<k, m>> \in Below)
  BY <1>1, WFMin
<1>3. ASSUME NEW k \in T, k < m PROVE FALSE
  BY <1>2, <1>3 DEF Below
<1> QED BY <1>3

\* The image of a finite set under a function is no larger.
LEMMA ImageSize ==
  ASSUME NEW S, IsFiniteSet(S), NEW T, NEW f \in [S -> T]
  PROVE  /\ IsFiniteSet({f[x] : x \in S})
         /\ Cardinality({f[x] : x \in S}) <= Cardinality(S)
<1>1. f \in Surjection(S, {f[x] : x \in S})
  BY DEF Surjection
<1> QED BY <1>1, FS_Surjection

\* No chunk row is overfull, and no id is in two.
Sized(c)    == \A i \in ChunkIndex : Cardinality(c[i]) <= HeldChunkSize
Disjoint(c) == \A i, j \in ChunkIndex : i # j => c[i] \cap c[j] = {}

\* What a chunk keeps is its own, and is held.
LEMMA KeptType ==
  ASSUME NEW loaded \in ChunkRows, NEW ids \in SUBSET Items, NEW i \in ChunkIndex
  PROVE  /\ Kept(loaded, ids, i) \subseteq loaded[i] \cap ids
         /\ IsFiniteSet(Kept(loaded, ids, i))
         /\ Cardinality(Kept(loaded, ids, i)) \in Nat
         /\ Cardinality(Kept(loaded, ids, i)) <= Cardinality(loaded[i])
<1>1. IsFiniteSet(loaded[i])
  BY StoreAssumption, FS_Subset DEF ChunkRows
<1>2. Kept(loaded, ids, i) \subseteq loaded[i] \cap ids
  BY DEF Kept
<1> QED BY <1>1, <1>2, FS_Subset, FS_CardinalityType

\* A chunk row has free places between none and a whole row.
LEMMA FreeType ==
  ASSUME NEW loaded \in ChunkRows, NEW ids \in SUBSET Items, NEW i \in ChunkIndex,
         Sized(loaded)
  PROVE  /\ Free(loaded, ids, i) \in 0..HeldChunkSize
         /\ Cardinality(Kept(loaded, ids, i)) + Free(loaded, ids, i) <= HeldChunkSize
<1>1. Cardinality(loaded[i]) \in Nat /\ Cardinality(loaded[i]) <= HeldChunkSize
  BY StoreAssumption, FS_Subset, FS_CardinalityType DEF ChunkRows, Sized
<1>2. CASE loaded[i] # {}
  <2>1. i \in Rows(loaded) /\ ~(i < i)
    BY <1>2, StoreAssumption DEF Rows, ChunkIndex
  <2>2. Free(loaded, ids, i) = HeldChunkSize - Cardinality(Kept(loaded, ids, i))
    BY <1>2, <2>1 DEF Free
  <2>3. /\ Cardinality(Kept(loaded, ids, i)) \in Nat
        /\ Cardinality(Kept(loaded, ids, i)) <= Cardinality(loaded[i])
    BY KeptType
  <2> QED BY <1>1, <2>2, <2>3, StoreAssumption
<1>3. CASE loaded[i] = {}
  <2>1. Kept(loaded, ids, i) = {}
    BY <1>3, KeptType
  <2>2. Cardinality(Kept(loaded, ids, i)) = 0
    BY <2>1, FS_EmptySet
  <2>3. Free(loaded, ids, i) \in {0, HeldChunkSize}
    BY <1>3 DEF Free
  <2> QED BY <2>2, <2>3, StoreAssumption
<1> QED BY <1>2, <1>3

\* The free places before a chunk are those before the one below it and its own.
LEMMA FreeBeforeSums ==
  ASSUME NEW loaded \in ChunkRows, NEW ids \in SUBSET Items, Sized(loaded)
  PROVE  /\ \A i \in 0..(MaxChunk + 1) : FreeBefore(loaded, ids, i) \in Nat
         /\ FreeBefore(loaded, ids, 0) = 0
         /\ \A i \in ChunkIndex :
              FreeBefore(loaded, ids, i + 1) =
                FreeBefore(loaded, ids, i) + Free(loaded, ids, i)
         /\ \A i, j \in ChunkIndex : i < j =>
              FreeBefore(loaded, ids, i) + Free(loaded, ids, i)
                <= FreeBefore(loaded, ids, j)
<1> DEFINE All == ChunkIndex \X (1..HeldChunkSize)
           P(i) == Places(loaded, ids, i)
           free(i) == Free(loaded, ids, i)
<1>1. IsFiniteSet(All)
  <2>1. IsFiniteSet(ChunkIndex) /\ IsFiniteSet(1..HeldChunkSize)
    BY StoreAssumption, FS_Interval DEF ChunkIndex
  <2> QED BY <2>1, FS_Product
<1>2. \A i \in 0..(MaxChunk + 1) : P(i) \subseteq All /\ IsFiniteSet(P(i))
                                    /\ Cardinality(P(i)) \in Nat
  BY <1>1, FS_Subset, FS_CardinalityType DEF Places
<1>3. P(0) = {}
  BY StoreAssumption DEF Places, ChunkIndex
<1>4. ASSUME NEW i \in ChunkIndex
      PROVE  Cardinality(P(i + 1)) = Cardinality(P(i)) + free(i)
  <2>1. free(i) \in 0..HeldChunkSize /\ i \in Nat /\ i \in 0..MaxChunk
    BY FreeType, StoreAssumption DEF ChunkIndex
  <2> DEFINE own == {i} \X (1..free(i))
  <2>2. P(i + 1) = P(i) \cup own
    <3>1. ASSUME NEW s \in P(i + 1) PROVE s \in P(i) \cup own
      <4>1. s \in All /\ s[1] < i + 1 /\ s[2] <= free(s[1])
        BY <3>1 DEF Places
      <4>2. s = <<s[1], s[2]>> /\ s[1] \in 0..MaxChunk /\ s[2] \in 1..HeldChunkSize
        BY <4>1 DEF ChunkIndex
      <4>3. CASE s[1] < i
        BY <4>1, <4>3 DEF Places
      <4>4. CASE s[1] = i
        BY <4>1, <4>2, <4>4, <2>1, StoreAssumption
      <4> QED BY <4>1, <4>2, <4>3, <4>4, <2>1
    <3>2. ASSUME NEW s \in P(i) \cup own PROVE s \in P(i + 1)
      BY <2>1, <3>2, StoreAssumption DEF Places, ChunkIndex
    <3> QED BY <3>1, <3>2
  <2>3. P(i) \cap own = {}
    BY <2>1 DEF Places
  <2>4. IsFiniteSet(own) /\ Cardinality(own) = free(i)
    <3>1. IsFiniteSet({i}) /\ Cardinality({i}) = 1
      BY FS_Singleton
    <3>2. IsFiniteSet(1..free(i)) /\ Cardinality(1..free(i)) = free(i)
      BY <2>1, FS_Interval
    <3>3. IsFiniteSet(own) /\ Cardinality(own) = 1 * free(i)
      BY <3>1, <3>2, FS_Product
    <3> QED BY <3>3, <2>1
  <2>5. IsFiniteSet(P(i)) /\ Cardinality(P(i)) \in Nat
    BY <1>2, <2>1, StoreAssumption
  <2>6. Cardinality(P(i) \cap own) = 0
    BY <2>3, FS_EmptySet
  <2>7. Cardinality(P(i) \cup own) =
          Cardinality(P(i)) + Cardinality(own) - Cardinality(P(i) \cap own)
    BY <2>4, <2>5, FS_Union
  <2> HIDE DEF P, own, free
  <2>8. free(i) \in Int /\ Cardinality(P(i)) \in Int
    BY <2>1, <2>5 DEF free
  <2>9. Cardinality(P(i + 1)) = Cardinality(P(i) \cup own)
    BY <2>2, Zenon
  <2> QED BY <2>4, <2>6, <2>7, <2>8, <2>9
<1>5. ASSUME NEW i \in ChunkIndex, NEW j \in ChunkIndex, i < j
      PROVE  Cardinality(P(i + 1)) <= Cardinality(P(j))
  <2>1. P(i + 1) \subseteq P(j)
    BY <1>5 DEF Places, ChunkIndex
  <2>2. IsFiniteSet(P(j))
    BY <1>2, StoreAssumption DEF ChunkIndex
  <2> HIDE DEF P
  <2> QED BY <2>1, <2>2, FS_Subset
<1>6. \A i \in ChunkIndex : free(i) \in Nat /\ i \in 0..(MaxChunk + 1)
  BY FreeType, StoreAssumption DEF ChunkIndex
<1> HIDE DEF P, free
<1>7. Cardinality(P(0)) = 0
  BY <1>3, FS_EmptySet
<1>8. \A i \in 0..(MaxChunk + 1) : FreeBefore(loaded, ids, i) = Cardinality(P(i))
  BY DEF FreeBefore, P
<1>9. 0 \in 0..(MaxChunk + 1) /\ \A i \in ChunkIndex : i + 1 \in 0..(MaxChunk + 1)
  BY StoreAssumption DEF ChunkIndex
<1> QED BY <1>2, <1>4, <1>5, <1>6, <1>7, <1>8, <1>9 DEF free

-----------------------------------------------------------------------------
(* What a plan places where.                                               *)

\* An order of a set lists its elements, each once.
LEMMA OrderType ==
  ASSUME NEW S, IsFiniteSet(S), NEW order \in SetToSeqs(S)
  PROVE  /\ DOMAIN order = 1..Cardinality(S)
         /\ order \in [1..Cardinality(S) -> S]
         /\ \A m, n \in 1..Cardinality(S) : order[m] = order[n] => m = n
         /\ \A x \in S : \E n \in 1..Cardinality(S) : order[n] = x
<1> DEFINE D == 1..Cardinality(S)
<1>1. order \in [D -> S] /\ \A m, n \in D : m # n => order[m] # order[n]
  BY DEF SetToSeqs
<1>2. Cardinality(S) \in Nat
  BY FS_CardinalityType
<1>3. Cardinality(D) = Cardinality(S)
  BY <1>2, FS_Interval
<1>4. order \in Injection(D, S)
  BY <1>1 DEF Injection, IsInjective
<1>5. order \in Surjection(D, S)
  <2> HIDE DEF D
  <2> QED BY <1>3, <1>4, FS_Injection
<1> QED BY <1>1, <1>5 DEF Surjection

\* The pending ids that a plan places in chunk i.
Placed(loaded, ids, order, i) ==
    {order[k] : k \in {n \in DOMAIN order :
        FreeBefore(loaded, ids, i) < n
        /\ n <= FreeBefore(loaded, ids, i) + Free(loaded, ids, i)}}

\* What a plan puts into a chunk row: what it keeps, and pending ids that fit.
LEMMA PlanParts ==
  ASSUME NEW loaded \in ChunkRows, NEW ids \in SUBSET Items, NEW i \in ChunkIndex,
         NEW order \in SetToSeqs(Pending(loaded, ids))
  PROVE  /\ Plan(loaded, ids, order)[i] =
              Kept(loaded, ids, i) \cup Placed(loaded, ids, order, i)
         /\ Placed(loaded, ids, order, i) \subseteq Pending(loaded, ids)
         /\ IsFiniteSet(Pending(loaded, ids))
<1>1. IsFiniteSet(Pending(loaded, ids))
  BY StoreAssumption, FS_Subset DEF Pending
<1>2. Plan(loaded, ids, order)[i] =
        Kept(loaded, ids, i) \cup Placed(loaded, ids, order, i)
  BY DEF Plan, Placed
<1>3. Placed(loaded, ids, order, i) \subseteq Pending(loaded, ids)
  <2>1. order \in [1..Cardinality(Pending(loaded, ids)) -> Pending(loaded, ids)]
    BY <1>1, OrderType
  <2> QED BY <2>1 DEF Placed
<1> QED BY <1>1, <1>2, <1>3

\* Every id that a chunk row had and that is still held stays in one.
LEMMA KeptCovers ==
  ASSUME NEW loaded \in ChunkRows, NEW ids \in SUBSET Items,
         NEW x \in ids, NEW j \in ChunkIndex, x \in loaded[j]
  PROVE  \E i \in ChunkIndex : x \in Kept(loaded, ids, i)
<1> DEFINE T == {i \in Nat : i \in ChunkIndex /\ x \in loaded[i]}
<1>1. PICK i \in T : \A k \in T : i <= k
  <2>1. T \subseteq Nat /\ j \in T
    BY StoreAssumption DEF ChunkIndex
  <2> HIDE DEF T
  <2> QED BY <2>1, LeastNumber
<1>2. ASSUME NEW k \in 0..(i - 1) PROVE x \notin loaded[k]
  BY <1>1, <1>2, StoreAssumption DEF ChunkIndex
<1>3. x \in Kept(loaded, ids, i)
  BY <1>1, <1>2 DEF Kept
<1> QED BY <1>1, <1>3

\* Every pending id has a place.
LEMMA PlacedCovers ==
  ASSUME NEW loaded \in ChunkRows, NEW ids \in SUBSET Items, Sized(loaded),
         Fits(loaded, ids), NEW order \in SetToSeqs(Pending(loaded, ids)),
         NEW x \in Pending(loaded, ids)
  PROVE  \E i \in ChunkIndex : x \in Placed(loaded, ids, order, i)
<1> DEFINE F(i) == FreeBefore(loaded, ids, i)
<1>1. IsFiniteSet(Pending(loaded, ids)) /\ Cardinality(Pending(loaded, ids)) \in Nat
  BY StoreAssumption, FS_Subset, FS_CardinalityType DEF Pending
<1>2. PICK n \in 1..Cardinality(Pending(loaded, ids)) : order[n] = x
  BY <1>1, OrderType
<1>3. n \in DOMAIN order
  BY <1>1, <1>2, OrderType
<1> DEFINE T == {i \in Nat : i \in 0..(MaxChunk + 1) /\ n <= F(i)}
<1>4. MaxChunk + 1 \in T
  <2>1. n \in Nat /\ Cardinality(Pending(loaded, ids)) <= F(MaxChunk + 1)
    BY <1>1, <1>2 DEF Fits
  <2>2. MaxChunk + 1 \in Nat /\ MaxChunk + 1 \in 0..(MaxChunk + 1)
    BY StoreAssumption
  <2>3. F(MaxChunk + 1) \in Nat
    BY <2>2, FreeBeforeSums
  <2> HIDE DEF F
  <2> QED BY <1>1, <1>2, <2>1, <2>2, <2>3
<1>5. PICK m \in T : \A k \in T : m <= k
  <2> HIDE DEF F
  <2> QED BY <1>4, LeastNumber
<1>6. m # 0
  BY <1>1, <1>2, <1>5, FreeBeforeSums
<1>7. m - 1 \in ChunkIndex /\ m - 1 \notin T
  BY <1>5, <1>6, StoreAssumption DEF ChunkIndex
<1>8. F(m - 1) < n /\ n <= F(m - 1) + Free(loaded, ids, m - 1)
  <2>1. F(m - 1) \in Nat /\ ~(n <= F(m - 1))
    <3>1. m - 1 \in 0..(MaxChunk + 1) /\ m - 1 \in Nat
      BY <1>7, StoreAssumption DEF ChunkIndex
    <3>2. F(m - 1) \in Nat
      BY <3>1, FreeBeforeSums
    <3> HIDE DEF F
    <3> QED BY <1>7, <3>1, <3>2
  <2>2. F((m - 1) + 1) = F(m - 1) + Free(loaded, ids, m - 1)
    BY <1>7, FreeBeforeSums
  <2>3. n <= F(m) /\ (m - 1) + 1 = m /\ n \in Int
    BY <1>1, <1>2, <1>5
  <2> HIDE DEF F
  <2> QED BY <2>1, <2>2, <2>3
<1>9. order[n] \in Placed(loaded, ids, order, m - 1)
  BY <1>3, <1>8 DEF Placed
<1> QED BY <1>2, <1>7, <1>9

\* A plan that fits loses nothing and adds nothing: its chunk rows together hold
\* exactly the set that is saved.
THEOREM PlanCovers ==
  ASSUME NEW loaded \in ChunkRows, NEW ids \in SUBSET Items, Sized(loaded),
         Fits(loaded, ids), NEW order \in SetToSeqs(Pending(loaded, ids))
  PROVE  UNION {Plan(loaded, ids, order)[i] : i \in ChunkIndex} = ids
<1> DEFINE plan == Plan(loaded, ids, order)
<1>1. ASSUME NEW i \in ChunkIndex PROVE plan[i] \subseteq ids
  <2>1. Kept(loaded, ids, i) \subseteq ids
    BY KeptType
  <2>2. Placed(loaded, ids, order, i) \subseteq ids
    BY PlanParts DEF Pending
  <2> QED BY <2>1, <2>2, PlanParts
<1>2. ASSUME NEW x \in ids PROVE \E i \in ChunkIndex : x \in plan[i]
  <2>1. CASE x \in Pending(loaded, ids)
    BY <2>1, PlacedCovers, PlanParts
  <2>2. CASE x \notin Pending(loaded, ids)
    <3>1. PICK j \in ChunkIndex : x \in loaded[j]
      BY <2>2 DEF Pending
    <3> QED BY <3>1, KeptCovers, PlanParts
  <2> QED BY <2>1, <2>2
<1> QED BY <1>1, <1>2

\* A plan puts no id into two chunk rows, and none into a row that another one was
\* loaded with: so the rows are disjoint also while they are written one by one.
THEOREM PlanDisjoint ==
  ASSUME NEW loaded \in ChunkRows, NEW ids \in SUBSET Items, Sized(loaded),
         NEW order \in SetToSeqs(Pending(loaded, ids)),
         NEW i \in ChunkIndex, NEW j \in ChunkIndex, i < j
  PROVE  /\ Plan(loaded, ids, order)[i] \cap Plan(loaded, ids, order)[j] = {}
         /\ Disjoint(loaded) => /\ Plan(loaded, ids, order)[i] \cap loaded[j] = {}
                                /\ Plan(loaded, ids, order)[j] \cap loaded[i] = {}
<1>1. i \in Nat /\ j \in Nat /\ i \in 0..(j - 1)
  BY StoreAssumption DEF ChunkIndex
<1>2. Kept(loaded, ids, i) \cap Kept(loaded, ids, j) = {}
  BY <1>1 DEF Kept
<1>3. \A k \in ChunkIndex : Pending(loaded, ids) \cap loaded[k] = {}
  BY DEF Pending
<1>4. Placed(loaded, ids, order, i) \cap Placed(loaded, ids, order, j) = {}
  <2> SUFFICES ASSUME NEW x \in Placed(loaded, ids, order, i),
                      x \in Placed(loaded, ids, order, j)
               PROVE  FALSE
    OBVIOUS
  <2> DEFINE fi == FreeBefore(loaded, ids, i)
             fj == FreeBefore(loaded, ids, j)
             gi == Free(loaded, ids, i)
             D  == 1..Cardinality(Pending(loaded, ids))
  <2>1. IsFiniteSet(Pending(loaded, ids))
    BY PlanParts
  <2>2. DOMAIN order = D /\ \A m, n \in D : order[m] = order[n] => m = n
    BY <2>1, OrderType
  <2>3. PICK m \in D : order[m] = x /\ m <= fi + gi
    BY <2>2 DEF Placed
  <2>4. PICK n \in D : order[n] = x /\ fj < n
    BY <2>2 DEF Placed
  <2>5. m = n /\ m \in Int
    BY <2>2, <2>3, <2>4, <2>1, FS_CardinalityType
  <2>6. fi + gi <= fj /\ fj \in Nat /\ fi \in Nat
    BY <1>1, FreeBeforeSums, StoreAssumption DEF ChunkIndex
  <2>7. gi \in Nat
    BY FreeType, StoreAssumption
  <2> HIDE DEF fi, fj, gi, D
  <2> QED BY <2>3, <2>4, <2>5, <2>6, <2>7
<1>5. \A k \in {i, j} : /\ Plan(loaded, ids, order)[k] =
                              Kept(loaded, ids, k) \cup Placed(loaded, ids, order, k)
                        /\ Kept(loaded, ids, k) \subseteq loaded[k]
                        /\ Placed(loaded, ids, order, k) \subseteq Pending(loaded, ids)
  BY PlanParts, KeptType
<1>6. Disjoint(loaded) => loaded[i] \cap loaded[j] = {}
  BY <1>1 DEF Disjoint
<1> QED BY <1>2, <1>3, <1>4, <1>5, <1>6

\* A plan overfills no chunk row.
THEOREM PlanSized ==
  ASSUME NEW loaded \in ChunkRows, NEW ids \in SUBSET Items, Sized(loaded),
         NEW order \in SetToSeqs(Pending(loaded, ids))
  PROVE  Sized(Plan(loaded, ids, order))
<1> SUFFICES ASSUME NEW i \in ChunkIndex
             PROVE  Cardinality(Plan(loaded, ids, order)[i]) <= HeldChunkSize
  BY DEF Sized
<1> DEFINE f == FreeBefore(loaded, ids, i)
           g == Free(loaded, ids, i)
           W == {n \in DOMAIN order : f < n /\ n <= f + g}
           kept == Kept(loaded, ids, i)
           placed == Placed(loaded, ids, order, i)
<1>1. g \in Nat /\ Cardinality(kept) + g <= HeldChunkSize
  BY FreeType, StoreAssumption
<1>2. IsFiniteSet(kept) /\ Cardinality(kept) \in Nat
  BY KeptType
<1>3. f \in Nat
  <2>1. i \in 0..(MaxChunk + 1)
    BY StoreAssumption DEF ChunkIndex
  <2> QED BY <2>1, FreeBeforeSums
<1>4. IsFiniteSet(placed) /\ Cardinality(placed) \in Nat /\ Cardinality(placed) <= g
  <2>1. IsFiniteSet((f + 1)..(f + g)) /\ Cardinality((f + 1)..(f + g)) = g
    <3> HIDE DEF f, g
    <3> QED BY <1>1, <1>3, FS_Interval
  <2>2. /\ DOMAIN order = 1..Cardinality(Pending(loaded, ids))
        /\ Cardinality(Pending(loaded, ids)) \in Nat
        /\ order \in [DOMAIN order -> Pending(loaded, ids)]
    BY PlanParts, OrderType, FS_CardinalityType
  <2>3. W \subseteq (f + 1)..(f + g)
    <3> HIDE DEF f, g
    <3> QED BY <1>1, <1>3, <2>2
  <2>4. IsFiniteSet(W) /\ Cardinality(W) <= g
    <3> HIDE DEF W, f, g
    <3> QED BY <2>1, <2>3, FS_Subset
  <2>5. placed = {order[k] : k \in W}
    BY DEF Placed
  <2> DEFINE o == [k \in W |-> order[k]]
  <2>6. o \in [W -> Pending(loaded, ids)] /\ placed = {o[k] : k \in W}
    BY <2>2, <2>5
  <2>7. /\ IsFiniteSet({o[k] : k \in W})
        /\ Cardinality({o[k] : k \in W}) <= Cardinality(W)
    <3> HIDE DEF o, W
    <3> QED BY <2>4, <2>6, ImageSize
  <2>8. IsFiniteSet(placed) /\ Cardinality(placed) <= Cardinality(W)
    BY <2>6, <2>7, Zenon
  <2>9. Cardinality(placed) \in Nat /\ Cardinality(W) \in Nat
    BY <2>4, <2>8, FS_CardinalityType
  <2> HIDE DEF placed, W, g
  <2> QED BY <1>1, <2>4, <2>8, <2>9
<1>5. Plan(loaded, ids, order)[i] = kept \cup placed
  BY PlanParts
<1>6. Cardinality(kept \cup placed) <= Cardinality(kept) + Cardinality(placed)
  <2>1. /\ Cardinality(kept \cup placed) =
             Cardinality(kept) + Cardinality(placed) - Cardinality(kept \cap placed)
        /\ Cardinality(kept \cap placed) \in Nat
    <3> HIDE DEF kept, placed
    <3> QED BY <1>2, <1>4, FS_Union, FS_Intersection, FS_CardinalityType
  <2> HIDE DEF kept, placed
  <2> QED BY <1>2, <1>4, <2>1
<1>7. IsFiniteSet(kept \cup placed) /\ Cardinality(kept \cup placed) \in Nat
  <2> HIDE DEF kept, placed
  <2> QED BY <1>2, <1>4, FS_Union, FS_CardinalityType
<1>8. Cardinality(Plan(loaded, ids, order)[i]) = Cardinality(kept \cup placed)
  BY <1>5, Zenon
<1> HIDE DEF kept, placed, g
<1> QED BY <1>1, <1>2, <1>4, <1>6, <1>7, <1>8, StoreAssumption

\* A plan is chunk rows.
LEMMA PlanRows ==
  ASSUME NEW loaded \in ChunkRows, NEW ids \in SUBSET Items,
         NEW order \in SetToSeqs(Pending(loaded, ids))
  PROVE  Plan(loaded, ids, order) \in ChunkRows
<1>1. ASSUME NEW i \in ChunkIndex PROVE Plan(loaded, ids, order)[i] \subseteq Items
  <2>1. Kept(loaded, ids, i) \subseteq Items
    BY KeptType
  <2>2. Placed(loaded, ids, order, i) \subseteq Items
    BY PlanParts DEF Pending
  <2> QED BY <2>1, <2>2, PlanParts
<1>2. Plan(loaded, ids, order) = [i \in ChunkIndex |-> Plan(loaded, ids, order)[i]]
  BY DEF Plan
<1> QED BY <1>1, <1>2 DEF ChunkRows

-----------------------------------------------------------------------------
(* The invariant of the rounds.                                            *)

\* A request in the server asks with a key from which a next one can be issued,
\* what continues a round asks with a key that was issued, and what is saved and
\* answered with Status 1 is an issued key.
KeyInReach ==
    \A r \in Reqs :
        /\ pc[r] \in {"sent"} \cup Working => generation(req[r].key) < MaxGen
        /\ pc[r] \in Working \ {"locked", "truncate", "restart"} => req[r].key \in Keys
        /\ pc[r] \in {"save", "clear", "chunk", "final"} => round[r].key \in Keys
        /\ reply[r].status = 1 => reply[r].key \in Keys

\* With one lease for all copies, one round is at work.
OneHolder ==
    Exclusive => \A q, r \in Reqs : pc[q] \in Working /\ pc[r] \in Working => q = r

\* While chunk rows are being written, the state row matches no key.
UnkeyedWhileWriting ==
    Exclusive => \A r \in Reqs : pc[r] \in {"clear", "chunk"} => MatchesNoKey

IInv == TypeOK /\ KeyInReach /\ OneHolder /\ UnkeyedWhileWriting

-----------------------------------------------------------------------------
(* The sentinels and the initial records are of their types.               *)
LEMMA Sentinels ==
    /\ StartKey \in Keys
    /\ NoCommand \in Commands
    /\ NoRound \in Rounds
    /\ NoState \in States
    /\ NoChunks \in ChunkRows
    /\ NoRequest \in Requests
    /\ NoWork \in Works
    /\ NoReply \in Replies
<1>1. StartKey \in Keys
  BY SyncAssumption, SMT DEF StartKey, Keys
<1>2. NoCommand \in Commands
  BY DEF NoCommand, Commands
<1>3. NoRound \in Rounds
  BY DEF NoRound, Rounds
<1>4. NoState \in States
  BY <1>3 DEF NoState, States
<1>5. NoChunks \in ChunkRows
  BY DEF NoChunks, ChunkRows
<1>6. NoRequest \in Requests
  BY <1>2 DEF NoRequest, Requests
<1>7. NoWork \in Works
  BY <1>4, <1>5 DEF NoWork, Works
<1>8. NoReply \in Replies
  BY DEF NoReply, Answered, Replies
<1> QED
  BY <1>1, <1>2, <1>3, <1>4, <1>5, <1>6, <1>7, <1>8
-----------------------------------------------------------------------------
(* Types of what the helpers return.                                       *)

\* loadHeldSet returns items, whether they are on the row or in chunk rows.
LEMMA HeldType ==
  ASSUME NEW chunked \in BOOLEAN, NEW ids \in SUBSET Items, NEW c \in ChunkRows
  PROVE  LoadHeldSet(chunked, ids, c) \in SUBSET Items
BY DEF LoadHeldSet, ChunkRows

\* An answer without changes is a reply, whatever its status and key.
LEMMA AnswerType ==
  ASSUME NEW status \in {1, 3, 5, 16}, NEW key \in Keys \cup {Zero, Blank}
  PROVE  Answered(status, key) \in Replies
BY DEF Answered, Replies

\* The row a round saves is a state row, if the round and the request are typed.
LEMMA SavedRowType ==
  ASSUME TypeOK, NEW r \in Reqs, req[r].key \in Keys
  PROVE  SavedRow(r) \in States
<1>1. round[r] \in Works
  BY DEF TypeOK
<1> DEFINE w == round[r]
           inline == StaysInline(w.stored.chunked, w.serverIds)
<1>2. /\ w.key \in Keys \cup {Blank} /\ w.serverIds \in SUBSET Items
      /\ w.base \in SUBSET Items /\ w.filter \in Filters \cup {Nil}
      /\ w.clientIds \in SUBSET (ClientIds \X Items)
  BY <1>1 DEF Works
<1>3. SavedRow(r).previous \in Rounds
  BY <1>2 DEF SavedRow, Rounds
<1>4. inline \in BOOLEAN
  BY DEF StaysInline
<1> QED
  BY <1>2, <1>3, <1>4 DEF SavedRow, States

\* What a handler knows after it has loaded the held set is typed.
LEMMA LoadedWorkType ==
  ASSUME NEW w \in Works, NEW c \in ChunkRows, NEW base \in SUBSET Items,
         NEW retry \in BOOLEAN, NEW filter \in Filters \cup {Nil}
  PROVE  [w EXCEPT !.loaded = c, !.base = base, !.serverIds = base,
                   !.retry = retry, !.filter = filter] \in Works
BY DEF Works

\* What a handler knows after the enumeration is typed.
LEMMA EnumeratedWorkType ==
  ASSUME NEW w \in Works, NEW ids \in SUBSET Items, NEW adds \in SUBSET Items,
         NEW dels \in SUBSET Items, NEW key \in Keys
  PROVE  [w EXCEPT !.serverIds = ids, !.adds = adds, !.dels = dels,
                   !.key = key] \in Works
BY DEF Works

-----------------------------------------------------------------------------
(* Every step preserves the types.                                         *)
\* What the device does keeps the types: it only ever uses keys it was given.
LEMMA ClientKeepsTypes ==
  ASSUME TypeOK, KeyInReach, Client
  PROVE  TypeOK'
<1> USE Sentinels DEF TypeOK, store, rows
<1>1. ASSUME NEW c \in Commands, Edit(c) PROVE TypeOK'
  <2>1. c.kind = "Add" => c.on \in ClientIds
    BY DEF Commands, NoCommand
  <2>2. device \in Devices
    OBVIOUS
  <2>3. device' \in Devices
    BY <1>1, <2>1, <2>2 DEF Edit, Devices
  <2> QED BY <1>1, <2>3 DEF Edit
<1>2. CASE StartOver
  <2>1. device' \in Devices
    BY <1>2 DEF StartOver, Devices
  <2> QED BY <1>2, <2>1 DEF StartOver
<1>3. ASSUME NEW r \in Reqs, Receive(r) PROVE TypeOK'
  <2>1. reply[r] \in Replies /\ device \in Devices
    OBVIOUS
  <2>2. reply[r].status = 1 => reply[r].key \in Keys
    BY DEF KeyInReach
  <2>3. device' \in Devices
    <3> DEFINE kept == IF device.command.kind = "Delete" /\ reply[r].ok
                       THEN device.held \ {device.command.on} ELSE device.held
               held == ((kept \cup reply[r].created) \ reply[r].dels)
                         \cup reply[r].adds
    <3>1. held \in SUBSET Items
      BY <2>1 DEF Devices, Replies
    <3> HIDE DEF held
    <3>2. CASE reply[r].status = 1
      <4>1. device' = [device EXCEPT !.key = reply[r].key, !.waits = Nil,
                                     !.command = NoCommand, !.held = held]
        BY <1>3, <3>2 DEF Receive, held
      <4> QED BY <2>1, <2>2, <3>1, <3>2, <4>1 DEF Devices
    <3>3. CASE reply[r].status = 3
      <4>1. device' = [device EXCEPT !.key = Zero, !.held = {}, !.waits = Nil,
                                     !.command = NoCommand]
        BY <1>3, <3>3 DEF Receive
      <4>2. NoCommand \in Commands /\ {} \in SUBSET Items
        BY DEF Commands
      <4> QED BY <2>1, <4>1, <4>2 DEF Devices
    <3>4. CASE reply[r].status \notin {1, 3}
      <4>1. device' = [device EXCEPT !.waits = Nil]
        BY <1>3, <3>4 DEF Receive
      <4> QED BY <2>1, <4>1 DEF Devices
    <3> QED BY <3>2, <3>3, <3>4
  <2> QED BY <1>3, <2>3 DEF Receive
<1>4. ASSUME NEW r \in Reqs, Lose(r) PROVE TypeOK'
  BY <1>4 DEF Lose
<1>5. ASSUME NEW r \in Reqs, GiveUp(r) PROVE TypeOK'
  <2>1. device' \in Devices
    BY <1>5 DEF GiveUp, Devices
  <2>2. lost' \in 0..MaxLost
    BY <1>5, SyncAssumption DEF GiveUp
  <2> QED BY <1>5, <2>1, <2>2 DEF GiveUp
<1>6. ASSUME NEW r \in Reqs, NEW f \in Filters \cup {Nil}, Send(r, f) PROVE TypeOK'
  <2>1. device' \in Devices
    BY <1>6 DEF Send, Devices
  <2>2. req' \in [Reqs -> Requests]
    BY <1>6 DEF Send, Devices, Requests
  <2> QED BY <1>6, <2>1, <2>2 DEF Send
<1> QED BY <1>1, <1>2, <1>3, <1>4, <1>5, <1>6 DEF Client

\* The steps of a handler up to the enumeration.
LEMMA RoundKeepsTypes ==
  ASSUME TypeOK, KeyInReach, NEW r \in Reqs,
         Acquire(r) \/ LeaseTimeout(r) \/ ReadRow(r) \/ LoadHeld(r) \/ LoadFails(r)
           \/ Apply(r) \/ Enumerate(r)
  PROVE  TypeOK'
<1> USE Sentinels DEF TypeOK, store, rows, Working, Saving
<1>1. CASE Acquire(r)
  BY <1>1 DEF Acquire, LeaveLine
<1>2. CASE LeaseTimeout(r)
  <2>1. Answered(16, req[r].key) \in Replies
    BY AnswerType DEF Requests
  <2> QED BY <1>2, <2>1 DEF LeaseTimeout, LeaveLine, AnswerWith
<1>3. CASE ReadRow(r)
  <2>1. [round[r] EXCEPT !.stored = row] \in Works
    BY DEF Works
  <2> QED BY <1>3, <2>1 DEF ReadRow
<1>4. CASE LoadHeld(r)
  <2> DEFINE state == round[r].stored
             key == req[r].key
             held == LoadHeldSet(state.chunked, state.serverIds, chunks)
             base == BaseSet(key, state, held)
  <2>1. state \in States /\ req[r] \in Requests /\ round[r] \in Works
    BY DEF Works
  <2>2. held \in SUBSET Items
    BY <2>1, HeldType DEF States
  <2>3. base \in SUBSET Items
    BY <2>1, <2>2 DEF BaseSet, States, Rounds
  <2>4. CASE AnswerWith(r, Answered(3, Blank)) /\ Ends(r)
    BY <1>4, <2>4, AnswerType DEF LoadHeld, AnswerWith, Ends
  <2>5. CASE ~(AnswerWith(r, Answered(3, Blank)) /\ Ends(r))
    <3> DEFINE w == [round[r] EXCEPT
                       !.loaded = IF state.chunked THEN chunks ELSE NoChunks,
                       !.base = base,
                       !.serverIds = base,
                       !.retry = IsRetry(key, state),
                       !.filter = IF req[r].filter = Nil THEN state.filter
                                  ELSE req[r].filter]
    <3>1. /\ round' = [round EXCEPT ![r] = w]
          /\ pc' = [pc EXCEPT ![r] = "apply"]
          /\ UNCHANGED <<stale, reply>>
      BY <1>4, <2>5 DEF LoadHeld
    <3>2. IsRetry(key, state) \in BOOLEAN
      BY <2>1 DEF IsRetry, States
    <3>3. state.filter \in Filters \cup {Nil} /\ req[r].filter \in Filters \cup {Nil}
      BY <2>1 DEF States, Requests
    <3>4. (IF state.chunked THEN chunks ELSE NoChunks) \in ChunkRows
      OBVIOUS
    <3>5. (IF req[r].filter = Nil THEN state.filter ELSE req[r].filter)
              \in Filters \cup {Nil}
      BY <3>3
    <3>6. w \in Works
      <4> DEFINE c == IF state.chunked THEN chunks ELSE NoChunks
                 retry == IsRetry(key, state)
                 filter == IF req[r].filter = Nil THEN state.filter ELSE req[r].filter
      <4>1. /\ round[r] \in Works /\ base \in SUBSET Items /\ c \in ChunkRows
            /\ retry \in BOOLEAN /\ filter \in Filters \cup {Nil}
        BY <2>1, <2>3, <3>2, <3>4, <3>5
      <4>2. [round[r] EXCEPT !.loaded = c, !.base = base, !.serverIds = base,
                             !.retry = retry, !.filter = filter] \in Works
        <5> HIDE DEF c, retry, filter, base
        <5> QED BY <4>1, LoadedWorkType
      <4> QED BY <4>2
    <3> QED BY <1>4, <3>1, <3>6 DEF LoadHeld
  <2> QED BY <2>4, <2>5
<1>5. CASE LoadFails(r)
  <2>1. Answered(5, req[r].key) \in Replies
    BY AnswerType DEF Requests
  <2>2. faults' \in 0..MaxFaults
    BY <1>5, SyncAssumption DEF LoadFails
  <2> QED BY <1>5, <2>1, <2>2 DEF LoadFails, AnswerWith, Ends
<1>6. CASE Apply(r)
  <2>1. ASSUME NEW ids \in SUBSET Items, NEW ok \in BOOLEAN,
               NEW clientIds \in SUBSET (ClientIds \X Items)
        PROVE  [round[r] EXCEPT !.serverIds = ids, !.ok = ok,
                                !.clientIds = clientIds] \in Works
    BY DEF Works
  <2>2. /\ round[r].serverIds \in SUBSET Items
        /\ round[r].stored.previous.clientIds \in SUBSET (ClientIds \X Items)
    BY DEF Works, States, Rounds
  <2>3. req[r].command \in Commands
    BY DEF Requests
  <2>4. CASE NothingToApply(r)
    BY <2>1, <2>2, <2>4 DEF NothingToApply, Applied
  <2>5. CASE ReplayAdd(r)
    <3>1. PICK p \in Replayed(r, req[r].command.on) :
             Applied(r, IF folder[p[2]] # "gone" THEN round[r].serverIds \cup {p[2]}
                        ELSE round[r].serverIds, TRUE, {p})
      BY <2>5 DEF ReplayAdd
    <3>2. p \in ClientIds \X Items
      BY <2>2 DEF Replayed
    <3>3. (IF folder[p[2]] # "gone" THEN round[r].serverIds \cup {p[2]}
           ELSE round[r].serverIds) \in SUBSET Items
      BY <2>2, <3>2
    <3>4. UNCHANGED store
      BY <2>5 DEF ReplayAdd
    <3> QED BY <2>1, <3>1, <3>2, <3>3, <3>4 DEF Applied
  <2>6. CASE ApplyAdd(r)
    <3>1. req[r].command.on \in ClientIds
      BY <2>3, <2>6 DEF ApplyAdd, Commands, NoCommand
    <3>2. PICK i \in Items :
            /\ folder' = [folder EXCEPT ![i] = "in"]
            /\ author' = [author EXCEPT ![i] = req[r].command.on]
            /\ Applied(r, round[r].serverIds \cup {i}, TRUE, {<<req[r].command.on, i>>})
      BY <2>6 DEF ApplyAdd
    <3>3. /\ folder' \in [Items -> {"none", "in", "moved", "gone"}]
          /\ author' \in [Items -> ClientIds \cup {Nil}]
      BY <3>1, <3>2
    <3>4. /\ round[r].serverIds \cup {i} \in SUBSET Items
          /\ {<<req[r].command.on, i>>} \in SUBSET (ClientIds \X Items)
      BY <2>2, <3>1
    <3> QED BY <2>1, <3>2, <3>3, <3>4 DEF Applied
  <2>7. CASE ApplyChange(r)
    <3>1. req[r].command.on \in Items
      BY <2>3, <2>7 DEF ApplyChange, Commands, NoCommand
    <3>2. round[r].serverIds \cup {req[r].command.on} \in SUBSET Items
      BY <2>2, <3>1
    <3> QED BY <2>1, <2>7, <3>2 DEF ApplyChange, Applied
  <2>8. CASE ApplyDelete(r)
    <3>1. round[r].serverIds \ {req[r].command.on} \in SUBSET Items
      BY <2>2
    <3>2. folder' \in [Items -> {"none", "in", "moved", "gone"}]
      BY <2>8 DEF ApplyDelete
    <3> QED BY <2>1, <2>8, <3>1, <3>2 DEF ApplyDelete, Applied
  <2>9. CASE DeleteAbsent(r)
    <3> DEFINE done == /\ round[r].retry
                       /\ req[r].command.on \in round[r].stored.previous.removed
               ids == IF done THEN round[r].serverIds \ {req[r].command.on}
                      ELSE round[r].serverIds
    <3>1. Applied(r, ids, done, {}) /\ UNCHANGED store
      BY <2>9 DEF DeleteAbsent
    <3>2. ids \in SUBSET Items /\ done \in BOOLEAN
      BY <2>2 DEF Works
    <3> HIDE DEF done, ids
    <3> QED BY <2>1, <3>1, <3>2 DEF Applied
  <2>10. CASE RefuseCommand(r)
    BY <2>1, <2>2, <2>10 DEF RefuseCommand, Applied
  <2> QED BY <1>6, <2>4, <2>5, <2>6, <2>7, <2>8, <2>9, <2>10 DEF Apply
<1>7. CASE Enumerate(r)
  <2>1. req[r].key \in Keys /\ generation(req[r].key) < MaxGen
    BY <1>7 DEF Enumerate, KeyInReach
  <2>2. PICK adds \in SUBSET (InFolder \ round[r].serverIds),
             dels \in SUBSET (round[r].serverIds \ InFolder),
             at \in cursor(req[r].key)..MaxCursor :
          LET ids == (round[r].serverIds \cup adds) \ dels
          IN  /\ round' = [round EXCEPT ![r] =
                   [@ EXCEPT !.serverIds = ids, !.adds = adds, !.dels = dels,
                             !.key = <<generation(req[r].key) + 1, at>>]]
              /\ pc' = [pc EXCEPT ![r] =
                   IF StaysInline(round[r].stored.chunked, ids) THEN "final"
                   ELSE "save"]
    BY <1>7 DEF Enumerate
  <2>3. <<generation(req[r].key) + 1, at>> \in Keys
    BY <2>1, SyncAssumption DEF Keys, generation, cursor
  <2>4. [round[r] EXCEPT !.serverIds = (round[r].serverIds \cup adds) \ dels,
                         !.adds = adds, !.dels = dels,
                         !.key = <<generation(req[r].key) + 1, at>>] \in Works
    <3> DEFINE ids == (round[r].serverIds \cup adds) \ dels
               key == <<generation(req[r].key) + 1, at>>
    <3>1. /\ round[r] \in Works /\ ids \in SUBSET Items /\ key \in Keys
          /\ adds \in SUBSET Items /\ dels \in SUBSET Items
      BY <2>3 DEF InFolder, Works
    <3>2. [round[r] EXCEPT !.serverIds = ids, !.adds = adds, !.dels = dels,
                           !.key = key] \in Works
      <4> HIDE DEF ids, key
      <4> QED BY <3>1, EnumeratedWorkType
    <3> QED BY <3>2
  <2> QED BY <1>7, <2>2, <2>4 DEF Enumerate
<1> QED BY <1>1, <1>2, <1>3, <1>4, <1>5, <1>6, <1>7

\* What other handlers have read is marked by chunk indices and the row's mark.
LEMMA StaleType ==
  ASSUME TypeOK, NEW r \in Reqs, NEW objects \in SUBSET (ChunkIndex \cup {RowMark}),
         Outdates(r, objects) \/ EndsOutdating(r, objects)
  PROVE  stale' \in [Reqs -> SUBSET (ChunkIndex \cup {RowMark})]
BY DEF TypeOK, Outdates, EndsOutdating

\* The steps of a save, and the faults.
LEMMA SaveKeepsTypes ==
  ASSUME TypeOK, KeyInReach, NEW r \in Reqs, Save(r) \/ WriteFails(r) \/ Die(r)
  PROVE  TypeOK'
<1> USE Sentinels DEF TypeOK, store, rows, Working, Saving
<1>1. Rows(chunks) \in SUBSET (ChunkIndex \cup {RowMark})
  BY DEF Rows
<1>2. Answered(SaveStatus(r), Blank) \in Replies
  BY AnswerType DEF SaveStatus
<1>3. CASE Invalidate(r)
  <2>1. PICK order \in SetToSeqs(Pending(round[r].loaded, round[r].serverIds)) :
           round' = [round EXCEPT ![r].plan =
                        Plan(round[r].loaded, round[r].serverIds, order)]
    BY <1>3 DEF Invalidate
  <2>2. round[r].loaded \in ChunkRows /\ round[r].serverIds \in SUBSET Items
    BY DEF Works
  <2>3. Plan(round[r].loaded, round[r].serverIds, order) \in ChunkRows
    BY <2>2, PlanRows
  <2>4. [round[r] EXCEPT !.plan = Plan(round[r].loaded, round[r].serverIds, order)]
           \in Works
    BY <2>3 DEF Works
  <2>5. row' \in States
    BY <1>3 DEF Invalidate, States, Rounds
  <2>6. stale' \in [Reqs -> SUBSET (ChunkIndex \cup {RowMark})]
    BY <1>3, StaleType DEF Invalidate
  <2> QED BY <1>3, <2>1, <2>4, <2>5, <2>6 DEF Invalidate
<1>4. CASE ClearLeftover(r)
  BY <1>1, <1>4, StaleType DEF ClearLeftover
<1>5. CASE WriteChunk(r)
  <2>1. PICK i \in ChunkIndex :
          /\ chunks' = [chunks EXCEPT ![i] = round[r].plan[i]]
          /\ round' = [round EXCEPT ![r].loaded[i] = round[r].plan[i]]
          /\ Outdates(r, {i})
    BY <1>5 DEF WriteChunk
  <2>2. round[r].plan[i] \in SUBSET Items
    BY DEF Works, ChunkRows
  <2>3. chunks' \in ChunkRows
    BY <2>1, <2>2 DEF ChunkRows
  <2>4. [round[r].loaded EXCEPT ![i] = round[r].plan[i]] \in ChunkRows
    BY <2>2 DEF Works, ChunkRows
  <2>5. [round[r] EXCEPT !.loaded = [round[r].loaded EXCEPT ![i] = round[r].plan[i]]]
           \in Works
    BY <2>4 DEF Works
  <2>6. stale' \in [Reqs -> SUBSET (ChunkIndex \cup {RowMark})]
    BY <2>1, StaleType
  <2> QED BY <1>5, <2>1, <2>3, <2>5, <2>6 DEF WriteChunk
<1>6. CASE ChunksWritten(r)
  BY <1>6 DEF ChunksWritten
<1>7. CASE FinalWrite(r)
  <2> DEFINE answer == [status |-> 1, key |-> round[r].key, adds |-> round[r].adds,
                        dels |-> round[r].dels, ok |-> round[r].ok,
                        created |-> {p[2] : p \in round[r].clientIds}]
  <2>1. answer \in Replies
    BY DEF Works, Replies
  <2>2. row' \in States
    BY <1>7, SavedRowType DEF FinalWrite, KeyInReach
  <2>3. stale' \in [Reqs -> SUBSET (ChunkIndex \cup {RowMark})]
    BY <1>7, StaleType DEF FinalWrite
  <2> QED BY <1>7, <2>1, <2>2, <2>3 DEF FinalWrite, AnswerWith
<1>8. CASE Truncate(r)
  BY <1>1, <1>8, StaleType DEF Truncate
<1>9. CASE RestartWrite(r)
  <2>1. row' \in States
    BY <1>9 DEF RestartWrite, States, Requests
  <2>2. stale' \in [Reqs -> SUBSET (ChunkIndex \cup {RowMark})]
    BY <1>9, StaleType DEF RestartWrite
  <2> QED BY <1>9, <2>1, <2>2, AnswerType DEF RestartWrite, AnswerWith
<1>10. CASE SaveLosesRace(r)
  BY <1>2, <1>10 DEF SaveLosesRace, SaveFailed, AnswerWith, Ends
<1>11. CASE WriteFails(r)
  <2>1. faults' \in 0..MaxFaults
    BY <1>11, SyncAssumption DEF WriteFails
  <2> QED BY <1>2, <1>11, <2>1 DEF WriteFails, SaveFailed, AnswerWith, Ends
<1>12. CASE Die(r)
  <2>1. faults' \in 0..MaxFaults
    BY <1>12, SyncAssumption DEF Die
  <2> QED BY <1>12, <2>1 DEF Die, Ends
<1> QED BY <1>3, <1>4, <1>5, <1>6, <1>7, <1>8, <1>9, <1>10, <1>11, <1>12 DEF Save

\* The clean-up keeps the types.
LEMMA CleanUpKeepsTypes ==
  ASSUME TypeOK, CleanUp
  PROVE  TypeOK'
<1> USE Sentinels DEF TypeOK, store, rows
<1>1. CASE CleanUpChunks
  <2>1. faults' \in 0..MaxFaults
    BY <1>1, SyncAssumption DEF CleanUpChunks
  <2>2. stale' \in [Reqs -> SUBSET (ChunkIndex \cup {RowMark})]
    BY <1>1 DEF CleanUpChunks, OutdatesAll, Rows
  <2> QED BY <1>1, <2>1, <2>2 DEF CleanUpChunks
<1>2. CASE CleanUpRow
  BY <1>2 DEF CleanUpRow, OutdatesAll
<1>3. CASE CleanUpStops
  <2>1. faults' \in 0..MaxFaults
    BY <1>3, SyncAssumption DEF CleanUpStops
  <2> QED BY <1>3, <2>1 DEF CleanUpStops
<1> QED BY <1>1, <1>2, <1>3 DEF CleanUp

\* It takes no part in any request.
LEMMA CleanUpStep ==
  ASSUME CleanUp
  PROVE  UNCHANGED <<pc, req, round, reply>> /\ (row' = row \/ MatchesNoKey')
BY DEF CleanUp, CleanUpChunks, CleanUpRow, CleanUpStops, NoState, NoRound, store, rows,
       MatchesNoKey

\* Every step keeps the types.
LEMMA NextKeepsTypes ==
  ASSUME TypeOK, KeyInReach, [Next]_vars
  PROVE  TypeOK'
<1>1. CASE Client
  BY <1>1, ClientKeepsTypes
<1>2. ASSUME NEW i \in Items, NEW to \in {"in", "moved", "gone"}, ItemChanges(i, to)
      PROVE  TypeOK'
  BY <1>2 DEF ItemChanges, TypeOK, rows
<1>3. ASSUME NEW r \in Reqs, Serve(r) \/ Fault(r) PROVE TypeOK'
  BY <1>3, RoundKeepsTypes, SaveKeepsTypes DEF Serve, Fault
<1>4. CASE CleanUp
  BY <1>4, CleanUpKeepsTypes
<1>5. CASE UNCHANGED vars
  BY <1>5 DEF vars, TypeOK
<1> QED BY <1>1, <1>2, <1>3, <1>4, <1>5 DEF Next
-----------------------------------------------------------------------------
(* Every step preserves the rest of the invariant.                         *)

\* Whatever the command, applying it leads to the enumeration.
LEMMA ApplyStep ==
  ASSUME TypeOK, NEW r \in Reqs, Apply(r)
  PROVE  /\ pc[r] = "apply"
         /\ pc' = [pc EXCEPT ![r] = "enum"]
         /\ \A q \in Reqs \ {r} : round'[q] = round[q]
         /\ UNCHANGED <<row, chunks, req, reply>>
<1> USE DEF TypeOK, Applied, rows
<1>1. CASE NothingToApply(r)
  BY <1>1 DEF NothingToApply
<1>2. CASE ReplayAdd(r)
  BY <1>2 DEF ReplayAdd
<1>3. CASE ApplyAdd(r)
  BY <1>3 DEF ApplyAdd
<1>4. CASE ApplyChange(r)
  BY <1>4 DEF ApplyChange
<1>5. CASE ApplyDelete(r)
  BY <1>5 DEF ApplyDelete
<1>6. CASE DeleteAbsent(r)
  BY <1>6 DEF DeleteAbsent
<1>7. CASE RefuseCommand(r)
  BY <1>7 DEF RefuseCommand
<1> QED BY <1>1, <1>2, <1>3, <1>4, <1>5, <1>6, <1>7 DEF Apply

\* Every step keeps the keys in reach: a round continues from a key that was
\* issued, and issues the next one only below the bound.
LEMMA NextKeepsKeyInReach ==
  ASSUME TypeOK, KeyInReach, [Next]_vars
  PROVE  KeyInReach'
<1> USE Sentinels DEF KeyInReach, TypeOK, Working, Saving
<1>1. CASE Client
  <2>1. ASSUME NEW c \in Commands, Edit(c) PROVE KeyInReach'
    BY <2>1 DEF Edit
  <2>2. CASE StartOver
    BY <2>2 DEF StartOver
  <2>3. ASSUME NEW r \in Reqs, Receive(r) \/ Lose(r) PROVE KeyInReach'
    BY <2>3 DEF Receive, Lose, NoReply, Answered
  <2>4. ASSUME NEW r \in Reqs, GiveUp(r) PROVE KeyInReach'
    BY <2>4 DEF GiveUp
  <2>5. ASSUME NEW r \in Reqs, NEW f \in Filters \cup {Nil}, Send(r, f)
        PROVE  KeyInReach'
    BY <2>5 DEF Send
  <2> QED BY <1>1, <2>1, <2>2, <2>3, <2>4, <2>5 DEF Client
<1>2. ASSUME NEW i \in Items, NEW to \in {"in", "moved", "gone"}, ItemChanges(i, to)
      PROVE  KeyInReach'
  BY <1>2 DEF ItemChanges
<1>3. ASSUME NEW r \in Reqs, Serve(r) PROVE KeyInReach'
  <2>1. CASE Acquire(r)
    BY <2>1 DEF Acquire
  <2>2. CASE LeaseTimeout(r)
    BY <2>2 DEF LeaseTimeout, AnswerWith, Answered
  <2>3. CASE ReadRow(r)
    BY <2>3 DEF ReadRow, Requests
  <2>4. CASE LoadHeld(r)
    BY <2>4 DEF LoadHeld, AnswerWith, Answered
  <2>5. CASE Apply(r)
    BY <2>5, ApplyStep
  <2>6. CASE Enumerate(r)
    <3>1. req[r].key \in Keys /\ generation(req[r].key) < MaxGen
      BY <2>6 DEF Enumerate
    <3>2. PICK adds \in SUBSET (InFolder \ round[r].serverIds),
               dels \in SUBSET (round[r].serverIds \ InFolder),
               at \in cursor(req[r].key)..MaxCursor :
            LET ids == (round[r].serverIds \cup adds) \ dels
            IN  /\ round' = [round EXCEPT ![r] =
                     [@ EXCEPT !.serverIds = ids, !.adds = adds, !.dels = dels,
                               !.key = <<generation(req[r].key) + 1, at>>]]
                /\ pc' = [pc EXCEPT ![r] =
                     IF StaysInline(round[r].stored.chunked, ids) THEN "final"
                     ELSE "save"]
      BY <2>6 DEF Enumerate
    <3>3. <<generation(req[r].key) + 1, at>> \in Keys
      BY <3>1, SyncAssumption DEF Keys, generation, cursor
    <3>4. round'[r].key \in Keys
      BY <3>2, <3>3 DEF Works
    <3> QED BY <2>6, <3>1, <3>2, <3>4 DEF Enumerate
  <2>7. CASE Invalidate(r)
    BY <2>7 DEF Invalidate, Works
  <2>8. CASE ClearLeftover(r) \/ ChunksWritten(r) \/ Truncate(r)
    BY <2>8 DEF ClearLeftover, ChunksWritten, Truncate
  <2>9. CASE WriteChunk(r)
    BY <2>9 DEF WriteChunk, Works
  <2>10. CASE FinalWrite(r)
    BY <2>10 DEF FinalWrite, AnswerWith
  <2>11. CASE RestartWrite(r)
    BY <2>11 DEF RestartWrite, AnswerWith, Answered
  <2>12. CASE SaveLosesRace(r)
    BY <2>12 DEF SaveLosesRace, SaveFailed, SaveStatus, AnswerWith, Answered
  <2> QED BY <1>3, <2>1, <2>2, <2>3, <2>4, <2>5, <2>6, <2>7, <2>8, <2>9, <2>10,
             <2>11, <2>12 DEF Serve, Save
<1>4. ASSUME NEW r \in Reqs, Fault(r) PROVE KeyInReach'
  BY <1>4 DEF Fault, LoadFails, WriteFails, Die, SaveFailed, SaveStatus, AnswerWith,
              Answered, NoReply
<1>5. CASE CleanUp
  BY <1>5, CleanUpStep
<1>6. CASE UNCHANGED vars
  BY <1>6 DEF vars
<1> QED BY <1>1, <1>2, <1>3, <1>4, <1>5, <1>6 DEF Next

\* What a step does to the holders: only a grant makes a new one.
LEMMA NewHolder ==
  ASSUME TypeOK, [Next]_vars, NEW r \in Reqs, pc'[r] \in Working, pc[r] \notin Working
  PROVE  Acquire(r)
<1> USE DEF TypeOK, Working, Saving
<1>1. ASSUME Client PROVE FALSE
  <2>1. ASSUME NEW c \in Commands, Edit(c) PROVE FALSE
    BY <2>1 DEF Edit
  <2>2. ASSUME StartOver PROVE FALSE
    BY <2>2 DEF StartOver
  <2>3. ASSUME NEW q \in Reqs, Receive(q) \/ Lose(q) \/ GiveUp(q) PROVE FALSE
    BY <2>3 DEF Receive, Lose, GiveUp
  <2>4. ASSUME NEW q \in Reqs, NEW f \in Filters \cup {Nil}, Send(q, f) PROVE FALSE
    BY <2>4 DEF Send
  <2> QED BY <1>1, <2>1, <2>2, <2>3, <2>4 DEF Client
<1>2. ASSUME NEW i \in Items, NEW to \in {"in", "moved", "gone"}, ItemChanges(i, to)
      PROVE  FALSE
  BY <1>2 DEF ItemChanges
<1>3. ASSUME NEW q \in Reqs, Serve(q), ~Acquire(q) PROVE FALSE
  <2>1. CASE LeaseTimeout(q) \/ ReadRow(q) \/ LoadHeld(q)
    BY <2>1 DEF LeaseTimeout, ReadRow, LoadHeld, AnswerWith
  <2>2. CASE Apply(q)
    BY <2>2, ApplyStep
  <2>3. CASE Enumerate(q)
    BY <2>3 DEF Enumerate
  <2>4. CASE Invalidate(q) \/ ClearLeftover(q) \/ WriteChunk(q) \/ ChunksWritten(q)
    BY <2>4 DEF Invalidate, ClearLeftover, WriteChunk, ChunksWritten
  <2>5. CASE FinalWrite(q) \/ Truncate(q) \/ RestartWrite(q) \/ SaveLosesRace(q)
    BY <2>5 DEF FinalWrite, Truncate, RestartWrite, SaveLosesRace, SaveFailed, AnswerWith
  <2> QED BY <1>3, <2>1, <2>2, <2>3, <2>4, <2>5 DEF Serve, Save
<1>4. ASSUME NEW q \in Reqs, Fault(q) PROVE FALSE
  BY <1>4 DEF Fault, LoadFails, WriteFails, Die, SaveFailed, AnswerWith
<1>5. ASSUME NEW q \in Reqs, Acquire(q) PROVE q = r
  BY <1>5 DEF Acquire
<1>6. ASSUME CleanUp PROVE FALSE
  BY <1>6, CleanUpStep
<1>7. CASE UNCHANGED vars
  BY <1>7 DEF vars
<1> QED BY <1>1, <1>2, <1>3, <1>4, <1>5, <1>6, <1>7 DEF Next

\* With one lease for all copies, a step lets no second round to work.
LEMMA NextKeepsOneHolder ==
  ASSUME TypeOK, OneHolder, [Next]_vars
  PROVE  OneHolder'
<1> SUFFICES ASSUME Exclusive, NEW q \in Reqs, NEW r \in Reqs,
                    pc'[q] \in Working, pc'[r] \in Working, q # r
             PROVE  FALSE
  BY DEF OneHolder
<1>1. ASSUME NEW n \in Reqs, NEW o \in Reqs, n # o, Acquire(n), pc'[o] \in Working
      PROVE  FALSE
  <2>1. pc[o] \notin Working
    BY <1>1 DEF Acquire, Holders
  <2> QED BY <1>1, <2>1 DEF Acquire, TypeOK
<1>2. pc[q] \in Working
  BY <1>1, NewHolder
<1>3. pc[r] \in Working
  BY <1>1, NewHolder
<1> QED BY <1>2, <1>3 DEF OneHolder

\* The steps that write the state row.
LEMMA RowSteps ==
  ASSUME TypeOK, [Next]_vars, row' # row
  PROVE  \/ CleanUp
         \/ \E r \in Reqs : Invalidate(r) \/ FinalWrite(r) \/ RestartWrite(r)
<1> USE DEF rows
<1>1. ASSUME Client PROVE FALSE
  BY <1>1 DEF Client, Edit, StartOver, Receive, Lose, GiveUp, Send
<1>2. ASSUME NEW i \in Items, NEW to \in {"in", "moved", "gone"}, ItemChanges(i, to)
      PROVE  FALSE
  BY <1>2 DEF ItemChanges
<1>3. ASSUME NEW r \in Reqs, Serve(r)
      PROVE  Invalidate(r) \/ FinalWrite(r) \/ RestartWrite(r)
  <2>1. ASSUME Acquire(r) \/ LeaseTimeout(r) \/ ReadRow(r) \/ LoadHeld(r) PROVE FALSE
    BY <2>1 DEF Acquire, LeaseTimeout, ReadRow, LoadHeld
  <2>2. ASSUME Apply(r) \/ Enumerate(r) PROVE FALSE
    BY <2>2, ApplyStep DEF Enumerate
  <2>3. ASSUME ClearLeftover(r) \/ WriteChunk(r) \/ ChunksWritten(r) PROVE FALSE
    BY <2>3 DEF ClearLeftover, WriteChunk, ChunksWritten
  <2>4. ASSUME Truncate(r) \/ SaveLosesRace(r) PROVE FALSE
    BY <2>4 DEF Truncate, SaveLosesRace
  <2> QED BY <1>3, <2>1, <2>2, <2>3, <2>4 DEF Serve, Save
<1>4. ASSUME NEW r \in Reqs, Fault(r) PROVE FALSE
  BY <1>4 DEF Fault, LoadFails, WriteFails, Die
<1>5. CASE UNCHANGED vars
  BY <1>5 DEF vars
<1> QED BY <1>1, <1>2, <1>3, <1>4, <1>5 DEF Next

\* Only a holder writes a key into the state row, and then it is done.
LEMMA RowWriters ==
  ASSUME TypeOK, [Next]_vars, row' # row
  PROVE  \/ MatchesNoKey'
         \/ \E r \in Reqs : /\ pc[r] \in Working
                           /\ pc'[r] = "reply" /\ \A q \in Reqs \ {r} : pc'[q] = pc[q]
<1> USE DEF TypeOK, Working, Saving
<1>1. ASSUME NEW r \in Reqs, Invalidate(r)
      PROVE  MatchesNoKey'
  BY <1>1 DEF Invalidate, States, Rounds, MatchesNoKey
<1>2. ASSUME NEW r \in Reqs, FinalWrite(r) \/ RestartWrite(r)
      PROVE  /\ pc[r] \in Working
             /\ pc'[r] = "reply" /\ \A q \in Reqs \ {r} : pc'[q] = pc[q]
  BY <1>2 DEF FinalWrite, RestartWrite, AnswerWith
<1>3. CASE CleanUp
  BY <1>3, CleanUpStep
<1> QED BY <1>1, <1>2, <1>3, RowSteps

\* The chunk rows of a collection that leaves its row are reached only through
\* the step that blanks the row's key.
LEMMA ChunkPhase ==
  ASSUME TypeOK, [Next]_vars, NEW r \in Reqs, pc'[r] \in {"clear", "chunk"}
  PROVE  \/ pc[r] \in {"clear", "chunk"}
         \/ Invalidate(r)
<1> USE DEF TypeOK, Working, Saving
<1>1. CASE Client
  <2>1. ASSUME NEW c \in Commands, Edit(c) PROVE pc' = pc
    BY <2>1 DEF Edit
  <2>2. ASSUME StartOver PROVE pc' = pc
    BY <2>2 DEF StartOver
  <2>3. ASSUME NEW q \in Reqs, Receive(q) \/ Lose(q) \/ GiveUp(q)
        PROVE  pc[r] \in {"clear", "chunk"}
    BY <2>3 DEF Receive, Lose, GiveUp
  <2>4. ASSUME NEW q \in Reqs, NEW f \in Filters \cup {Nil}, Send(q, f)
        PROVE  pc[r] \in {"clear", "chunk"}
    BY <2>4 DEF Send
  <2> QED BY <1>1, <2>1, <2>2, <2>3, <2>4 DEF Client
<1>2. ASSUME NEW i \in Items, NEW to \in {"in", "moved", "gone"}, ItemChanges(i, to)
      PROVE  pc' = pc
  BY <1>2 DEF ItemChanges
<1>3. ASSUME NEW q \in Reqs, Serve(q), pc[r] \notin {"clear", "chunk"}
      PROVE  Invalidate(r)
  <2>1. ASSUME Acquire(q) \/ LeaseTimeout(q) \/ ReadRow(q) \/ LoadHeld(q) PROVE FALSE
    BY <1>3, <2>1 DEF Acquire, LeaseTimeout, ReadRow, LoadHeld, AnswerWith
  <2>2. ASSUME Apply(q) PROVE FALSE
    BY <1>3, <2>2, ApplyStep
  <2>3. ASSUME Enumerate(q) PROVE FALSE
    BY <1>3, <2>3 DEF Enumerate
  <2>4. ASSUME ClearLeftover(q) \/ WriteChunk(q) \/ ChunksWritten(q) PROVE FALSE
    BY <1>3, <2>4 DEF ClearLeftover, WriteChunk, ChunksWritten
  <2>5. ASSUME FinalWrite(q) \/ Truncate(q) \/ RestartWrite(q) \/ SaveLosesRace(q)
        PROVE  FALSE
    BY <1>3, <2>5 DEF FinalWrite, Truncate, RestartWrite, SaveLosesRace, SaveFailed,
                      AnswerWith
  <2>6. ASSUME Invalidate(q) PROVE q = r
    BY <1>3, <2>6 DEF Invalidate
  <2> QED BY <1>3, <2>1, <2>2, <2>3, <2>4, <2>5, <2>6 DEF Serve, Save
<1>4. ASSUME NEW q \in Reqs, Fault(q) PROVE pc[r] \in {"clear", "chunk"}
  BY <1>4 DEF Fault, LoadFails, WriteFails, Die, SaveFailed, AnswerWith
<1>5. CASE CleanUp
  BY <1>5, CleanUpStep
<1>6. CASE UNCHANGED vars
  BY <1>6 DEF vars
<1> QED BY <1>1, <1>2, <1>3, <1>4, <1>5, <1>6 DEF Next

\* No step gives the row a key while a holder is writing chunk rows.
LEMMA NextKeepsUnkeyed ==
  ASSUME TypeOK, OneHolder, UnkeyedWhileWriting, [Next]_vars
  PROVE  UnkeyedWhileWriting'
<1> SUFFICES ASSUME Exclusive, NEW r \in Reqs, pc'[r] \in {"clear", "chunk"}
             PROVE  MatchesNoKey'
  BY DEF UnkeyedWhileWriting
<1>1. CASE Invalidate(r)
  BY <1>1 DEF Invalidate, TypeOK, States, Rounds, MatchesNoKey
<1>2. CASE pc[r] \in {"clear", "chunk"}
  <2>1. MatchesNoKey
    BY <1>2 DEF UnkeyedWhileWriting
  <2>2. CASE row' # row
    <3> SUFFICES ASSUME ~MatchesNoKey' PROVE FALSE
      OBVIOUS
    <3>1. PICK w \in Reqs : /\ pc[w] \in Working
                            /\ pc'[w] = "reply" /\ \A q \in Reqs \ {w} : pc'[q] = pc[q]
      BY <2>2, RowWriters
    <3>2. w = r
      BY <1>2, <3>1 DEF OneHolder, Working, Saving
    <3> QED BY <3>1, <3>2
  <2> QED BY <2>1, <2>2 DEF MatchesNoKey
<1> QED BY <1>1, <1>2, ChunkPhase

-----------------------------------------------------------------------------
\* The invariant is inductive.
LEMMA Inductive ==
  ASSUME IInv, [Next]_vars
  PROVE  IInv'
BY NextKeepsTypes, NextKeepsKeyInReach, NextKeepsOneHolder, NextKeepsUnkeyed DEF IInv

\* The initial state satisfies the invariant.
LEMMA InitIInv ==
  ASSUME Init
  PROVE  IInv
<1>1. TypeOK
  <2>1. device \in Devices
    BY Sentinels DEF Init, Devices
  <2> QED BY <2>1, Sentinels, SyncAssumption DEF Init, TypeOK
<1>2. KeyInReach /\ OneHolder /\ UnkeyedWhileWriting
  BY DEF Init, KeyInReach, OneHolder, UnkeyedWhileWriting, Working, Saving, NoReply,
         Answered
<1> QED BY <1>1, <1>2 DEF IInv

\* The invariant holds in every reachable state.
LEMMA Invariance == Spec => []IInv
<1>1. Init => IInv
  BY InitIInv
<1>2. IInv /\ [Next]_vars => IInv'
  BY Inductive
<1> QED BY <1>1, <1>2, PTL DEF Spec

\* The types of SyncCommand, whatever the items, requests, limits and faults:
\* among them that every key the server saves or answers with is one it issued.
THEOREM TypeCorrect == Spec => []TypeOK
<1>1. IInv => TypeOK
  BY DEF IInv
<1> QED BY <1>1, Invariance, PTL

\* With one lease for all copies, chunk rows are only ever written while the
\* state row matches no key, neither a current one nor a previous round's, a restart
\* and the clean-up excepted: for any number of requests, items and chunk rows,
\* whatever fails or is abandoned.
THEOREM ChunksWrittenUnkeyed ==
  ASSUME Exclusive
  PROVE  Spec => NoLiveChunkWrite
<1>1. ASSUME IInv, [Next]_vars
      PROVE  [chunks' # chunks => \/ MatchesNoKey
                                  \/ \E r \in Reqs : pc[r] = "truncate"
                                  \/ cleanup' # cleanup]_vars
  <2> SUFFICES ASSUME chunks' # chunks, cleanup' = cleanup
               PROVE  MatchesNoKey \/ \E r \in Reqs : pc[r] = "truncate"
    OBVIOUS
  <2> USE DEF rows, store
  <2>1. ASSUME Client PROVE FALSE
    BY <2>1 DEF Client, Edit, StartOver, Receive, Lose, GiveUp, Send
  <2>2. ASSUME NEW i \in Items, NEW to \in {"in", "moved", "gone"}, ItemChanges(i, to)
        PROVE  FALSE
    BY <2>2 DEF ItemChanges
  <2>3. ASSUME NEW r \in Reqs, Fault(r) PROVE FALSE
    BY <2>3 DEF Fault, LoadFails, WriteFails, Die
  <2>4. ASSUME NEW r \in Reqs, Serve(r)
        PROVE  pc[r] \in {"clear", "chunk", "truncate"}
    <3>1. ASSUME Acquire(r) \/ LeaseTimeout(r) \/ ReadRow(r) \/ LoadHeld(r) PROVE FALSE
      BY <3>1 DEF Acquire, LeaseTimeout, ReadRow, LoadHeld
    <3>2. ASSUME Apply(r) \/ Enumerate(r) PROVE FALSE
      BY <1>1, <3>2, ApplyStep DEF Enumerate, IInv
    <3>3. ASSUME Invalidate(r) \/ ChunksWritten(r) \/ FinalWrite(r) \/ RestartWrite(r)
                   \/ SaveLosesRace(r)
          PROVE  FALSE
      BY <3>3 DEF Invalidate, ChunksWritten, FinalWrite, RestartWrite, SaveLosesRace
    <3> QED BY <2>4, <3>1, <3>2, <3>3 DEF Serve, Save, ClearLeftover, WriteChunk, Truncate
  <2>5. ASSUME CleanUp PROVE FALSE
    BY <2>5 DEF CleanUp, CleanUpChunks, CleanUpRow, CleanUpStops
  <2>6. CASE UNCHANGED vars
    BY <2>6 DEF vars
  <2> QED BY <1>1, <2>1, <2>2, <2>3, <2>4, <2>5, <2>6 DEF Next, IInv, UnkeyedWhileWriting
<1> QED BY <1>1, Invariance, PTL DEF Spec, NoLiveChunkWrite

-----------------------------------------------------------------------------
(* Rounds beside each other, with a lease or without one.                  *)

Unsaved == {"read", "apply", "enum", "save"}
Begun   == {"apply", "enum", "save", "clear", "chunk", "final"}

\* A request whose copy of the state row is not out of date has the row as it is;
\* or the row matches no key because the request itself has blanked it.
RowAsRead(r) ==
    RowMark \notin stale[r] =>
        /\ pc[r] \in Unsaved => row = round[r].stored
        /\ pc[r] \in {"clear", "chunk"} => row.syncKey = Blank
        /\ pc[r] = "final" =>
              \/ row.syncKey = Blank
              \/ /\ row = round[r].stored
                 /\ StaysInline(round[r].stored.chunked, round[r].serverIds)

\* A round goes on from the set that its key names in the row it has read.
BasedOnStored(r) ==
    pc[r] \in Begun =>
        /\ IsCurrent(req[r].key, round[r].stored) \/ IsRetry(req[r].key, round[r].stored)
        /\ ~round[r].stored.chunked =>
              round[r].base = BaseSet(req[r].key, round[r].stored, round[r].stored.serverIds)

\* A request sees nothing of another's step but a mark of what has been written.
LEMMA OthersStep ==
  ASSUME TypeOK, NEW q \in Reqs, NEW r \in Reqs, q # r, Serve(q) \/ Fault(q)
  PROVE  /\ pc'[r] = pc[r] /\ req'[r] = req[r] /\ round'[r] = round[r]
         /\ pc[r] \in Working \ {"locked"} /\ RowMark \notin stale'[r]
               => RowMark \notin stale[r] /\ row' = row
<1> USE DEF TypeOK, rows, store
<1>1. CASE Acquire(q)
  BY <1>1 DEF Acquire
<1>2. CASE LeaseTimeout(q)
  BY <1>2 DEF LeaseTimeout, AnswerWith
<1>3. CASE ReadRow(q)
  BY <1>3 DEF ReadRow
<1>4. CASE LoadHeld(q)
  BY <1>4 DEF LoadHeld, AnswerWith, Ends
<1>5. CASE Apply(q)
  <2>1. stale' = stale
    BY <1>5 DEF Apply, NothingToApply, ReplayAdd, ApplyAdd, ApplyChange, ApplyDelete,
                DeleteAbsent, RefuseCommand, Applied
  <2> QED BY <1>5, <2>1, ApplyStep
<1>6. CASE Enumerate(q)
  BY <1>6 DEF Enumerate
<1>7. CASE Invalidate(q)
  BY <1>7 DEF Invalidate, Outdates
<1>8. CASE ClearLeftover(q)
  BY <1>8 DEF ClearLeftover, Outdates
<1>9. CASE WriteChunk(q)
  BY <1>9 DEF WriteChunk, Outdates
<1>10. CASE ChunksWritten(q)
  BY <1>10 DEF ChunksWritten
<1>11. CASE FinalWrite(q)
  BY <1>11 DEF FinalWrite, AnswerWith, EndsOutdating
<1>12. CASE Truncate(q)
  BY <1>12 DEF Truncate, Outdates
<1>13. CASE RestartWrite(q)
  BY <1>13 DEF RestartWrite, AnswerWith, EndsOutdating
<1>14. CASE SaveLosesRace(q)
  BY <1>14 DEF SaveLosesRace, SaveFailed, AnswerWith, Ends
<1>15. CASE LoadFails(q)
  BY <1>15 DEF LoadFails, AnswerWith, Ends
<1>16. CASE WriteFails(q)
  BY <1>16 DEF WriteFails, SaveFailed, AnswerWith, Ends
<1>17. CASE Die(q)
  BY <1>17 DEF Die, Ends
<1> QED BY <1>1, <1>2, <1>3, <1>4, <1>5, <1>6, <1>7, <1>8, <1>9, <1>10, <1>11, <1>12,
           <1>13, <1>14, <1>15, <1>16, <1>17 DEF Serve, Save, Fault

\* Inductive without a lease as well: the conjuncts of IInv about one are conditional.
RInv == IInv /\ \A r \in Reqs : RowAsRead(r) /\ BasedOnStored(r)

\* What a request has read stays true over its own steps: it reads the row once, and
\* blanks it before it writes chunk rows.
LEMMA OwnStep ==
  ASSUME TypeOK, NEW r \in Reqs, Serve(r) \/ Fault(r), RowAsRead(r), BasedOnStored(r)
  PROVE  RowAsRead(r)' /\ BasedOnStored(r)'
<1> USE DEF TypeOK, rows, store, RowAsRead, BasedOnStored, Unsaved, Begun, Working, Saving
<1>1. round[r] \in Works /\ row \in States
  OBVIOUS
<1>2. CASE pc'[r] \in {"idle", "reply", "locked"}
  BY <1>2
<1>3. CASE ReadRow(r)
  <2>1. pc'[r] \in {"truncate", "read"} /\ row' = row /\ round'[r].stored = row
    BY <1>1, <1>3 DEF ReadRow, Works
  <2> QED BY <2>1
<1>4. CASE LoadHeld(r) /\ pc'[r] = "apply"
  <2> DEFINE held == LoadHeldSet(round[r].stored.chunked, round[r].stored.serverIds, chunks)
             base == BaseSet(req[r].key, round[r].stored, held)
  <2>1. ~(\/ ~IsCurrent(req[r].key, round[r].stored) /\ ~IsRetry(req[r].key, round[r].stored)
          \/ FilterRefused(req[r].filter, round[r].stored, req[r].key, base))
    BY <1>4 DEF LoadHeld, AnswerWith
  <2>2. /\ pc[r] = "read" /\ UNCHANGED <<row, stale, req>>
        /\ round' = [round EXCEPT ![r] =
             [@ EXCEPT !.loaded = IF round[r].stored.chunked THEN chunks ELSE NoChunks,
                       !.base = base, !.serverIds = base,
                       !.retry = IsRetry(req[r].key, round[r].stored),
                       !.filter = IF req[r].filter = Nil THEN round[r].stored.filter
                                  ELSE req[r].filter]]
    BY <1>4, <2>1 DEF LoadHeld
  <2>3. round'[r].stored = round[r].stored /\ round'[r].base = base
    BY <1>1, <2>2 DEF Works
  <2>4. ~round[r].stored.chunked => held = round[r].stored.serverIds
    BY DEF LoadHeldSet
  <2> HIDE DEF base, held
  <2>5. RowAsRead(r)'
    BY <1>4, <2>2, <2>3
  <2>6. BasedOnStored(r)'
    BY <1>4, <2>1, <2>2, <2>3, <2>4 DEF base
  <2> QED BY <2>5, <2>6
<1>5. CASE Apply(r)
  <2>1. PICK ids, ok, clientIds : Applied(r, ids, ok, clientIds)
    BY <1>5 DEF Apply, NothingToApply, ReplayAdd, ApplyAdd, ApplyChange, ApplyDelete,
                DeleteAbsent, RefuseCommand
  <2>2. /\ stale' = stale
        /\ round'[r].stored = round[r].stored /\ round'[r].base = round[r].base
    BY <1>1, <2>1 DEF Applied, Works
  <2>3. pc[r] = "apply" /\ pc'[r] = "enum" /\ UNCHANGED <<row, req>>
    BY <1>5, ApplyStep
  <2> QED BY <2>2, <2>3
<1>6. CASE Enumerate(r)
  <2>1. PICK adds \in SUBSET (InFolder \ round[r].serverIds),
             dels \in SUBSET (round[r].serverIds \ InFolder),
             at \in cursor(req[r].key)..MaxCursor :
          LET ids == (round[r].serverIds \cup adds) \ dels
          IN  /\ round' = [round EXCEPT ![r] =
                   [@ EXCEPT !.serverIds = ids, !.adds = adds, !.dels = dels,
                             !.key = <<generation(req[r].key) + 1, at>>]]
              /\ pc' = [pc EXCEPT ![r] =
                   IF StaysInline(round[r].stored.chunked, ids) THEN "final" ELSE "save"]
    BY <1>6 DEF Enumerate
  <2>2. /\ round'[r].stored = round[r].stored /\ round'[r].base = round[r].base
        /\ pc'[r] = IF StaysInline(round[r].stored.chunked, round'[r].serverIds)
                    THEN "final" ELSE "save"
    BY <1>1, <2>1 DEF Works
  <2>3. pc[r] = "enum" /\ UNCHANGED <<row, req, stale>>
    BY <1>6 DEF Enumerate
  <2> QED BY <2>2, <2>3
<1>7. CASE Invalidate(r)
  <2>1. /\ row'.syncKey = Blank /\ pc[r] = "save" /\ pc'[r] \in {"clear", "chunk"}
        /\ req' = req
    BY <1>1, <1>7 DEF Invalidate, States
  <2>2. round'[r].stored = round[r].stored /\ round'[r].base = round[r].base
    BY <1>1, <1>7 DEF Invalidate, Works
  <2> QED BY <2>1, <2>2
<1>8. CASE ClearLeftover(r) \/ WriteChunk(r) \/ ChunksWritten(r)
  <2>1. CASE ClearLeftover(r)
    <3>1. /\ pc[r] = "clear" /\ pc'[r] = "chunk" /\ UNCHANGED <<row, req, round>>
          /\ stale'[r] = stale[r]
      BY <2>1 DEF ClearLeftover, Outdates
    <3> QED BY <3>1
  <2>2. CASE WriteChunk(r)
    <3>1. PICK i \in ChunkIndex :
            /\ round' = [round EXCEPT ![r].loaded[i] = round[r].plan[i]]
            /\ Outdates(r, {i})
      BY <2>2 DEF WriteChunk
    <3>2. pc[r] = "chunk" /\ UNCHANGED <<pc, row, req>>
      BY <2>2 DEF WriteChunk
    <3>3. stale'[r] = stale[r]
      BY <3>1 DEF Outdates
    <3>4. round'[r].stored = round[r].stored /\ round'[r].base = round[r].base
      BY <1>1, <3>1 DEF Works
    <3> QED BY <3>2, <3>3, <3>4
  <2>3. CASE ChunksWritten(r)
    <3>1. pc[r] = "chunk" /\ pc'[r] = "final" /\ UNCHANGED <<row, req, round, stale>>
      BY <2>3 DEF ChunksWritten
    <3> QED BY <3>1
  <2> QED BY <1>8, <2>1, <2>2, <2>3
<1>9. CASE Truncate(r)
  BY <1>9 DEF Truncate
<1>10. pc'[r] \in {"idle", "reply", "locked"} \/ ReadRow(r)
        \/ (LoadHeld(r) /\ pc'[r] = "apply") \/ Apply(r) \/ Enumerate(r) \/ Invalidate(r)
        \/ ClearLeftover(r) \/ WriteChunk(r) \/ ChunksWritten(r) \/ Truncate(r)
  <2>1. ASSUME LoadHeld(r) PROVE pc'[r] \in {"reply", "apply"}
    BY <2>1 DEF LoadHeld, AnswerWith
  <2>2. ASSUME Acquire(r) \/ LeaseTimeout(r) PROVE pc'[r] \in {"reply", "locked"}
    BY <2>2 DEF Acquire, LeaseTimeout, AnswerWith
  <2>3. ASSUME FinalWrite(r) \/ RestartWrite(r) \/ SaveLosesRace(r) PROVE pc'[r] = "reply"
    BY <2>3 DEF FinalWrite, RestartWrite, SaveLosesRace, SaveFailed, AnswerWith
  <2>4. ASSUME Fault(r) PROVE pc'[r] \in {"reply", "idle"}
    BY <2>4 DEF Fault, LoadFails, WriteFails, Die, SaveFailed, AnswerWith
  <2> QED BY <2>1, <2>2, <2>3, <2>4 DEF Serve, Save
<1> QED BY <1>2, <1>3, <1>4, <1>5, <1>6, <1>7, <1>8, <1>9, <1>10

\* The device and the other writers touch neither the row nor a round under way.
LEMMA ElsewhereStep ==
  ASSUME TypeOK, NEW r \in Reqs, RowAsRead(r), BasedOnStored(r),
         Client \/ \E i \in Items, to \in {"in", "moved", "gone"} : ItemChanges(i, to)
  PROVE  RowAsRead(r)' /\ BasedOnStored(r)'
<1> USE DEF TypeOK, RowAsRead, BasedOnStored, Unsaved, Begun, rows
<1>1. UNCHANGED <<row, round, stale>>
  BY DEF Client, Edit, StartOver, Receive, Lose, GiveUp, Send, ItemChanges
<1>2. pc'[r] \in {"idle", "sent"} \/ (pc'[r] = pc[r] /\ req'[r] = req[r])
  BY DEF Client, Edit, StartOver, Receive, Lose, GiveUp, Send, ItemChanges
<1> QED BY <1>1, <1>2

\* The clean-up marks what it removes.
LEMMA CleanUpMarks ==
  ASSUME TypeOK, NEW r \in Reqs, RowAsRead(r), BasedOnStored(r), CleanUp
  PROVE  RowAsRead(r)' /\ BasedOnStored(r)'
<1> USE DEF TypeOK, RowAsRead, BasedOnStored, Unsaved, Begun, rows
<1>1. UNCHANGED <<pc, req, round>>
  BY CleanUpStep
<1>2. pc[r] \in Working \ {"locked"} /\ RowMark \notin stale'[r]
        => RowMark \notin stale[r] /\ row' = row
  BY DEF CleanUp, CleanUpChunks, CleanUpRow, CleanUpStops, OutdatesAll
<1> QED BY <1>1, <1>2 DEF Working, Saving

\* Every step keeps the invariant of the rounds.
LEMMA RoundsInductive == RInv /\ [Next]_vars => RInv'
<1> SUFFICES ASSUME RInv, [Next]_vars PROVE RInv'
  OBVIOUS
<1>1. IInv' /\ TypeOK
  BY Inductive DEF RInv, IInv
<1>2. ASSUME NEW r \in Reqs PROVE RowAsRead(r)' /\ BasedOnStored(r)'
  <2>1. RowAsRead(r) /\ BasedOnStored(r)
    BY DEF RInv
  <2>2. CASE Client \/ \E i \in Items, to \in {"in", "moved", "gone"} : ItemChanges(i, to)
    BY <1>1, <2>1, <2>2, ElsewhereStep
  <2>3. CASE Serve(r) \/ Fault(r)
    BY <1>1, <2>1, <2>3, OwnStep
  <2>4. ASSUME NEW q \in Reqs, q # r, Serve(q) \/ Fault(q)
        PROVE  RowAsRead(r)' /\ BasedOnStored(r)'
    BY <1>1, <2>1, <2>4, OthersStep DEF RowAsRead, BasedOnStored, Unsaved, Begun, Working, Saving
  <2>5. CASE CleanUp
    BY <1>1, <2>1, <2>5, CleanUpMarks
  <2>6. CASE UNCHANGED vars
    BY <2>1, <2>6 DEF vars, RowAsRead, BasedOnStored
  <2> QED BY <2>2, <2>3, <2>4, <2>5, <2>6 DEF Next
<1> QED BY <1>1, <1>2 DEF RInv

\* A save goes on from the set its key names in the row that it replaces.
LEMMA FinalWriteBuilds ==
  ASSUME RInv, NEW r \in Reqs, FinalWrite(r), row.syncKey # Blank
  PROVE  \/ row'.previous.key = row.syncKey /\ Rebuilt' = Recorded
         \/ row'.previous.key = row.previous.key /\ Rebuilt' = Rebuilt
<1> DEFINE w == round[r]
<1>1. TypeOK /\ w \in Works
  BY DEF RInv, IInv, TypeOK
<1>2. pc[r] = "final" /\ RowMark \notin stale[r] /\ row' = SavedRow(r)
  BY DEF FinalWrite
<1>3. row = w.stored /\ StaysInline(w.stored.chunked, w.serverIds)
  BY <1>2 DEF RInv, RowAsRead
<1>4. /\ IsCurrent(req[r].key, row) \/ IsRetry(req[r].key, row)
      /\ ~row.chunked /\ w.base = BaseSet(req[r].key, row, row.serverIds)
  BY <1>2, <1>3 DEF RInv, BasedOnStored, Begun, StaysInline
<1>5. Recorded = row.serverIds
  BY <1>4 DEF Recorded, LoadHeldSet
<1>6. /\ ~row'.chunked /\ row'.serverIds = w.serverIds
      /\ row'.previous.key = req[r].key
      /\ row'.previous.added = w.serverIds \ w.base
      /\ row'.previous.removed = w.base \ w.serverIds
  BY <1>2, <1>3 DEF SavedRow
<1>7. Rebuilt' = (w.serverIds \ (w.serverIds \ w.base)) \cup (w.base \ w.serverIds)
  BY <1>6 DEF Rebuilt, Recorded, LoadHeldSet
<1>8. Rebuilt' = w.base
  BY <1>7
<1>9. CASE IsCurrent(req[r].key, row)
  BY <1>4, <1>5, <1>6, <1>8, <1>9 DEF IsCurrent, BaseSet
<1>10. CASE IsRetry(req[r].key, row)
  BY <1>4, <1>5, <1>6, <1>8, <1>10 DEF IsCurrent, IsRetry, BaseSet, Rebuilt
<1> QED BY <1>4, <1>9, <1>10

\* Two rounds never build on each other's half: a round saved over a row with keys
\* started from exactly the set that its key names in that row, whichever rounds ran
\* beside it.  Neither the lease nor the order of the requests is assumed: the version
\* of the row that a save expects is enough.
THEOREM RoundsNotLost == Spec => NoLostRound
<1> DEFINE Builds ==
             row'.syncKey \in Keys \ {StartKey} /\ row' # row /\ row.syncKey # Blank =>
               \/ row'.previous.key = row.syncKey /\ Rebuilt' = Recorded
               \/ row'.previous.key = row.previous.key /\ Rebuilt' = Rebuilt
<1>1. Init => RInv
  <2> SUFFICES ASSUME Init PROVE RInv
    OBVIOUS
  <2> QED BY InitIInv DEF RInv, Init, RowAsRead, BasedOnStored, Unsaved, Begun
<1>2. RInv /\ [Next]_vars => Builds
  <2> SUFFICES ASSUME RInv, [Next]_vars, row' # row, row.syncKey # Blank,
                      row'.syncKey \in Keys \ {StartKey}
               PROVE  \/ row'.previous.key = row.syncKey /\ Rebuilt' = Recorded
                      \/ row'.previous.key = row.previous.key /\ Rebuilt' = Rebuilt
    OBVIOUS
  <2>1. TypeOK /\ Blank \notin Keys
    BY DEF RInv, IInv, Blank, Keys
  <2>2. ASSUME NEW r \in Reqs, Invalidate(r) PROVE FALSE
    BY <2>1, <2>2 DEF Invalidate, TypeOK, States
  <2>3. ASSUME NEW r \in Reqs, RestartWrite(r) PROVE FALSE
    BY <2>3 DEF RestartWrite
  <2>4. ASSUME CleanUp PROVE FALSE
    BY <2>1, <2>4 DEF CleanUp, CleanUpChunks, CleanUpRow, CleanUpStops, NoState, rows
  <2>5. PICK r \in Reqs : FinalWrite(r)
    BY <2>1, <2>2, <2>3, <2>4, RowSteps
  <2> QED BY <2>5, FinalWriteBuilds
<1>3. Spec => [][Builds]_vars
  BY <1>1, <1>2, RoundsInductive, PTL DEF Spec
<1> QED BY <1>3 DEF NoLostRound

-----------------------------------------------------------------------------
(* The device and its requests, under one lease and in order.              *)

Live == {"sent"} \cup Working

\* The request the device waits for was sent last; once it is past the lease, no
\* other is under way.
AwaitedLast ==
    \A r \in Reqs : device.waits = r =>
        /\ pc[r] = "sent" => {q \in Reqs \ {r} : pc[q] = "sent"} \subseteq ahead[r]
        /\ pc[r] \in Working \/ (pc[r] = "reply" /\ reply[r].status = 1)
             => \A q \in Reqs \ {r} : pc[q] \notin Live

\* A device with a key has nothing under way but requests with that key, and what
\* it waits for is the command it has.
Asked ==
    /\ \A q \in Reqs : pc[q] \in Live /\ device.key # Zero => req[q].key = device.key
    /\ \A r \in Reqs : device.waits = r /\ pc[r] \in Live \cup {"reply"} =>
          req[r].key = device.key /\ req[r].command = device.command

\* A device without a key has nothing, and it changes or deletes what it has.
OnDevice ==
    /\ device.key = Zero => device.held = {} /\ device.command = NoCommand
    /\ device.command.kind \in {"Change", "Delete"} => device.command.on \in device.held

LineInv == AwaitedLast /\ Asked /\ OnDevice

\* What the device has after the command of the request it waits for, as answered.
Confirmed(ok, clientIds) ==
    (IF device.command.kind = "Delete" /\ ok THEN device.held \ {device.command.on}
     ELSE device.held) \cup clientIds

\* A request is served alone: the device and the other requests see nothing of it but
\* its place in the line and the marks in `stale`.
LEMMA ServedAlone ==
  ASSUME TypeOK, NEW q \in Reqs, Serve(q) \/ Fault(q)
  PROVE  /\ device' = device
         /\ \A p \in Reqs \ {q} : /\ pc'[p] = pc[p] /\ req'[p] = req[p]
                                 /\ round'[p] = round[p] /\ reply'[p] = reply[p]
         /\ pc[q] \in Live \cup {"reply"} /\ pc'[q] \in Working \cup {"reply", "idle"}
         /\ pc'[q] # "idle" => req'[q] = req[q]
         /\ ahead' = ahead \/ LeaveLine(q)
         /\ pc'[q] \in Working => pc[q] \in Working \/ Acquire(q)
         /\ pc'[q] = "reply" /\ reply'[q].status = 1 => pc[q] \in Working
         /\ pc[q] = "reply" => pc'[q] = "idle"
<1> USE DEF TypeOK, Live, Working, Saving
<1>1. CASE Acquire(q)
  BY <1>1 DEF Acquire
<1>2. CASE LeaseTimeout(q)
  BY <1>2 DEF LeaseTimeout, AnswerWith, Answered
<1>3. CASE ReadRow(q)
  BY <1>3 DEF ReadRow
<1>4. CASE LoadHeld(q)
  BY <1>4 DEF LoadHeld, AnswerWith, Answered
<1>5. CASE Apply(q)
  <2>1. PICK ids, ok, clientIds : Applied(q, ids, ok, clientIds)
    BY <1>5 DEF Apply, NothingToApply, ReplayAdd, ApplyAdd, ApplyChange, ApplyDelete,
                DeleteAbsent, RefuseCommand
  <2> QED BY <1>5, <2>1, ApplyStep DEF Applied
<1>6. CASE Enumerate(q)
  BY <1>6 DEF Enumerate
<1>7. CASE Invalidate(q) \/ ClearLeftover(q) \/ WriteChunk(q) \/ ChunksWritten(q)
  BY <1>7 DEF Invalidate, ClearLeftover, WriteChunk, ChunksWritten
<1>8. CASE FinalWrite(q) \/ RestartWrite(q)
  BY <1>8 DEF FinalWrite, RestartWrite, AnswerWith
<1>9. CASE Truncate(q)
  BY <1>9 DEF Truncate
<1>10. CASE SaveLosesRace(q) \/ LoadFails(q) \/ WriteFails(q)
  BY <1>10 DEF SaveLosesRace, LoadFails, WriteFails, SaveFailed, SaveStatus, AnswerWith,
               Answered
<1>11. CASE Die(q)
  BY <1>11 DEF Die
<1> QED BY <1>1, <1>2, <1>3, <1>4, <1>5, <1>6, <1>7, <1>8, <1>9, <1>10, <1>11
           DEF Serve, Save, Fault

\* The other writers and the clean-up leave the device and the requests alone.
LEMMA NobodyServed ==
  ASSUME CleanUp \/ (\E i \in Items, to \in {"in", "moved", "gone"} : ItemChanges(i, to))
           \/ UNCHANGED vars
  PROVE  UNCHANGED <<device, ahead, pc, req, round, reply>>
BY DEF CleanUp, CleanUpChunks, CleanUpRow, CleanUpStops, ItemChanges, vars

\* The steps of a handler keep the line of requests.
LEMMA LineServed ==
  ASSUME Exclusive, InOrder, TypeOK, OneHolder, LineInv,
         NEW q \in Reqs, Serve(q) \/ Fault(q)
  PROVE  LineInv'
<1>1. AwaitedLast'
  <2> SUFFICES ASSUME NEW r \in Reqs, device'.waits = r
               PROVE  /\ pc'[r] = "sent"
                           => {p \in Reqs \ {r} : pc'[p] = "sent"} \subseteq ahead'[r]
                      /\ pc'[r] \in Working \/ (pc'[r] = "reply" /\ reply'[r].status = 1)
                           => \A p \in Reqs \ {r} : pc'[p] \notin Live
    BY DEF AwaitedLast
  <2>1. device.waits = r
    BY ServedAlone
  <2>2. CASE q # r
    <3>1. pc'[r] = pc[r] /\ reply'[r] = reply[r]
      BY <2>2, ServedAlone
    <3>2. \A p \in Reqs : pc'[p] \in Live => pc[p] \in Live
      BY ServedAlone DEF Live, Working, Saving
    <3>3. \A p \in Reqs : pc'[p] = "sent" => pc[p] = "sent" /\ p # q
      BY ServedAlone DEF Live, Working, Saving
    <3>4. ahead'[r] = ahead[r] \/ ahead'[r] = ahead[r] \ {q}
      BY <2>2, ServedAlone DEF TypeOK, LeaveLine
    <3> QED BY <2>1, <3>1, <3>2, <3>3, <3>4 DEF LineInv, AwaitedLast
  <2>3. CASE q = r
    <3>1. pc'[r] # "sent"
      BY <2>3, ServedAlone DEF Working, Saving
    <3>2. \A p \in Reqs \ {r} : pc'[p] = pc[p]
      BY <2>3, ServedAlone
    <3>3. CASE Acquire(r)
      <4>1. ahead[r] = {} /\ Holders = {} /\ pc[r] = "sent"
        BY <3>3 DEF Acquire
      <4>2. \A p \in Reqs \ {r} : pc[p] \notin Live
        BY <2>1, <4>1 DEF LineInv, AwaitedLast, Live, Holders
      <4> QED BY <3>1, <3>2, <4>2
    <3>4. CASE ~Acquire(r)
      BY <2>1, <2>3, <3>1, <3>2, <3>4, ServedAlone DEF LineInv, AwaitedLast
    <3> QED BY <3>3, <3>4
  <2> QED BY <2>2, <2>3
<1>2. Asked'
  <2>1. \A p \in Reqs : pc'[p] \in Live => pc[p] \in Live /\ req'[p] = req[p]
    BY ServedAlone DEF Live, Working, Saving
  <2>2. \A p \in Reqs : pc'[p] = "reply" => pc[p] \in Live \cup {"reply"} /\ req'[p] = req[p]
    BY ServedAlone
  <2>3. device' = device
    BY ServedAlone
  <2> QED BY <2>1, <2>2, <2>3 DEF LineInv, Asked
<1>3. OnDevice'
  BY ServedAlone DEF LineInv, OnDevice
<1> QED BY <1>1, <1>2, <1>3 DEF LineInv

\* What an answer does to the device.
LEMMA Taken ==
  ASSUME TypeOK, KeyInReach, NEW r \in Reqs, Receive(r)
  PROVE  /\ device.waits = r /\ pc[r] = "reply" /\ device'.waits = Nil
         /\ device'.spent = device.spent
         /\ pc' = [pc EXCEPT ![r] = "idle"]
         /\ \A q \in Reqs \ {r} : req'[q] = req[q] /\ reply'[q] = reply[q]
         /\ UNCHANGED <<store, rows, ahead, round, stale, lost, faults, cleanup>>
         /\ reply[r].status = 1 =>
               /\ reply[r].key \in Keys /\ device'.key = reply[r].key
               /\ device'.command = NoCommand
               /\ device'.held = (Confirmed(reply[r].ok, reply[r].created) \ reply[r].dels)
                                     \cup reply[r].adds
         /\ reply[r].status = 3 =>
               device'.key = Zero /\ device'.held = {} /\ device'.command = NoCommand
         /\ reply[r].status \notin {1, 3} =>
               /\ device'.key = device.key /\ device'.held = device.held
               /\ device'.command = device.command
<1>1. device \in Devices /\ (reply[r].status = 1 => reply[r].key \in Keys)
  BY DEF TypeOK, KeyInReach
<1>2. /\ device.waits = r /\ pc[r] = "reply" /\ pc' = [pc EXCEPT ![r] = "idle"]
      /\ UNCHANGED <<store, rows, ahead, round, stale, lost, faults, cleanup>>
  BY DEF Receive
<1>3. \A q \in Reqs \ {r} : req'[q] = req[q] /\ reply'[q] = reply[q]
  BY DEF Receive, TypeOK
<1> DEFINE kept == IF device.command.kind = "Delete" /\ reply[r].ok
                   THEN device.held \ {device.command.on} ELSE device.held
           held == ((kept \cup reply[r].created) \ reply[r].dels) \cup reply[r].adds
<1>4. held = (Confirmed(reply[r].ok, reply[r].created) \ reply[r].dels) \cup reply[r].adds
  BY DEF Confirmed
<1>5. device' =
        CASE reply[r].status = 1 ->
               [device EXCEPT !.key = reply[r].key, !.waits = Nil, !.command = NoCommand,
                              !.held = held]
          [] reply[r].status = 3 ->
               [device EXCEPT !.key = Zero, !.held = {}, !.waits = Nil,
                              !.command = NoCommand]
          [] OTHER -> [device EXCEPT !.waits = Nil]
  BY DEF Receive
<1> HIDE DEF held
<1>6. CASE reply[r].status = 1
  <2>1. device' = [device EXCEPT !.key = reply[r].key, !.waits = Nil, !.command = NoCommand,
                                 !.held = held]
    BY <1>5, <1>6
  <2> QED BY <1>1, <1>2, <1>3, <1>4, <1>6, <2>1 DEF Devices
<1>7. CASE reply[r].status = 3
  <2>1. device' = [device EXCEPT !.key = Zero, !.held = {}, !.waits = Nil,
                                 !.command = NoCommand]
    BY <1>5, <1>7
  <2> QED BY <1>1, <1>2, <1>3, <1>7, <2>1 DEF Devices
<1>8. CASE reply[r].status \notin {1, 3}
  <2>1. device' = [device EXCEPT !.waits = Nil]
    BY <1>5, <1>8
  <2> QED BY <1>1, <1>2, <1>3, <1>8, <2>1 DEF Devices
<1> QED BY <1>6, <1>7, <1>8

\* So does the device.
LEMMA LineClient ==
  ASSUME TypeOK, KeyInReach, LineInv, Client
  PROVE  LineInv'
<1> USE DEF TypeOK, Devices, Live, Working, Saving
<1>1. ASSUME NEW c \in Commands, Edit(c) PROVE LineInv'
  <2>1. UNCHANGED <<pc, req, reply, ahead>> /\ device.waits = Nil /\ device'.waits = Nil
        /\ device'.key = device.key /\ device'.held = device.held /\ device.key # Zero
        /\ device'.command = c
    BY <1>1 DEF Edit
  <2>2. c.kind \in {"Change", "Delete"} => c.on \in device.held
    BY <1>1 DEF Edit
  <2>3. Nil \notin Reqs
    BY SyncAssumption
  <2>4. AwaitedLast' /\ Asked'
    BY <2>1, <2>3 DEF LineInv, AwaitedLast, Asked
  <2>5. OnDevice'
    BY <2>1, <2>2 DEF OnDevice
  <2> QED BY <2>4, <2>5 DEF LineInv
<1>2. CASE StartOver
  BY <1>2, SyncAssumption DEF StartOver, LineInv, AwaitedLast, Asked, OnDevice, NoCommand
<1>3. ASSUME NEW r \in Reqs, NEW f \in Filters \cup {Nil}, Send(r, f) PROVE LineInv'
  <2>1. /\ device.waits = Nil /\ device' = [device EXCEPT !.waits = r]
        /\ pc[r] = "idle" /\ pc' = [pc EXCEPT ![r] = "sent"]
        /\ ahead' = [ahead EXCEPT ![r] = {q \in Reqs : pc[q] = "sent"}]
        /\ req' = [req EXCEPT ![r] = [key |-> device.key, command |-> device.command,
                                      filter |-> f]]
        /\ reply' = reply
    BY <1>3 DEF Send
  <2>2. AwaitedLast'
    BY <2>1 DEF AwaitedLast
  <2>3. Asked'
    BY <2>1 DEF LineInv, Asked
  <2>4. OnDevice'
    BY <2>1 DEF LineInv, OnDevice
  <2> QED BY <2>2, <2>3, <2>4 DEF LineInv
<1>4. ASSUME NEW r \in Reqs, GiveUp(r) PROVE LineInv'
  BY <1>4, SyncAssumption DEF GiveUp, LineInv, AwaitedLast, Asked, OnDevice
<1>5. ASSUME NEW r \in Reqs, Lose(r) PROVE LineInv'
  BY <1>5 DEF Lose, LineInv, AwaitedLast, Asked, OnDevice
<1>6. ASSUME NEW r \in Reqs, Receive(r) PROVE LineInv'
  <2> HIDE DEF TypeOK, Devices, Working, Saving
  <2>1. Nil \notin Reqs /\ device'.waits = Nil
    BY <1>6, Taken, SyncAssumption
  <2>2. AwaitedLast'
    BY <2>1 DEF AwaitedLast
  <2>3. /\ device.waits = r /\ pc[r] = "reply" /\ pc'[r] = "idle"
        /\ \A q \in Reqs \ {r} : pc'[q] = pc[q] /\ req'[q] = req[q]
    BY <1>6, Taken DEF TypeOK
  <2>4. pc'[r] \notin Live
    BY <2>3 DEF Working, Saving
  <2>5. CASE reply[r].status = 1
    <3>1. \A q \in Reqs : pc'[q] \notin Live
      BY <2>3, <2>4, <2>5 DEF LineInv, AwaitedLast
    <3>2. device'.command = NoCommand /\ device'.key # Zero
      BY <1>6, <2>5, Taken DEF Zero, Keys
    <3> QED BY <2>1, <2>2, <3>1, <3>2 DEF LineInv, Asked, OnDevice, NoCommand
  <2>6. CASE reply[r].status = 3
    <3>1. device'.key = Zero /\ device'.held = {} /\ device'.command = NoCommand
      BY <1>6, <2>6, Taken
    <3> QED BY <2>1, <2>2, <3>1 DEF LineInv, Asked, OnDevice, NoCommand
  <2>7. CASE reply[r].status \notin {1, 3}
    <3>1. /\ device'.key = device.key /\ device'.held = device.held
          /\ device'.command = device.command
      BY <1>6, <2>7, Taken
    <3>2. Asked'
      BY <2>1, <2>3, <2>4, <3>1 DEF LineInv, Asked
    <3>3. OnDevice'
      BY <3>1 DEF LineInv, OnDevice
    <3> QED BY <2>2, <3>2, <3>3 DEF LineInv
  <2> QED BY <2>5, <2>6, <2>7
<1> QED BY <1>1, <1>2, <1>3, <1>4, <1>5, <1>6 DEF Client

\* So does every step.
LEMMA LineInductive ==
  ASSUME Exclusive, InOrder, IInv, LineInv, [Next]_vars
  PROVE  LineInv'
<1>1. ASSUME UNCHANGED <<device, ahead, pc, req, reply>> PROVE LineInv'
  BY <1>1 DEF LineInv, AwaitedLast, Asked, OnDevice
<1>2. TypeOK /\ KeyInReach /\ OneHolder
  BY DEF IInv
<1> QED BY <1>1, <1>2, LineServed, LineClient, NobodyServed DEF Next

-----------------------------------------------------------------------------
(* The chunk rows of a round being saved.                                  *)

OutOfRow(r) == ~StaysInline(round[r].stored.chunked, round[r].serverIds)
Rewriting(r) == pc[r] \in {"clear", "chunk"} \/ (pc[r] = "final" /\ OutOfRow(r))

\* What a round is going to write: the next key, past its chunk rows if it needs any.
Course(r) ==
    /\ pc[r] \in {"truncate", "restart"} => req[r].key = Zero
    /\ pc[r] \in {"save", "clear", "chunk", "final"} =>
          generation(round[r].key) = generation(req[r].key) + 1
    /\ pc[r] \in {"save", "clear", "chunk"} => OutOfRow(r)
    /\ pc[r] = "clear" => ~round[r].stored.chunked
    /\ pc[r] \notin Working \ {"locked"} => stale[r] = {}

\* While chunk rows are rewritten, the row matches no key; it names them unless
\* it has been removed.
Withdrawn(r) ==
    Rewriting(r) => /\ row.syncKey = Blank
                    /\ row.previous.key = Blank
                    /\ RowMark \notin stale[r] => row.chunked

\* The round has loaded the chunk rows, and has not written them all.
InHand(r) ==
    \/ pc[r] = "chunk"
    \/ pc[r] \in {"apply", "enum", "save"} /\ round[r].stored.chunked

\* The chunk rows are disjoint, are no more than what the round at work has loaded or
\* written, and stay disjoint as it writes on.
ChunksLoaded(r) ==
    /\ pc[r] \in Begun => Sized(round[r].loaded) /\ Disjoint(round[r].loaded)
    /\ InHand(r) => \A i \in ChunkIndex : chunks[i] \subseteq round[r].loaded[i]
    /\ pc[r] \in {"clear", "chunk"} =>
          /\ Sized(round[r].plan) /\ Disjoint(round[r].plan)
          /\ \A i, j \in ChunkIndex : i # j => round[r].plan[i] \cap round[r].loaded[j] = {}

\* Unless the clean-up is at work, they are all of it, and the plan is the new set.
Union(c) == UNION {c[i] : i \in ChunkIndex}
Untouched(r) == RowMark \notin stale[r] /\ cleanup = "none"
ChunksComplete(r) ==
    /\ pc[r] \in {"apply", "enum", "save", "clear"} /\ ~round[r].stored.chunked
          => round[r].loaded = NoChunks
    /\ Untouched(r) =>
          /\ InHand(r) => chunks = round[r].loaded
          /\ pc[r] = "final" /\ OutOfRow(r) => Union(chunks) = round[r].serverIds
    /\ pc[r] \in {"clear", "chunk"} => Union(round[r].plan) = round[r].serverIds

InCourse(r) == Course(r) /\ Withdrawn(r) /\ ChunksLoaded(r) /\ ChunksComplete(r)

ChunkInv == ChunksDisjoint /\ \A r \in Reqs : InCourse(r)

\* What a round that is let go on has loaded.
LEMMA Loads ==
  ASSUME TypeOK, NEW r \in Reqs, LoadHeld(r), pc'[r] # "reply"
  PROVE  /\ pc[r] = "read" /\ pc'[r] = "apply"
         /\ UNCHANGED <<store, rows, device, ahead, req, stale, reply, lost, faults, cleanup>>
         /\ IsCurrent(req[r].key, round[r].stored) \/ IsRetry(req[r].key, round[r].stored)
         /\ round'[r].stored = round[r].stored
         /\ round'[r].loaded = IF round[r].stored.chunked THEN chunks ELSE NoChunks
         /\ round'[r].base = BaseSet(req[r].key, round[r].stored,
               LoadHeldSet(round[r].stored.chunked, round[r].stored.serverIds, chunks))
         /\ round'[r].serverIds = round'[r].base
         /\ round'[r].retry = IsRetry(req[r].key, round[r].stored)
         /\ round'[r].filter = IF req[r].filter = Nil THEN round[r].stored.filter
                               ELSE req[r].filter
         /\ ~FilterRefused(req[r].filter, round[r].stored, req[r].key, round'[r].base)
<1> DEFINE held == LoadHeldSet(round[r].stored.chunked, round[r].stored.serverIds, chunks)
           base == BaseSet(req[r].key, round[r].stored, held)
           loaded == IF round[r].stored.chunked THEN chunks ELSE NoChunks
<1>1. round[r] \in Works
  BY DEF TypeOK
<1>2. /\ pc[r] = "read"
      /\ UNCHANGED <<store, rows, device, ahead, req, lost, faults, cleanup>>
  BY DEF LoadHeld
<1>3. ~(\/ ~IsCurrent(req[r].key, round[r].stored) /\ ~IsRetry(req[r].key, round[r].stored)
        \/ FilterRefused(req[r].filter, round[r].stored, req[r].key, base))
  BY DEF LoadHeld, AnswerWith, TypeOK
<1>4. /\ round' = [round EXCEPT ![r] =
           [@ EXCEPT !.loaded = loaded, !.base = base, !.serverIds = base,
                     !.retry = IsRetry(req[r].key, round[r].stored),
                     !.filter = IF req[r].filter = Nil THEN round[r].stored.filter
                                ELSE req[r].filter]]
      /\ pc' = [pc EXCEPT ![r] = "apply"] /\ UNCHANGED <<stale, reply>>
  BY <1>3 DEF LoadHeld
<1> HIDE DEF base, loaded
<1>5. /\ round'[r].stored = round[r].stored /\ round'[r].loaded = loaded
      /\ round'[r].base = base /\ round'[r].serverIds = base
      /\ round'[r].retry = IsRetry(req[r].key, round[r].stored)
      /\ round'[r].filter = IF req[r].filter = Nil THEN round[r].stored.filter
                            ELSE req[r].filter
  BY <1>1, <1>4 DEF Works, TypeOK
<1>6. pc'[r] = "apply"
  BY <1>4 DEF TypeOK
<1> QED BY <1>2, <1>3, <1>4, <1>5, <1>6 DEF base, loaded

\* What a command leaves of a round.
LEMMA Applies ==
  ASSUME TypeOK, NEW r \in Reqs, NEW ids, NEW ok, NEW clientIds,
         Applied(r, ids, ok, clientIds)
  PROVE  /\ pc'[r] = "enum"
         /\ UNCHANGED <<rows, device, ahead, req, stale, reply, lost, faults, cleanup>>
         /\ round'[r] = [round[r] EXCEPT !.serverIds = ids, !.ok = ok,
                                         !.clientIds = clientIds]
         /\ round'[r].stored = round[r].stored /\ round'[r].loaded = round[r].loaded
         /\ round'[r].base = round[r].base /\ round'[r].retry = round[r].retry
         /\ round'[r].key = round[r].key /\ round'[r].filter = round[r].filter
         /\ round'[r].serverIds = ids /\ round'[r].ok = ok
         /\ round'[r].clientIds = clientIds
<1>1. round[r] \in Works
  BY DEF TypeOK
<1> QED BY <1>1 DEF Applied, TypeOK, Works

\* What the enumeration leaves of a round.
LEMMA Enumerates ==
  ASSUME TypeOK, NEW r \in Reqs, Enumerate(r)
  PROVE  /\ pc[r] = "enum"
         /\ pc'[r] = IF OutOfRow(r)' THEN "save" ELSE "final"
         /\ UNCHANGED <<store, rows, device, ahead, req, stale, reply, lost, faults, cleanup>>
         /\ round'[r].stored = round[r].stored /\ round'[r].loaded = round[r].loaded
         /\ round'[r].base = round[r].base /\ round'[r].retry = round[r].retry
         /\ round'[r].ok = round[r].ok /\ round'[r].clientIds = round[r].clientIds
         /\ round'[r].filter = round[r].filter
         /\ round'[r].adds \subseteq InFolder \ round[r].serverIds
         /\ round'[r].dels \subseteq round[r].serverIds \ InFolder
         /\ round'[r].serverIds =
               (round[r].serverIds \cup round'[r].adds) \ round'[r].dels
         /\ generation(round'[r].key) = generation(req[r].key) + 1
<1>1. round[r] \in Works
  BY DEF TypeOK
<1>2. PICK adds \in SUBSET (InFolder \ round[r].serverIds),
           dels \in SUBSET (round[r].serverIds \ InFolder),
           at \in cursor(req[r].key)..MaxCursor :
        LET ids == (round[r].serverIds \cup adds) \ dels
        IN  /\ round' = [round EXCEPT ![r] =
                 [@ EXCEPT !.serverIds = ids, !.adds = adds, !.dels = dels,
                           !.key = <<generation(req[r].key) + 1, at>>]]
            /\ pc' = [pc EXCEPT ![r] =
                 IF StaysInline(round[r].stored.chunked, ids) THEN "final" ELSE "save"]
  BY DEF Enumerate
<1> DEFINE ids == (round[r].serverIds \cup adds) \ dels
           key == <<generation(req[r].key) + 1, at>>
<1>3. /\ round' = [round EXCEPT ![r] =
           [@ EXCEPT !.serverIds = ids, !.adds = adds, !.dels = dels, !.key = key]]
      /\ pc' = [pc EXCEPT ![r] =
                 IF StaysInline(round[r].stored.chunked, ids) THEN "final" ELSE "save"]
  BY <1>2
<1>4. generation(key) = generation(req[r].key) + 1
  BY DEF generation
<1> HIDE DEF ids, key
<1>5. /\ round'[r].stored = round[r].stored /\ round'[r].loaded = round[r].loaded
      /\ round'[r].base = round[r].base /\ round'[r].retry = round[r].retry
      /\ round'[r].ok = round[r].ok /\ round'[r].clientIds = round[r].clientIds
      /\ round'[r].filter = round[r].filter
      /\ round'[r].adds = adds /\ round'[r].dels = dels
      /\ round'[r].serverIds = ids /\ round'[r].key = key
  BY <1>1, <1>3 DEF TypeOK, Works
<1>6. pc'[r] = IF OutOfRow(r)' THEN "save" ELSE "final"
  BY <1>3, <1>5 DEF OutOfRow, TypeOK
<1>7. /\ pc[r] = "enum"
      /\ UNCHANGED <<store, rows, device, ahead, req, stale, reply, lost, faults, cleanup>>
  BY DEF Enumerate
<1> QED BY <1>2, <1>4, <1>5, <1>6, <1>7 DEF ids

\* What withdrawing the row's keys does.
LEMMA Invalidates ==
  ASSUME TypeOK, NEW r \in Reqs, Invalidate(r)
  PROVE  /\ pc[r] = "save" /\ RowMark \notin stale[r] /\ stale'[r] = stale[r]
         /\ pc'[r] = IF round[r].stored.chunked THEN "chunk" ELSE "clear"
         /\ Fits(round[r].loaded, round[r].serverIds)
         /\ UNCHANGED <<store, chunks, device, ahead, req, reply, lost, faults, cleanup>>
         /\ row' \in States /\ row'.syncKey = Blank /\ row'.previous.key = Blank
         /\ row'.chunked /\ row'.exists = row.exists
         /\ row'.previous.clientIds = row.previous.clientIds /\ row'.filter = row.filter
         /\ round'[r].stored = round[r].stored /\ round'[r].loaded = round[r].loaded
         /\ round'[r].base = round[r].base /\ round'[r].retry = round[r].retry
         /\ round'[r].serverIds = round[r].serverIds /\ round'[r].key = round[r].key
         /\ round'[r].ok = round[r].ok /\ round'[r].clientIds = round[r].clientIds
         /\ round'[r].adds = round[r].adds /\ round'[r].dels = round[r].dels
         /\ round'[r].filter = round[r].filter
         /\ \E order \in SetToSeqs(Pending(round[r].loaded, round[r].serverIds)) :
               round'[r].plan = Plan(round[r].loaded, round[r].serverIds, order)
<1>1. round[r] \in Works /\ row \in States
  BY DEF TypeOK
<1>2. PICK order \in SetToSeqs(Pending(round[r].loaded, round[r].serverIds)) :
         round' = [round EXCEPT ![r].plan =
                      Plan(round[r].loaded, round[r].serverIds, order)]
  BY DEF Invalidate
<1>3. /\ pc[r] = "save" /\ RowMark \notin stale[r] /\ stale'[r] = stale[r]
      /\ pc'[r] = IF round[r].stored.chunked THEN "chunk" ELSE "clear"
      /\ Fits(round[r].loaded, round[r].serverIds)
      /\ UNCHANGED <<store, chunks, device, ahead, req, reply, lost, faults, cleanup>>
  BY DEF Invalidate, Outdates, TypeOK
<1>4. row' = [row EXCEPT !.syncKey = Blank, !.previous.key = Blank,
                         !.serverIds = {}, !.chunked = TRUE]
  BY DEF Invalidate
<1>5. /\ row' \in States /\ row'.syncKey = Blank /\ row'.previous.key = Blank
      /\ row'.chunked /\ row'.exists = row.exists
      /\ row'.previous.clientIds = row.previous.clientIds /\ row'.filter = row.filter
  BY <1>1, <1>4 DEF States, Rounds
<1> DEFINE plan == Plan(round[r].loaded, round[r].serverIds, order)
<1> HIDE DEF plan
<1>6. /\ round'[r].stored = round[r].stored /\ round'[r].loaded = round[r].loaded
      /\ round'[r].base = round[r].base /\ round'[r].retry = round[r].retry
      /\ round'[r].serverIds = round[r].serverIds /\ round'[r].key = round[r].key
      /\ round'[r].ok = round[r].ok /\ round'[r].clientIds = round[r].clientIds
      /\ round'[r].adds = round[r].adds /\ round'[r].dels = round[r].dels
      /\ round'[r].filter = round[r].filter
      /\ round'[r].plan = plan
  <2>1. round' = [round EXCEPT ![r].plan = plan]
    BY <1>2 DEF plan
  <2> QED BY <1>1, <2>1 DEF TypeOK, Works
<1> QED BY <1>3, <1>5, <1>6 DEF plan

\* What writing one chunk row does.
LEMMA WritesChunk ==
  ASSUME TypeOK, NEW r \in Reqs, WriteChunk(r)
  PROVE  /\ pc[r] = "chunk" /\ pc' = pc /\ stale'[r] = stale[r]
         /\ UNCHANGED <<store, row, device, ahead, req, reply, lost, faults, cleanup>>
         /\ round'[r].stored = round[r].stored /\ round'[r].plan = round[r].plan
         /\ round'[r].base = round[r].base /\ round'[r].retry = round[r].retry
         /\ round'[r].serverIds = round[r].serverIds /\ round'[r].key = round[r].key
         /\ round'[r].ok = round[r].ok /\ round'[r].clientIds = round[r].clientIds
         /\ round'[r].adds = round[r].adds /\ round'[r].dels = round[r].dels
         /\ round'[r].filter = round[r].filter
         /\ \E i \in ChunkIndex :
               /\ chunks' = [chunks EXCEPT ![i] = round[r].plan[i]]
               /\ round'[r].loaded = [round[r].loaded EXCEPT ![i] = round[r].plan[i]]
<1>1. round[r] \in Works
  BY DEF TypeOK
<1>2. PICK i \in ChunkIndex :
         /\ chunks' = [chunks EXCEPT ![i] = round[r].plan[i]]
         /\ round' = [round EXCEPT ![r].loaded[i] = round[r].plan[i]]
         /\ Outdates(r, {i})
  BY DEF WriteChunk
<1>3. /\ pc[r] = "chunk" /\ pc' = pc
      /\ UNCHANGED <<store, row, device, ahead, req, reply, lost, faults, cleanup>>
  BY DEF WriteChunk
<1>4. stale'[r] = stale[r]
  BY <1>2 DEF Outdates, TypeOK
<1> DEFINE loaded == [round[r].loaded EXCEPT ![i] = round[r].plan[i]]
<1>5. round' = [round EXCEPT ![r].loaded = loaded]
  BY <1>1, <1>2 DEF TypeOK
<1> HIDE DEF loaded
<1>6. /\ round'[r].stored = round[r].stored /\ round'[r].plan = round[r].plan
      /\ round'[r].base = round[r].base /\ round'[r].retry = round[r].retry
      /\ round'[r].serverIds = round[r].serverIds /\ round'[r].key = round[r].key
      /\ round'[r].ok = round[r].ok /\ round'[r].clientIds = round[r].clientIds
      /\ round'[r].adds = round[r].adds /\ round'[r].dels = round[r].dels
      /\ round'[r].filter = round[r].filter
      /\ round'[r].loaded = loaded
  BY <1>1, <1>5 DEF TypeOK, Works
<1> QED BY <1>2, <1>3, <1>4, <1>6 DEF loaded

\* A round that ends leaves nothing behind in its slot.
LEMMA Ended ==
  ASSUME TypeOK, NEW r \in Reqs, Serve(r) \/ Fault(r), pc[r] \in Working,
         pc'[r] \notin Working
  PROVE  pc'[r] \in {"reply", "idle"} /\ stale'[r] = {}
<1>1. pc'[r] \in {"reply", "idle"}
  BY ServedAlone
<1> USE DEF TypeOK
<1>2. CASE LoadHeld(r)
  <2>1. pc'[r] = "reply"
    BY <1>1, <1>2, Loads DEF Working
  <2> QED BY <1>1, <1>2, <2>1 DEF LoadHeld, Ends
<1>3. CASE FinalWrite(r) \/ RestartWrite(r)
  BY <1>1, <1>3 DEF FinalWrite, RestartWrite, EndsOutdating
<1>4. CASE SaveLosesRace(r) \/ Fault(r)
  BY <1>1, <1>4 DEF SaveLosesRace, Fault, LoadFails, WriteFails, Die, Ends
<1>5. CASE Acquire(r) \/ LeaseTimeout(r) \/ ReadRow(r) \/ Enumerate(r) \/ Apply(r)
  BY <1>5, ApplyStep DEF Acquire, LeaseTimeout, ReadRow, Enumerate, Working, Saving
<1>6. CASE Invalidate(r) \/ ClearLeftover(r) \/ WriteChunk(r) \/ ChunksWritten(r)
             \/ Truncate(r)
  BY <1>6 DEF Invalidate, ClearLeftover, WriteChunk, ChunksWritten, Truncate, Working, Saving
<1> QED BY <1>2, <1>3, <1>4, <1>5, <1>6 DEF Serve, Save

\* With one lease, nothing else happens to the rows while a round is at work, but a
\* clean-up.
LEMMA WorksAlone ==
  ASSUME Exclusive, TypeOK, OneHolder, NEW r \in Reqs, NEW q \in Reqs, q # r,
         pc[r] \in Working, Serve(q) \/ Fault(q)
  PROVE  /\ UNCHANGED <<store, rows, device, cleanup>> /\ stale'[r] = stale[r]
         /\ pc'[r] = pc[r] /\ req'[r] = req[r] /\ round'[r] = round[r]
         /\ reply'[r] = reply[r]
<1>1. pc[q] \notin Working
  BY DEF OneHolder
<1>2. ~Acquire(q)
  BY DEF Acquire, Holders
<1>3. CASE LeaseTimeout(q)
  BY <1>3, ServedAlone DEF LeaseTimeout
<1>4. CASE Die(q)
  BY <1>4, ServedAlone DEF Die, Ends, TypeOK
<1>5. LeaseTimeout(q) \/ Die(q)
  BY <1>1, <1>2 DEF Serve, Fault, Save, Apply, ReadRow, LoadHeld, LoadFails, WriteFails,
        Enumerate, NothingToApply, ReplayAdd, ApplyAdd, ApplyChange, ApplyDelete,
        DeleteAbsent, RefuseCommand, Invalidate, ClearLeftover, WriteChunk, ChunksWritten,
        FinalWrite, Truncate, RestartWrite, SaveLosesRace, Working, Saving
<1> QED BY <1>3, <1>4, <1>5

\* Nobody marks a request that has read nothing.
LEMMA IdleUnmarked ==
  ASSUME TypeOK, NEW r \in Reqs, NEW q \in Reqs, q # r,
         pc[r] \notin Working \ {"locked"}, Serve(q) \/ Fault(q)
  PROVE  stale'[r] = stale[r]
<1> USE DEF TypeOK
<1>1. CASE Apply(q)
  BY <1>1 DEF Apply, NothingToApply, ReplayAdd, ApplyAdd, ApplyChange, ApplyDelete,
              DeleteAbsent, RefuseCommand, Applied
<1>2. CASE Acquire(q) \/ LeaseTimeout(q) \/ ReadRow(q) \/ LoadHeld(q) \/ Enumerate(q)
  BY <1>2 DEF Acquire, LeaseTimeout, ReadRow, LoadHeld, Enumerate, Ends
<1>3. CASE Invalidate(q) \/ ClearLeftover(q) \/ WriteChunk(q) \/ ChunksWritten(q)
             \/ Truncate(q)
  BY <1>3 DEF Invalidate, ClearLeftover, WriteChunk, ChunksWritten, Truncate, Outdates
<1>4. CASE FinalWrite(q) \/ RestartWrite(q)
  BY <1>4 DEF FinalWrite, RestartWrite, EndsOutdating
<1>5. CASE SaveLosesRace(q) \/ Fault(q)
  BY <1>5 DEF SaveLosesRace, Fault, LoadFails, WriteFails, Die, Ends
<1> QED BY <1>1, <1>2, <1>3, <1>4, <1>5 DEF Serve, Save

\* No chunk rows are disjoint chunk rows.
LEMMA NoChunksParts == Sized(NoChunks) /\ Disjoint(NoChunks) /\ NoChunks \in ChunkRows
<1>1. Cardinality({}) = 0 /\ 0 <= HeldChunkSize
  BY FS_EmptySet, StoreAssumption
<1> QED BY <1>1 DEF NoChunks, Sized, Disjoint, ChunkRows

\* Up to the enumeration nothing is written.
LEMMA CourseBegins ==
  ASSUME TypeOK, NEW r \in Reqs, ChunksDisjoint, InCourse(r),
         \/ Acquire(r) \/ ReadRow(r) \/ (LoadHeld(r) /\ pc'[r] # "reply")
         \/ Apply(r) \/ Enumerate(r)
  PROVE  InCourse(r)'
<1> USE DEF InCourse, Course, Withdrawn, ChunksLoaded, ChunksComplete, InHand, Begun,
            Untouched, Working, Saving
<1>1. CASE Acquire(r)
  <2>1. pc[r] = "sent" /\ pc'[r] = "locked" /\ stale' = stale
    BY <1>1 DEF Acquire, TypeOK
  <2> QED BY <2>1 DEF Rewriting
<1>2. CASE ReadRow(r)
  <2>1. /\ pc[r] = "locked" /\ stale' = stale /\ req' = req
        /\ pc'[r] = IF req[r].key = Zero THEN "truncate" ELSE "read"
    BY <1>2 DEF ReadRow, TypeOK
  <2> QED BY <2>1 DEF Rewriting
<1>3. CASE LoadHeld(r) /\ pc'[r] # "reply"
  <2>1. pc'[r] = "apply" /\ UNCHANGED <<chunks, row, req, stale, cleanup>>
    BY <1>3, Loads DEF rows
  <2>2. /\ round'[r].stored = round[r].stored
        /\ round'[r].loaded = IF round[r].stored.chunked THEN chunks ELSE NoChunks
    BY <1>3, Loads
  <2>3. Sized(chunks) /\ Disjoint(chunks)
    BY DEF ChunksDisjoint, Sized, Disjoint
  <2>4. Sized(round'[r].loaded) /\ Disjoint(round'[r].loaded)
    BY <2>2, <2>3, NoChunksParts DEF Sized, Disjoint
  <2> QED BY <2>1, <2>2, <2>4 DEF Rewriting, Sized, Disjoint
<1>4. CASE Apply(r)
  <2>1. PICK ids, ok, clientIds : Applied(r, ids, ok, clientIds)
    BY <1>4 DEF Apply, NothingToApply, ReplayAdd, ApplyAdd, ApplyChange, ApplyDelete,
                DeleteAbsent, RefuseCommand
  <2>2. pc[r] = "apply" /\ pc'[r] = "enum" /\ UNCHANGED <<chunks, row, req, stale, cleanup>>
    BY <1>4, <2>1, ApplyStep, Applies DEF rows
  <2>3. round'[r].stored = round[r].stored /\ round'[r].loaded = round[r].loaded
    BY <2>1, Applies
  <2> QED BY <2>2, <2>3 DEF Rewriting, Sized, Disjoint
<1>5. CASE Enumerate(r)
  <2>1. /\ pc[r] = "enum" /\ UNCHANGED <<chunks, row, req, stale, cleanup>>
        /\ pc'[r] = IF OutOfRow(r)' THEN "save" ELSE "final"
    BY <1>5, Enumerates DEF rows
  <2>2. /\ round'[r].stored = round[r].stored /\ round'[r].loaded = round[r].loaded
        /\ generation(round'[r].key) = generation(req[r].key) + 1
    BY <1>5, Enumerates
  <2> QED BY <2>1, <2>2 DEF Rewriting, Sized, Disjoint
<1> QED BY <1>1, <1>2, <1>3, <1>4, <1>5

\* The plan of a save is a set of chunk rows of its own, and it can be written one row
\* at a time.
LEMMA CoursePlanned ==
  ASSUME TypeOK, NEW r \in Reqs, InCourse(r), Invalidate(r)
  PROVE  InCourse(r)'
<1> DEFINE w == round[r]
<1>1. w.loaded \in ChunkRows /\ w.serverIds \in SUBSET Items /\ Sized(w.loaded)
      /\ Disjoint(w.loaded)
  BY DEF TypeOK, Works, InCourse, ChunksLoaded, InHand, Begun, Invalidate
<1>2. PICK order \in SetToSeqs(Pending(w.loaded, w.serverIds)) :
         round'[r].plan = Plan(w.loaded, w.serverIds, order)
  BY Invalidates
<1>3. Fits(w.loaded, w.serverIds)
  BY Invalidates
<1> DEFINE plan == Plan(w.loaded, w.serverIds, order)
<1>4. Sized(plan) /\ Union(plan) = w.serverIds
  BY <1>1, <1>3, PlanSized, PlanCovers DEF Union
<1>5. ASSUME NEW i \in ChunkIndex, NEW j \in ChunkIndex, i # j
      PROVE  plan[i] \cap plan[j] = {} /\ plan[i] \cap w.loaded[j] = {}
  <2>1. i < j \/ j < i
    BY <1>5, StoreAssumption DEF ChunkIndex
  <2> QED BY <1>1, <2>1, PlanDisjoint
<1> HIDE DEF plan
<1>6. round'[r].plan = plan
  BY <1>2 DEF plan
<1>7. /\ pc[r] = "save" /\ UNCHANGED <<chunks, req, cleanup>> /\ stale'[r] = stale[r]
      /\ pc'[r] = IF w.stored.chunked THEN "chunk" ELSE "clear"
      /\ row'.syncKey = Blank /\ row'.previous.key = Blank /\ row'.chunked
      /\ round'[r].stored = w.stored /\ round'[r].loaded = w.loaded
      /\ round'[r].serverIds = w.serverIds /\ round'[r].key = w.key
  BY Invalidates
<1>8. Course(r)' /\ Withdrawn(r)'
  BY <1>7 DEF InCourse, Course, Withdrawn, Rewriting, OutOfRow, Working, Saving
<1>9. ChunksLoaded(r)'
  BY <1>1, <1>4, <1>5, <1>6, <1>7
     DEF InCourse, ChunksLoaded, InHand, Begun, Sized, Disjoint
<1>10. ChunksComplete(r)'
  BY <1>4, <1>6, <1>7 DEF InCourse, ChunksComplete, InHand, Untouched, Union
<1> QED BY <1>8, <1>9, <1>10 DEF InCourse

\* Writing one chunk row keeps the save in its course.
LEMMA CourseWritten ==
  ASSUME TypeOK, NEW r \in Reqs, InCourse(r),
         ClearLeftover(r) \/ WriteChunk(r) \/ ChunksWritten(r) \/ Truncate(r)
  PROVE  InCourse(r)'
<1>1. /\ round[r].loaded \in ChunkRows /\ round[r].plan \in ChunkRows
      /\ chunks \in ChunkRows
  BY DEF TypeOK, Works
<1>2. CASE ClearLeftover(r)
  <2>1. /\ pc[r] = "clear" /\ pc'[r] = "chunk" /\ UNCHANGED <<row, req, round, cleanup>>
        /\ stale'[r] = stale[r] /\ chunks' = NoChunks
    BY <1>2 DEF ClearLeftover, Outdates, TypeOK
  <2>2. Course(r)' /\ Withdrawn(r)'
    BY <2>1 DEF InCourse, Course, Withdrawn, Rewriting, OutOfRow, Working, Saving
  <2>3. ChunksLoaded(r)'
    BY <2>1 DEF InCourse, ChunksLoaded, InHand, Begun, NoChunks
  <2>4. round[r].loaded = NoChunks
    BY <2>1 DEF InCourse, Course, ChunksComplete
  <2>5. ChunksComplete(r)'
    BY <2>1, <2>4 DEF InCourse, ChunksComplete, InHand, Untouched
  <2> QED BY <2>2, <2>3, <2>5 DEF InCourse
<1>3. CASE WriteChunk(r)
  <2>1. PICK i \in ChunkIndex :
          /\ chunks' = [chunks EXCEPT ![i] = round[r].plan[i]]
          /\ round'[r].loaded = [round[r].loaded EXCEPT ![i] = round[r].plan[i]]
    BY <1>3, WritesChunk
  <2>2. /\ pc[r] = "chunk" /\ pc'[r] = "chunk" /\ UNCHANGED <<row, req, cleanup>>
        /\ stale'[r] = stale[r] /\ round'[r].stored = round[r].stored
        /\ round'[r].plan = round[r].plan /\ round'[r].serverIds = round[r].serverIds
        /\ round'[r].key = round[r].key
    BY <1>3, WritesChunk
  <2>3. Course(r)' /\ Withdrawn(r)'
    BY <2>2 DEF InCourse, Course, Withdrawn, Rewriting, OutOfRow, Working, Saving
  <2>4. \A j \in ChunkIndex :
           /\ chunks'[j] = IF j = i THEN round[r].plan[i] ELSE chunks[j]
           /\ round'[r].loaded[j] = IF j = i THEN round[r].plan[i] ELSE round[r].loaded[j]
    BY <1>1, <2>1 DEF ChunkRows
  <2>5. ChunksLoaded(r)'
    BY <2>2, <2>4 DEF InCourse, ChunksLoaded, InHand, Begun, Sized, Disjoint
  <2>6. ChunksComplete(r)'
    BY <2>1, <2>2 DEF InCourse, ChunksComplete, InHand, Untouched
  <2> QED BY <2>3, <2>5, <2>6 DEF InCourse
<1>4. CASE ChunksWritten(r)
  <2>1. /\ pc[r] = "chunk" /\ pc'[r] = "final"
        /\ UNCHANGED <<row, req, round, cleanup, chunks, stale>>
        /\ Changed(round[r].loaded, round[r].plan) = {}
    BY <1>4 DEF ChunksWritten, TypeOK, rows
  <2>2. round[r].loaded = round[r].plan
    BY <1>1, <2>1 DEF Changed, ChunkRows
  <2>3. Course(r)' /\ Withdrawn(r)'
    BY <2>1 DEF InCourse, Course, Withdrawn, Rewriting, OutOfRow, Working, Saving
  <2>4. ChunksLoaded(r)'
    BY <2>1 DEF InCourse, ChunksLoaded, InHand, Begun
  <2>5. ChunksComplete(r)'
    BY <2>1, <2>2 DEF InCourse, ChunksComplete, InHand, Untouched
  <2> QED BY <2>3, <2>4, <2>5 DEF InCourse
<1>5. CASE Truncate(r)
  <2>1. /\ pc[r] = "truncate" /\ pc'[r] = "restart" /\ UNCHANGED <<row, req, round>>
        /\ stale'[r] = stale[r]
    BY <1>5 DEF Truncate, Outdates, TypeOK
  <2> QED BY <2>1 DEF InCourse, Course, Withdrawn, Rewriting, ChunksLoaded, InHand, Begun,
                      ChunksComplete, Working, Saving
<1> QED BY <1>2, <1>3, <1>4, <1>5

\* What a request without a lease leaves.
LEMMA CourseOver ==
  ASSUME NEW r \in Reqs, pc'[r] \notin Working, stale'[r] = {}
  PROVE  InCourse(r)'
BY DEF InCourse, Course, Withdrawn, Rewriting, ChunksLoaded, InHand, Begun,
       ChunksComplete, Working, Saving

\* So does every step of a handler.
LEMMA CourseServed ==
  ASSUME TypeOK, NEW r \in Reqs, ChunksDisjoint, InCourse(r), Serve(r) \/ Fault(r)
  PROVE  InCourse(r)'
<1>1. CASE pc'[r] \notin Working
  <2>1. CASE pc[r] \in Working
    BY <1>1, <2>1, Ended, CourseOver
  <2>2. CASE pc[r] \notin Working
    <3>1. LeaseTimeout(r) \/ Die(r) \/ Acquire(r)
      BY <2>2 DEF Serve, Fault, Save, Apply, ReadRow, LoadHeld, LoadFails, WriteFails,
        Enumerate, NothingToApply, ReplayAdd, ApplyAdd, ApplyChange, ApplyDelete,
        DeleteAbsent, RefuseCommand, Invalidate, ClearLeftover, WriteChunk, ChunksWritten,
        FinalWrite, Truncate, RestartWrite, SaveLosesRace, Working, Saving
    <3>2. stale[r] = {}
      BY <2>2 DEF InCourse, Course
    <3>3. stale'[r] = {}
      BY <3>1, <3>2 DEF LeaseTimeout, Die, Ends, Acquire, TypeOK
    <3> QED BY <1>1, <3>3, CourseOver
  <2> QED BY <2>1, <2>2
<1>2. CASE pc'[r] \in Working
  <2>1. pc'[r] \notin {"reply", "idle"}
    BY <1>2 DEF Working, Saving
  <2>2. ~LeaseTimeout(r) /\ ~FinalWrite(r) /\ ~RestartWrite(r) /\ ~SaveLosesRace(r)
        /\ ~Fault(r)
    BY <2>1 DEF LeaseTimeout, FinalWrite, RestartWrite, SaveLosesRace, Fault, LoadFails,
                WriteFails, Die, SaveFailed, AnswerWith, TypeOK
  <2> QED BY <2>1, <2>2, CourseBegins, CoursePlanned, CourseWritten DEF Serve, Save
<1> QED BY <1>1, <1>2

\* The clean-up only takes chunk rows away, and whoever holds a copy of a row that
\* it removes is marked.
LEMMA CourseCleaned ==
  ASSUME TypeOK, NEW r \in Reqs, RowAsRead(r), InCourse(r), CleanUp
  PROVE  InCourse(r)'
<1>1. UNCHANGED <<pc, req, round>>
  BY CleanUpStep
<1>2. /\ pc[r] \in Working \ {"locked"} => stale[r] \subseteq stale'[r]
      /\ pc[r] \notin Working \ {"locked"} => stale'[r] = stale[r]
  BY DEF CleanUp, CleanUpChunks, CleanUpRow, CleanUpStops, OutdatesAll, TypeOK
<1>3. row' = row \/ (row' = NoState
                     /\ (pc[r] \in Working \ {"locked"} => RowMark \in stale'[r]))
  BY DEF CleanUp, CleanUpChunks, CleanUpRow, CleanUpStops, OutdatesAll, TypeOK, rows
<1>4. chunks' = chunks \/ chunks' = NoChunks
  BY DEF CleanUp, CleanUpChunks, CleanUpRow, CleanUpStops, rows
<1>5. \/ cleanup' # "none"
      \/ pc[r] \in Working \ {"locked"} => RowMark \in stale'[r]
      \/ ~row.chunked /\ UNCHANGED <<row, stale, chunks>>
  BY DEF CleanUp, CleanUpChunks, CleanUpRow, CleanUpStops, OutdatesAll, TypeOK, rows
<1>6. Course(r)'
  BY <1>1, <1>2 DEF InCourse, Course, OutOfRow
<1>7. Withdrawn(r)'
  BY <1>1, <1>2, <1>3 DEF InCourse, Withdrawn, Rewriting, OutOfRow, NoState, NoRound,
                          Working, Saving
<1>8. ChunksLoaded(r)'
  BY <1>1, <1>4 DEF InCourse, ChunksLoaded, InHand, NoChunks
<1>9. ChunksComplete(r)'
  <2>1. ASSUME Untouched(r)', pc[r] \in {"apply", "enum", "save"}, round[r].stored.chunked
        PROVE  FALSE
    BY <1>5, <2>1 DEF Untouched, RowAsRead, Unsaved, Working, Saving
  <2>2. ASSUME Untouched(r)', Rewriting(r)
        PROVE  FALSE
    BY <1>5, <2>2 DEF Untouched, InCourse, Withdrawn, Rewriting, Working, Saving
  <2> QED BY <1>1, <2>1, <2>2 DEF InCourse, ChunksComplete, InHand, Rewriting, OutOfRow
<1> QED BY <1>6, <1>7, <1>8, <1>9 DEF InCourse

\* So does what happens elsewhere.
LEMMA CourseElsewhere ==
  ASSUME TypeOK, NEW r \in Reqs, InCourse(r),
         Client \/ \E i \in Items, to \in {"in", "moved", "gone"} : ItemChanges(i, to)
  PROVE  InCourse(r)'
<1>1. UNCHANGED <<row, chunks, round, stale, cleanup>>
  BY DEF Client, Edit, StartOver, Receive, Lose, GiveUp, Send, ItemChanges, rows
<1>2. \/ pc[r] \notin Working /\ pc'[r] \notin Working
      \/ pc'[r] = pc[r] /\ req'[r] = req[r]
  <2> USE DEF TypeOK, Working, Saving
  <2>1. ASSUME NEW q \in Reqs, Receive(q) \/ Lose(q) \/ GiveUp(q)
        PROVE  \/ pc[r] \notin Working /\ pc'[r] \notin Working
               \/ pc'[r] = pc[r] /\ req'[r] = req[r]
    BY <2>1 DEF Receive, Lose, GiveUp
  <2>2. ASSUME NEW q \in Reqs, NEW f \in Filters \cup {Nil}, Send(q, f)
        PROVE  \/ pc[r] \notin Working /\ pc'[r] \notin Working
               \/ pc'[r] = pc[r] /\ req'[r] = req[r]
    BY <2>2 DEF Send
  <2>3. ASSUME \/ StartOver \/ \E c \in Commands : Edit(c)
               \/ \E i \in Items, to \in {"in", "moved", "gone"} : ItemChanges(i, to)
        PROVE  pc'[r] = pc[r] /\ req'[r] = req[r]
    BY <2>3 DEF StartOver, Edit, ItemChanges
  <2> QED BY <2>1, <2>2, <2>3 DEF Client
<1>3. CASE pc[r] \notin Working /\ pc'[r] \notin Working
  BY <1>1, <1>3, CourseOver DEF InCourse, Course
<1>4. CASE pc'[r] = pc[r] /\ req'[r] = req[r]
  BY <1>1, <1>4 DEF InCourse, Course, Withdrawn, Rewriting, OutOfRow, ChunksLoaded, InHand,
                    ChunksComplete, Untouched
<1> QED BY <1>2, <1>3, <1>4

\* The chunk rows stay disjoint and within their size, whoever writes them.
LEMMA DisjointKept ==
  ASSUME TypeOK, ChunksDisjoint, \A r \in Reqs : ChunksLoaded(r), [Next]_vars
  PROVE  ChunksDisjoint'
<1> USE DEF rows, store
<1>1. CASE chunks' = chunks
  BY <1>1 DEF ChunksDisjoint
<1>2. CASE chunks' = NoChunks
  BY <1>2, NoChunksParts DEF ChunksDisjoint, Sized, Disjoint
<1>3. ASSUME NEW r \in Reqs, WriteChunk(r) PROVE ChunksDisjoint'
  <2>1. PICK i \in ChunkIndex : chunks' = [chunks EXCEPT ![i] = round[r].plan[i]]
    BY <1>3, WritesChunk
  <2>2. \A j \in ChunkIndex : chunks'[j] = IF j = i THEN round[r].plan[i] ELSE chunks[j]
    BY <2>1 DEF TypeOK, ChunkRows
  <2>3. pc[r] = "chunk"
    BY <1>3, WritesChunk
  <2>4. /\ Sized(round[r].plan)
        /\ \A j \in ChunkIndex : j # i => round[r].plan[i] \cap chunks[j] = {}
    BY <2>3 DEF ChunksLoaded, InHand
  <2> QED BY <2>2, <2>4 DEF ChunksDisjoint, Sized
<1>4. CASE Client \/ \E i \in Items, to \in {"in", "moved", "gone"} : ItemChanges(i, to)
  BY <1>1, <1>4 DEF Client, Edit, StartOver, Receive, Lose, GiveUp, Send, ItemChanges
<1>5. ASSUME NEW r \in Reqs, Serve(r)
      PROVE  chunks' = chunks \/ chunks' = NoChunks \/ WriteChunk(r)
  <2>1. CASE Acquire(r) \/ LeaseTimeout(r) \/ ReadRow(r) \/ LoadHeld(r) \/ Enumerate(r)
    BY <2>1 DEF Acquire, LeaseTimeout, ReadRow, LoadHeld, Enumerate
  <2>2. CASE Apply(r)
    BY <2>2, ApplyStep
  <2>3. CASE Save(r)
    BY <2>3 DEF Save, Invalidate, ClearLeftover, ChunksWritten, FinalWrite, Truncate,
                RestartWrite, SaveLosesRace
  <2> QED BY <1>5, <2>1, <2>2, <2>3 DEF Serve
<1>6. ASSUME NEW r \in Reqs, Fault(r) PROVE chunks' = chunks
  BY <1>6 DEF Fault, LoadFails, WriteFails, Die
<1>7. CASE CleanUp
  BY <1>1, <1>2, <1>7 DEF CleanUp, CleanUpChunks, CleanUpRow, CleanUpStops
<1>8. CASE UNCHANGED vars
  BY <1>1, <1>8 DEF vars
<1> QED BY <1>1, <1>2, <1>3, <1>4, <1>5, <1>6, <1>7, <1>8 DEF Next

\* Every step keeps the invariant of the chunk rows.
LEMMA ChunksInductive ==
  ASSUME Exclusive, RInv, ChunkInv, [Next]_vars
  PROVE  ChunkInv'
<1>1. TypeOK /\ OneHolder /\ ChunksDisjoint /\ \A r \in Reqs : ChunksLoaded(r)
  BY DEF RInv, IInv, ChunkInv, InCourse
<1>2. ASSUME NEW r \in Reqs PROVE InCourse(r)'
  <2>1. RowAsRead(r) /\ InCourse(r)
    BY DEF RInv, ChunkInv
  <2>2. CASE Client \/ \E i \in Items, to \in {"in", "moved", "gone"} : ItemChanges(i, to)
    BY <1>1, <2>1, <2>2, CourseElsewhere
  <2>3. CASE Serve(r) \/ Fault(r)
    BY <1>1, <2>1, <2>3, CourseServed
  <2>4. ASSUME NEW q \in Reqs, q # r, Serve(q) \/ Fault(q), pc[r] \in Working
        PROVE  InCourse(r)'
    <3>1. /\ UNCHANGED <<rows, cleanup>> /\ stale'[r] = stale[r] /\ pc'[r] = pc[r]
          /\ req'[r] = req[r] /\ round'[r] = round[r]
      BY <1>1, <2>4, WorksAlone
    <3> QED BY <2>1, <3>1 DEF rows, InCourse, Course, Withdrawn, Rewriting, OutOfRow,
                              ChunksLoaded, InHand, ChunksComplete, Untouched
  <2>5. ASSUME NEW q \in Reqs, q # r, Serve(q) \/ Fault(q), pc[r] \notin Working
        PROVE  InCourse(r)'
    <3>1. stale'[r] = stale[r] /\ pc'[r] = pc[r]
      BY <1>1, <2>5, IdleUnmarked, ServedAlone
    <3>2. stale[r] = {}
      BY <2>1, <2>5 DEF InCourse, Course
    <3> QED BY <2>5, <3>1, <3>2, CourseOver
  <2>6. CASE CleanUp
    BY <1>1, <2>1, <2>6, CourseCleaned
  <2>7. CASE UNCHANGED vars
    BY <2>1, <2>7 DEF vars, InCourse, Course, Withdrawn, Rewriting, OutOfRow,
                      ChunksLoaded, InHand, ChunksComplete, Untouched
  <2> QED BY <2>2, <2>3, <2>4, <2>5, <2>6, <2>7 DEF Next
<1> QED BY <1>1, <1>2, DisjointKept DEF ChunkInv

\* Under one lease no item is in two chunk rows and no chunk row is overfull, for any
\* number of items, any size of a row and any way of placing what is new: whatever
\* save fails, or is cut off, between two of its writes.
THEOREM ChunksStayDisjoint ==
  ASSUME Exclusive
  PROVE  Spec => []ChunksDisjoint
<1>1. Init => RInv /\ ChunkInv
  <2> SUFFICES ASSUME Init PROVE RInv /\ ChunkInv
    OBVIOUS
  <2>1. RInv
    BY InitIInv DEF RInv, Init, RowAsRead, BasedOnStored, Unsaved, Begun
  <2>2. ChunksDisjoint
    BY NoChunksParts DEF Init, ChunksDisjoint, Sized, Disjoint
  <2> QED BY <2>1, <2>2 DEF Init, ChunkInv, InCourse, Course, Withdrawn, Rewriting,
                            ChunksLoaded, InHand, Begun, ChunksComplete, Working, Saving
<1>2. (RInv /\ ChunkInv) /\ [Next]_vars => (RInv /\ ChunkInv)'
  BY RoundsInductive, ChunksInductive
<1>3. RInv /\ ChunkInv => ChunksDisjoint
  BY DEF ChunkInv
<1> QED BY <1>1, <1>2, <1>3, PTL DEF Spec

-----------------------------------------------------------------------------
(* What the device has, and what the rows say it has.                      *)

Matches(set, held) == set \subseteq held /\ held \ set \subseteq Gone

\* The row's set is all there, unless the clean-up has taken its chunk rows.
Whole == cleanup = "none" \/ ~row.chunked

RowsAgree ==
    Whole =>
    /\ device.key = row.syncKey => Matches(Recorded, device.held)
    /\ device.key = row.previous.key /\ device.key # row.syncKey
          => Matches(Rebuilt, device.held)

Created(r) == {p[2] : p \in round[r].clientIds}

\* A round starts from what the device has, and ends with what it will have.
RoundAgrees(r) ==
    RowMark \notin stale[r] /\ (cleanup = "none" \/ ~round[r].stored.chunked) =>
    /\ pc[r] \in Begun /\ device.key # Zero => Matches(round[r].base, device.held)
    /\ device.waits = r =>
       /\ pc[r] = "apply" => round[r].serverIds = round[r].base
       /\ pc[r] = "enum" =>
             Matches(round[r].serverIds, Confirmed(round[r].ok, Created(r)))
       /\ pc[r] \in {"save", "clear", "chunk", "final"} =>
             Matches(round[r].serverIds,
                     (Confirmed(round[r].ok, Created(r)) \ round[r].dels)
                         \cup round[r].adds)

\* The answer on its way to the device is the set of its new key.
ReplyAgrees(r) ==
    device.waits = r /\ pc[r] = "reply" /\ reply[r].status = 1 =>
    /\ reply[r].key = row.previous.key => reply[r].key = row.syncKey
    /\ faults = 0 => reply[r].key = row.syncKey
    /\ Whole /\ reply[r].key = row.syncKey =>
          Matches(Recorded, (Confirmed(reply[r].ok, reply[r].created) \ reply[r].dels)
                                \cup reply[r].adds)

HeldInv ==
    /\ RowsAgree
    /\ \A r \in Reqs : RoundAgrees(r) /\ ReplyAgrees(r)
    /\ cleanup # "none" => faults # 0

\* All of it together: what is inductive under one lease, granted in order.
SInv == RInv /\ LineInv /\ ChunkInv /\ HeldInv

\* What does not exist any more never comes back.
LEMMA GoneGrows ==
  ASSUME TypeOK, [Next]_vars
  PROVE  Gone \subseteq Gone'
<1> SUFFICES ASSUME NEW i \in Items, folder[i] = "gone" PROVE folder'[i] = "gone"
  BY DEF Gone
<1> USE DEF TypeOK, store
<1>1. CASE folder' = folder
  BY <1>1
<1>2. ASSUME NEW j \in Items, NEW to \in {"in", "moved", "gone"}, ItemChanges(j, to)
      PROVE  folder'[i] = "gone"
  BY <1>2 DEF ItemChanges
<1>3. ASSUME NEW r \in Reqs, ApplyAdd(r) \/ ApplyDelete(r) PROVE folder'[i] = "gone"
  BY <1>3 DEF ApplyAdd, ApplyDelete
<1>4. ASSUME NEW r \in Reqs, Serve(r) \/ Fault(r)
      PROVE  folder' = folder \/ ApplyAdd(r) \/ ApplyDelete(r)
  <2>1. CASE Apply(r)
    BY <2>1 DEF Apply, NothingToApply, ReplayAdd, ApplyChange, DeleteAbsent, RefuseCommand
  <2>2. CASE Acquire(r) \/ LeaseTimeout(r) \/ ReadRow(r) \/ LoadHeld(r) \/ Enumerate(r)
    BY <2>2 DEF Acquire, LeaseTimeout, ReadRow, LoadHeld, Enumerate
  <2>3. CASE Save(r)
    BY <2>3 DEF Save, Invalidate, ClearLeftover, WriteChunk, ChunksWritten, FinalWrite,
                Truncate, RestartWrite, SaveLosesRace
  <2>4. CASE Fault(r)
    BY <2>4 DEF Fault, LoadFails, WriteFails, Die
  <2> QED BY <1>4, <2>1, <2>2, <2>3, <2>4 DEF Serve
<1>5. ASSUME Client \/ CleanUp \/ UNCHANGED vars PROVE folder' = folder
  BY <1>5 DEF Client, Edit, StartOver, Receive, Lose, GiveUp, Send, CleanUp,
              CleanUpChunks, CleanUpRow, CleanUpStops, vars
<1> QED BY <1>1, <1>2, <1>3, <1>4, <1>5 DEF Next

\* The steps of a request that write the rows.
LEMMA RowsWritten ==
  ASSUME TypeOK, NEW r \in Reqs, Serve(r) \/ Fault(r)
  PROVE  \/ UNCHANGED <<row, chunks, cleanup>>
         \/ Invalidate(r) \/ ClearLeftover(r) \/ WriteChunk(r)
         \/ FinalWrite(r) \/ Truncate(r) \/ RestartWrite(r)
<1> USE DEF rows
<1>1. CASE Acquire(r) \/ LeaseTimeout(r) \/ ReadRow(r) \/ LoadHeld(r) \/ Enumerate(r)
  BY <1>1 DEF Acquire, LeaseTimeout, ReadRow, LoadHeld, Enumerate
<1>2. CASE Apply(r)
  BY <1>2 DEF Apply, NothingToApply, ReplayAdd, ApplyAdd, ApplyChange, ApplyDelete,
              DeleteAbsent, RefuseCommand, Applied
<1>3. CASE ChunksWritten(r) \/ SaveLosesRace(r) \/ Fault(r)
  BY <1>3 DEF ChunksWritten, SaveLosesRace, Fault, LoadFails, WriteFails, Die
<1> QED BY <1>1, <1>2, <1>3 DEF Serve, Save

\* A save leaves rows that record the new set, and lead back to the one it began with.
LEMMA SaveRecords ==
  ASSUME TypeOK, NEW r \in Reqs, InCourse(r), FinalWrite(r)
  PROVE  /\ pc[r] = "final" /\ RowMark \notin stale[r]
         /\ row'.syncKey = round[r].key /\ row'.previous.key = req[r].key
         /\ row'.previous.clientIds = round[r].clientIds
         /\ row'.exists /\ row'.chunked = OutOfRow(r)
         /\ UNCHANGED <<chunks, cleanup, device, store, faults, req>>
         /\ Whole' => /\ cleanup = "none" \/ ~round[r].stored.chunked
                      /\ Recorded' = round[r].serverIds
                      /\ Rebuilt' = round[r].base
<1> DEFINE w == round[r]
<1>1. w \in Works
  BY DEF TypeOK
<1>2. /\ pc[r] = "final" /\ RowMark \notin stale[r] /\ row' = SavedRow(r)
      /\ UNCHANGED <<chunks, cleanup, device, store, faults, req>>
  BY DEF FinalWrite
<1>3. /\ row'.syncKey = w.key /\ row'.previous.key = req[r].key
      /\ row'.previous.clientIds = w.clientIds
      /\ row'.previous.added = w.serverIds \ w.base
      /\ row'.previous.removed = w.base \ w.serverIds
      /\ row'.exists /\ row'.chunked = OutOfRow(r)
      /\ row'.serverIds = IF OutOfRow(r) THEN {} ELSE w.serverIds
  BY <1>2 DEF SavedRow, OutOfRow
<1>4. ASSUME Whole'
      PROVE  /\ cleanup = "none" \/ ~w.stored.chunked
             /\ Recorded' = w.serverIds
             /\ Rebuilt' = w.base
  <2>1. cleanup = "none" \/ ~OutOfRow(r)
    BY <1>2, <1>3, <1>4 DEF Whole
  <2>2. cleanup = "none" \/ ~w.stored.chunked
    BY <2>1 DEF OutOfRow, StaysInline
  <2>3. Recorded' = w.serverIds
    <3>1. CASE OutOfRow(r)
      <4>1. Union(chunks) = w.serverIds
        BY <1>2, <2>1, <3>1 DEF InCourse, ChunksComplete, Untouched
      <4> QED BY <1>2, <1>3, <3>1, <4>1 DEF Recorded, LoadHeldSet, Union
    <3>2. CASE ~OutOfRow(r)
      BY <1>3, <3>2 DEF Recorded, LoadHeldSet
    <3> QED BY <3>1, <3>2
  <2>4. Rebuilt' = (w.serverIds \ (w.serverIds \ w.base)) \cup (w.base \ w.serverIds)
    BY <1>3, <2>3 DEF Rebuilt
  <2>5. Rebuilt' = w.base
    BY <2>4
  <2> QED BY <2>2, <2>3, <2>5
<1> QED BY <1>2, <1>3, <1>4

\* The keys in the rows and the device's are of different types where one is missing.
LEMMA KeyTypes ==
  ASSUME TypeOK
  PROVE  /\ device.key \in Keys \cup {Zero} /\ device.held \in SUBSET Items
         /\ row.syncKey \in Keys \cup {Blank} /\ row.previous.key \in Keys \cup {Blank}
         /\ Zero \notin Keys \cup {Blank} /\ Blank \notin Keys \cup {Zero}
         /\ \A k \in Keys \cup {Zero} : generation(k) \in Nat
<1>1. device \in Devices /\ row \in States
  BY DEF TypeOK
<1>2. Zero \notin Keys \cup {Blank} /\ Blank \notin Keys \cup {Zero}
  BY SyncAssumption DEF Zero, Blank, Keys
<1>3. \A k \in Keys \cup {Zero} : generation(k) \in Nat
  BY SyncAssumption DEF Zero, Keys, generation
<1> QED BY <1>1, <1>2, <1>3 DEF Devices, States, Rounds

\* A restart is only at work for a device that has no key.
LEMMA RestartUnkeyed ==
  ASSUME NEW r \in Reqs, pc[r] \in {"truncate", "restart"}, InCourse(r), LineInv
  PROVE  device.key = Zero /\ device.held = {} /\ device.command = NoCommand
<1>1. req[r].key = Zero
  BY DEF InCourse, Course
<1>2. device.key = Zero
  BY <1>1 DEF LineInv, Asked, Live, Working, Saving
<1> QED BY <1>2 DEF LineInv, OnDevice

\* Whatever a request writes, the rows agree with the device.
LEMMA RowsServed ==
  ASSUME SInv, [Next]_vars, NEW r \in Reqs, Serve(r) \/ Fault(r)
  PROVE  RowsAgree'
<1>1. TypeOK /\ KeyInReach /\ InCourse(r) /\ RowsAgree /\ RoundAgrees(r) /\ LineInv
      /\ TypeOK'
  BY Inductive DEF SInv, RInv, IInv, ChunkInv, HeldInv
<1>2. device' = device /\ Gone \subseteq Gone'
  BY <1>1, ServedAlone, GoneGrows
<1>3. CASE UNCHANGED <<row, chunks, cleanup>>
  <2>1. Recorded' = Recorded /\ Rebuilt' = Rebuilt /\ Whole' = Whole
    BY <1>3 DEF Recorded, Rebuilt, Whole
  <2> QED BY <1>1, <1>2, <1>3, <2>1 DEF RowsAgree, Matches
<1>4. CASE Invalidate(r)
  BY <1>1, <1>2, <1>4, Invalidates, KeyTypes DEF RowsAgree
<1>5. CASE ClearLeftover(r) \/ WriteChunk(r)
  <2>1. pc[r] \in {"clear", "chunk"} /\ row' = row
    BY <1>5 DEF ClearLeftover, WriteChunk
  <2>2. row.syncKey = Blank /\ row.previous.key = Blank
    BY <1>1, <2>1 DEF InCourse, Withdrawn, Rewriting
  <2> QED BY <1>1, <1>2, <2>1, <2>2, KeyTypes DEF RowsAgree
<1>6. CASE FinalWrite(r)
  <2>1. /\ pc[r] = "final" /\ RowMark \notin stale[r]
        /\ row'.syncKey = round[r].key /\ row'.previous.key = req[r].key
        /\ Whole' => /\ cleanup = "none" \/ ~round[r].stored.chunked
                     /\ Rebuilt' = round[r].base
    BY <1>1, <1>6, SaveRecords
  <2>2. /\ round[r].key \in Keys /\ req[r].key \in Keys
        /\ generation(round[r].key) = generation(req[r].key) + 1
    BY <1>1, <2>1 DEF KeyInReach, InCourse, Course, Working, Saving
  <2>3. device.key # Zero => req[r].key = device.key
    BY <1>1, <2>1 DEF LineInv, Asked, Live, Working, Saving
  <2>4. device.key # round[r].key
    BY <1>1, <2>2, <2>3, KeyTypes
  <2>5. device.key = req[r].key /\ Whole' => Matches(round[r].base, device.held)
    BY <1>1, <2>1, <2>2, KeyTypes DEF RoundAgrees, Begun
  <2>6. device.key = req[r].key /\ Whole' => Matches(Rebuilt, device.held)'
    BY <1>2, <2>1, <2>5 DEF Matches
  <2> QED BY <1>2, <2>1, <2>4, <2>6 DEF RowsAgree
<1>7. CASE Truncate(r) \/ RestartWrite(r)
  <2>1. device.key = Zero
    BY <1>1, <1>7, RestartUnkeyed DEF Truncate, RestartWrite
  <2>2. row'.syncKey \in Keys \cup {Blank} /\ row'.previous.key \in Keys \cup {Blank}
    BY <1>1 DEF TypeOK, States, Rounds
  <2> QED BY <1>1, <1>2, <2>1, <2>2, KeyTypes DEF RowsAgree
<1> QED BY <1>1, <1>3, <1>4, <1>5, <1>6, <1>7, RowsWritten

\* A round begins with what the device has: the set that its key names in the rows.
LEMMA RoundBegins ==
  ASSUME SInv, NEW r \in Reqs, LoadHeld(r), pc'[r] # "reply"
  PROVE  RoundAgrees(r)'
<1>1. TypeOK /\ RowsAgree /\ LineInv /\ RowAsRead(r)
  BY DEF SInv, RInv, IInv, HeldInv
<1> DEFINE held == LoadHeldSet(round[r].stored.chunked, round[r].stored.serverIds, chunks)
           base == BaseSet(req[r].key, round[r].stored, held)
<1>2. /\ pc[r] = "read" /\ pc'[r] = "apply" /\ round'[r].stored = round[r].stored
      /\ round'[r].base = base /\ round'[r].serverIds = base
      /\ UNCHANGED <<device, stale, cleanup, folder, req>>
      /\ IsCurrent(req[r].key, round[r].stored) \/ IsRetry(req[r].key, round[r].stored)
  BY <1>1, Loads DEF store
<1>3. ASSUME RowMark \notin stale[r], cleanup = "none" \/ ~round[r].stored.chunked,
             device.key # Zero
      PROVE  Matches(base, device.held)
  <2>1. row = round[r].stored
    BY <1>1, <1>2, <1>3 DEF RowAsRead, Unsaved
  <2>2. held = Recorded /\ Whole /\ req[r].key = device.key
    BY <1>1, <1>2, <1>3, <2>1 DEF Recorded, Whole, LineInv, Asked, Live, Working, Saving
  <2> HIDE DEF held
  <2>3. CASE IsCurrent(req[r].key, row)
    BY <1>1, <2>1, <2>2, <2>3 DEF BaseSet, IsCurrent, RowsAgree
  <2>4. CASE IsRetry(req[r].key, row)
    <3>1. req[r].key = row.previous.key /\ req[r].key # row.syncKey /\ base = Rebuilt
      BY <2>1, <2>2, <2>4 DEF IsRetry, IsCurrent, BaseSet, Rebuilt
    <3> QED BY <1>1, <2>2, <3>1 DEF RowsAgree
  <2> QED BY <1>2, <2>1, <2>3, <2>4
<1> HIDE DEF base
<1> QED BY <1>2, <1>3 DEF RoundAgrees, Matches, Gone

\* What its command does to what the device has, the round does to its set.
LEMMA RoundApplies ==
  ASSUME SInv, [Next]_vars, NEW r \in Reqs, Apply(r)
  PROVE  RoundAgrees(r)'
<1>1. TypeOK /\ KeyInReach /\ LineInv /\ RoundAgrees(r)
  BY DEF SInv, RInv, IInv, HeldInv
<1>2. pc[r] = "apply" /\ req[r].command \in Commands /\ round[r] \in Works
  BY <1>1, ApplyStep DEF TypeOK, Requests
<1>3. Gone \subseteq Gone'
  BY <1>1, GoneGrows
<1> DEFINE base == round[r].base
           command == req[r].command
           Agreeing(ids, ok, clientIds) ==
             device.waits = r /\ Matches(base, device.held) /\ round[r].serverIds = base
               => LET then == Confirmed(ok, {p[2] : p \in clientIds})
                  IN  ids \subseteq then /\ then \ ids \subseteq Gone'
<1>4. device.waits = r => command = device.command
  BY <1>1, <1>2 DEF LineInv, Asked, Live, Working, Saving
<1>5. \E ids, ok, clientIds :
         Applied(r, ids, ok, clientIds) /\ Agreeing(ids, ok, clientIds)
  <2> USE <1>2, <1>3, <1>4 DEF Matches, Confirmed
  <2>1. CASE NothingToApply(r) \/ RefuseCommand(r)
    <3>1. Applied(r, round[r].serverIds, FALSE, {})
      BY <2>1 DEF NothingToApply, RefuseCommand
    <3>2. Agreeing(round[r].serverIds, FALSE, {})
      OBVIOUS
    <3> QED BY <3>1, <3>2
  <2>2. CASE ReplayAdd(r)
    <3>1. PICK p \in Replayed(r, command.on) :
             Applied(r, IF folder[p[2]] # "gone" THEN round[r].serverIds \cup {p[2]}
                        ELSE round[r].serverIds, TRUE, {p})
      BY <2>2 DEF ReplayAdd
    <3> DEFINE ids == IF folder[p[2]] # "gone" THEN round[r].serverIds \cup {p[2]}
                      ELSE round[r].serverIds
    <3>2. command.kind = "Add" /\ folder' = folder
      BY <2>2 DEF ReplayAdd, store
    <3>3. p[2] \in Items
      BY <1>2 DEF Replayed, Works, States, Rounds
    <3>4. {q[2] : q \in {p}} = {p[2]}
      OBVIOUS
    <3>5. Agreeing(ids, TRUE, {p})
      BY <3>2, <3>3, <3>4 DEF Gone
    <3> QED BY <3>1, <3>5
  <2>3. CASE ApplyAdd(r)
    <3>1. PICK i \in Items :
             Applied(r, round[r].serverIds \cup {i}, TRUE, {<<command.on, i>>})
      BY <2>3 DEF ApplyAdd
    <3>2. command.kind = "Add"
      BY <2>3 DEF ApplyAdd
    <3>3. {q[2] : q \in {<<command.on, i>>}} = {i}
      OBVIOUS
    <3>4. Agreeing(round[r].serverIds \cup {i}, TRUE, {<<command.on, i>>})
      BY <3>2, <3>3
    <3> QED BY <3>1, <3>4
  <2>4. CASE ApplyChange(r)
    <3>1. command.kind = "Change" /\ Applied(r, round[r].serverIds \cup {command.on}, TRUE, {})
      BY <2>4 DEF ApplyChange
    <3>2. device.waits = r => command.on \in device.held
      BY <1>1, <3>1 DEF LineInv, OnDevice
    <3>3. Agreeing(round[r].serverIds \cup {command.on}, TRUE, {})
      BY <3>1, <3>2
    <3> QED BY <3>1, <3>3
  <2>5. CASE ApplyDelete(r)
    <3>1. command.kind = "Delete" /\ Applied(r, round[r].serverIds \ {command.on}, TRUE, {})
      BY <2>5 DEF ApplyDelete
    <3>2. Agreeing(round[r].serverIds \ {command.on}, TRUE, {})
      BY <3>1
    <3> QED BY <3>1, <3>2
  <2>6. CASE DeleteAbsent(r)
    <3> DEFINE done == /\ round[r].retry
                       /\ command.on \in round[r].stored.previous.removed
               ids == IF done THEN round[r].serverIds \ {command.on} ELSE round[r].serverIds
    <3>1. command.kind = "Delete" /\ Applied(r, ids, done, {})
      BY <2>6 DEF DeleteAbsent
    <3>2. done \in BOOLEAN
      BY DEF Works
    <3>3. CASE done
      <4>1. ids = round[r].serverIds \ {command.on} /\ done = TRUE
        BY <3>2, <3>3
      <4>2. Agreeing(round[r].serverIds \ {command.on}, TRUE, {})
        BY <3>1
      <4> HIDE DEF done, ids
      <4> QED BY <3>1, <4>1, <4>2
    <3>4. CASE ~done
      <4>1. ids = round[r].serverIds /\ done = FALSE
        BY <3>2, <3>4
      <4>2. Agreeing(round[r].serverIds, FALSE, {})
        OBVIOUS
      <4> HIDE DEF done, ids
      <4> QED BY <3>1, <4>1, <4>2
    <3> QED BY <3>3, <3>4
  <2> QED BY <2>1, <2>2, <2>3, <2>4, <2>5, <2>6 DEF Apply
<1>6. PICK ids, ok, clientIds :
         Applied(r, ids, ok, clientIds) /\ Agreeing(ids, ok, clientIds)
  BY <1>5
<1>7. /\ pc'[r] = "enum" /\ UNCHANGED <<device, stale, cleanup, req>>
      /\ round'[r].stored = round[r].stored /\ round'[r].base = base
      /\ round'[r].serverIds = ids /\ round'[r].ok = ok /\ round'[r].clientIds = clientIds
  <2> HIDE DEF Agreeing
  <2>1. Applied(r, ids, ok, clientIds)
    BY <1>6
  <2>2. pc'[r] = "enum" /\ UNCHANGED <<device, stale, cleanup, req>>
    BY <1>1, <2>1, Applies
  <2>3. round'[r].stored = round[r].stored /\ round'[r].base = round[r].base
    BY <1>1, <2>1, Applies
  <2>4. round'[r].serverIds = ids /\ round'[r].ok = ok /\ round'[r].clientIds = clientIds
    BY <1>1, <1>2, <2>1 DEF Applied, TypeOK, Works
  <2> QED BY <2>2, <2>3, <2>4
<1> DEFINE then == Confirmed(ok, {p[2] : p \in clientIds})
<1>8. ASSUME RowMark \notin stale[r], cleanup = "none" \/ ~round[r].stored.chunked
      PROVE  /\ device.key # Zero => Matches(base, device.held)
             /\ device.waits = r => ids \subseteq then /\ then \ ids \subseteq Gone'
  <2>1. device.key # Zero => Matches(base, device.held)
    BY <1>1, <1>2, <1>8 DEF RoundAgrees, Begun
  <2>2. device.waits = r => device.key # Zero /\ round[r].serverIds = base
    BY <1>1, <1>2, <1>8, KeyTypes
       DEF RoundAgrees, LineInv, Asked, Live, KeyInReach, Working, Saving
  <2> QED BY <1>6, <2>1, <2>2
<1>9. Confirmed(round[r].ok, Created(r))' = then
  BY <1>7 DEF Confirmed, Created
<1> QED BY <1>3, <1>7, <1>8, <1>9 DEF RoundAgrees, Matches

\* From the enumeration to the save the round is what the device will have.
LEMMA RoundGoesOn ==
  ASSUME SInv, NEW r \in Reqs,
         Enumerate(r) \/ Invalidate(r) \/ ClearLeftover(r) \/ WriteChunk(r) \/ ChunksWritten(r)
  PROVE  RoundAgrees(r)'
<1>1. TypeOK /\ RoundAgrees(r)
  BY DEF SInv, RInv, IInv, HeldInv
<1>2. CASE Enumerate(r)
  <2>1. /\ pc[r] = "enum" /\ pc'[r] \in {"save", "final"}
        /\ UNCHANGED <<device, stale, cleanup, folder>>
        /\ round'[r].stored = round[r].stored /\ round'[r].base = round[r].base
        /\ round'[r].ok = round[r].ok /\ round'[r].clientIds = round[r].clientIds
        /\ round'[r].adds \subseteq InFolder \ round[r].serverIds
        /\ round'[r].dels \subseteq round[r].serverIds \ InFolder
        /\ round'[r].serverIds =
              (round[r].serverIds \cup round'[r].adds) \ round'[r].dels
    BY <1>1, <1>2, Enumerates DEF store
  <2>2. Created(r)' = Created(r) /\ Gone' = Gone
    BY <2>1 DEF Created, Gone
  <2>3. ASSUME NEW then, Matches(round[r].serverIds, then)
        PROVE  Matches(round'[r].serverIds, (then \ round'[r].dels) \cup round'[r].adds)
    BY <2>1, <2>3 DEF Matches
  <2>4. ASSUME RowMark \notin stale[r], cleanup = "none" \/ ~round[r].stored.chunked
        PROVE  /\ device.key # Zero => Matches(round[r].base, device.held)
               /\ device.waits = r =>
                    Matches(round[r].serverIds, Confirmed(round[r].ok, Created(r)))
    BY <1>1, <2>1, <2>4 DEF RoundAgrees, Begun
  <2> QED BY <2>1, <2>2, <2>3, <2>4 DEF RoundAgrees, Matches, Confirmed
<1>3. CASE Invalidate(r) \/ ClearLeftover(r) \/ WriteChunk(r) \/ ChunksWritten(r)
  <2>1. /\ pc[r] \in {"save", "clear", "chunk"} /\ pc'[r] \in {"clear", "chunk", "final"}
        /\ UNCHANGED <<device, cleanup, folder>> /\ stale'[r] = stale[r]
        /\ round'[r].stored = round[r].stored /\ round'[r].base = round[r].base
        /\ round'[r].ok = round[r].ok /\ round'[r].clientIds = round[r].clientIds
        /\ round'[r].adds = round[r].adds /\ round'[r].dels = round[r].dels
        /\ round'[r].serverIds = round[r].serverIds
    <3>1. CASE Invalidate(r)
      BY <1>1, <3>1, Invalidates DEF store
    <3>2. CASE WriteChunk(r)
      BY <1>1, <3>2, WritesChunk DEF store
    <3>3. CASE ClearLeftover(r) \/ ChunksWritten(r)
      BY <1>1, <3>3 DEF ClearLeftover, ChunksWritten, Outdates, TypeOK, store
    <3> QED BY <1>3, <3>1, <3>2, <3>3
  <2>2. Created(r)' = Created(r) /\ Gone' = Gone
    BY <2>1 DEF Created, Gone
  <2> QED BY <1>1, <2>1, <2>2 DEF RoundAgrees, Begun, Matches, Confirmed
<1> QED BY <1>2, <1>3

\* What is true of a round stays true over its own steps.
LEMMA RoundServed ==
  ASSUME SInv, [Next]_vars, NEW r \in Reqs, Serve(r) \/ Fault(r)
  PROVE  RoundAgrees(r)'
<1>1. TypeOK
  BY DEF SInv, RInv, IInv
<1>2. CASE pc'[r] \notin Begun
  BY <1>2 DEF RoundAgrees, Begun
<1>3. CASE pc'[r] \in Begun
  <2>1. /\ ~Acquire(r) /\ ~LeaseTimeout(r) /\ ~ReadRow(r) /\ ~FinalWrite(r)
        /\ ~Truncate(r) /\ ~RestartWrite(r) /\ ~SaveLosesRace(r) /\ ~Fault(r)
    BY <1>1, <1>3 DEF Begun, Acquire, LeaseTimeout, ReadRow, FinalWrite, Truncate,
                      RestartWrite, SaveLosesRace, Fault, LoadFails, WriteFails, Die,
                      SaveFailed, AnswerWith, TypeOK
  <2>2. pc'[r] # "reply"
    BY <1>3 DEF Begun
  <2> QED BY <2>1, <2>2, RoundBegins, RoundApplies, RoundGoesOn DEF Serve, Save
<1> QED BY <1>2, <1>3

\* Only a save is answered with Status 1.
LEMMA SavesAnswer ==
  ASSUME TypeOK, NEW r \in Reqs, Serve(r) \/ Fault(r),
         ~FinalWrite(r), ~RestartWrite(r), pc'[r] = "reply"
  PROVE  reply'[r].status # 1
<1> USE DEF TypeOK
<1>1. CASE LeaseTimeout(r) \/ SaveLosesRace(r) \/ Fault(r)
  BY <1>1 DEF LeaseTimeout, SaveLosesRace, Fault, LoadFails, WriteFails, Die,
              SaveFailed, SaveStatus, AnswerWith, Answered
<1>2. CASE LoadHeld(r)
  BY <1>2 DEF LoadHeld, AnswerWith, Answered
<1>3. CASE Acquire(r) \/ ReadRow(r) \/ Apply(r) \/ Enumerate(r)
  BY <1>3, ApplyStep DEF Acquire, ReadRow, Enumerate
<1>4. CASE Invalidate(r) \/ ClearLeftover(r) \/ WriteChunk(r) \/ ChunksWritten(r)
             \/ Truncate(r)
  BY <1>4 DEF Invalidate, ClearLeftover, WriteChunk, ChunksWritten, Truncate
<1> QED BY <1>1, <1>2, <1>3, <1>4 DEF Serve, Save

\* The answer to a request that is served is what the rows have come to say.
LEMMA ReplyServed ==
  ASSUME SInv, [Next]_vars, NEW r \in Reqs, Serve(r) \/ Fault(r)
  PROVE  ReplyAgrees(r)'
<1>1. TypeOK /\ LineInv /\ InCourse(r) /\ RoundAgrees(r)
  BY DEF SInv, RInv, IInv, ChunkInv, HeldInv
<1>2. device' = device /\ Gone \subseteq Gone'
  BY <1>1, ServedAlone, GoneGrows
<1>3. CASE FinalWrite(r)
  <2>1. /\ pc[r] = "final" /\ RowMark \notin stale[r] /\ row'.syncKey = round[r].key
        /\ Whole' => /\ cleanup = "none" \/ ~round[r].stored.chunked
                     /\ Recorded' = round[r].serverIds
    BY <1>1, <1>3, SaveRecords
  <2>2. /\ reply'[r].key = round[r].key /\ reply'[r].adds = round[r].adds
        /\ reply'[r].dels = round[r].dels /\ reply'[r].ok = round[r].ok
        /\ reply'[r].created = Created(r)
    BY <1>1, <1>3 DEF FinalWrite, AnswerWith, Created, TypeOK
  <2>3. Whole' /\ device.waits = r =>
          Matches(round[r].serverIds,
                  (Confirmed(round[r].ok, Created(r)) \ round[r].dels) \cup round[r].adds)
    BY <1>1, <2>1 DEF RoundAgrees
  <2> QED BY <1>2, <2>1, <2>2, <2>3 DEF ReplyAgrees, Matches, Confirmed
<1>4. CASE RestartWrite(r)
  <2>1. device.key = Zero /\ device.held = {} /\ device.command = NoCommand
    BY <1>1, <1>4, RestartUnkeyed DEF RestartWrite
  <2>2. /\ row'.syncKey = StartKey /\ row'.serverIds = {} /\ ~row'.chunked
        /\ reply'[r] = Answered(1, StartKey)
    BY <1>1, <1>4 DEF RestartWrite, AnswerWith, TypeOK
  <2>3. Recorded' = {}
    BY <2>2 DEF Recorded, LoadHeldSet
  <2> QED BY <1>2, <2>1, <2>2, <2>3 DEF ReplyAgrees, Matches, Confirmed, Answered, NoCommand
<1>5. CASE ~FinalWrite(r) /\ ~RestartWrite(r)
  BY <1>1, <1>5, SavesAnswer DEF ReplyAgrees
<1> QED BY <1>3, <1>4, <1>5

\* A request sees nothing of another that is served.
LEMMA OthersAgree ==
  ASSUME Exclusive, SInv, [Next]_vars, NEW r \in Reqs, NEW q \in Reqs, q # r,
         Serve(q) \/ Fault(q)
  PROVE  RoundAgrees(r)' /\ ReplyAgrees(r)'
<1>1. TypeOK /\ OneHolder /\ LineInv /\ RoundAgrees(r) /\ ReplyAgrees(r)
  BY DEF SInv, RInv, IInv, HeldInv
<1>2. /\ device' = device /\ Gone \subseteq Gone'
      /\ pc'[r] = pc[r] /\ round'[r] = round[r] /\ reply'[r] = reply[r]
  BY <1>1, ServedAlone, GoneGrows
<1>3. RoundAgrees(r)'
  <2>1. CASE pc[r] \in Working
    <3>1. /\ UNCHANGED <<folder, cleanup>> /\ stale'[r] = stale[r]
      BY <1>1, <2>1, WorksAlone DEF store
    <3> QED BY <1>1, <1>2, <3>1 DEF RoundAgrees, Matches, Confirmed, Created, Gone
  <2>2. CASE pc[r] \notin Working
    BY <1>2, <2>2 DEF RoundAgrees, Begun, Working, Saving
  <2> QED BY <2>1, <2>2
<1>4. ReplyAgrees(r)'
  <2> SUFFICES ASSUME device.waits = r, pc[r] = "reply", reply[r].status = 1
               PROVE  ReplyAgrees(r)'
    BY <1>2 DEF ReplyAgrees
  <2>1. pc[q] \notin Live
    BY <1>1 DEF LineInv, AwaitedLast
  <2>2. Die(q)
    BY <2>1 DEF Live, Serve, Fault, Save, Apply, Acquire, LeaseTimeout, ReadRow, LoadHeld,
        LoadFails, WriteFails, Enumerate, NothingToApply, ReplayAdd, ApplyAdd, ApplyChange,
        ApplyDelete, DeleteAbsent, RefuseCommand, Invalidate, ClearLeftover, WriteChunk,
        ChunksWritten, FinalWrite, Truncate, RestartWrite, SaveLosesRace, Working, Saving
  <2>3. UNCHANGED <<row, chunks, cleanup, folder>> /\ faults' # 0
    BY <1>1, <2>2, SyncAssumption DEF Die, rows, store, TypeOK
  <2> QED BY <1>1, <1>2, <2>3 DEF ReplyAgrees, Matches, Confirmed, Recorded, Whole, Gone
<1> QED BY <1>3, <1>4

\* The device takes an answer that is what the rows say, or has nothing.
LEMMA HeldClient ==
  ASSUME SInv, Client
  PROVE  HeldInv'
<1>1. TypeOK /\ KeyInReach /\ LineInv /\ HeldInv
  BY DEF SInv, RInv, IInv
<1>2. UNCHANGED <<row, chunks, round, stale, cleanup, faults, folder>>
  BY DEF Client, Edit, StartOver, Receive, Lose, GiveUp, Send, rows, store
<1>3. Recorded' = Recorded /\ Rebuilt' = Rebuilt /\ Whole' = Whole /\ Gone' = Gone
  BY <1>2 DEF Recorded, Rebuilt, Whole, Gone
<1>4. Nil \notin Reqs
  BY SyncAssumption
<1> USE DEF HeldInv
<1>5. ASSUME NEW c \in Commands, Edit(c) PROVE HeldInv'
  <2>1. /\ pc' = pc /\ reply' = reply /\ device'.key = device.key
        /\ device'.held = device.held /\ device'.waits = Nil
    BY <1>1, <1>5 DEF Edit, TypeOK, Devices
  <2> QED BY <1>1, <1>2, <1>3, <1>4, <2>1 DEF RowsAgree, RoundAgrees, ReplyAgrees, Matches
<1>6. CASE StartOver
  <2>1. pc' = pc /\ reply' = reply /\ device'.key = Zero /\ device'.waits = Nil
    BY <1>1, <1>6 DEF StartOver, TypeOK, Devices
  <2>2. RowsAgree'
    BY <1>1, <1>2, <2>1, KeyTypes DEF RowsAgree
  <2> QED BY <1>1, <1>2, <1>4, <2>1, <2>2 DEF RoundAgrees, ReplyAgrees
<1>7. ASSUME NEW r \in Reqs, NEW f \in Filters \cup {Nil}, Send(r, f) PROVE HeldInv'
  <2>1. /\ pc'[r] = "sent" /\ (\A q \in Reqs \ {r} : pc'[q] = pc[q])
        /\ device'.key = device.key /\ device'.held = device.held /\ device'.waits = r
    BY <1>1, <1>7 DEF Send, TypeOK, Devices
  <2>2. \A q \in Reqs : pc'[q] \in Begun => pc[q] \in Begun
    BY <2>1 DEF Begun
  <2> QED BY <1>1, <1>2, <1>3, <2>1, <2>2
          DEF RowsAgree, RoundAgrees, ReplyAgrees, Matches, Begun
<1>8. ASSUME NEW r \in Reqs, Lose(r) \/ GiveUp(r) PROVE HeldInv'
  <2>1. /\ \A q \in Reqs : pc'[q] = pc[q] \/ pc'[q] = "idle"
        /\ device'.key = device.key /\ device'.held = device.held
        /\ device'.command = device.command
        /\ \A q \in Reqs : device'.waits = q => /\ device.waits = q
                                                /\ pc'[q] = pc[q] /\ reply'[q] = reply[q]
    BY <1>1, <1>4, <1>8 DEF Lose, GiveUp, TypeOK, Devices
  <2>2. \A q \in Reqs : pc'[q] \in Begun => pc[q] \in Begun
    BY <2>1 DEF Begun
  <2>3. RowsAgree'
    BY <1>1, <1>2, <1>3, <2>1 DEF RowsAgree, Matches
  <2>4. ASSUME NEW q \in Reqs PROVE RoundAgrees(q)'
    BY <1>1, <1>2, <1>3, <2>1, <2>2
       DEF RoundAgrees, Matches, Confirmed, Created, Begun
  <2>5. ASSUME NEW q \in Reqs PROVE ReplyAgrees(q)'
    BY <1>1, <1>2, <1>3, <2>1 DEF ReplyAgrees, Matches, Confirmed
  <2> QED BY <1>1, <1>2, <2>3, <2>4, <2>5
<1>9. ASSUME NEW r \in Reqs, Receive(r) PROVE HeldInv'
  <2>1. /\ device.waits = r /\ pc[r] = "reply" /\ device'.waits = Nil
        /\ \A q \in Reqs : pc'[q] = pc[q] \/ pc'[q] = "idle"
    BY <1>1, <1>9, Taken DEF TypeOK
  <2>2. \A q \in Reqs : pc'[q] \in Begun => pc[q] \in Begun
    BY <2>1 DEF Begun
  <2>3. \A q \in Reqs : ReplyAgrees(q)'
    BY <1>4, <2>1 DEF ReplyAgrees
  <2>4. CASE reply[r].status = 1
    <3>1. /\ device'.key = reply[r].key
          /\ device'.held = (Confirmed(reply[r].ok, reply[r].created) \ reply[r].dels)
                               \cup reply[r].adds
      BY <1>1, <1>9, <2>4, Taken
    <3>2. RowsAgree'
      BY <1>1, <1>2, <1>3, <2>1, <2>4, <3>1 DEF RowsAgree, ReplyAgrees, Matches
    <3>3. \A q \in Reqs : pc'[q] \notin Begun
      <4>1. \A q \in Reqs \ {r} : pc[q] \notin Live
        BY <1>1, <2>1, <2>4 DEF LineInv, AwaitedLast
      <4> QED BY <2>1, <2>2, <4>1 DEF Begun, Live, Working, Saving
    <3> QED BY <1>1, <1>2, <2>3, <3>2, <3>3 DEF RoundAgrees, Begun
  <2>5. CASE reply[r].status = 3
    <3>1. device'.key = Zero
      BY <1>1, <1>9, <2>5, Taken
    <3>2. RowsAgree'
      BY <1>1, <1>2, <3>1, KeyTypes DEF RowsAgree
    <3> QED BY <1>1, <1>2, <1>4, <2>1, <2>3, <3>1, <3>2 DEF RoundAgrees
  <2>6. CASE reply[r].status \notin {1, 3}
    <3>1. device'.key = device.key /\ device'.held = device.held
      BY <1>1, <1>9, <2>6, Taken
    <3> QED BY <1>1, <1>2, <1>3, <1>4, <2>1, <2>2, <2>3, <3>1
            DEF RowsAgree, RoundAgrees, Matches
  <2> QED BY <2>4, <2>5, <2>6
<1> QED BY <1>5, <1>6, <1>7, <1>8, <1>9 DEF Client

\* The clean-up takes nothing from under a device that it does not mark.
LEMMA HeldCleaned ==
  ASSUME SInv, CleanUp
  PROVE  HeldInv'
<1>1. TypeOK /\ KeyInReach /\ HeldInv
  BY DEF SInv, RInv, IInv
<1>2. UNCHANGED <<pc, req, round, reply, device, folder>>
  BY CleanUpStep DEF CleanUp, CleanUpChunks, CleanUpRow, CleanUpStops, store
<1>3. Gone' = Gone
  BY <1>2 DEF Gone
<1>4. CASE CleanUpRow
  <2>1. row' = NoState /\ chunks' = chunks /\ faults' = faults /\ cleanup = "cleared"
    BY <1>4 DEF CleanUpRow
  <2>2. row'.syncKey = Blank /\ row'.previous.key = Blank /\ faults # 0
    BY <1>1, <2>1 DEF NoState, NoRound, HeldInv
  <2>3. RowsAgree'
    BY <1>1, <1>2, <2>2, KeyTypes DEF RowsAgree
  <2>4. ASSUME NEW r \in Reqs PROVE RoundAgrees(r)'
    <3>1. pc[r] \in Begun => RowMark \in stale'[r]
      BY <1>1, <1>4 DEF CleanUpRow, OutdatesAll, TypeOK, Begun, Working, Saving
    <3> QED BY <1>2, <3>1 DEF RoundAgrees, Begun
  <2>5. ASSUME NEW r \in Reqs PROVE ReplyAgrees(r)'
    <3>1. reply[r].status = 1 => reply[r].key # Blank
      BY <1>1, KeyTypes DEF KeyInReach
    <3> QED BY <1>2, <2>1, <2>2, <3>1 DEF ReplyAgrees
  <2> QED BY <2>1, <2>2, <2>3, <2>4, <2>5 DEF HeldInv
<1>5. CASE CleanUpChunks \/ CleanUpStops
  <2>1. row' = row /\ faults' = faults + 1 /\ (cleanup' # "none" \/ ~row.chunked)
    BY <1>5 DEF CleanUpChunks, CleanUpStops, rows
  <2>2. faults' # 0
    BY <1>1, <2>1, SyncAssumption DEF TypeOK
  <2>3. \A r \in Reqs : stale[r] \subseteq stale'[r]
    BY <1>1, <1>5 DEF CleanUpChunks, CleanUpStops, OutdatesAll, TypeOK
  <2>4. Whole' => Whole /\ Recorded' = Recorded /\ Rebuilt' = Rebuilt
    BY <2>1 DEF Whole, Recorded, Rebuilt, LoadHeldSet
  <2>5. RowsAgree'
    BY <1>1, <1>2, <1>3, <2>1, <2>4 DEF HeldInv, RowsAgree, Matches
  <2>6. ASSUME NEW r \in Reqs PROVE RoundAgrees(r)'
    <3>1. InCourse(r) /\ RowAsRead(r) /\ RoundAgrees(r)
      BY DEF SInv, RInv, ChunkInv, HeldInv
    <3>2. ASSUME RowMark \notin stale'[r], cleanup' = "none" \/ ~round[r].stored.chunked,
                 pc[r] \in Begun
          PROVE  RowMark \notin stale[r] /\ ~round[r].stored.chunked
      <4>1. RowMark \notin stale[r]
        BY <2>3, <3>2
      <4>2. CASE pc[r] \in {"apply", "enum", "save"}
        BY <2>1, <3>1, <3>2, <4>1, <4>2 DEF RowAsRead, Unsaved
      <4>3. CASE pc[r] \in {"clear", "chunk", "final"}
        BY <2>1, <3>1, <3>2, <4>1, <4>3
           DEF InCourse, Withdrawn, Rewriting, OutOfRow, StaysInline
      <4> QED BY <3>2, <4>1, <4>2, <4>3 DEF Begun
    <3> QED BY <1>2, <1>3, <3>1, <3>2 DEF RoundAgrees, Matches, Confirmed, Created, Begun
  <2>7. ASSUME NEW r \in Reqs PROVE ReplyAgrees(r)'
    BY <1>1, <1>2, <1>3, <2>1, <2>2, <2>4 DEF HeldInv, ReplyAgrees, Matches, Confirmed
  <2> QED BY <2>2, <2>5, <2>6, <2>7 DEF HeldInv
<1> QED BY <1>4, <1>5 DEF CleanUp

\* Every step keeps the agreement of the row and the device.
LEMMA HeldInductive ==
  ASSUME Exclusive, SInv, [Next]_vars
  PROVE  HeldInv'
<1>1. TypeOK /\ HeldInv
  BY DEF SInv, RInv, IInv
<1>2. CASE (\E i \in Items, to \in {"in", "moved", "gone"} : ItemChanges(i, to))
             \/ UNCHANGED vars
  <2>1. UNCHANGED <<row, chunks, device, pc, req, round, stale, reply, faults, cleanup>>
    BY <1>2 DEF ItemChanges, vars, rows
  <2>2. Gone \subseteq Gone'
    BY <1>1, GoneGrows
  <2>3. Recorded' = Recorded /\ Rebuilt' = Rebuilt /\ Whole' = Whole
    BY <2>1 DEF Recorded, Rebuilt, Whole
  <2>4. RowsAgree'
    BY <1>1, <2>1, <2>2, <2>3 DEF HeldInv, RowsAgree, Matches
  <2>5. ASSUME NEW r \in Reqs PROVE RoundAgrees(r)'
    BY <1>1, <2>1, <2>2 DEF HeldInv, RoundAgrees, Matches, Confirmed, Created
  <2>6. ASSUME NEW r \in Reqs PROVE ReplyAgrees(r)'
    BY <1>1, <2>1, <2>2, <2>3 DEF HeldInv, ReplyAgrees, Matches, Confirmed
  <2> QED BY <1>1, <2>1, <2>4, <2>5, <2>6 DEF HeldInv
<1>3. ASSUME NEW q \in Reqs, Serve(q) \/ Fault(q) PROVE HeldInv'
  <2>1. RowsAgree'
    BY <1>3, RowsServed
  <2>2. ASSUME NEW r \in Reqs PROVE RoundAgrees(r)' /\ ReplyAgrees(r)'
    BY <1>3, RoundServed, ReplyServed, OthersAgree
  <2>3. cleanup' # "none" => faults' # 0
    <3>1. cleanup' = cleanup \/ cleanup' = "none"
      BY <1>1, <1>3, RowsWritten
         DEF Invalidate, ClearLeftover, WriteChunk, FinalWrite, Truncate, RestartWrite
    <3>2. faults' = faults \/ faults' = faults + 1
      BY <1>3 DEF Serve, Fault, Save, Apply, Acquire, LeaseTimeout, ReadRow, LoadHeld,
        LoadFails, WriteFails, Enumerate, NothingToApply, ReplayAdd, ApplyAdd, ApplyChange,
        ApplyDelete, DeleteAbsent, RefuseCommand, Applied, Invalidate, ClearLeftover,
        WriteChunk, ChunksWritten, FinalWrite, Truncate, RestartWrite, SaveLosesRace, Die
    <3> QED BY <1>1, <3>1, <3>2, SyncAssumption DEF HeldInv, TypeOK
  <2> QED BY <2>1, <2>2, <2>3 DEF HeldInv
<1> QED BY <1>2, <1>3, HeldClient, HeldCleaned DEF Next

\* Every step keeps all of it.
LEMMA SafetyInductive ==
  ASSUME Exclusive, InOrder, SInv, [Next]_vars
  PROVE  SInv'
<1>1. RInv /\ IInv /\ LineInv /\ ChunkInv
  BY DEF SInv, RInv
<1> QED BY <1>1, RoundsInductive, LineInductive, ChunksInductive, HeldInductive DEF SInv

\* The initial state satisfies all of it.
LEMMA InitSInv ==
  ASSUME Init
  PROVE  SInv
<1>1. RInv
  BY InitIInv DEF RInv, Init, RowAsRead, BasedOnStored, Unsaved, Begun
<1>2. ChunkInv
  <2>1. ChunksDisjoint
    BY NoChunksParts DEF Init, ChunksDisjoint, Sized, Disjoint
  <2> QED BY <2>1 DEF Init, ChunkInv, InCourse, Course, Withdrawn, Rewriting,
                      ChunksLoaded, InHand, Begun, ChunksComplete, Working, Saving
<1>3. LineInv
  BY SyncAssumption DEF Init, LineInv, AwaitedLast, Asked, OnDevice, Live, Working, Saving,
                        NoCommand
<1>4. HeldInv
  <2>1. RowsAgree
    BY <1>1, KeyTypes DEF Init, RowsAgree, RInv, IInv
  <2> QED BY <2>1, SyncAssumption DEF Init, HeldInv, RoundAgrees, ReplyAgrees, Begun
<1> QED BY <1>1, <1>2, <1>3, <1>4 DEF SInv

\* It holds always, under one lease and in order.
LEMMA Safety ==
  ASSUME Exclusive, InOrder
  PROVE  Spec => []SInv
<1>1. Init => SInv
  BY InitSInv
<1>2. SInv /\ [Next]_vars => SInv'
  BY SafetyInductive
<1> QED BY <1>1, <1>2, PTL DEF Spec

\* Under one lease, granted in order, the row of a device's key records what the
\* device has, and the previous round's delta leads back to it: for any number of
\* items, requests, chunk rows, lost answers, faults and clean-ups, in any mixture.
THEOREM DeviceAndRowAgree ==
  ASSUME Exclusive, InOrder
  PROVE  Spec => []HeldAgreement
<1>1. SInv => HeldAgreement
  BY DEF SInv, HeldInv, RowsAgree, Whole, Matches, HeldAgreement, Agrees
<1> QED BY <1>1, Safety, PTL


-----------------------------------------------------------------------------
(* The keys the server accepts.                                            *)

\* As long as nothing fails nobody is told that its copies are out of date, and the
\* device's key is in the row, or is the one whose round is being saved.
Unmarked == faults = 0 => \A r \in Reqs : stale[r] = {}
KeyServed ==
    faults = 0 /\ device.key # Zero =>
        \/ device.key \in {row.syncKey, row.previous.key}
        \/ \E r \in Reqs : Rewriting(r) /\ req[r].key = device.key

KInv == SInv /\ Unmarked /\ KeyServed

\* A request marks others, never itself.
LEMMA OwnMarks ==
  ASSUME TypeOK, NEW r \in Reqs, Serve(r) \/ Fault(r)
  PROVE  stale'[r] = stale[r] \/ stale'[r] = {}
<1> USE DEF TypeOK
<1>1. CASE Apply(r)
  BY <1>1 DEF Apply, NothingToApply, ReplayAdd, ApplyAdd, ApplyChange, ApplyDelete,
              DeleteAbsent, RefuseCommand, Applied
<1>2. CASE Acquire(r) \/ LeaseTimeout(r) \/ ReadRow(r) \/ LoadHeld(r) \/ Enumerate(r)
  BY <1>2 DEF Acquire, LeaseTimeout, ReadRow, LoadHeld, Enumerate, Ends
<1>3. CASE Invalidate(r) \/ ClearLeftover(r) \/ WriteChunk(r) \/ ChunksWritten(r)
             \/ Truncate(r)
  BY <1>3 DEF Invalidate, ClearLeftover, WriteChunk, ChunksWritten, Truncate, Outdates
<1>4. CASE FinalWrite(r) \/ RestartWrite(r)
  BY <1>4 DEF FinalWrite, RestartWrite, EndsOutdating
<1>5. CASE SaveLosesRace(r) \/ Fault(r)
  BY <1>5 DEF SaveLosesRace, Fault, LoadFails, WriteFails, Die, Ends
<1> QED BY <1>1, <1>2, <1>3, <1>4, <1>5 DEF Serve, Save

\* Faults and clean-ups are counted.
LEMMA FaultsCounted ==
  ASSUME TypeOK, cleanup # "none" => faults # 0, [Next]_vars, faults' = 0
  PROVE  faults = 0 /\ ~CleanUp /\ \A r \in Reqs : ~Fault(r)
<1>1. faults \in Nat
  BY SyncAssumption DEF TypeOK
<1>2. CleanUp => (cleanup # "none" /\ faults' = faults) \/ faults' = faults + 1
  BY DEF CleanUp, CleanUpChunks, CleanUpRow, CleanUpStops
<1>3. ASSUME NEW r \in Reqs, Fault(r) PROVE faults' = faults + 1
  BY <1>3 DEF Fault, LoadFails, WriteFails, Die
<1>4. ASSUME NEW r \in Reqs, Serve(r) PROVE faults' = faults
  BY <1>4 DEF Serve, Save, Apply, Acquire, LeaseTimeout, ReadRow, LoadHeld, Enumerate,
        NothingToApply, ReplayAdd, ApplyAdd, ApplyChange, ApplyDelete, DeleteAbsent,
        RefuseCommand, Applied, Invalidate, ClearLeftover, WriteChunk, ChunksWritten,
        FinalWrite, Truncate, RestartWrite, SaveLosesRace
<1>5. ASSUME \/ Client \/ UNCHANGED vars
             \/ \E i \in Items, to \in {"in", "moved", "gone"} : ItemChanges(i, to)
      PROVE  faults' = faults
  BY <1>5 DEF Client, Edit, StartOver, Receive, Lose, GiveUp, Send, ItemChanges, vars
<1> QED BY <1>1, <1>2, <1>3, <1>4, <1>5 DEF Next

\* A holder whose copies are good never loses a race.
LEMMA NoRaceLost ==
  ASSUME TypeOK, NEW r \in Reqs, InCourse(r), stale[r] = {}, cleanup = "none"
  PROVE  ~SaveLosesRace(r)
<1> SUFFICES ASSUME SaveLosesRace(r) PROVE FALSE
  OBVIOUS
<1>1. PICK i \in ChunkIndex : pc[r] = "chunk" /\ ~Writable(r, i)
  BY DEF SaveLosesRace
<1>2. chunks = round[r].loaded
  BY <1>1 DEF InCourse, ChunksComplete, Untouched, InHand
<1> QED BY <1>1, <1>2 DEF Writable

\* Every step keeps that nothing outdates a round but a clean-up or a fault.
LEMMA UnmarkedInductive ==
  ASSUME Exclusive, KInv, [Next]_vars
  PROVE  Unmarked'
<1> SUFFICES ASSUME faults' = 0, NEW r \in Reqs PROVE stale'[r] = {}
  BY DEF Unmarked
<1>1. TypeOK /\ OneHolder
  BY DEF KInv, SInv, RInv, IInv
<1>2. stale[r] = {} /\ ~CleanUp
  BY <1>1, FaultsCounted DEF KInv, Unmarked, SInv, HeldInv
<1>3. CASE \/ Client \/ UNCHANGED vars
           \/ \E i \in Items, to \in {"in", "moved", "gone"} : ItemChanges(i, to)
  BY <1>2, <1>3
     DEF Client, Edit, StartOver, Receive, Lose, GiveUp, Send, ItemChanges, vars
<1>4. ASSUME NEW q \in Reqs, Serve(q) \/ Fault(q) PROVE stale'[r] = {}
  BY <1>1, <1>2, <1>4, OwnMarks, WorksAlone, IdleUnmarked
<1> QED BY <1>2, <1>3, <1>4 DEF Next

\* Every step keeps that a round that ends has made its key the row's.
LEMMA KeyServedInductive ==
  ASSUME Exclusive, KInv, [Next]_vars
  PROVE  KeyServed'
<1> SUFFICES ASSUME faults' = 0, device'.key # Zero
             PROVE  \/ device'.key \in {row'.syncKey, row'.previous.key}
                    \/ \E r \in Reqs : Rewriting(r)' /\ req'[r].key = device'.key
  BY DEF KeyServed
<1>1. TypeOK /\ KeyInReach /\ OneHolder /\ LineInv /\ HeldInv
  BY DEF KInv, SInv, RInv, IInv
<1>2. faults = 0 /\ ~CleanUp /\ (\A r \in Reqs : ~Fault(r)) /\ cleanup = "none"
  BY <1>1, FaultsCounted DEF HeldInv
<1>3. \A r \in Reqs : stale[r] = {}
  BY <1>2 DEF KInv, Unmarked
<1>4. ASSUME device' = device, UNCHANGED <<row, pc, req, round>>
      PROVE  \/ device'.key \in {row'.syncKey, row'.previous.key}
             \/ \E r \in Reqs : Rewriting(r)' /\ req'[r].key = device'.key
  BY <1>2, <1>4 DEF KInv, KeyServed, Rewriting, OutOfRow
<1>5. CASE Client
  <2>1. UNCHANGED <<row, round>>
    BY <1>5 DEF Client, Edit, StartOver, Receive, Lose, GiveUp, Send, rows
  <2>2. CASE \E r \in Reqs : Receive(r)
    <3>1. PICK r \in Reqs : Receive(r)
      BY <2>2
    <3>2. device.waits = r /\ pc[r] = "reply"
      BY <1>1, <3>1, Taken
    <3>3. CASE reply[r].status = 1
      BY <1>1, <1>2, <2>1, <3>1, <3>2, <3>3, Taken DEF HeldInv, ReplyAgrees
    <3>4. CASE reply[r].status # 1
      <4>1. device'.key = device.key
        BY <1>1, <3>1, <3>4, Taken
      <4>2. \A q \in Reqs : Rewriting(q) => Rewriting(q)' /\ req'[q] = req[q]
        BY <1>1, <2>1, <3>1, <3>2, Taken DEF Rewriting, OutOfRow, TypeOK
      <4> QED BY <1>2, <2>1, <4>1, <4>2 DEF KInv, KeyServed
    <3> QED BY <3>3, <3>4
  <2>3. CASE ~\E r \in Reqs : Receive(r)
    <3>1. /\ device'.key = device.key
          /\ \A q \in Reqs : Rewriting(q) => Rewriting(q)' /\ req'[q] = req[q]
      <4>1. ASSUME NEW c \in Commands, Edit(c)
            PROVE  device'.key = device.key /\ UNCHANGED <<pc, req>>
        BY <1>1, <4>1 DEF Edit, TypeOK, Devices
      <4>2. ~StartOver
        BY <1>1 DEF StartOver, TypeOK, Devices
      <4>3. ASSUME NEW r \in Reqs, Lose(r) \/ GiveUp(r)
            PROVE  /\ device'.key = device.key
                   /\ \A q \in Reqs : Rewriting(q) => pc'[q] = pc[q] /\ req'[q] = req[q]
        BY <1>1, <4>3 DEF Lose, GiveUp, TypeOK, Devices, Rewriting
      <4>4. ASSUME NEW r \in Reqs, NEW f \in Filters \cup {Nil}, Send(r, f)
            PROVE  /\ device'.key = device.key
                   /\ \A q \in Reqs : Rewriting(q) => pc'[q] = pc[q] /\ req'[q] = req[q]
        BY <1>1, <4>4 DEF Send, TypeOK, Devices, Rewriting
      <4> QED BY <1>5, <2>1, <2>3, <4>1, <4>2, <4>3, <4>4 DEF Client, Rewriting, OutOfRow
    <3> QED BY <1>2, <2>1, <3>1 DEF KInv, KeyServed
  <2> QED BY <2>2, <2>3
<1>6. CASE (\E i \in Items, to \in {"in", "moved", "gone"} : ItemChanges(i, to))
             \/ UNCHANGED vars
  BY <1>4, <1>6 DEF ItemChanges, vars, rows
<1>7. ASSUME NEW r \in Reqs, Serve(r)
      PROVE  \/ device'.key \in {row'.syncKey, row'.previous.key}
             \/ \E q \in Reqs : Rewriting(q)' /\ req'[q].key = device'.key
  <2>1. device' = device /\ \A q \in Reqs \ {r} :
            pc'[q] = pc[q] /\ req'[q] = req[q] /\ round'[q] = round[q]
    BY <1>1, <1>7, ServedAlone
  <2>2. InCourse(r) /\ ~SaveLosesRace(r)
    BY <1>1, <1>2, <1>3, NoRaceLost DEF KInv, SInv, ChunkInv
  <2>3. pc[r] \in Working => req[r].key = device.key
    BY <1>1, <2>1 DEF LineInv, Asked, Live
  <2>4. CASE Invalidate(r)
    <3>1. pc[r] = "save" /\ pc'[r] \in {"clear", "chunk"} /\ req' = req
      BY <1>1, <2>4, Invalidates
    <3> QED BY <2>1, <2>3, <3>1 DEF Rewriting, Working, Saving
  <2>5. CASE FinalWrite(r)
    <3>1. pc[r] = "final" /\ row'.previous.key = req[r].key
      BY <1>1, <2>2, <2>5, SaveRecords
    <3> QED BY <2>1, <2>3, <3>1 DEF Working, Saving
  <2>6. CASE Truncate(r) \/ RestartWrite(r)
    <3>1. device.key = Zero
      BY <1>1, <2>2, <2>6, RestartUnkeyed DEF Truncate, RestartWrite
    <3> QED BY <2>1, <3>1
  <2>7. CASE ClearLeftover(r) \/ WriteChunk(r) \/ ChunksWritten(r)
    <3>1. pc'[r] \in {"chunk", "final"} /\ pc[r] \in {"clear", "chunk"} /\ req' = req
          /\ round'[r].stored = round[r].stored /\ round'[r].serverIds = round[r].serverIds
      BY <1>1, <2>7, WritesChunk DEF ClearLeftover, ChunksWritten, TypeOK
    <3>2. Rewriting(r)'
      BY <2>2, <3>1 DEF InCourse, Course, Rewriting, OutOfRow
    <3> QED BY <2>1, <2>3, <3>1, <3>2 DEF Working, Saving
  <2>8. CASE \/ Acquire(r) \/ LeaseTimeout(r) \/ ReadRow(r) \/ LoadHeld(r) \/ Apply(r)
             \/ Enumerate(r)
    <3>1. UNCHANGED row
      BY <1>1, <2>8, ApplyStep DEF Acquire, LeaseTimeout, ReadRow, LoadHeld, Enumerate, rows
    <3>2. pc[r] \notin {"clear", "chunk", "final"}
      BY <1>1, <2>8, ApplyStep DEF Acquire, LeaseTimeout, ReadRow, LoadHeld, Enumerate
    <3>3. \A q \in Reqs : Rewriting(q) => Rewriting(q)' /\ req'[q] = req[q]
      BY <2>1, <3>2 DEF Rewriting, OutOfRow
    <3> QED BY <1>2, <2>1, <3>1, <3>3 DEF KInv, KeyServed
  <2> QED BY <1>7, <2>2, <2>4, <2>5, <2>6, <2>7, <2>8 DEF Serve, Save
<1> QED BY <1>2, <1>5, <1>6, <1>7 DEF Next

\* Under one lease, granted in order, losing answers costs a device nothing: however
\* often it gives up and asks again, as long as nothing fails in the server the server
\* accepts the key that the device has.
THEOREM KeyStaysAccepted ==
  ASSUME Exclusive, InOrder
  PROVE  Spec => []KeyAccepted
<1>1. Init => KInv
  <2> SUFFICES ASSUME Init PROVE KInv
    OBVIOUS
  <2> QED BY InitSInv, SyncAssumption DEF Init, KInv, Unmarked, KeyServed
<1>2. KInv /\ [Next]_vars => KInv'
  BY SafetyInductive, UnmarkedInductive, KeyServedInductive DEF KInv
<1>3. KInv => KeyAccepted
  BY DEF KInv, KeyServed, KeyAccepted, Rewriting, Holders, Working, Saving
<1> QED BY <1>1, <1>2, <1>3, PTL DEF Spec


-----------------------------------------------------------------------------
(* SyncCommand implements SyncPromise, under one lease, granted in order.  *)

\* Unless the clean-up comes, nobody at work has read what is out of date by now.
Undisturbed == cleanup = "none" /\ \A r \in Reqs : stale[r] = {}

\* The row's keys are withdrawn together, and follow each other unless it was restarted.
KeysFollow ==
    /\ row.syncKey = Blank => row.previous.key = Blank
    /\ row.previous.key # Blank =>
          \/ generation(row.previous.key) + 1 = generation(row.syncKey)
          \/ row.syncKey = StartKey

\* A request without a key is served after all those that have one.
RestartsLast ==
    \A q, r \in Reqs :
        pc[q] \in Live /\ pc[r] \in Live /\ req[q].key # Zero /\ req[r].key = Zero =>
            pc[r] = "sent" /\ (pc[q] \in Working \/ q \in ahead[r])

\* So after a restart nobody asks with a key from before it.
FreshStart ==
    row.syncKey = StartKey =>
        /\ device.key \in {Zero, StartKey}
        /\ \A q \in Reqs : pc[q] \in Live => req[q].key \in {Zero, StartKey}

\* A new key that is on its way to the device is the row's.
AnswerCurrent ==
    \A r \in Reqs : device.waits = r /\ pc[r] = "reply" /\ reply[r].status = 1 =>
        /\ reply[r].key = row.syncKey
        /\ IF device.key = Zero THEN reply[r].key = StartKey
           ELSE generation(reply[r].key) = generation(device.key) + 1

\* As long as a round has written nothing, the row names the set that it goes on from.
BasedOnRow ==
    \A r \in Reqs :
        pc[r] \in {"apply", "enum", "save"} \/ (pc[r] = "final" /\ ~OutOfRow(r)) =>
            /\ row = round[r].stored
            /\ round[r].base = BaseSet(req[r].key, row, Recorded)

PInv == /\ SInv /\ Undisturbed /\ KeysFollow /\ RestartsLast /\ FreshStart
        /\ AnswerCurrent /\ BasedOnRow

\* The parts of the invariant that the steps below use.
LEMMA Parts ==
  ASSUME PInv
  PROVE  /\ TypeOK /\ KeyInReach /\ OneHolder /\ LineInv
         /\ cleanup = "none" /\ \A r \in Reqs : stale[r] = {}
         /\ \A r \in Reqs : RowAsRead(r) /\ BasedOnStored(r) /\ InCourse(r)
BY DEF PInv, SInv, RInv, IInv, ChunkInv, Undisturbed

\* Without the clean-up none of its steps is taken.
LEMMA NoCleanUp ==
  ASSUME ~CleansUp, cleanup = "none"
  PROVE  ~CleanUp
BY DEF CleanUp, CleanUpChunks, CleanUpRow, CleanUpStops

\* Without the clean-up and under one lease nobody works on what is out of date.
LEMMA UndisturbedInductive ==
  ASSUME Exclusive, ~CleansUp, TypeOK, OneHolder, Undisturbed, [Next]_vars
  PROVE  Undisturbed'
<1>1. ~CleanUp
  BY NoCleanUp DEF Undisturbed
<1>2. CASE \/ Client \/ UNCHANGED vars
           \/ \E i \in Items, to \in {"in", "moved", "gone"} : ItemChanges(i, to)
  BY <1>2
     DEF Undisturbed, Client, Edit, StartOver, Receive, Lose, GiveUp, Send, ItemChanges, vars
<1>3. ASSUME NEW q \in Reqs, Serve(q) \/ Fault(q) PROVE Undisturbed'
  <2>1. \A r \in Reqs : stale'[r] = {}
    BY <1>3, OwnMarks, WorksAlone, IdleUnmarked DEF Undisturbed
  <2>2. cleanup' = "none"
    BY <1>3, RowsWritten DEF Undisturbed, Invalidate, ClearLeftover, WriteChunk, FinalWrite,
                             Truncate, RestartWrite
  <2> QED BY <2>1, <2>2 DEF Undisturbed
<1> QED BY <1>1, <1>2, <1>3 DEF Next

\* What the device and the other writers leave alone.
LEMMA RowUntouched ==
  ASSUME Client \/ (\E i \in Items, to \in {"in", "moved", "gone"} : ItemChanges(i, to))
           \/ UNCHANGED vars
  PROVE  UNCHANGED <<rows, round>>
BY DEF Client, Edit, StartOver, Receive, Lose, GiveUp, Send, ItemChanges, vars, rows

\* What a save makes of the row's keys.
LEMMA KeysWritten ==
  ASSUME PInv, [Next]_vars, ~CleansUp, row' # row
  PROVE  \E r \in Reqs :
           \/ Invalidate(r) /\ row'.syncKey = Blank /\ row'.previous.key = Blank
           \/ /\ FinalWrite(r) /\ row'.syncKey = round[r].key /\ row'.previous.key = req[r].key
              /\ round[r].key \in Keys /\ req[r].key \in Keys
              /\ generation(round[r].key) = generation(req[r].key) + 1
           \/ RestartWrite(r) /\ row'.syncKey = StartKey
<1>1. TypeOK /\ KeyInReach /\ ~CleanUp
  BY Parts, NoCleanUp
<1>2. PICK r \in Reqs : Invalidate(r) \/ FinalWrite(r) \/ RestartWrite(r)
  BY <1>1, RowSteps
<1>3. CASE Invalidate(r)
  BY <1>1, <1>3, Invalidates
<1>4. CASE FinalWrite(r)
  <2>1. InCourse(r) /\ pc[r] = "final"
    BY <1>4, Parts DEF FinalWrite
  <2> QED BY <1>1, <1>4, <2>1, SaveRecords
             DEF InCourse, Course, KeyInReach, Working, Saving
<1>5. CASE RestartWrite(r)
  BY <1>5 DEF RestartWrite
<1> QED BY <1>2, <1>3, <1>4, <1>5

\* Each save counts on from the key that it was issued for.
LEMMA KeysFollowInductive ==
  ASSUME PInv, [Next]_vars, ~CleansUp
  PROVE  KeysFollow'
<1>1. CASE row' = row
  BY <1>1 DEF PInv, KeysFollow
<1>2. CASE row' # row
  BY <1>2, KeysWritten DEF KeysFollow, Keys, Blank, StartKey
<1> QED BY <1>1, <1>2

\* The device leaves alone what is under way, but the request that it sends.
LEMMA LeftAlone ==
  ASSUME TypeOK, Client, NEW q \in Reqs, pc'[q] \in Live,
         ~\E f \in Filters \cup {Nil} : Send(q, f)
  PROVE  pc'[q] = pc[q] /\ req'[q] = req[q] /\ ahead'[q] = ahead[q]
<1> USE DEF TypeOK
<1>1. ASSUME NEW c \in Commands, Edit(c) PROVE UNCHANGED <<pc, req, ahead>>
  BY <1>1 DEF Edit
<1>2. CASE StartOver
  BY <1>2 DEF StartOver
<1>3. ASSUME NEW r \in Reqs, Receive(r) \/ Lose(r) \/ GiveUp(r)
      PROVE  pc'[q] = pc[q] /\ req'[q] = req[q] /\ ahead'[q] = ahead[q]
  <2>1. "idle" \notin Live
    BY DEF Live, Working, Saving
  <2>2. CASE Receive(r)
    BY <2>1, <2>2 DEF Receive
  <2>3. CASE Lose(r)
    BY <2>1, <2>3 DEF Lose
  <2>4. CASE GiveUp(r)
    BY <2>4 DEF GiveUp
  <2> QED BY <1>3, <2>2, <2>3, <2>4
<1>4. ASSUME NEW r \in Reqs, NEW f \in Filters \cup {Nil}, Send(r, f)
      PROVE  pc'[q] = pc[q] /\ req'[q] = req[q] /\ ahead'[q] = ahead[q]
  <2>1. q # r
    BY <1>4
  <2> QED BY <1>4, <2>1 DEF Send
<1> QED BY <1>1, <1>2, <1>3, <1>4 DEF Client

\* Who is under way after a step was before, with the same request, or was sent by it.
LEMMA StillLive ==
  ASSUME TypeOK, [Next]_vars, NEW q \in Reqs, pc'[q] \in Live,
         ~\E f \in Filters \cup {Nil} : Send(q, f)
  PROVE  pc[q] \in Live /\ req'[q] = req[q]
<1>1. CASE \/ CleanUp \/ UNCHANGED vars
           \/ \E i \in Items, to \in {"in", "moved", "gone"} : ItemChanges(i, to)
  BY <1>1, NobodyServed
<1>2. ASSUME NEW p \in Reqs, Serve(p) \/ Fault(p) PROVE pc[q] \in Live /\ req'[q] = req[q]
  BY <1>2, ServedAlone DEF Live, Working, Saving
<1>3. CASE Client
  BY <1>3, LeftAlone
<1> QED BY <1>1, <1>2, <1>3 DEF Next

\* Who is served later stays so.
LEMMA OrderKept ==
  ASSUME Exclusive, InOrder, TypeOK, [Next]_vars, NEW q \in Reqs, NEW r \in Reqs,
         pc'[q] \in Live, pc'[r] \in Live,
         ~\E f \in Filters \cup {Nil} : Send(q, f) \/ Send(r, f),
         pc[r] = "sent" /\ (pc[q] \in Working \/ q \in ahead[r])
  PROVE  pc'[r] = "sent" /\ (pc'[q] \in Working \/ q \in ahead'[r])
<1>1. pc[q] \in Live
  BY StillLive
<1>2. ASSUME NEW p \in Reqs, Serve(p) \/ Fault(p)
      PROVE  pc'[r] = "sent" /\ (pc'[q] \in Working \/ q \in ahead'[r])
  <2>1. CASE p = r
    <3>1. pc'[r] \in Working /\ Acquire(r)
      BY <1>2, <2>1, ServedAlone DEF Live, Working, Saving
    <3>2. Holders = {} /\ ahead[r] = {}
      BY <3>1 DEF Acquire
    <3> QED BY <3>2 DEF Holders
  <2>2. CASE p # r
    <3>1. pc'[r] = "sent" /\ (ahead'[r] = ahead[r] \/ ahead'[r] = ahead[r] \ {p})
      BY <1>2, <2>2, ServedAlone DEF LeaveLine, TypeOK
    <3>2. q = p => pc'[q] \in Working
      BY <1>2, ServedAlone DEF Live, Working, Saving
    <3>3. q # p => pc'[q] = pc[q]
      BY <1>2, ServedAlone
    <3> QED BY <3>1, <3>2, <3>3
  <2> QED BY <2>1, <2>2
<1>3. CASE \/ CleanUp \/ UNCHANGED vars
           \/ \E i \in Items, to \in {"in", "moved", "gone"} : ItemChanges(i, to)
  BY <1>3, NobodyServed
<1>4. CASE Client
  <2>1. pc'[q] = pc[q] /\ pc'[r] = pc[r] /\ ahead'[r] = ahead[r]
    BY <1>4, LeftAlone
  <2> QED BY <2>1
<1> QED BY <1>2, <1>3, <1>4 DEF Next

\* A device sends a request without a key after it has given up on the others.
LEMMA RestartsLastInductive ==
  ASSUME Exclusive, InOrder, PInv, [Next]_vars
  PROVE  RestartsLast'
<1> SUFFICES ASSUME NEW q \in Reqs, NEW r \in Reqs, pc'[q] \in Live, pc'[r] \in Live,
                    req'[q].key # Zero, req'[r].key = Zero
             PROVE  pc'[r] = "sent" /\ (pc'[q] \in Working \/ q \in ahead'[r])
  BY DEF RestartsLast
<1>1. TypeOK /\ LineInv
  BY Parts
<1>2. ASSUME NEW f \in Filters \cup {Nil}, Send(r, f)
      PROVE  pc'[r] = "sent" /\ (pc'[q] \in Working \/ q \in ahead'[r])
  <2>1. /\ pc'[r] = "sent" /\ ahead'[r] = {p \in Reqs : pc[p] = "sent"}
        /\ q # r /\ pc'[q] = pc[q]
    BY <1>1, <1>2 DEF Send, TypeOK
  <2> QED BY <2>1 DEF Live
<1>3. ASSUME NEW f \in Filters \cup {Nil}, Send(q, f) PROVE FALSE
  <2>1. req'[q].key = device.key /\ q # r /\ pc'[r] = pc[r] /\ req'[r] = req[r]
    BY <1>1, <1>3 DEF Send, TypeOK
  <2> QED BY <1>1, <2>1 DEF LineInv, Asked
<1>4. CASE /\ ~\E f \in Filters \cup {Nil} : Send(r, f)
           /\ ~\E f \in Filters \cup {Nil} : Send(q, f)
  <2>1. /\ pc[q] \in Live /\ pc[r] \in Live /\ req'[q] = req[q] /\ req'[r] = req[r]
    BY <1>1, <1>4, StillLive
  <2>2. pc[r] = "sent" /\ (pc[q] \in Working \/ q \in ahead[r])
    BY <2>1 DEF PInv, RestartsLast
  <2> QED BY <1>1, <1>4, <2>2, OrderKept
<1> QED BY <1>2, <1>3, <1>4

\* What a step does to the device: it takes an answer, starts over, or keeps its key.
LEMMA DeviceKey ==
  ASSUME PInv, [Next]_vars
  PROVE  \/ device'.key = device.key
         \/ device'.key = Zero
         \/ /\ \E r \in Reqs : /\ device.waits = r /\ pc[r] = "reply" /\ reply[r].status = 1
                              /\ device'.key = reply[r].key
            /\ Client
<1>1. TypeOK /\ KeyInReach /\ device \in Devices
  BY Parts DEF TypeOK
<1>2. CASE \E r \in Reqs : Receive(r)
  <2>1. PICK r \in Reqs : Receive(r)
    BY <1>2
  <2>2. reply[r].status = 1 \/ reply[r].status = 3 \/ reply[r].status \notin {1, 3}
    OBVIOUS
  <2> QED BY <1>1, <2>1, <2>2, Taken DEF Client
<1>3. CASE Client /\ ~\E r \in Reqs : Receive(r)
  <2>1. ASSUME NEW c \in Commands, Edit(c) PROVE device'.key = device.key
    BY <1>1, <2>1 DEF Edit, Devices
  <2>2. StartOver => device'.key = Zero
    BY <1>1 DEF StartOver, Devices
  <2>3. ASSUME NEW r \in Reqs, Lose(r) \/ GiveUp(r) PROVE device'.key = device.key
    BY <1>1, <2>3 DEF Lose, GiveUp, Devices
  <2>4. ASSUME NEW r \in Reqs, NEW f \in Filters \cup {Nil}, Send(r, f)
        PROVE  device'.key = device.key
    BY <1>1, <2>4 DEF Send, Devices
  <2> QED BY <1>3, <2>1, <2>2, <2>3, <2>4 DEF Client
<1>4. CASE ~Client
  BY <1>1, <1>4, ServedAlone, NobodyServed DEF Next
<1> QED BY <1>2, <1>3, <1>4

\* A restart is served last, so what comes after it asks with its key or none.
LEMMA FreshStartInductive ==
  ASSUME Exclusive, InOrder, ~CleansUp, PInv, [Next]_vars
  PROVE  FreshStart'
<1> SUFFICES ASSUME row'.syncKey = StartKey
             PROVE  /\ device'.key \in {Zero, StartKey}
                    /\ \A q \in Reqs : pc'[q] \in Live => req'[q].key \in {Zero, StartKey}
  BY DEF FreshStart
<1>1. TypeOK
  BY Parts
<1>2. CASE row' = row
  <2>1. /\ device.key \in {Zero, StartKey}
        /\ \A q \in Reqs : pc[q] \in Live => req[q].key \in {Zero, StartKey}
    BY <1>2 DEF PInv, FreshStart
  <2>2. device'.key \in {Zero, StartKey}
    BY <1>2, <2>1, DeviceKey DEF PInv, AnswerCurrent
  <2>3. ASSUME NEW q \in Reqs, pc'[q] \in Live PROVE req'[q].key \in {Zero, StartKey}
    <3>1. CASE \E f \in Filters \cup {Nil} : Send(q, f)
      BY <1>1, <2>1, <3>1 DEF Send, TypeOK
    <3>2. CASE ~\E f \in Filters \cup {Nil} : Send(q, f)
      BY <1>1, <2>1, <2>3, <3>2, StillLive
    <3> QED BY <3>1, <3>2
  <2> QED BY <2>2, <2>3
<1>3. CASE row' # row
  <2>1. PICK r \in Reqs :
           \/ Invalidate(r) /\ row'.syncKey = Blank
           \/ /\ FinalWrite(r) /\ row'.syncKey = round[r].key
              /\ round[r].key \in Keys /\ req[r].key \in Keys
              /\ generation(round[r].key) = generation(req[r].key) + 1
           \/ RestartWrite(r)
    BY <1>3, KeysWritten
  <2>2. RestartWrite(r)
    BY <2>1, SyncAssumption DEF Keys, StartKey, Blank, generation
  <2>3. device.key = Zero /\ pc[r] = "restart" /\ req[r].key = Zero
    BY <2>2, Parts, RestartUnkeyed DEF RestartWrite, InCourse, Course
  <2>4. device' = device /\ \A q \in Reqs : pc'[q] \in Live => pc[q] \in Live /\ req'[q] = req[q]
    BY <1>1, <2>2, ServedAlone DEF Serve, Save, Live, Working, Saving
  <2>5. ASSUME NEW q \in Reqs, pc[q] \in Live PROVE req[q].key = Zero
    BY <2>3, <2>5 DEF PInv, RestartsLast, Live, Working, Saving
  <2> QED BY <2>3, <2>4, <2>5
<1> QED BY <1>2, <1>3

\* No save comes between an answer and the device that waits for it.
LEMMA AnswerCurrentInductive ==
  ASSUME Exclusive, InOrder, ~CleansUp, PInv, [Next]_vars
  PROVE  AnswerCurrent'
<1> SUFFICES ASSUME NEW r \in Reqs, device'.waits = r, pc'[r] = "reply",
                    reply'[r].status = 1
             PROVE  /\ reply'[r].key = row'.syncKey
                    /\ IF device'.key = Zero THEN reply'[r].key = StartKey
                       ELSE generation(reply'[r].key) = generation(device'.key) + 1
  BY DEF AnswerCurrent
<1>1. TypeOK /\ KeyInReach /\ LineInv /\ InCourse(r)
  BY Parts
<1>2. ASSUME UNCHANGED <<device, row>>, pc'[r] = pc[r], reply'[r] = reply[r]
      PROVE  /\ reply'[r].key = row'.syncKey
             /\ IF device'.key = Zero THEN reply'[r].key = StartKey
                ELSE generation(reply'[r].key) = generation(device'.key) + 1
  BY <1>2 DEF PInv, AnswerCurrent
<1>3. CASE Client
  <2>1. Nil \notin Reqs
    BY SyncAssumption
  <2>2. ~StartOver /\ (\A c \in Commands : ~Edit(c)) /\ \A q \in Reqs : ~GiveUp(q) /\ ~Receive(q)
    <3>1. device \in Devices
      BY <1>1 DEF TypeOK
    <3>2. ASSUME NEW q \in Reqs, Receive(q) PROVE FALSE
      BY <1>1, <2>1, <3>2, Taken
    <3> QED BY <2>1, <3>1, <3>2 DEF StartOver, Edit, GiveUp, Devices
  <2>3. \A q \in Reqs, f \in Filters \cup {Nil} : ~Send(q, f)
    BY <1>1 DEF Send, TypeOK, Devices
  <2>4. PICK q \in Reqs : Lose(q)
    BY <1>3, <2>2, <2>3 DEF Client
  <2>5. q # r /\ UNCHANGED <<device, row>>
    BY <2>4 DEF Lose, rows
  <2>6. pc'[r] = pc[r] /\ reply'[r] = reply[r]
    BY <1>1, <2>4, <2>5 DEF Lose, TypeOK
  <2> QED BY <1>2, <2>5, <2>6
<1>4. CASE \/ CleanUp \/ UNCHANGED vars
           \/ \E i \in Items, to \in {"in", "moved", "gone"} : ItemChanges(i, to)
  <2>1. ~CleanUp
    BY Parts, NoCleanUp
  <2> QED BY <1>2, <1>4, <2>1, NobodyServed, RowUntouched DEF rows
<1>5. ASSUME NEW q \in Reqs, q # r, Serve(q) \/ Fault(q)
      PROVE  UNCHANGED <<device, row>> /\ pc'[r] = pc[r] /\ reply'[r] = reply[r]
  <2>1. device' = device /\ pc'[r] = pc[r] /\ reply'[r] = reply[r]
    BY <1>1, <1>5, ServedAlone
  <2>2. pc[q] \notin Working
    BY <1>1, <1>5, <2>1 DEF LineInv, AwaitedLast, Live
  <2>3. row' = row
    BY <1>1, <1>5, <2>2, RowsWritten
       DEF Invalidate, ClearLeftover, WriteChunk, FinalWrite, Truncate, RestartWrite,
           Working, Saving
  <2> QED BY <2>1, <2>3
<1>6. ASSUME Serve(r) \/ Fault(r)
      PROVE  /\ reply'[r].key = row'.syncKey
             /\ IF device'.key = Zero THEN reply'[r].key = StartKey
                ELSE generation(reply'[r].key) = generation(device'.key) + 1
  <2>1. device' = device /\ pc[r] \in Live
    BY <1>1, <1>6, ServedAlone
  <2>2. req[r].key = device.key
    BY <1>1, <2>1 DEF LineInv, Asked
  <2>3. CASE FinalWrite(r)
    <3>1. pc[r] = "final" /\ row'.syncKey = round[r].key /\ reply'[r].key = round[r].key
      BY <1>1, <2>3, SaveRecords DEF FinalWrite, AnswerWith, TypeOK
    <3>2. generation(round[r].key) = generation(req[r].key) + 1 /\ req[r].key \in Keys
      BY <1>1, <3>1 DEF InCourse, Course, KeyInReach, Working, Saving
    <3>3. req[r].key # Zero
      BY <3>2 DEF Keys, Zero
    <3> QED BY <2>1, <2>2, <3>1, <3>2, <3>3
  <2>4. CASE RestartWrite(r)
    <3>1. device.key = Zero
      BY <1>1, <2>4, RestartUnkeyed DEF RestartWrite
    <3>2. row'.syncKey = StartKey /\ reply'[r] = Answered(1, StartKey)
      BY <1>1, <2>4 DEF RestartWrite, AnswerWith, TypeOK
    <3> QED BY <2>1, <3>1, <3>2 DEF Answered
  <2> QED BY <1>1, <1>6, <2>3, <2>4, SavesAnswer
<1> QED BY <1>2, <1>3, <1>4, <1>5, <1>6 DEF Next

\* The set that a round goes on from is one of the two that the row names.
Before(r) == pc[r] \in {"apply", "enum", "save"} \/ (pc[r] = "final" /\ ~OutOfRow(r))

\* A step of the request that is served itself leaves its base in the row.
LEMMA BasedOnRowServed ==
  ASSUME PInv, NEW r \in Reqs, Serve(r) \/ Fault(r), Before(r)'
  PROVE  /\ row' = round'[r].stored
         /\ round'[r].base = BaseSet(req'[r].key, row', Recorded')
<1>1. TypeOK /\ InCourse(r) /\ RowAsRead(r) /\ stale[r] = {}
  BY Parts
<1>2. ASSUME Before(r), UNCHANGED <<rows, req>>, round'[r].stored = round[r].stored,
             round'[r].base = round[r].base
      PROVE  /\ row' = round'[r].stored
             /\ round'[r].base = BaseSet(req'[r].key, row', Recorded')
  <2>1. row = round[r].stored /\ round[r].base = BaseSet(req[r].key, row, Recorded)
    BY <1>2 DEF PInv, BasedOnRow, Before
  <2>2. row' = row /\ req' = req /\ Recorded' = Recorded
    BY <1>2 DEF rows, Recorded
  <2> QED BY <1>2, <2>1, <2>2
<1>3. CASE LoadHeld(r)
  <2>1. /\ pc[r] = "read" /\ UNCHANGED <<rows, req>> /\ round'[r].stored = round[r].stored
        /\ round'[r].base = BaseSet(req[r].key, round[r].stored,
               LoadHeldSet(round[r].stored.chunked, round[r].stored.serverIds, chunks))
    BY <1>1, <1>3, Loads DEF Before
  <2>2. row = round[r].stored
    BY <1>1, <2>1 DEF RowAsRead, Unsaved
  <2> QED BY <2>1, <2>2 DEF rows, Recorded
<1>4. CASE Apply(r)
  <2>1. pc[r] = "apply" /\ UNCHANGED <<rows, req>>
    BY <1>1, <1>4, ApplyStep DEF rows
  <2>2. PICK ids, ok, clientIds : Applied(r, ids, ok, clientIds)
    BY <1>4 DEF Apply, NothingToApply, ReplayAdd, ApplyAdd, ApplyChange, ApplyDelete,
                DeleteAbsent, RefuseCommand
  <2> QED BY <1>1, <1>2, <2>1, <2>2, Applies DEF Before
<1>5. CASE Enumerate(r)
  BY <1>1, <1>2, <1>5, Enumerates DEF Before
<1>6. CASE ~LoadHeld(r) /\ ~Apply(r) /\ ~Enumerate(r)
  <2>1. CASE Invalidate(r) \/ ClearLeftover(r) \/ WriteChunk(r) \/ ChunksWritten(r)
    <3>1. /\ pc'[r] \in {"clear", "chunk", "final"} /\ (pc'[r] = "final" => OutOfRow(r))
          /\ round'[r].stored = round[r].stored /\ round'[r].serverIds = round[r].serverIds
      BY <1>1, <2>1, Invalidates, WritesChunk
         DEF ClearLeftover, ChunksWritten, TypeOK, InCourse, Course
    <3> QED BY <3>1 DEF Before, OutOfRow
  <2>2. CASE Acquire(r) \/ ReadRow(r) \/ Truncate(r)
    BY <1>1, <2>2 DEF Acquire, ReadRow, Truncate, TypeOK, Before
  <2>3. CASE LeaseTimeout(r) \/ FinalWrite(r) \/ RestartWrite(r) \/ SaveLosesRace(r) \/ Fault(r)
    BY <1>1, <2>3 DEF LeaseTimeout, FinalWrite, RestartWrite, SaveLosesRace, Fault, LoadFails,
                      WriteFails, Die, SaveFailed, AnswerWith, TypeOK, Before
  <2> QED BY <1>6, <2>1, <2>2, <2>3 DEF Serve, Save
<1> QED BY <1>3, <1>4, <1>5, <1>6

\* What a round is based on is still in the row when it is saved.
LEMMA BasedOnRowInductive ==
  ASSUME Exclusive, ~CleansUp, PInv, [Next]_vars
  PROVE  BasedOnRow'
<1> SUFFICES ASSUME NEW r \in Reqs, Before(r)'
             PROVE  /\ row' = round'[r].stored
                    /\ round'[r].base = BaseSet(req'[r].key, row', Recorded')
  BY DEF BasedOnRow, Before
<1>1. TypeOK /\ OneHolder
  BY Parts
<1>2. ASSUME UNCHANGED rows, pc'[r] = pc[r], req'[r] = req[r], round'[r] = round[r]
      PROVE  /\ row' = round'[r].stored
             /\ round'[r].base = BaseSet(req'[r].key, row', Recorded')
  <2>1. Before(r)
    BY <1>2 DEF Before, OutOfRow
  <2>2. row = round[r].stored /\ round[r].base = BaseSet(req[r].key, row, Recorded)
    BY <2>1 DEF PInv, BasedOnRow, Before
  <2>3. row' = row /\ Recorded' = Recorded
    BY <1>2 DEF rows, Recorded
  <2> QED BY <1>2, <2>2, <2>3
<1>3. pc'[r] \in Working
  BY DEF Before, Working, Saving
<1>4. CASE \/ CleanUp \/ UNCHANGED vars
           \/ \E i \in Items, to \in {"in", "moved", "gone"} : ItemChanges(i, to)
  <2>1. ~CleanUp
    BY Parts, NoCleanUp
  <2> QED BY <1>2, <1>4, <2>1, NobodyServed, RowUntouched
<1>5. CASE Client
  <2>1. ~\E f \in Filters \cup {Nil} : Send(r, f)
    BY <1>1, <1>3 DEF Send, TypeOK, Working, Saving
  <2> QED BY <1>1, <1>2, <1>3, <1>5, <2>1, LeftAlone, RowUntouched DEF Live
<1>6. ASSUME NEW q \in Reqs, q # r, Serve(q) \/ Fault(q)
      PROVE  UNCHANGED rows /\ pc'[r] = pc[r] /\ req'[r] = req[r] /\ round'[r] = round[r]
  <2>1. pc'[r] = pc[r]
    BY <1>1, <1>6, ServedAlone
  <2> QED BY <1>1, <1>3, <1>6, <2>1, WorksAlone
<1> QED BY <1>2, <1>4, <1>5, <1>6, BasedOnRowServed DEF Next

\* All of it holds after every step, if it did before.
LEMMA PInductive ==
  ASSUME Exclusive, InOrder, ~CleansUp, PInv, [Next]_vars
  PROVE  PInv'
<1>1. TypeOK /\ OneHolder
  BY Parts
<1> QED BY <1>1, SafetyInductive, UndisturbedInductive, KeysFollowInductive,
           RestartsLastInductive, FreshStartInductive, AnswerCurrentInductive,
           BasedOnRowInductive DEF PInv

\* All of it holds initially.
LEMMA InitPInv ==
  ASSUME Init
  PROVE  PInv
<1>1. SInv
  BY InitSInv
<1>2. row.syncKey = Blank /\ row.previous.key = Blank
  BY DEF Init, NoState, NoRound
<1>3. \A r \in Reqs : pc[r] = "idle"
  BY DEF Init
<1> QED BY <1>1, <1>2, <1>3
           DEF Init, PInv, Undisturbed, KeysFollow, RestartsLast, FreshStart, AnswerCurrent,
               BasedOnRow, Blank, StartKey, Live, Working, Saving

-----------------------------------------------------------------------------
(* Every step of the rounds is a step of the promise, or none.             *)

Rewrites == {"clear", "chunk", "final"}

\* What the promise sees changes with the rows, the device and what is being rewritten.
LEMMA Unseen ==
  ASSUME UNCHANGED <<rows, Gone, Underway>>, device'.key = device.key,
         device'.held = device.held
  PROVE  UNCHANGED Promise!vars
<1>1. row' = row /\ Recorded' = Recorded
  BY DEF rows, Recorded
<1>2. Named' = Named
  BY <1>1 DEF Named, Accepted, Rebuilt
<1> QED BY <1>2 DEF Promise!vars

\* What is being rewritten stays as long as its request and the row do.
LEMMA UnderwayKept ==
  ASSUME row'.syncKey = row.syncKey, Gone' = Gone,
         \A q \in Reqs : /\ pc'[q] \in Rewrites <=> pc[q] \in Rewrites
                         /\ pc[q] \in Rewrites => /\ req'[q].key = req[q].key
                                                  /\ round'[q].base = round[q].base
  PROVE  Underway' = Underway
<1>1. {q \in Reqs : pc'[q] \in Rewrites /\ row'.syncKey = Blank}
        = {q \in Reqs : pc[q] \in Rewrites /\ row.syncKey = Blank}
  OBVIOUS
<1> DEFINE U == {q \in Reqs : pc[q] \in Rewrites /\ row.syncKey = Blank}
<1>2. \A q \in U : <<req'[q].key, round'[q].base \ Gone'>> = <<req[q].key, round[q].base \ Gone>>
  OBVIOUS
<1>3. Underway' = {<<req'[r].key, round'[r].base \ Gone'>> : r \in U}
  BY <1>1 DEF Underway, Rewrites
<1>4. Underway = {<<req[r].key, round[r].base \ Gone>> : r \in U}
  BY DEF Underway, Rewrites
<1> QED BY <1>2, <1>3, <1>4

\* Nothing is being rewritten while the row has its keys, nor beside a request that
\* writes nothing.
LEMMA NothingUnderway == (row.syncKey # Blank) => Underway = {}
BY DEF Underway

\* Under one lease at most one request is rewriting the device's rows.
LEMMA OneUnderway ==
  ASSUME Exclusive, OneHolder, NEW r \in Reqs, pc[r] \in Working
  PROVE  Underway = IF pc[r] \in Rewrites /\ row.syncKey = Blank
                    THEN {<<req[r].key, round[r].base \ Gone>>} ELSE {}
<1>1. \A q \in Reqs : pc[q] \in Rewrites => q = r
  BY DEF OneHolder, Rewrites, Working, Saving
<1> QED BY <1>1 DEF Underway, Rewrites

\* What the keys of the row name.
LEMMA NamesOfRow ==
  ASSUME TypeOK, KeysFollow
  PROVE  /\ DOMAIN Named \subseteq Keys
         /\ row.syncKey = Blank => Named = Promise!NoNames
         /\ row.syncKey # Blank =>
               row.syncKey \in DOMAIN Named /\ Named[row.syncKey] = Recorded \ Gone
         /\ row.previous.key \in Keys /\ row.previous.key # row.syncKey /\ row.syncKey # StartKey
               => /\ row.previous.key \in DOMAIN Named
                  /\ Named[row.previous.key] = Rebuilt \ Gone
<1>1. row.syncKey \in Keys \cup {Blank} /\ row.previous.key \in Keys \cup {Blank}
  BY KeyTypes
<1>2. Blank \notin Keys
  BY DEF Keys, Blank
<1>3. row.syncKey = Blank => Accepted \ {Blank} = {}
  BY <1>1, <1>2 DEF Accepted, KeysFollow
<1>4. \A k \in Accepted \ {Blank} : Named[k] = (IF k = row.syncKey THEN Recorded ELSE Rebuilt) \ Gone
  BY DEF Named
<1>5. DOMAIN Named = Accepted \ {Blank}
  BY DEF Named
<1>6. row.syncKey = Blank => Named = Promise!NoNames
  BY <1>3 DEF Named, Promise!NoNames
<1>7. row.previous.key \in Keys /\ row.syncKey # StartKey => row.previous.key \in Accepted
  BY <1>2 DEF Accepted, KeysFollow
<1>8. Accepted \subseteq {row.syncKey, row.previous.key} /\ row.syncKey \in Accepted
  BY DEF Accepted
<1> QED BY <1>1, <1>2, <1>4, <1>5, <1>6, <1>7, <1>8

\* The device takes an answer, starts over, or the promise sees nothing of it.
LEMMA ClientImplements ==
  ASSUME PInv, Client
  PROVE  Promise!Next \/ UNCHANGED Promise!vars
<1>1. /\ TypeOK /\ KeyInReach /\ device \in Devices /\ LineInv /\ KeysFollow
      /\ cleanup = "none"
  BY Parts DEF TypeOK, PInv
<1>2. UNCHANGED rows /\ Gone' = Gone /\ round' = round
  BY DEF Client, Edit, StartOver, Receive, Lose, GiveUp, Send, rows, store, Gone
<1>3. ASSUME NEW q \in Reqs
      PROVE  /\ pc'[q] \in Rewrites <=> pc[q] \in Rewrites
             /\ pc[q] \in Rewrites => req'[q] = req[q]
  <2> USE <1>1 DEF TypeOK, Rewrites
  <2>1. ASSUME NEW c \in Commands, Edit(c) PROVE UNCHANGED <<pc, req>>
    BY <2>1 DEF Edit
  <2>2. StartOver => UNCHANGED <<pc, req>>
    BY DEF StartOver
  <2>3. ASSUME NEW r \in Reqs, Receive(r) \/ Lose(r)
        PROVE  /\ pc' = [pc EXCEPT ![r] = "idle"] /\ pc[r] = "reply"
               /\ req' = [req EXCEPT ![r] = NoRequest]
    BY <2>3 DEF Receive, Lose
  <2>4. ASSUME NEW r \in Reqs, GiveUp(r) PROVE UNCHANGED <<pc, req>>
    BY <2>4 DEF GiveUp
  <2>5. ASSUME NEW r \in Reqs, NEW f \in Filters \cup {Nil}, Send(r, f)
        PROVE  /\ pc' = [pc EXCEPT ![r] = "sent"] /\ pc[r] = "idle"
               /\ \A p \in Reqs \ {r} : req'[p] = req[p]
    BY <2>5 DEF Send
  <2> QED BY <2>1, <2>2, <2>3, <2>4, <2>5 DEF Client
<1>4. UNCHANGED <<Named, Underway>>
  <2>1. row' = row /\ Recorded' = Recorded
    BY <1>2 DEF rows, Recorded
  <2>2. Named' = Named
    BY <1>2, <2>1 DEF Named, Accepted, Rebuilt
  <2>3. Underway' = Underway
    BY <1>2, <1>3, <2>1, UnderwayKept
  <2> QED BY <2>2, <2>3
<1>5. ASSUME device'.key = Zero, device'.held = {}
      PROVE  Promise!StartOver \/ UNCHANGED Promise!vars
  <2>1. device.key = Zero => device.held = {}
    BY <1>1 DEF LineInv, OnDevice
  <2> QED BY <1>2, <1>4, <1>5, <2>1 DEF Promise!StartOver, Promise!vars, Promise!Zero, Zero
<1>6. ASSUME NEW r \in Reqs, Receive(r), reply[r].status = 1
      PROVE  Promise!Take
  <2>1. /\ device.waits = r /\ pc[r] = "reply" /\ device'.key = reply[r].key
        /\ device'.held = (Confirmed(reply[r].ok, reply[r].created) \ reply[r].dels)
                              \cup reply[r].adds
        /\ reply[r].key \in Keys
    BY <1>1, <1>6, Taken
  <2>2. /\ reply[r].key = row.syncKey
        /\ IF device.key = Zero THEN reply[r].key = StartKey
           ELSE generation(reply[r].key) = generation(device.key) + 1
    BY <1>6, <2>1 DEF PInv, AnswerCurrent
  <2>3. Matches(Recorded, device'.held)
    BY <1>1, <1>6, <2>1, <2>2 DEF PInv, SInv, HeldInv, ReplyAgrees, Whole
  <2>4. device'.key \in DOMAIN Named /\ Named[device'.key] = Recorded \ Gone
    BY <1>1, <2>1, <2>2, NamesOfRow DEF Keys, Blank
  <2>5. device'.held \ Gone' = Recorded \ Gone
    BY <1>2, <2>3 DEF Matches
  <2> QED BY <1>4, <2>1, <2>2, <2>4, <2>5
          DEF Promise!Take, Promise!Zero, Promise!StartKey, Zero, StartKey, generation
<1>7. ASSUME NEW r \in Reqs, Receive(r), reply[r].status # 1
      PROVE  Promise!Next \/ UNCHANGED Promise!vars
  <2>1. CASE reply[r].status = 3
    BY <1>1, <1>5, <1>7, <2>1, Taken DEF Promise!Next
  <2>2. CASE reply[r].status \notin {1, 3}
    <3>1. device'.key = device.key /\ device'.held = device.held
      BY <1>1, <1>7, <2>2, Taken
    <3> QED BY <1>2, <1>4, <3>1, Unseen
  <2> QED BY <1>7, <2>1, <2>2
<1>8. CASE StartOver
  BY <1>1, <1>5, <1>8 DEF StartOver, Devices, Promise!Next
<1>9. CASE ~StartOver /\ ~\E r \in Reqs : Receive(r)
  <2>1. device'.key = device.key /\ device'.held = device.held
    <3>1. ASSUME NEW c \in Commands, Edit(c)
          PROVE  device'.key = device.key /\ device'.held = device.held
      BY <1>1, <3>1 DEF Edit, Devices
    <3>2. ASSUME NEW r \in Reqs, Lose(r) \/ GiveUp(r)
          PROVE  device'.key = device.key /\ device'.held = device.held
      BY <1>1, <3>2 DEF Lose, GiveUp, Devices
    <3>3. ASSUME NEW r \in Reqs, NEW f \in Filters \cup {Nil}, Send(r, f)
          PROVE  device'.key = device.key /\ device'.held = device.held
      BY <1>1, <3>3 DEF Send, Devices
    <3> QED BY <1>9, <3>1, <3>2, <3>3 DEF Client
  <2> QED BY <1>2, <1>4, <2>1, Unseen
<1> QED BY <1>6, <1>7, <1>8, <1>9 DEF Promise!Next

\* An item that ceases to exist vanishes from every set that the promise knows.
LEMMA VanishImplements ==
  ASSUME UNCHANGED rows, device'.key = device.key, device'.held = device.held,
         NEW i \in Items, Gone' = Gone \cup {i},
         \A q \in Reqs : /\ pc'[q] \in Rewrites <=> pc[q] \in Rewrites
                         /\ pc[q] \in Rewrites => /\ req'[q].key = req[q].key
                                                  /\ round'[q].base = round[q].base
  PROVE  Promise!Next \/ UNCHANGED Promise!vars
<1>1. row' = row /\ Recorded' = Recorded /\ Rebuilt' = Rebuilt /\ Accepted' = Accepted
  BY DEF rows, Recorded, Rebuilt, Accepted
<1>2. \A S : S \ Gone' = (S \ Gone) \ {i}
  OBVIOUS
<1>3. DOMAIN Named' = DOMAIN Named /\ Named' = [k \in DOMAIN Named |-> Named[k] \ {i}]
  <2>1. DOMAIN Named = Accepted \ {Blank}
    BY DEF Named
  <2>2. \A k \in Accepted \ {Blank} :
           Named[k] = (IF k = row.syncKey THEN Recorded ELSE Rebuilt) \ Gone
    BY DEF Named
  <2>3. Named' = [k \in Accepted \ {Blank} |->
                     (IF k = row.syncKey THEN Recorded ELSE Rebuilt) \ Gone']
    BY <1>1 DEF Named
  <2> QED BY <1>2, <2>1, <2>2, <2>3
<1>4. Underway' = {<<s[1], s[2] \ {i}>> : s \in Underway}
  <2> DEFINE U == {q \in Reqs : pc[q] \in Rewrites /\ row.syncKey = Blank}
  <2>1. {q \in Reqs : pc'[q] \in Rewrites /\ row'.syncKey = Blank} = U
    BY <1>1
  <2>2. \A q \in U : /\ req'[q].key = req[q].key
                     /\ round'[q].base \ Gone' = (round[q].base \ Gone) \ {i}
    BY <1>2
  <2>3. Underway' = {<<req'[r].key, round'[r].base \ Gone'>> : r \in U}
    BY <2>1 DEF Underway, Rewrites
  <2>4. Underway = {<<req[r].key, round[r].base \ Gone>> : r \in U}
    BY DEF Underway, Rewrites
  <2>5. Underway' = {<<req[r].key, (round[r].base \ Gone) \ {i}>> : r \in U}
    BY <2>2, <2>3
  <2> HIDE DEF U
  <2>6. {<<s[1], s[2] \ {i}>> : s \in Underway}
           = {<<req[r].key, (round[r].base \ Gone) \ {i}>> : r \in U}
    <3> DEFINE pair(r) == <<req[r].key, round[r].base \ Gone>>
    <3>1. \A r : pair(r)[1] = req[r].key /\ pair(r)[2] = round[r].base \ Gone
      OBVIOUS
    <3>2. Underway = {pair(r) : r \in U}
      BY <2>4
    <3> HIDE DEF pair
    <3>3. {<<s[1], s[2] \ {i}>> : s \in {pair(r) : r \in U}}
             = {<<pair(r)[1], pair(r)[2] \ {i}>> : r \in U}
      BY Zenon
    <3> QED BY <3>1, <3>2, <3>3
  <2> QED BY <2>5, <2>6
<1>5. device'.held \ Gone' = (device.held \ Gone) \ {i}
  BY <1>2
<1>6. CASE Named' = Named /\ Underway' = Underway
           /\ device'.held \ Gone' = device.held \ Gone
  BY <1>6 DEF Promise!vars
<1>7. CASE ~(Named' = Named /\ Underway' = Underway
             /\ device'.held \ Gone' = device.held \ Gone)
  BY <1>3, <1>4, <1>5, <1>7 DEF Promise!Vanish, Promise!Next
<1> QED BY <1>6, <1>7

\* What others write to the folder the promise sees only where an item vanishes.
LEMMA FolderImplements ==
  ASSUME TypeOK, UNCHANGED rows, device' = device, NEW i \in Items,
         NEW to \in {"in", "moved", "gone"}, folder[i] # "gone",
         folder' = [folder EXCEPT ![i] = to],
         \A q \in Reqs : /\ pc'[q] \in Rewrites <=> pc[q] \in Rewrites
                         /\ pc[q] \in Rewrites => /\ req'[q].key = req[q].key
                                                  /\ round'[q].base = round[q].base
  PROVE  Promise!Next \/ UNCHANGED Promise!vars
<1>1. CASE to = "gone"
  <2>1. Gone' = Gone \cup {i}
    BY <1>1 DEF TypeOK, Gone
  <2> QED BY <2>1, VanishImplements
<1>2. CASE to # "gone"
  <2>1. Gone' = Gone
    BY <1>2 DEF TypeOK, Gone
  <2>2. row'.syncKey = row.syncKey
    BY DEF rows
  <2> QED BY <2>1, <2>2, UnderwayKept, Unseen
<1> QED BY <1>1, <1>2

\* What another writer does to an item, the promise sees at most as its end.
LEMMA OthersImplement ==
  ASSUME TypeOK, NEW i \in Items, NEW to \in {"in", "moved", "gone"}, ItemChanges(i, to)
  PROVE  Promise!Next \/ UNCHANGED Promise!vars
<1>1. UNCHANGED <<rows, device, pc, req, round>> /\ folder' = [folder EXCEPT ![i] = to]
      /\ folder[i] # "gone"
  BY DEF ItemChanges
<1> QED BY <1>1, FolderImplements

\* A round that has written nothing yet goes on from a set that an accepted key names.
LEMMA FromAccepted ==
  ASSUME PInv, NEW r \in Reqs, Before(r)
  PROVE  /\ row.syncKey # Blank /\ req[r].key \in Keys
         /\ req[r].key \in DOMAIN Named /\ Named[req[r].key] = round[r].base \ Gone
<1>1. TypeOK /\ KeysFollow /\ KeyInReach /\ BasedOnStored(r) /\ FreshStart
  BY Parts DEF PInv
<1>2. row = round[r].stored /\ round[r].base = BaseSet(req[r].key, row, Recorded)
  BY DEF PInv, BasedOnRow, Before
<1>3. req[r].key \in Keys /\ pc[r] \in Live
  BY <1>1 DEF KeyInReach, Before, Live, Working, Saving
<1>4. Blank \notin Keys /\ Zero \notin Keys
  BY DEF Keys, Blank, Zero
<1>5. IsCurrent(req[r].key, row) \/ IsRetry(req[r].key, row)
  BY <1>1, <1>2 DEF BasedOnStored, Begun, Before
<1>6. CASE IsCurrent(req[r].key, row)
  <2>1. req[r].key = row.syncKey /\ round[r].base = Recorded
    BY <1>2, <1>6 DEF IsCurrent, BaseSet
  <2> QED BY <1>1, <1>3, <1>4, <2>1, NamesOfRow
<1>7. CASE IsRetry(req[r].key, row)
  <2>1. /\ req[r].key # row.syncKey /\ req[r].key = row.previous.key
        /\ round[r].base = Rebuilt
    BY <1>2, <1>7 DEF IsCurrent, IsRetry, BaseSet, Rebuilt
  <2>2. row.syncKey # Blank
    BY <1>1, <1>3, <1>4, <2>1 DEF KeysFollow
  <2>3. row.syncKey # StartKey
    BY <1>1, <1>3, <1>4, <2>1 DEF FreshStart
  <2> QED BY <1>1, <1>3, <2>1, <2>2, <2>3, NamesOfRow
<1> QED BY <1>5, <1>6, <1>7

\* Up to the enumeration, the promise sees nothing but an item that a Delete ends.
LEMMA BeginsImplement ==
  ASSUME PInv, NEW r \in Reqs,
         \/ Acquire(r) \/ LeaseTimeout(r) \/ ReadRow(r) \/ LoadHeld(r) \/ LoadFails(r)
         \/ Apply(r) \/ Enumerate(r)
  PROVE  Promise!Next \/ UNCHANGED Promise!vars
<1>1. TypeOK
  BY Parts
<1>2. /\ device' = device /\ UNCHANGED rows
      /\ \A q \in Reqs \ {r} : pc'[q] = pc[q] /\ req'[q] = req[q] /\ round'[q] = round[q]
  <2>1. UNCHANGED rows
    BY <1>1, ApplyStep DEF Acquire, LeaseTimeout, ReadRow, LoadHeld, LoadFails, Enumerate, rows
  <2> QED BY <1>1, <2>1, ServedAlone DEF Serve, Fault
<1>3. CASE Enumerate(r)
  <2>1. pc[r] = "enum" /\ Gone' = Gone /\ row' = row
    BY <1>1, <1>2, <1>3, Enumerates DEF store, Gone, rows
  <2>2. row.syncKey # Blank
    BY <2>1, FromAccepted DEF Before
  <2>3. Underway' = {} /\ Underway = {}
    BY <2>1, <2>2 DEF Underway
  <2> QED BY <1>2, <2>1, <2>3, Unseen
<1>4. CASE ~Enumerate(r)
  <2>1. pc[r] \notin Rewrites /\ pc'[r] \notin Rewrites
    BY <1>1, <1>4, ApplyStep
       DEF Acquire, LeaseTimeout, ReadRow, LoadHeld, LoadFails, AnswerWith, TypeOK, Rewrites
  <2>2. \A q \in Reqs : /\ pc'[q] \in Rewrites <=> pc[q] \in Rewrites
                        /\ pc[q] \in Rewrites => /\ req'[q].key = req[q].key
                                                 /\ round'[q].base = round[q].base
    BY <1>2, <2>1
  <2>3. CASE folder' = folder
    <3>1. Gone' = Gone /\ row' = row
      BY <1>2, <2>3 DEF Gone, rows
    <3> QED BY <1>2, <2>2, <3>1, UnderwayKept, Unseen
  <2>4. CASE ApplyAdd(r)
    <3>1. PICK i \in Items : folder[i] = "none" /\ folder' = [folder EXCEPT ![i] = "in"]
      BY <2>4 DEF ApplyAdd
    <3> QED BY <1>1, <1>2, <2>2, <3>1, FolderImplements
  <2>5. CASE ApplyDelete(r)
    <3>1. req[r].command \in Commands /\ req[r].command.kind = "Delete"
      BY <1>1, <2>5 DEF ApplyDelete, TypeOK, Requests
    <3>2. req[r].command.on \in Items
      BY <3>1 DEF Commands, NoCommand
    <3>3. PICK to \in {"moved", "gone"} :
             /\ folder[req[r].command.on] = "in"
             /\ folder' = [folder EXCEPT ![req[r].command.on] = to]
      BY <2>5 DEF ApplyDelete
    <3> QED BY <1>1, <1>2, <2>2, <3>2, <3>3, FolderImplements
  <2>6. CASE ~ApplyAdd(r) /\ ~ApplyDelete(r)
    <3>1. folder' = folder
      BY <1>4, <2>6 DEF Acquire, LeaseTimeout, ReadRow, LoadHeld, LoadFails, Apply, store,
         NothingToApply, ReplayAdd, ApplyChange, DeleteAbsent, RefuseCommand
    <3> QED BY <2>3, <3>1
  <2> QED BY <2>4, <2>5, <2>6
<1> QED BY <1>3, <1>4

\* The keys are withdrawn for the round that is going to be saved.
LEMMA InvalidateImplements ==
  ASSUME Exclusive, PInv, [Next]_vars, NEW r \in Reqs, Invalidate(r)
  PROVE  Promise!Withdraw
<1>1. TypeOK /\ OneHolder
  BY Parts
<1>2. /\ pc[r] = "save" /\ pc'[r] \in Rewrites /\ row'.syncKey = Blank
      /\ row'.previous.key = Blank /\ UNCHANGED <<store, device, req>>
      /\ round'[r].base = round[r].base
  BY <1>1, Invalidates DEF Rewrites
<1>3. Gone' = Gone
  BY <1>2 DEF store, Gone
<1>4. req[r].key \in DOMAIN Named /\ Named[req[r].key] = round[r].base \ Gone
  BY <1>2, FromAccepted DEF Before
<1>5. Named' = Promise!NoNames
  <2>1. Accepted' \ {Blank} = {}
    BY <1>2 DEF Accepted
  <2> QED BY <2>1 DEF Named, Promise!NoNames
<1>6. Underway' = {<<req[r].key, round[r].base \ Gone>>}
  <2>1. \A q \in Reqs : pc'[q] \in Rewrites => q = r
    BY <1>1, <1>2, ServedAlone DEF Serve, Save, OneHolder, Rewrites, Working, Saving
  <2>2. {q \in Reqs : pc'[q] \in Rewrites /\ row'.syncKey = Blank} = {r}
    BY <1>2, <2>1
  <2>3. Underway' = {<<req'[q].key, round'[q].base \ Gone'>> : q \in {r}}
    BY <2>2 DEF Underway, Rewrites
  <2> QED BY <1>2, <1>3, <2>3
<1> QED BY <1>2, <1>3, <1>4, <1>5, <1>6 DEF Promise!Withdraw

\* While chunk rows are written one by one the promise sees nothing.
LEMMA ChunksImplement ==
  ASSUME PInv, NEW r \in Reqs, ClearLeftover(r) \/ WriteChunk(r) \/ ChunksWritten(r)
  PROVE  UNCHANGED Promise!vars
<1>1. TypeOK /\ InCourse(r)
  BY Parts
<1>2. /\ pc[r] \in Rewrites /\ pc'[r] \in Rewrites /\ UNCHANGED <<row, device, req, store>>
      /\ round'[r].base = round[r].base
      /\ \A q \in Reqs \ {r} : pc'[q] = pc[q] /\ round'[q] = round[q]
  <2>1. CASE WriteChunk(r)
    BY <1>1, <2>1, WritesChunk, ServedAlone DEF Serve, Save, Rewrites
  <2>2. CASE ClearLeftover(r) \/ ChunksWritten(r)
    BY <1>1, <2>2 DEF ClearLeftover, ChunksWritten, TypeOK, Rewrites, rows
  <2> QED BY <2>1, <2>2
<1>3. row.syncKey = Blank /\ row.previous.key = Blank
  <2>1. pc[r] \in {"clear", "chunk"}
    BY <1>1, WritesChunk DEF ClearLeftover, ChunksWritten
  <2> QED BY <1>1, <2>1 DEF InCourse, Withdrawn, Rewriting
<1>4. Named = Promise!NoNames /\ Named' = Promise!NoNames
  <2>1. Accepted \ {Blank} = {} /\ Accepted' \ {Blank} = {}
    BY <1>2, <1>3 DEF Accepted
  <2> QED BY <2>1 DEF Named, Promise!NoNames
<1>5. Gone' = Gone
  BY <1>2 DEF Gone, store
<1>6. Underway' = Underway
  BY <1>2, <1>5, UnderwayKept
<1> QED BY <1>2, <1>4, <1>5, <1>6 DEF Promise!vars

\* The row of a round is written: its key and the one it was issued for are accepted.
LEMMA FinalImplements ==
  ASSUME Exclusive, PInv, [Next]_vars, NEW r \in Reqs, FinalWrite(r)
  PROVE  Promise!Next \/ UNCHANGED Promise!vars
<1>1. TypeOK /\ OneHolder /\ KeyInReach /\ LineInv /\ InCourse(r) /\ cleanup = "none"
  BY Parts
<1> DEFINE k == req[r].key
           n == round[r].key
<1>2. /\ pc[r] = "final" /\ row'.syncKey = n /\ row'.previous.key = k
      /\ UNCHANGED <<device, store, req>> /\ Rebuilt' = round[r].base
  BY <1>1, SaveRecords DEF Whole
<1>3. k \in Keys /\ n \in Keys /\ generation(n) = generation(k) + 1
  BY <1>1, <1>2 DEF KeyInReach, InCourse, Course, Working, Saving
<1>4. Gone' = Gone
  BY <1>2 DEF Gone, store
<1>5. DOMAIN Named' = {k, n} /\ Named'[k] = round[r].base \ Gone
  <2>1. k # n /\ Blank \notin {k, n}
    BY <1>3 DEF Keys, Blank, generation
  <2>2. Accepted' = {n, k}
    BY <1>2, <1>3 DEF Accepted
  <2>3. Named' = [x \in {n, k} |-> (IF x = n THEN Recorded' ELSE Rebuilt') \ Gone']
    BY <1>2, <2>1, <2>2 DEF Named
  <2> QED BY <1>2, <1>4, <2>1, <2>3
<1>6. device.key[1] <= k[1]
  <2>1. device.key = Zero \/ k = device.key
    BY <1>1, <1>2 DEF LineInv, Asked, Live, Working, Saving
  <2>2. k[1] \in Nat
    BY <1>3 DEF Keys
  <2> QED BY <2>1, <2>2 DEF Zero
<1>7. Underway' = {}
  BY <1>2, <1>3 DEF Underway, Keys, Blank
<1>8. n \in Promise!Keys /\ n[1] = k[1] + 1
  BY <1>3, SyncAssumption DEF Keys, Promise!Keys, generation
<1> HIDE DEF k, n
<1>9. CASE row.syncKey = Blank
  <2>1. Underway = {<<k, round[r].base \ Gone>>}
    BY <1>1, <1>2, <1>9, OneUnderway DEF k, Rewrites, Working, Saving
  <2>2. Promise!IsRound(k, round[r].base \ Gone)
    BY <1>5, <1>6, <1>8 DEF Promise!IsRound
  <2> QED BY <1>2, <1>4, <1>7, <2>1, <2>2 DEF Promise!Publish, Promise!Next
<1>10. CASE row.syncKey # Blank
  <2>1. Before(r)
    BY <1>1, <1>2, <1>10 DEF InCourse, Withdrawn, Rewriting, Before
  <2>2. k \in DOMAIN Named /\ Named[k] = round[r].base \ Gone
    BY <2>1, FromAccepted DEF k
  <2>3. Promise!IsRound(k, Named[k])
    BY <1>5, <1>6, <1>8, <2>2 DEF Promise!IsRound
  <2>4. Underway = {}
    BY <1>10, NothingUnderway
  <2> QED BY <1>2, <1>4, <1>7, <2>2, <2>3, <2>4
          DEF Promise!Advance, Promise!Next, Promise!vars
<1> QED BY <1>9, <1>10

\* A device without a key gets the row that it asks for.
LEMMA RestartImplements ==
  ASSUME Exclusive, PInv, [Next]_vars, NEW r \in Reqs, Truncate(r) \/ RestartWrite(r)
  PROVE  Promise!Reset
<1>1. TypeOK /\ OneHolder /\ KeyInReach /\ LineInv /\ InCourse(r)
  BY Parts
<1>2. pc[r] \in {"truncate", "restart"} /\ UNCHANGED <<device, store>>
  BY DEF Truncate, RestartWrite
<1>3. device.key = Zero
  BY <1>1, <1>2, RestartUnkeyed
<1>4. Gone' = Gone
  BY <1>2 DEF Gone, store
<1>5. \A q \in Reqs : pc[q] \notin Rewrites /\ pc'[q] \notin Rewrites
  <2>1. \A q \in Reqs \ {r} : pc'[q] = pc[q] /\ pc[q] \notin Working
    BY <1>1, <1>2, ServedAlone DEF Serve, Save, OneHolder, Working, Saving
  <2>2. pc'[r] \in {"restart", "reply"}
    BY <1>1 DEF Truncate, RestartWrite, AnswerWith, TypeOK
  <2> QED BY <1>2, <2>1, <2>2 DEF Rewrites, Working, Saving
<1>6. Underway = {} /\ Underway' = {}
  BY <1>5 DEF Underway, Rewrites
<1>7. DOMAIN Named' \subseteq Promise!Keys
  <2>1. row'.syncKey \in Keys \cup {Blank} /\ row'.previous.key \in Keys \cup {Blank}
    BY <1>1, NextKeepsTypes DEF TypeOK, States, Rounds
  <2>2. DOMAIN Named' \subseteq {row'.syncKey, row'.previous.key} \ {Blank}
    BY DEF Named, Accepted
  <2> QED BY <2>1, <2>2, SyncAssumption DEF Keys, Promise!Keys
<1> QED BY <1>2, <1>3, <1>4, <1>6, <1>7 DEF Promise!Reset, Promise!Zero, Zero

\* A save that fails, or whose process dies, is abandoned.
LEMMA FailureImplements ==
  ASSUME Exclusive, PInv, NEW r \in Reqs, WriteFails(r) \/ Die(r)
  PROVE  Promise!Next \/ UNCHANGED Promise!vars
<1>1. TypeOK /\ OneHolder
  BY Parts
<1>2. /\ UNCHANGED <<store, rows, device>> /\ pc'[r] \notin Rewrites
      /\ \A q \in Reqs \ {r} : pc'[q] = pc[q] /\ req'[q] = req[q] /\ round'[q] = round[q]
  BY <1>1, ServedAlone DEF Fault, WriteFails, Die, SaveFailed, AnswerWith, TypeOK, Rewrites
<1>3. Gone' = Gone /\ row' = row /\ Recorded' = Recorded
  BY <1>2 DEF Gone, store, rows, Recorded
<1>4. Named' = Named
  BY <1>3 DEF Named, Accepted, Rebuilt
<1>5. CASE pc[r] \in Rewrites /\ row.syncKey = Blank
  <2>1. \A q \in Reqs : pc'[q] \notin Rewrites
    BY <1>1, <1>2, <1>5 DEF OneHolder, Rewrites, Working, Saving
  <2>2. Underway' = {}
    BY <2>1 DEF Underway, Rewrites
  <2>3. Underway # {}
    BY <1>1, <1>5, OneUnderway DEF Rewrites, Working, Saving
  <2> QED BY <1>2, <1>3, <1>4, <2>2, <2>3 DEF Promise!Abandon, Promise!Next
<1>6. CASE row.syncKey # Blank
  BY <1>2, <1>3, <1>6, Unseen DEF Underway
<1>7. CASE pc[r] \notin Rewrites
  BY <1>2, <1>3, <1>7, UnderwayKept, Unseen
<1> QED BY <1>5, <1>6, <1>7

\* Every step is a step of the promise, or one that it does not see.
LEMMA StepImplements ==
  ASSUME Exclusive, InOrder, ~CleansUp, PInv, [Next]_vars
  PROVE  Promise!Next \/ UNCHANGED Promise!vars
<1>1. TypeOK /\ ~CleanUp
  BY Parts, NoCleanUp
<1>2. ASSUME NEW r \in Reqs, Serve(r) \/ Fault(r)
      PROVE  Promise!Next \/ UNCHANGED Promise!vars
  <2>1. ~SaveLosesRace(r)
    BY <1>1, Parts, NoRaceLost
  <2>2. CASE Invalidate(r)
    BY <2>2, InvalidateImplements DEF Promise!Next
  <2>3. CASE Truncate(r) \/ RestartWrite(r)
    BY <2>3, RestartImplements DEF Promise!Next
  <2> QED BY <1>2, <2>1, <2>2, <2>3, BeginsImplement, ChunksImplement, FinalImplements,
             FailureImplements DEF Serve, Save, Fault
<1>3. CASE UNCHANGED vars
  BY <1>3 DEF vars, Promise!vars, Named, Accepted, Recorded, Rebuilt, Underway, Gone
<1> QED BY <1>1, <1>2, <1>3, ClientImplements, OthersImplement DEF Next

\* A device without a key starts where the promise does.
LEMMA InitImplements ==
  ASSUME Init
  PROVE  Promise!Init
<1>1. /\ device.key = Zero /\ device.held = {} /\ row = NoState
      /\ \A r \in Reqs : pc[r] = "idle"
  BY DEF Init
<1>2. Accepted \ {Blank} = {}
  BY <1>1 DEF Accepted, NoState, NoRound, generation, Blank
<1>3. Named = Promise!NoNames
  BY <1>2 DEF Named, Promise!NoNames
<1>4. Underway = {}
  BY <1>1 DEF Underway
<1> QED BY <1>1, <1>3, <1>4 DEF Promise!Init, Promise!Zero, Zero

\* Under one lease, granted in order, and as long as the clean-up leaves the device
\* alone, the Sync command keeps the promise (SyncPromise), step by step.
THEOREM PromiseKept ==
  ASSUME Exclusive, InOrder, ~CleansUp
  PROVE  Spec => Implements
<1>1. Init => PInv /\ Promise!Init
  BY InitPInv, InitImplements
<1>2. PInv /\ [Next]_vars => PInv'
  BY PInductive
<1>3. PInv /\ [Next]_vars => [Promise!Next]_(Promise!vars)
  BY StepImplements
<1> QED BY <1>1, <1>2, <1>3, PTL DEF Spec, Implements, Promise!Spec

-----------------------------------------------------------------------------
(* What the promise is worth: of SyncPromise as SyncCommand implements it.  *)

PromisedHeld == device.held \ Gone

\* What is accepted are keys, and while a round is being saved none is.
PromiseApart ==
    /\ device.key \in Promise!Keys \cup {Promise!Zero}
    /\ DOMAIN Named \subseteq Promise!Keys
    /\ \A s \in Underway : s[1] \in Promise!Keys
    /\ Underway # {} => DOMAIN Named = {}
    /\ device.key = Promise!Zero => PromisedHeld = {}

KeptPromise == PromiseApart /\ Promise!KeyNamesHeld

LEMMA PromiseInitially == Promise!Init => KeptPromise
BY DEF Promise!Init, KeptPromise, PromiseApart, Promise!KeyNamesHeld, Promise!NoNames, PromisedHeld

\* A device's key is never younger than the round it may be named by anew.
LEMMA PromiseRound ==
  ASSUME NEW k \in Promise!Keys, NEW from, KeptPromise, Promise!IsRound(k, from),
         k = device.key => from = PromisedHeld,
         device.key' = device.key, PromisedHeld' = PromisedHeld, Underway' = {}
  PROVE  KeptPromise'
<1>1. PICK n \in DOMAIN Named' :
          /\ device.key[1] <= k[1]
          /\ n \in Promise!Keys
          /\ n[1] = k[1] + 1
          /\ DOMAIN Named' = {k, n}
          /\ Named'[k] = from
  BY DEF Promise!IsRound
<1>2. k[1] \in Nat /\ device.key[1] \in Nat
  BY DEF Promise!Keys, Promise!Zero, KeptPromise, PromiseApart
<1>3. device.key # n
  BY <1>1, <1>2
<1>4. PromiseApart'
  BY <1>1 DEF KeptPromise, PromiseApart
<1>5. device'.key \in DOMAIN Named' => Named'[device'.key] = PromisedHeld'
  BY <1>1, <1>3
<1> QED BY <1>4, <1>5 DEF KeptPromise, Promise!KeyNamesHeld, PromisedHeld

LEMMA PromiseNext ==
  ASSUME KeptPromise, Promise!Next \/ UNCHANGED Promise!vars
  PROVE  KeptPromise'
<1> USE DEF KeptPromise, PromiseApart, Promise!KeyNamesHeld, PromisedHeld
<1>1. CASE Promise!Advance
  <2>1. PICK k \in DOMAIN Named : Promise!IsRound(k, Named[k])
    BY <1>1 DEF Promise!Advance
  <2>2. Underway = {} /\ Underway' = {} /\ device.key' = device.key
        /\ PromisedHeld' = PromisedHeld
    BY <1>1, <2>1 DEF Promise!Advance
  <2> QED BY <2>1, <2>2, PromiseRound
<1>2. CASE Promise!Withdraw
  BY <1>2 DEF Promise!Withdraw, Promise!NoNames
<1>3. CASE Promise!Publish
  <2>1. PICK s \in Underway : Promise!IsRound(s[1], s[2])
    BY <1>3 DEF Promise!Publish
  <2> QED BY <1>3, <2>1, PromiseRound DEF Promise!Publish
<1>4. CASE Promise!Abandon
  BY <1>4 DEF Promise!Abandon
<1>5. CASE Promise!Reset
  BY <1>5 DEF Promise!Reset, Promise!Zero, Promise!Keys
<1>6. CASE Promise!Take
  BY <1>6 DEF Promise!Take, Promise!Zero, Promise!Keys
<1>7. CASE Promise!StartOver
  BY <1>7 DEF Promise!StartOver, Promise!Zero, Promise!Keys
<1>8. CASE Promise!Vanish
  BY <1>8 DEF Promise!Vanish
<1>9. CASE UNCHANGED Promise!vars
  BY <1>9 DEF Promise!vars
<1> QED BY <1>1, <1>2, <1>3, <1>4, <1>5, <1>6, <1>7, <1>8, <1>9 DEF Promise!Next

\* Whatever is lost, retried or abandoned (SyncCommand.ts:350-450): a key that the
\* promise accepts names exactly what the device that has it holds.
THEOREM KeyDenotesHeld == Promise!Spec => []Promise!KeyNamesHeld
<1>1. KeptPromise /\ [Promise!Next]_(Promise!vars) => KeptPromise'
  BY PromiseNext
<1>2. KeptPromise => Promise!KeyNamesHeld
  BY DEF KeptPromise
<1> QED BY PromiseInitially, <1>1, <1>2, PTL DEF Promise!Spec

\* So it is of the Sync command itself: with one lease, requests in order and no
\* clean-up, as long as the row has the device's key, or comes to have it again when
\* the round at work is saved, that key denotes the items that the device has.
THEOREM RowKeyDenotesHeld ==
  ASSUME Exclusive, InOrder, ~CleansUp
  PROVE  Spec => []Promise!KeyNamesHeld
BY PromiseKept, KeyDenotesHeld, PTL DEF Implements

-----------------------------------------------------------------------------
(* The FilterType that a round adopts.                                     *)

FewItems == Cardinality(Items) <= InlineHeldLimit

\* The held set is always in the row: no round ever has chunk rows to write.
InRow ==
    /\ ~row.chunked
    /\ \A r \in Reqs : ~round[r].stored.chunked /\ pc[r] \notin {"save", "clear", "chunk"}

\* What the chunk rows have when the row is written is of the set that is saved.
Written(r) == pc[r] = "final" /\ OutOfRow(r) => Union(chunks) \subseteq round[r].serverIds

\* Nobody meddles with the set that a round is saving.
Apart == (FewItems /\ InRow) \/ (ChunkInv /\ \A r \in Reqs : Written(r))

\* A first key names the empty set: as the row's, and as the one of its previous round.
FreshEmpty ==
    /\ generation(row.syncKey) = 1 => row.serverIds = {} /\ ~row.chunked
    /\ generation(row.previous.key) = 1 =>
          row.previous.removed = {} /\ Recorded \subseteq row.previous.added

\* A round whose copy of the row is good goes on with the row's filter, or adopts one
\* for the empty set.
Adopts(r) ==
    /\ pc[r] \in Begun /\ RowMark \notin stale[r] =>
          /\ row.filter = round[r].stored.filter
          /\ generation(req[r].key) = 1 => round[r].base = {}
          /\ round[r].filter # round[r].stored.filter =>
                round[r].stored.filter = Nil /\ round[r].base = {}
    /\ pc[r] \in {"save", "clear", "chunk", "final"} =>
          generation(round[r].key) = generation(req[r].key) + 1

FilterInv == RInv /\ Apart /\ FreshEmpty /\ \A r \in Reqs : Adopts(r)

\* The row has room for any set then.
LEMMA RoomForAll ==
  ASSUME FewItems, NEW ids \in SUBSET Items
  PROVE  StaysInline(FALSE, ids)
<1>1. Cardinality(ids) <= Cardinality(Items) /\ Cardinality(ids) \in Nat
      /\ Cardinality(Items) \in Nat
  BY StoreAssumption, FS_Subset, FS_CardinalityType
<1> QED BY <1>1, StoreAssumption DEF FewItems, StaysInline

\* If the row has room for every item there are, no chunk row is ever written.
LEMMA InRowInductive ==
  ASSUME FewItems, TypeOK, InRow, [Next]_vars
  PROVE  InRow'
<1>1. \A ids \in SUBSET Items : StaysInline(FALSE, ids)
  BY RoomForAll
<1>2. ASSUME NEW r \in Reqs, Serve(r) \/ Fault(r)
      PROVE  /\ row' = row \/ ~row'.chunked
             /\ ~round'[r].stored.chunked /\ pc'[r] \notin {"save", "clear", "chunk"}
  <2>1. round[r] \in Works /\ ~round[r].stored.chunked /\ ~row.chunked
        /\ pc[r] \notin {"save", "clear", "chunk"}
    BY DEF TypeOK, InRow
  <2>2. ~NoWork.stored.chunked
    BY DEF NoWork, NoState
  <2>3. CASE ReadRow(r)
    BY <2>1, <2>3 DEF ReadRow, TypeOK, Works, rows
  <2>4. CASE LoadHeld(r)
    <3>1. CASE pc'[r] # "reply"
      BY <2>1, <2>4, <3>1, Loads DEF rows
    <3>2. CASE pc'[r] = "reply"
      <4>1. row' = row /\ round'[r] = NoWork
        BY <2>4, <3>2 DEF LoadHeld, AnswerWith, TypeOK, rows
      <4> QED BY <2>2, <3>2, <4>1
    <3> QED BY <3>1, <3>2
  <2>5. CASE Apply(r)
    <3>1. PICK ids, ok, clientIds : Applied(r, ids, ok, clientIds)
      BY <2>5 DEF Apply, NothingToApply, ReplayAdd, ApplyAdd, ApplyChange, ApplyDelete,
                  DeleteAbsent, RefuseCommand
    <3> QED BY <2>1, <3>1, Applies DEF rows
  <2>6. CASE Enumerate(r)
    <3>1. round'[r].serverIds \in SUBSET Items
      BY <2>1, <2>6, Enumerates DEF Works, InFolder
    <3>2. round'[r].stored = round[r].stored /\ UNCHANGED rows
          /\ pc'[r] = IF OutOfRow(r)' THEN "save" ELSE "final"
      BY <2>6, Enumerates
    <3>3. round[r].stored.chunked \in BOOLEAN
      BY <2>1 DEF Works, States
    <3> QED BY <1>1, <2>1, <3>1, <3>2, <3>3 DEF OutOfRow, rows
  <2>7. CASE FinalWrite(r)
    <3>1. round[r].stored.chunked \in BOOLEAN /\ round[r].serverIds \in SUBSET Items
      BY <2>1 DEF Works, States
    <3>2. row' = SavedRow(r) /\ pc'[r] = "reply" /\ round'[r] = NoWork
      BY <2>7 DEF FinalWrite, AnswerWith, TypeOK
    <3>3. ~row'.chunked
      BY <1>1, <2>1, <3>1, <3>2 DEF SavedRow
    <3> QED BY <2>2, <3>2, <3>3
  <2>8. CASE RestartWrite(r)
    <3>1. ~row'.chunked /\ pc'[r] = "reply" /\ round'[r] = NoWork
      BY <2>8 DEF RestartWrite, AnswerWith, TypeOK
    <3> QED BY <2>2, <3>1
  <2>9. CASE Acquire(r) \/ Truncate(r)
    BY <2>1, <2>9 DEF Acquire, Truncate, TypeOK, rows
  <2>10. CASE LeaseTimeout(r) \/ SaveLosesRace(r) \/ Fault(r)
    <3>1. row' = row /\ pc'[r] \in {"reply", "idle"} /\ round'[r] = NoWork
      BY <2>10 DEF LeaseTimeout, SaveLosesRace, Fault, LoadFails, WriteFails, Die, SaveFailed,
                   AnswerWith, TypeOK, rows
    <3> QED BY <2>2, <3>1
  <2>11. ~Invalidate(r) /\ ~ClearLeftover(r) /\ ~WriteChunk(r) /\ ~ChunksWritten(r)
    BY <2>1 DEF Invalidate, ClearLeftover, WriteChunk, ChunksWritten
  <2> QED BY <1>2, <2>3, <2>4, <2>5, <2>6, <2>7, <2>8, <2>9, <2>10, <2>11 DEF Serve, Save
<1>3. ASSUME NEW r \in Reqs, Serve(r) \/ Fault(r) PROVE InRow'
  <2>1. \A q \in Reqs \ {r} : pc'[q] = pc[q] /\ round'[q] = round[q]
    BY <1>3, ServedAlone
  <2> QED BY <1>2, <1>3, <2>1 DEF InRow
<1>4. CASE CleanUp
  BY <1>4, CleanUpStep DEF InRow, CleanUp, CleanUpChunks, CleanUpRow, CleanUpStops, NoState, rows
<1>5. CASE Client
  <2>1. ASSUME NEW q \in Reqs, pc'[q] \in {"save", "clear", "chunk"} PROVE pc'[q] = pc[q]
    <3>1. ~\E f \in Filters \cup {Nil} : Send(q, f)
      BY <2>1 DEF TypeOK, Send
    <3> QED BY <1>5, <2>1, <3>1, LeftAlone DEF Live, Working, Saving
  <2> QED BY <1>5, <2>1, RowUntouched DEF InRow, rows
<1>6. CASE UNCHANGED vars \/ \E i \in Items, to \in {"in", "moved", "gone"} : ItemChanges(i, to)
  BY <1>6, NobodyServed, RowUntouched DEF InRow, rows
<1> QED BY <1>3, <1>4, <1>5, <1>6 DEF Next

\* Under one lease, a round that has written its chunk rows has written no other ids.
LEMMA WrittenInductive ==
  ASSUME Exclusive, RInv, ChunkInv, \A r \in Reqs : Written(r), [Next]_vars
  PROVE  \A r \in Reqs : Written(r)'
<1> SUFFICES ASSUME NEW r \in Reqs, pc'[r] = "final", OutOfRow(r)'
             PROVE  Union(chunks') \subseteq round'[r].serverIds
  BY DEF Written
<1>1. TypeOK /\ OneHolder /\ InCourse(r)
  BY DEF RInv, IInv, ChunkInv
<1>2. "final" \in Working /\ "final" \in Live
  BY DEF Working, Saving, Live
<1>3. CASE CleanUp
  <2>1. UNCHANGED <<pc, round>> /\ (chunks' = chunks \/ chunks' = NoChunks)
    BY <1>3, CleanUpStep DEF CleanUp, CleanUpChunks, CleanUpRow, CleanUpStops, rows
  <2>2. Union(NoChunks) = {}
    BY DEF Union, NoChunks
  <2> QED BY <2>1, <2>2 DEF Written, OutOfRow
<1>4. CASE \/ UNCHANGED vars \/ Client
           \/ \E i \in Items, to \in {"in", "moved", "gone"} : ItemChanges(i, to)
  <2>1. UNCHANGED <<rows, round>>
    BY <1>4, RowUntouched
  <2>2. pc[r] = "final"
    <3>1. CASE Client
      <4>1. ~\E f \in Filters \cup {Nil} : Send(r, f)
        BY <1>1 DEF Send, TypeOK
      <4> QED BY <1>1, <1>2, <3>1, <4>1, LeftAlone
    <3> QED BY <1>4, <3>1, NobodyServed
  <2> QED BY <2>1, <2>2 DEF Written, OutOfRow, rows
<1>5. ASSUME NEW q \in Reqs, q # r, Serve(q) \/ Fault(q)
      PROVE  Union(chunks') \subseteq round'[r].serverIds
  <2>1. pc'[r] = pc[r]
    BY <1>1, <1>5, ServedAlone
  <2>2. UNCHANGED rows /\ round'[r] = round[r]
    BY <1>1, <1>2, <1>5, <2>1, WorksAlone
  <2> QED BY <2>1, <2>2 DEF Written, OutOfRow, rows
<1>6. CASE ChunksWritten(r)
  <2>1. /\ pc[r] = "chunk" /\ Changed(round[r].loaded, round[r].plan) = {}
        /\ UNCHANGED <<chunks, round>>
    BY <1>6 DEF ChunksWritten, rows
  <2>2. \A i \in ChunkIndex : chunks[i] \subseteq round[r].plan[i]
    BY <1>1, <2>1 DEF InCourse, ChunksLoaded, InHand, Changed
  <2>3. Union(round[r].plan) = round[r].serverIds
    BY <1>1, <2>1 DEF InCourse, ChunksComplete
  <2> QED BY <2>1, <2>2, <2>3 DEF Union
<1>7. CASE Enumerate(r)
  BY <1>1, <1>7, Enumerates
<1>8. ASSUME Serve(r) \/ Fault(r), ~ChunksWritten(r), ~Enumerate(r) PROVE FALSE
  <2>1. CASE Apply(r) \/ LoadHeld(r)
    <3>1. LoadHeld(r) => pc'[r] \in {"reply", "apply"}
      BY <1>1, Loads
    <3> QED BY <1>1, <2>1, <3>1, ApplyStep DEF TypeOK
  <2>2. CASE Invalidate(r) \/ WriteChunk(r)
    BY <1>1, <2>2, Invalidates, WritesChunk
  <2>3. CASE \/ Acquire(r) \/ LeaseTimeout(r) \/ ReadRow(r) \/ ClearLeftover(r) \/ FinalWrite(r)
             \/ Truncate(r) \/ RestartWrite(r) \/ SaveLosesRace(r) \/ Fault(r)
    BY <1>1, <2>3 DEF Acquire, LeaseTimeout, ReadRow, ClearLeftover, FinalWrite, Truncate,
                      RestartWrite, SaveLosesRace, Fault, LoadFails, WriteFails, Die,
                      SaveFailed, AnswerWith, TypeOK
  <2> QED BY <1>8, <2>1, <2>2, <2>3 DEF Serve, Save
<1> QED BY <1>3, <1>4, <1>5, <1>6, <1>7, <1>8 DEF Next

\* Chunk rows are written while the row matches no key.
LEMMA ChunkStepUnkeyed ==
  ASSUME Apart, NEW r \in Reqs, WriteChunk(r)
  PROVE  row.syncKey = Blank /\ row.previous.key = Blank
<1>1. pc[r] = "chunk"
  BY DEF WriteChunk
<1> QED BY <1>1 DEF Apart, InRow, ChunkInv, InCourse, Withdrawn, Rewriting

\* What the row records after a save is of the set that is saved.
LEMMA SavesIds ==
  ASSUME TypeOK, Apart, NEW r \in Reqs, FinalWrite(r)
  PROVE  /\ Recorded' \subseteq round[r].serverIds
         /\ row'.previous.key = req[r].key /\ row'.syncKey = round[r].key
         /\ row'.filter = round[r].filter
         /\ row'.previous.added = round[r].serverIds \ round[r].base
         /\ row'.previous.removed = round[r].base \ round[r].serverIds
<1>1. pc[r] = "final" /\ row' = SavedRow(r) /\ chunks' = chunks
  BY DEF FinalWrite
<1>2. CASE StaysInline(round[r].stored.chunked, round[r].serverIds)
  BY <1>1, <1>2 DEF SavedRow, Recorded, LoadHeldSet
<1>3. CASE ~StaysInline(round[r].stored.chunked, round[r].serverIds)
  <2>1. Union(chunks) \subseteq round[r].serverIds
    <3>1. ~(FewItems /\ InRow)
      <4>1. round[r].stored.chunked \in BOOLEAN /\ round[r].serverIds \in SUBSET Items
        BY DEF TypeOK, Works, States
      <4> QED BY <1>3, <4>1, RoomForAll DEF InRow
    <3>2. CASE \A q \in Reqs : Written(q)
      BY <1>1, <1>3, <3>2 DEF Written, OutOfRow
    <3> QED BY <3>1, <3>2 DEF Apart
  <2> QED BY <1>1, <1>3, <2>1 DEF SavedRow, Recorded, LoadHeldSet, Union
<1> QED BY <1>1, <1>2, <1>3 DEF SavedRow

\* What is in the chunk rows only shrinks while the row has a key.
LEMMA RecordedShrinks ==
  ASSUME TypeOK, Apart, [Next]_vars, row' = row, row.previous.key # Blank
  PROVE  Recorded' \subseteq Recorded
<1>1. chunks' = chunks \/ chunks' = NoChunks
  <2>1. ASSUME NEW r \in Reqs, Serve(r) \/ Fault(r) PROVE chunks' = chunks \/ chunks' = NoChunks
    <3>1. ~WriteChunk(r)
      BY ChunkStepUnkeyed
    <3> QED BY <2>1, <3>1, RowsWritten DEF Invalidate, ClearLeftover, FinalWrite, Truncate,
                                           RestartWrite
  <2>2. CASE CleanUp
    BY <2>2 DEF CleanUp, CleanUpChunks, CleanUpRow, CleanUpStops, rows
  <2>3. CASE \/ UNCHANGED vars \/ Client
             \/ \E i \in Items, to \in {"in", "moved", "gone"} : ItemChanges(i, to)
    BY <2>3, RowUntouched DEF rows
  <2> QED BY <2>1, <2>2, <2>3 DEF Next
<1> QED BY <1>1 DEF Recorded, LoadHeldSet, NoChunks

\* A first key goes on naming the empty set.
LEMMA FreshInductive ==
  ASSUME FilterInv, [Next]_vars
  PROVE  FreshEmpty'
<1>1. TypeOK /\ KeyInReach /\ Apart
  BY DEF FilterInv, RInv, IInv
<1>2. generation(Blank) # 1
  BY DEF generation, Blank
<1>3. CASE row' = row
  <2>1. CASE row.previous.key = Blank
    BY <1>2, <1>3, <2>1 DEF FilterInv, FreshEmpty
  <2>2. CASE row.previous.key # Blank
    BY <1>1, <1>3, <2>2, RecordedShrinks DEF FilterInv, FreshEmpty
  <2> QED BY <2>1, <2>2
<1>4. CASE row' # row
  <2>1. CASE CleanUp
    <3>1. row' = NoState
      BY <1>4, <2>1 DEF CleanUp, CleanUpChunks, CleanUpRow, CleanUpStops, rows
    <3> QED BY <1>2, <3>1 DEF FreshEmpty, NoState, NoRound
  <2>2. ASSUME NEW r \in Reqs, Invalidate(r) PROVE FreshEmpty'
    BY <1>1, <1>2, <2>2, Invalidates DEF FreshEmpty
  <2>3. ASSUME NEW r \in Reqs, RestartWrite(r) PROVE FreshEmpty'
    <3>1. /\ row'.serverIds = {} /\ ~row'.chunked
          /\ row'.previous \in {row.previous, NoRound}
      BY <2>3 DEF RestartWrite
    <3>2. Recorded' = {}
      BY <3>1 DEF Recorded, LoadHeldSet
    <3> QED BY <1>2, <3>1, <3>2 DEF FilterInv, FreshEmpty, NoRound
  <2>4. ASSUME NEW r \in Reqs, FinalWrite(r) PROVE FreshEmpty'
    <3>1. /\ pc[r] = "final" /\ RowMark \notin stale[r]
          /\ generation(round[r].key) = generation(req[r].key) + 1
          /\ generation(req[r].key) = 1 => round[r].base = {}
      BY <2>4 DEF FinalWrite, FilterInv, Adopts, Begun
    <3>2. generation(req[r].key) \in Nat \ {0}
      BY <1>1, <3>1, SyncAssumption DEF KeyInReach, Working, Saving, Keys, generation
    <3> QED BY <1>1, <2>4, <3>1, <3>2, SavesIds DEF FreshEmpty
  <2> QED BY <1>1, <1>4, <2>1, <2>2, <2>3, <2>4, RowSteps
<1> QED BY <1>3, <1>4

\* A request that is served keeps to the filter that it has adopted.
LEMMA AdoptsServed ==
  ASSUME FilterInv, NEW r \in Reqs, Serve(r) \/ Fault(r)
  PROVE  Adopts(r)'
<1>1. TypeOK /\ KeyInReach /\ RowAsRead(r) /\ Adopts(r) /\ FreshEmpty
  BY DEF FilterInv, RInv, IInv
<1> USE DEF Begun
<1>2. CASE LoadHeld(r) /\ pc'[r] # "reply"
  <2> DEFINE key == req[r].key
             stored == round[r].stored
  <2>1. /\ pc[r] = "read" /\ pc'[r] = "apply" /\ UNCHANGED <<rows, req, stale>>
        /\ IsCurrent(key, stored) \/ IsRetry(key, stored)
        /\ round'[r].stored = stored
        /\ round'[r].base = BaseSet(key, stored,
               LoadHeldSet(stored.chunked, stored.serverIds, chunks))
        /\ round'[r].filter = IF req[r].filter = Nil THEN stored.filter ELSE req[r].filter
        /\ ~FilterRefused(req[r].filter, stored, key, round'[r].base)
    BY <1>1, <1>2, Loads
  <2>2. generation(key) \in Nat \ {0}
    BY <1>1, <2>1, SyncAssumption DEF KeyInReach, Working, Saving, Keys, generation
  <2>3. ASSUME RowMark \notin stale[r]
        PROVE  /\ row = stored
               /\ generation(key) = 1 => round'[r].base = {}
    <3>1. row = stored
      BY <1>1, <2>1, <2>3 DEF RowAsRead, Unsaved
    <3>2. LoadHeldSet(stored.chunked, stored.serverIds, chunks) = Recorded
      BY <3>1 DEF Recorded
    <3>3. ASSUME generation(key) = 1 PROVE BaseSet(key, row, Recorded) = {}
      <4>1. CASE IsCurrent(key, row)
        BY <1>1, <3>3, <4>1 DEF IsCurrent, BaseSet, FreshEmpty, Recorded, LoadHeldSet
      <4>2. CASE ~IsCurrent(key, row) /\ IsRetry(key, row)
        BY <1>1, <3>3, <4>2 DEF IsRetry, BaseSet, FreshEmpty
      <4> QED BY <2>1, <3>1, <4>1, <4>2
    <3> QED BY <2>1, <3>1, <3>2, <3>3
  <2>4. row' = row /\ req' = req /\ stale' = stale
    BY <2>1 DEF rows
  <2>5. round'[r].filter # stored.filter /\ ~(generation(key) = 1) =>
            stored.filter = Nil /\ round'[r].base = {}
    BY <2>1, <2>2 DEF FilterRefused
  <2>6. round'[r].filter # stored.filter => stored.filter = Nil
    BY <2>1 DEF FilterRefused
  <2> HIDE DEF key, stored
  <2> QED BY <2>1, <2>3, <2>4, <2>5, <2>6 DEF Adopts, key, stored
<1>3. CASE Apply(r)
  <2>1. PICK ids, ok, clientIds : Applied(r, ids, ok, clientIds)
    BY <1>3 DEF Apply, NothingToApply, ReplayAdd, ApplyAdd, ApplyChange, ApplyDelete,
                DeleteAbsent, RefuseCommand
  <2>2. pc[r] = "apply"
    BY <1>1, <1>3, ApplyStep
  <2> QED BY <1>1, <2>1, <2>2, Applies DEF Adopts, rows
<1>4. CASE Enumerate(r)
  BY <1>1, <1>4, Enumerates DEF Adopts, rows
<1>5. CASE Invalidate(r)
  BY <1>1, <1>5, Invalidates DEF Adopts
<1>6. CASE WriteChunk(r)
  BY <1>1, <1>6, WritesChunk DEF Adopts
<1>7. CASE ClearLeftover(r) \/ ChunksWritten(r)
  <2>1. /\ pc[r] \in {"clear", "chunk"} /\ UNCHANGED <<row, req, round>>
        /\ pc'[r] \in {"chunk", "final"} /\ stale'[r] = stale[r]
    BY <1>1, <1>7 DEF ClearLeftover, ChunksWritten, Outdates, TypeOK, rows
  <2> QED BY <1>1, <2>1 DEF Adopts
<1>8. CASE LoadHeld(r) /\ pc'[r] = "reply"
  BY <1>8 DEF Adopts
<1>9. CASE \/ Acquire(r) \/ LeaseTimeout(r) \/ ReadRow(r) \/ FinalWrite(r) \/ Truncate(r)
           \/ RestartWrite(r) \/ SaveLosesRace(r) \/ Fault(r)
  <2>1. pc'[r] \in {"locked", "read", "truncate", "restart", "reply", "idle"}
    BY <1>1, <1>9 DEF Acquire, LeaseTimeout, ReadRow, FinalWrite, Truncate, RestartWrite,
              SaveLosesRace, Fault, LoadFails, WriteFails, Die, SaveFailed, AnswerWith, TypeOK
  <2> QED BY <2>1 DEF Adopts
<1> QED BY <1>2, <1>3, <1>4, <1>5, <1>6, <1>7, <1>8, <1>9 DEF Serve, Save

\* So does every other request, unless it is told that its copy is out of date.
LEMMA AdoptsInductive ==
  ASSUME FilterInv, [Next]_vars, NEW r \in Reqs
  PROVE  Adopts(r)'
<1>1. TypeOK /\ Adopts(r)
  BY DEF FilterInv, RInv, IInv
<1>2. ASSUME NEW q \in Reqs, q # r, Serve(q) \/ Fault(q) PROVE Adopts(r)'
  <2>1. /\ pc'[r] = pc[r] /\ req'[r] = req[r] /\ round'[r] = round[r]
        /\ pc[r] \in Working \ {"locked"} /\ RowMark \notin stale'[r]
               => RowMark \notin stale[r] /\ row' = row
    BY <1>1, <1>2, OthersStep
  <2> QED BY <1>1, <2>1 DEF Adopts, Begun, Working, Saving
<1>3. CASE CleanUp
  <2>1. UNCHANGED <<pc, req, round>>
    BY <1>3, CleanUpStep
  <2>2. pc[r] \in Working \ {"locked"} /\ RowMark \notin stale'[r]
          => RowMark \notin stale[r] /\ row' = row
    BY <1>1, <1>3 DEF CleanUp, CleanUpChunks, CleanUpRow, CleanUpStops, OutdatesAll, TypeOK, rows
  <2> QED BY <1>1, <2>1, <2>2 DEF Adopts, Begun, Working, Saving
<1>4. CASE \/ UNCHANGED vars \/ Client
           \/ \E i \in Items, to \in {"in", "moved", "gone"} : ItemChanges(i, to)
  <2>1. UNCHANGED <<row, round, stale>>
    BY <1>4 DEF Client, Edit, StartOver, Receive, Lose, GiveUp, Send, ItemChanges, vars, rows
  <2>2. pc'[r] \in {"idle", "sent"} \/ (pc'[r] = pc[r] /\ req'[r] = req[r])
    BY <1>1, <1>4
       DEF Client, Edit, StartOver, Receive, Lose, GiveUp, Send, ItemChanges, vars, TypeOK
  <2> QED BY <1>1, <2>1, <2>2 DEF Adopts, Begun
<1> QED BY <1>2, <1>3, <1>4, AdoptsServed DEF Next

\* A FilterType is adopted only for an empty set: under one lease, or with none as long
\* as the row has room for all ids; whatever is sent again, fails or is cleaned up.
THEOREM FilterForEmpty ==
  ASSUME Exclusive \/ FewItems
  PROVE  Spec => FilterAdoptedEmpty
<1> DEFINE Adopted == row'.filter # row.filter /\ row'.exists /\ row'.syncKey # StartKey
                        => row.filter = Nil /\ Rebuilt' = {}
           Mine == RInv /\ ChunkInv /\ \A r \in Reqs : Written(r)
           Calmly == RInv /\ FreshEmpty /\ \A r \in Reqs : Adopts(r)
<1>1. Init => FilterInv /\ InRow /\ Mine
  <2> SUFFICES ASSUME Init PROVE FilterInv /\ InRow /\ Mine
    OBVIOUS
  <2>1. RInv /\ ChunkInv
    BY InitSInv DEF SInv
  <2>2. /\ row = NoState /\ \A r \in Reqs : pc[r] = "idle" /\ round[r] = NoWork
    BY DEF Init
  <2>3. InRow /\ (\A r \in Reqs : Written(r)) /\ (\A r \in Reqs : Adopts(r)) /\ FreshEmpty
    BY <2>2 DEF InRow, Written, Adopts, FreshEmpty, NoState, NoRound, NoWork, Begun,
                generation, Blank
  <2> QED BY <2>1, <2>3 DEF FilterInv, Apart
<1>2. ASSUME FilterInv, [Next]_vars PROVE [Adopted]_vars
  <2> SUFFICES ASSUME row'.filter # row.filter, row'.exists, row'.syncKey # StartKey
               PROVE  row.filter = Nil /\ Rebuilt' = {}
    OBVIOUS
  <2>1. TypeOK /\ Apart /\ row' # row
    BY <1>2 DEF FilterInv, RInv, IInv
  <2>2. ~CleanUp
    BY <2>1 DEF CleanUp, CleanUpChunks, CleanUpRow, CleanUpStops, NoState, rows
  <2>3. ASSUME NEW r \in Reqs, Invalidate(r) \/ RestartWrite(r) PROVE FALSE
    <3>1. ~Invalidate(r)
      BY <2>1, Invalidates
    <3>2. RestartWrite(r) => row'.syncKey = StartKey
      BY DEF RestartWrite
    <3> QED BY <2>3, <3>1, <3>2
  <2>4. PICK r \in Reqs : FinalWrite(r)
    BY <1>2, <2>1, <2>2, <2>3, RowSteps
  <2>5. pc[r] = "final" /\ RowMark \notin stale[r]
    BY <2>4 DEF FinalWrite
  <2>6. row.filter = Nil /\ round[r].base = {}
    BY <1>2, <2>1, <2>4, <2>5, SavesIds DEF FilterInv, Adopts, Begun
  <2> QED BY <2>1, <2>4, <2>6, SavesIds DEF Rebuilt
<1>3. Spec => []Apart
  <2>1. CASE Exclusive
    <3>1. Mine /\ [Next]_vars => Mine'
      BY <2>1, RoundsInductive, ChunksInductive, WrittenInductive
    <3>2. Mine => Apart
      BY DEF Apart
    <3> HIDE DEF Mine
    <3> QED BY <1>1, <3>1, <3>2, PTL DEF Spec
  <2>2. CASE FewItems
    <3>1. IInv /\ InRow /\ [Next]_vars => InRow'
      BY <2>2, InRowInductive DEF IInv
    <3>2. InRow => Apart
      BY <2>2 DEF Apart
    <3> QED BY <1>1, <3>1, <3>2, Invariance, PTL DEF Spec
  <2> QED BY <2>1, <2>2
<1>4. Calmly /\ Apart /\ [Next]_vars => Calmly'
  BY RoundsInductive, FreshInductive, AdoptsInductive DEF FilterInv
<1>5. FilterInv => Calmly
  BY DEF FilterInv
<1>6. Calmly /\ Apart => FilterInv
  BY DEF FilterInv
<1> HIDE DEF Calmly, Mine, Adopted
<1>7. Spec => [][Adopted]_vars
  BY <1>1, <1>2, <1>3, <1>4, <1>5, <1>6, PTL DEF Spec
<1> QED BY <1>7 DEF FilterAdoptedEmpty, Adopted


-----------------------------------------------------------------------------
(* What an Add has created is not created again.                           *)

Add(c) == [kind |-> "Add", on |-> c]

\* Requests with a key come before those without, and those without a command before
\* those with the device's.
Rank(q) == IF req[q].key = Zero THEN 2 ELSE IF req[q].command = NoCommand THEN 0 ELSE 1

\* The line that the requests under way are served in, and that they ask for one thing.
Queued(q) ==
    pc[q] \in Live =>
        /\ req[q].key = Zero => req[q].command = NoCommand
        /\ device.key # Zero => req[q].command \in {NoCommand, device.command}
InLine(q, r) ==
    pc[q] \in Live /\ pc[r] \in Live =>
        /\ Rank(q) < Rank(r) => pc[r] = "sent" /\ (pc[q] \in Working \/ q \in ahead[r])
        /\ Rank(q) = 1 /\ Rank(r) = 1 => req[q].command = req[r].command
        /\ Rank(q) # 2 /\ Rank(r) # 2 => req[q].key = req[r].key
Queue == \A q, r \in Reqs : Queued(q) /\ InLine(q, r)

\* What a step does to the device's command.
LEMMA DeviceStep ==
  ASSUME TypeOK, KeyInReach, LineInv, [Next]_vars
  PROVE  \/ /\ device'.key = device.key /\ device'.command = device.command
            /\ device'.spent = device.spent
         \/ \E c \in Commands :
               /\ Edit(c) /\ device.command = NoCommand /\ device.key # Zero
               /\ device'.key = device.key /\ device'.command = c
               /\ device'.spent = IF c.kind = "Add" THEN device.spent \cup {c.on}
                                  ELSE device.spent
               /\ c.kind = "Add" => c.on \notin device.spent
         \/ /\ device'.command = NoCommand /\ device'.spent = device.spent
            /\ device'.key = Zero \/ \A q \in Reqs : pc'[q] \notin Live
<1>1. device \in Devices
  BY DEF TypeOK
<1>2. ASSUME NEW r \in Reqs, Receive(r)
      PROVE  /\ device'.spent = device.spent
             /\ \/ device'.key = device.key /\ device'.command = device.command
                \/ /\ device'.command = NoCommand
                   /\ device'.key = Zero \/ \A q \in Reqs : pc'[q] \notin Live
  <2>1. device'.spent = device.spent
    BY <1>2, Taken
  <2>2. CASE reply[r].status = 1
    <3>1. device.waits = r /\ pc[r] = "reply" /\ pc' = [pc EXCEPT ![r] = "idle"]
      BY <1>2, Taken
    <3>2. \A q \in Reqs \ {r} : pc[q] \notin Live
      BY <2>2, <3>1 DEF LineInv, AwaitedLast
    <3>3. \A q \in Reqs : pc'[q] \notin Live
      BY <3>1, <3>2 DEF TypeOK, Live, Working, Saving
    <3> QED BY <1>2, <2>1, <2>2, <3>3, Taken
  <2>3. CASE reply[r].status = 3
    BY <1>2, <2>1, <2>3, Taken
  <2>4. CASE reply[r].status \notin {1, 3}
    BY <1>2, <2>1, <2>4, Taken
  <2> QED BY <2>2, <2>3, <2>4
<1>3. ASSUME NEW c \in Commands, Edit(c)
      PROVE  /\ device.command = NoCommand /\ device.key # Zero
             /\ device'.key = device.key /\ device'.command = c
             /\ device'.spent = IF c.kind = "Add" THEN device.spent \cup {c.on}
                                ELSE device.spent
             /\ c.kind = "Add" => c.on \notin device.spent
  <2>1. /\ device.command = NoCommand /\ device.key # Zero
        /\ device' = [device EXCEPT !.command = c,
                                    !.spent = IF c.kind = "Add" THEN @ \cup {c.on} ELSE @]
    BY <1>3 DEF Edit
  <2>2. c.kind = "Add" => c.on \notin device.spent
    BY <1>3 DEF Edit
  <2> QED BY <1>1, <2>1, <2>2 DEF Devices
<1>4. CASE StartOver
  BY <1>1, <1>4 DEF StartOver, Devices
<1>5. ASSUME \/ \E r \in Reqs : Lose(r) \/ GiveUp(r)
             \/ \E r \in Reqs, f \in Filters \cup {Nil} : Send(r, f)
      PROVE  /\ device'.key = device.key /\ device'.command = device.command
             /\ device'.spent = device.spent
  BY <1>1, <1>5 DEF Lose, GiveUp, Send, Devices
<1>6. CASE ~Client
  BY <1>6, ServedAlone, NobodyServed DEF Next
<1>7. CASE Client
  BY <1>2, <1>3, <1>4, <1>5, <1>7 DEF Client
<1> QED BY <1>6, <1>7

\* Every step keeps the line.
LEMMA QueueInductive ==
  ASSUME Exclusive, InOrder, TypeOK, KeyInReach, LineInv, Queue, [Next]_vars
  PROVE  Queue'
<1> DEFINE Sent(q) == \E f \in Filters \cup {Nil} : Send(q, f)
<1>1. ASSUME NEW q \in Reqs, Sent(q)
      PROVE  /\ device' = [device EXCEPT !.waits = q]
             /\ pc[q] = "idle" /\ pc' = [pc EXCEPT ![q] = "sent"]
             /\ ahead'[q] = {p \in Reqs : pc[p] = "sent"}
             /\ req'[q].key = device.key /\ req'[q].command = device.command
             /\ device'.key = device.key /\ device'.command = device.command
             /\ \A r \in Reqs \ {q} : pc'[r] = pc[r] /\ req'[r] = req[r]
  BY <1>1 DEF Send, TypeOK, Devices
<1>2. ASSUME NEW q \in Reqs, ~Sent(q), pc'[q] \in Live
      PROVE  pc[q] \in Live /\ req'[q] = req[q] /\ Rank(q)' = Rank(q)
  <2>1. pc[q] \in Live /\ req'[q] = req[q]
    BY <1>2, StillLive
  <2> QED BY <2>1 DEF Rank
<1> HIDE DEF Sent
<1>3. ASSUME NEW q \in Reqs PROVE Queued(q)'
  <2> SUFFICES ASSUME pc'[q] \in Live
               PROVE  /\ req'[q].key = Zero => req'[q].command = NoCommand
                      /\ device'.key # Zero =>
                            req'[q].command \in {NoCommand, device'.command}
    BY DEF Queued
  <2>1. CASE Sent(q)
    BY <1>1, <2>1 DEF LineInv, OnDevice
  <2>2. CASE ~Sent(q)
    <3>1. /\ req[q].key = Zero => req[q].command = NoCommand
          /\ device.key # Zero => req[q].command \in {NoCommand, device.command}
      BY <1>2, <2>2 DEF Queue, Queued
    <3> QED BY <1>2, <2>2, <3>1, DeviceStep
  <2> QED BY <2>1, <2>2
<1>4. ASSUME NEW q \in Reqs, NEW r \in Reqs PROVE InLine(q, r)'
  <2> SUFFICES ASSUME pc'[q] \in Live, pc'[r] \in Live, q # r
               PROVE  /\ Rank(q)' < Rank(r)' =>
                            pc'[r] = "sent" /\ (pc'[q] \in Working \/ q \in ahead'[r])
                      /\ Rank(q)' = 1 /\ Rank(r)' = 1 => req'[q].command = req'[r].command
                      /\ Rank(q)' # 2 /\ Rank(r)' # 2 => req'[q].key = req'[r].key
    BY DEF InLine, Rank
  <2>1. CASE Sent(r)
    <3>1. pc'[q] = pc[q] /\ req'[q] = req[q] /\ pc[q] \in Live
      BY <1>1, <2>1
    <3>2. /\ device.key # Zero => req[q].command \in {NoCommand, device.command}
          /\ device.key # Zero => req[q].key = device.key
      BY <3>1 DEF Queue, Queued, LineInv, Asked
    <3>3. pc'[r] = "sent" /\ (pc'[q] \in Working \/ q \in ahead'[r])
      BY <1>1, <2>1, <3>1 DEF Live, TypeOK
    <3> QED BY <1>1, <2>1, <3>1, <3>2, <3>3 DEF Rank
  <2>2. CASE Sent(q)
    <3>1. pc'[r] = pc[r] /\ req'[r] = req[r] /\ pc[r] \in Live
      BY <1>1, <2>2
    <3>2. /\ device.key # Zero => req[r].command \in {NoCommand, device.command}
          /\ device.key # Zero => req[r].key = device.key
      BY <3>1 DEF Queue, Queued, LineInv, Asked
    <3> QED BY <1>1, <2>2, <3>1, <3>2 DEF Rank
  <2>3. CASE ~Sent(q) /\ ~Sent(r)
    <3>1. /\ pc[q] \in Live /\ req'[q] = req[q] /\ Rank(q)' = Rank(q)
          /\ pc[r] \in Live /\ req'[r] = req[r] /\ Rank(r)' = Rank(r)
      BY <1>2, <2>3
    <3>2. InLine(q, r)
      BY DEF Queue
    <3> QED BY <2>3, <3>1, <3>2, OrderKept DEF InLine, Sent
  <2> QED BY <2>1, <2>2, <2>3
<1> QED BY <1>3, <1>4 DEF Queue

\* Before a request has come to its command, and after.
ToDo == {"sent", "locked", "read", "apply"}
Past == {"enum", "save", "clear", "chunk", "final"}

\* Under the key k someone is still going to ask for the Add of c.
Asks(k, c) ==
    \/ device.command = Add(c) /\ device.key = k
    \/ \E q \in Reqs : pc[q] \in ToDo /\ req[q].command = Add(c) /\ req[q].key = k

\* A round at work says that i is what c has become; the row says so to whoever comes
\* again with the key k.
InRound(c, i) ==
    \E r \in Reqs : /\ pc[r] \in Past /\ req[r].command = Add(c)
                    /\ <<c, i>> \in round[r].clientIds
Recalled(k, c, i) == IsRetry(k, row) /\ <<c, i>> \in row.previous.clientIds

\* An item has its ClientId from the device, and the pairs that are recorded are true.
Spent ==
    /\ \A i \in Items : author[i] # Nil => author[i] \in device.spent /\ folder[i] # "none"
    /\ device.command.kind = "Add" => device.command.on \in device.spent
    /\ \A q \in Reqs : pc[q] \in Live /\ req[q].command.kind = "Add" =>
          req[q].command.on \in device.spent
Truthful ==
    /\ \A p \in row.previous.clientIds : author[p[2]] = p[1]
    /\ \A r \in Reqs : pc[r] \in Past => \A p \in round[r].clientIds : author[p[2]] = p[1]
Retried ==
    \A r \in Reqs : pc[r] = "apply" => round[r].retry = IsRetry(req[r].key, round[r].stored)

\* Whoever asks again for an Add that has been carried out will be told of its item;
\* and nobody who would hide it from him is before him in the line.
Remembered(i) ==
    /\ \A k \in Keys \cup {Zero} : Asks(k, author[i]) =>
          /\ InRound(author[i], i) \/ Recalled(k, author[i], i)
          /\ \A r \in Reqs : pc[r] \in Live /\ req[r].key # Zero =>
                req[r].command = Add(author[i])
    /\ \A r \in Reqs : pc[r] \in Past /\ req[r].command = Add(author[i]) =>
          <<author[i], i>> \in round[r].clientIds

Single == \A i, j \in Items : author[i] = author[j] /\ author[i] # Nil => i = j

AddInv ==
    /\ Spent /\ Truthful /\ Retried /\ Single
    /\ \A i \in Items : author[i] # Nil => Remembered(i)
DInv == KInv /\ Queue /\ (faults = 0 => AddInv)

\* Past and to do are parts of what is under way.
LEMMA Phases ==
  /\ ToDo \subseteq Live /\ Past \subseteq Working /\ Past \subseteq Live
  /\ ToDo \cap Past = {} /\ "reply" \notin Live /\ "idle" \notin Live
  /\ "truncate" \notin ToDo \cup Past /\ "restart" \notin ToDo \cup Past
BY DEF ToDo, Past, Live, Working, Saving

\* When nothing fails: what the step finds and what it can not be.
LEMMA Calm ==
  ASSUME Exclusive, KInv, [Next]_vars, faults' = 0
  PROVE  /\ TypeOK /\ KeyInReach /\ OneHolder /\ LineInv /\ faults = 0 /\ ~CleanUp
         /\ \A r \in Reqs : /\ RowAsRead(r) /\ InCourse(r) /\ stale[r] = {}
                            /\ ~Fault(r) /\ ~SaveLosesRace(r)
<1>1. TypeOK /\ KeyInReach /\ OneHolder /\ LineInv /\ (cleanup # "none" => faults # 0)
      /\ \A r \in Reqs : RowAsRead(r) /\ InCourse(r)
  BY DEF KInv, SInv, RInv, IInv, HeldInv, ChunkInv
<1>2. faults = 0 /\ ~CleanUp /\ \A r \in Reqs : ~Fault(r)
  BY <1>1, FaultsCounted
<1>3. cleanup = "none" /\ \A r \in Reqs : stale[r] = {}
  BY <1>1, <1>2 DEF KInv, Unmarked
<1>4. \A r \in Reqs : ~SaveLosesRace(r)
  BY <1>1, <1>3, NoRaceLost
<1> QED BY <1>1, <1>2, <1>3, <1>4

\* The steps of a request that neither carry out its command nor write the row.
Plain(q) ==
    \/ Acquire(q) \/ LeaseTimeout(q) \/ ReadRow(q) \/ LoadHeld(q) \/ Enumerate(q)
    \/ ClearLeftover(q) \/ WriteChunk(q) \/ ChunksWritten(q) \/ Truncate(q)

LEMMA PlainStep ==
  ASSUME TypeOK, NEW q \in Reqs, Plain(q)
  PROVE  /\ UNCHANGED <<store, row>>
         /\ pc[q] \in Past => pc'[q] \in Past /\ round'[q].clientIds = round[q].clientIds
         /\ pc'[q] \in Past => pc[q] \in Past
         /\ pc'[q] \in ToDo => pc[q] \in ToDo
         /\ pc'[q] = "apply" => round'[q].retry = IsRetry(req'[q].key, round'[q].stored)
<1> USE DEF ToDo, Past
<1>1. CASE Acquire(q) \/ LeaseTimeout(q) \/ ReadRow(q)
  BY <1>1 DEF Acquire, LeaseTimeout, ReadRow, AnswerWith, TypeOK, rows
<1>2. CASE LoadHeld(q)
  <2>1. pc[q] = "read" /\ UNCHANGED <<store, row, req>> /\ pc'[q] \in {"reply", "apply"}
    BY <1>2 DEF LoadHeld, AnswerWith, TypeOK, rows
  <2> QED BY <1>2, <2>1, Loads
<1>3. CASE Enumerate(q)
  BY <1>3, Enumerates DEF rows
<1>4. CASE WriteChunk(q)
  BY <1>4, WritesChunk
<1>5. CASE ClearLeftover(q) \/ ChunksWritten(q) \/ Truncate(q)
  BY <1>5 DEF ClearLeftover, ChunksWritten, Truncate, TypeOK, rows
<1> QED BY <1>1, <1>2, <1>3, <1>4, <1>5 DEF Plain

\* The others: a command that is carried out, and the row that is written.
LEMMA ServedInKind ==
  ASSUME Exclusive, KInv, [Next]_vars, faults' = 0, NEW q \in Reqs, Serve(q) \/ Fault(q)
  PROVE  Plain(q) \/ Apply(q) \/ Invalidate(q) \/ FinalWrite(q) \/ RestartWrite(q)
BY Calm DEF Serve, Save, Plain

\* A command leaves an item in the mailbox, and leaves everybody else alone.
LEMMA AppliesAlone ==
  ASSUME TypeOK, NEW q \in Reqs, Apply(q)
  PROVE  /\ pc[q] = "apply" /\ pc'[q] = "enum" /\ req' = req
         /\ UNCHANGED <<row, device>>
         /\ \A r \in Reqs \ {q} : pc'[r] = pc[r] /\ round'[r] = round[r]
         /\ \/ /\ author' = author
               /\ \/ req[q].command.kind # "Add" /\ round'[q].clientIds = {}
                  \/ /\ req[q].command.kind = "Add"
                     /\ \E p \in Replayed(q, req[q].command.on) : round'[q].clientIds = {p}
                  \/ /\ req[q].command.kind = "Add" /\ round'[q].clientIds = {}
                     /\ Replayed(q, req[q].command.on) = {}
            \/ /\ req[q].command.kind = "Add" /\ Replayed(q, req[q].command.on) = {}
               /\ \E i \in Items :
                     /\ folder[i] = "none" /\ folder'[i] = "in"
                     /\ author' = [author EXCEPT ![i] = req[q].command.on]
                     /\ round'[q].clientIds = {<<req[q].command.on, i>>}
<1>1. pc[q] = "apply" /\ req' = req /\ UNCHANGED <<row, device>>
  BY ApplyStep, ServedAlone DEF Serve, Apply, NothingToApply, ReplayAdd, ApplyAdd, ApplyChange,
        ApplyDelete, DeleteAbsent, RefuseCommand, Applied, rows
<1>2. ASSUME NEW ids, NEW ok, NEW clientIds, Applied(q, ids, ok, clientIds)
      PROVE  pc'[q] = "enum" /\ round'[q].clientIds = clientIds
  <2>1. round[q] \in Works
    BY DEF TypeOK
  <2> QED BY <1>2, <2>1 DEF Applied, TypeOK, Works
<1>3. \A r \in Reqs \ {q} : pc'[r] = pc[r] /\ round'[r] = round[r]
  BY ServedAlone DEF Serve
<1>4. CASE NothingToApply(q) \/ ApplyChange(q) \/ ApplyDelete(q) \/ DeleteAbsent(q)
  <2>1. req[q].command = NoCommand \/ req[q].command.kind \in {"Change", "Delete"}
    BY <1>4 DEF NothingToApply, ApplyChange, ApplyDelete, DeleteAbsent
  <2>2. req[q].command.kind # "Add"
    BY <2>1 DEF NoCommand
  <2>3. author' = author
    BY <1>4 DEF NothingToApply, ApplyChange, ApplyDelete, DeleteAbsent, store
  <2>4. \E ids, ok : Applied(q, ids, ok, {})
    BY <1>4 DEF NothingToApply, ApplyChange, ApplyDelete, DeleteAbsent
  <2>5. pc'[q] = "enum" /\ round'[q].clientIds = {}
    BY <1>2, <2>4
  <2> QED BY <1>1, <1>3, <2>2, <2>3, <2>5
<1>5. CASE ReplayAdd(q)
  <2>1. author' = author /\ req[q].command.kind = "Add"
    BY <1>5 DEF ReplayAdd, store
  <2>2. \E ids : \E p \in Replayed(q, req[q].command.on) : Applied(q, ids, TRUE, {p})
    BY <1>5 DEF ReplayAdd
  <2>3. /\ pc'[q] = "enum"
        /\ \E p \in Replayed(q, req[q].command.on) : round'[q].clientIds = {p}
    BY <1>2, <2>2
  <2> QED BY <1>1, <1>3, <2>1, <2>3
<1>6. CASE ApplyAdd(q)
  <2>1. PICK i \in Items :
           /\ folder[i] = "none" /\ folder' = [folder EXCEPT ![i] = "in"]
           /\ author' = [author EXCEPT ![i] = req[q].command.on]
           /\ Applied(q, round[q].serverIds \cup {i}, TRUE, {<<req[q].command.on, i>>})
    BY <1>6 DEF ApplyAdd
  <2>2. pc'[q] = "enum" /\ round'[q].clientIds = {<<req[q].command.on, i>>}
    BY <1>2, <2>1
  <2>3. folder'[i] = "in"
    BY <2>1 DEF TypeOK
  <2>4. req[q].command.kind = "Add" /\ Replayed(q, req[q].command.on) = {}
    BY <1>6 DEF ApplyAdd
  <2> QED BY <1>1, <1>3, <2>1, <2>2, <2>3, <2>4
<1>7. CASE RefuseCommand(q)
  <2>1. /\ author' = author
        /\ req[q].command.kind = "Add" => Replayed(q, req[q].command.on) = {}
    BY <1>7 DEF RefuseCommand, store
  <2>2. Applied(q, round[q].serverIds, FALSE, {})
    BY <1>7 DEF RefuseCommand
  <2>3. pc'[q] = "enum" /\ round'[q].clientIds = {}
    BY <1>2, <2>2
  <2> QED BY <1>1, <1>3, <2>1, <2>3
<1> QED BY <1>4, <1>5, <1>6, <1>7 DEF Apply

\* What a step does to the authors: one request may create one item, for its Add.
LEMMA AuthorStep ==
  ASSUME Exclusive, KInv, [Next]_vars, faults' = 0
  PROVE  \/ /\ author' = author
            /\ \A i \in Items : folder[i] # "none" => folder'[i] # "none"
         \/ \E q \in Reqs, i \in Items :
               /\ Apply(q) /\ req[q].command.kind = "Add"
               /\ Replayed(q, req[q].command.on) = {}
               /\ folder[i] = "none" /\ folder'[i] = "in"
               /\ author' = [author EXCEPT ![i] = req[q].command.on]
               /\ \A j \in Items \ {i} : folder'[j] = folder[j]
               /\ round'[q].clientIds = {<<req[q].command.on, i>>}
<1> USE Calm
<1>1. CASE Client \/ UNCHANGED vars
  BY <1>1 DEF Client, Edit, StartOver, Receive, Lose, GiveUp, Send, vars, store
<1>2. ASSUME NEW i \in Items, NEW to \in {"in", "moved", "gone"}, ItemChanges(i, to)
      PROVE  /\ author' = author
             /\ \A j \in Items : folder[j] # "none" => folder'[j] # "none"
  BY <1>2 DEF ItemChanges, TypeOK
<1>3. ASSUME NEW q \in Reqs, Serve(q), ~ApplyAdd(q)
      PROVE  /\ author' = author
             /\ \A j \in Items : folder[j] # "none" => folder'[j] # "none"
  <2>1. CASE Plain(q)
    BY <2>1, PlainStep DEF store
  <2>2. CASE Invalidate(q) \/ FinalWrite(q) \/ RestartWrite(q)
    BY <2>2 DEF Invalidate, FinalWrite, RestartWrite, store
  <2>3. CASE NothingToApply(q) \/ ReplayAdd(q) \/ ApplyChange(q) \/ DeleteAbsent(q)
               \/ RefuseCommand(q)
    BY <2>3 DEF NothingToApply, ReplayAdd, ApplyChange, DeleteAbsent, RefuseCommand, store
  <2>4. CASE ApplyDelete(q)
    BY <2>4 DEF ApplyDelete, TypeOK
  <2> QED BY <1>3, <2>1, <2>2, <2>3, <2>4, ServedInKind DEF Apply
<1>4. ASSUME NEW q \in Reqs, ApplyAdd(q)
      PROVE  \E i \in Items :
               /\ Apply(q) /\ req[q].command.kind = "Add"
               /\ Replayed(q, req[q].command.on) = {}
               /\ folder[i] = "none" /\ folder'[i] = "in"
               /\ author' = [author EXCEPT ![i] = req[q].command.on]
               /\ \A j \in Items \ {i} : folder'[j] = folder[j]
               /\ round'[q].clientIds = {<<req[q].command.on, i>>}
  <2>1. /\ req[q].command.kind = "Add" /\ Replayed(q, req[q].command.on) = {} /\ Apply(q)
    BY <1>4 DEF ApplyAdd, Apply
  <2>2. PICK i \in Items :
           /\ folder[i] = "none" /\ folder' = [folder EXCEPT ![i] = "in"]
           /\ author' = [author EXCEPT ![i] = req[q].command.on]
           /\ Applied(q, round[q].serverIds \cup {i}, TRUE, {<<req[q].command.on, i>>})
    BY <1>4 DEF ApplyAdd
  <2>3. round'[q].clientIds = {<<req[q].command.on, i>>}
    <3>1. round[q] \in Works
      BY DEF TypeOK
    <3> QED BY <2>2, <3>1 DEF Applied, TypeOK, Works
  <2>4. folder'[i] = "in" /\ \A j \in Items \ {i} : folder'[j] = folder[j]
    BY <2>2 DEF TypeOK
  <2> QED BY <2>1, <2>2, <2>3, <2>4
<1> QED BY <1>1, <1>2, <1>3, <1>4 DEF Next

\* A ClientId is taken from the device before anything is created for it.
LEMMA SpentInductive ==
  ASSUME Exclusive, KInv, AddInv, [Next]_vars, faults' = 0
  PROVE  Spent'
<1>1. TypeOK /\ KeyInReach /\ LineInv /\ Spent
  BY Calm DEF AddInv
<1>2. device.spent \subseteq device'.spent
  BY <1>1, DeviceStep
<1>3. ASSUME NEW i \in Items, author'[i] # Nil
      PROVE  author'[i] \in device'.spent /\ folder'[i] # "none"
  <2>1. CASE author'[i] = author[i] /\ (folder[i] # "none" => folder'[i] # "none")
    BY <1>1, <1>2, <1>3, <2>1 DEF Spent
  <2>2. CASE \E q \in Reqs : /\ Apply(q) /\ req[q].command.kind = "Add"
                             /\ author'[i] = req[q].command.on /\ folder'[i] = "in"
    <3>1. PICK q \in Reqs : /\ pc[q] = "apply" /\ req[q].command.kind = "Add"
                           /\ author'[i] = req[q].command.on /\ folder'[i] = "in"
      BY <2>2, ApplyStep, <1>1, AppliesAlone
    <3> QED BY <1>1, <1>2, <3>1 DEF Spent, Live, Working
  <2> QED BY <1>1, <2>1, <2>2, AuthorStep DEF TypeOK
<1>4. device'.command.kind = "Add" => device'.command.on \in device'.spent
  <2>1. CASE device'.command = device.command
    BY <1>1, <1>2, <2>1 DEF Spent
  <2>2. CASE \E c \in Commands :
               /\ device'.command = c
               /\ device'.spent = IF c.kind = "Add" THEN device.spent \cup {c.on}
                                  ELSE device.spent
    BY <2>2
  <2>3. CASE device'.command = NoCommand
    BY <2>3 DEF NoCommand
  <2> QED BY <1>1, <2>1, <2>2, <2>3, DeviceStep
<1>5. ASSUME NEW q \in Reqs, pc'[q] \in Live, req'[q].command.kind = "Add"
      PROVE  req'[q].command.on \in device'.spent
  <2>1. CASE \E f \in Filters \cup {Nil} : Send(q, f)
    <3>1. req'[q].command = device.command
      BY <1>1, <2>1 DEF Send, TypeOK
    <3> QED BY <1>1, <1>2, <1>5, <3>1 DEF Spent
  <2>2. CASE ~\E f \in Filters \cup {Nil} : Send(q, f)
    BY <1>1, <1>2, <1>5, <2>2, StillLive DEF Spent
  <2> QED BY <2>1, <2>2
<1> QED BY <1>3, <1>4, <1>5 DEF Spent

\* What a step leaves of the pairs that a request has in hand.
LEMMA PairsStep ==
  ASSUME Exclusive, KInv, [Next]_vars, faults' = 0, NEW r \in Reqs, pc'[r] \in Past
  PROVE  /\ ~\E f \in Filters \cup {Nil} : Send(r, f)
         /\ Apply(r) \/ (pc[r] \in Past /\ round'[r].clientIds = round[r].clientIds)
<1> USE Calm, Phases
<1>1. ~\E f \in Filters \cup {Nil} : Send(r, f)
  BY DEF Send, TypeOK, Past
<1>2. CASE Client
  BY <1>1, <1>2, LeftAlone, RowUntouched
<1>3. CASE \/ UNCHANGED vars
           \/ \E i \in Items, to \in {"in", "moved", "gone"} : ItemChanges(i, to)
  BY <1>1, <1>3, NobodyServed
<1>4. ASSUME NEW q \in Reqs, Serve(q), q # r
      PROVE  pc[r] \in Past /\ round'[r].clientIds = round[r].clientIds
  BY <1>4, ServedAlone
<1>5. CASE Serve(r)
  <2>1. CASE Invalidate(r)
    BY <1>1, <2>1, Invalidates DEF Past
  <2>2. CASE FinalWrite(r) \/ RestartWrite(r)
    BY <2>2 DEF FinalWrite, RestartWrite, AnswerWith, TypeOK, Past
  <2> QED BY <1>1, <1>5, <2>1, <2>2, ServedInKind, PlainStep
<1> QED BY <1>1, <1>2, <1>3, <1>4, <1>5 DEF Next

\* What is recorded of an item's ClientId stays true.
LEMMA TruthfulInductive ==
  ASSUME Exclusive, KInv, AddInv, [Next]_vars, faults' = 0
  PROVE  Truthful'
<1>1. TypeOK /\ Spent /\ Truthful /\ \A r \in Reqs : RowAsRead(r) /\ stale[r] = {}
  BY Calm DEF AddInv
<1>2. ASSUME NEW p \in ClientIds \X Items, author[p[2]] = p[1]
      PROVE  author'[p[2]] = p[1]
  <2>1. p[1] # Nil
    BY <1>2, SyncAssumption
  <2>2. ASSUME NEW i \in Items, folder[i] = "none" PROVE i # p[2]
    BY <1>1, <1>2, <2>1, <2>2 DEF Spent
  <2> QED BY <1>1, <1>2, <2>2, AuthorStep DEF TypeOK
<1>3. /\ row.previous.clientIds \subseteq ClientIds \X Items
      /\ \A r \in Reqs : round[r].clientIds \subseteq ClientIds \X Items
      /\ \A r \in Reqs : round[r].stored.previous.clientIds \subseteq ClientIds \X Items
  BY <1>1 DEF TypeOK, States, Rounds, Works
<1>4. ASSUME NEW p \in row'.previous.clientIds PROVE author'[p[2]] = p[1]
  <2>1. CASE p \in row.previous.clientIds
    BY <1>1, <1>2, <1>3, <2>1 DEF Truthful
  <2>2. CASE \E r \in Reqs : pc[r] = "final" /\ p \in round[r].clientIds
    BY <1>1, <1>2, <1>3, <2>2 DEF Truthful, Past
  <2>3. ASSUME NEW r \in Reqs, FinalWrite(r)
        PROVE  pc[r] = "final" /\ row'.previous.clientIds = round[r].clientIds
    BY <2>3, Calm, SaveRecords
  <2>4. ASSUME NEW r \in Reqs, RestartWrite(r)
        PROVE  row'.previous.clientIds \in {row.previous.clientIds, {}}
    BY <2>4 DEF RestartWrite, NoRound
  <2>5. ASSUME NEW r \in Reqs, Invalidate(r)
        PROVE  row'.previous.clientIds = row.previous.clientIds
    BY <1>1, <2>5, Invalidates
  <2> QED BY <1>1, <2>1, <2>2, <2>3, <2>4, <2>5, RowSteps, Calm
<1>5. ASSUME NEW r \in Reqs, pc'[r] \in Past, NEW p \in round'[r].clientIds
      PROVE  author'[p[2]] = p[1]
  <2>1. CASE pc[r] \in Past /\ round'[r].clientIds = round[r].clientIds
    BY <1>1, <1>2, <1>3, <1>5, <2>1 DEF Truthful
  <2>2. CASE Apply(r)
    <3>1. CASE p \in Replayed(r, req[r].command.on)
      <4>1. p \in round[r].stored.previous.clientIds /\ pc[r] = "apply"
        BY <1>1, <2>2, <3>1, ApplyStep, AppliesAlone DEF Replayed
      <4>2. row = round[r].stored
        BY <1>1, <4>1 DEF RowAsRead, Unsaved
      <4> QED BY <1>1, <1>2, <1>3, <4>1, <4>2 DEF Truthful
    <3>2. CASE \E i \in Items : /\ author' = [author EXCEPT ![i] = req[r].command.on]
                                /\ p = <<req[r].command.on, i>>
      BY <1>1, <3>2 DEF TypeOK
    <3> QED BY <1>1, <1>5, <2>2, <3>1, <3>2, AppliesAlone
  <2> QED BY <1>5, <2>1, <2>2, PairsStep
<1> QED BY <1>4, <1>5 DEF Truthful

\* A round knows whether it is a retry.
LEMMA RetriedInductive ==
  ASSUME Exclusive, KInv, AddInv, [Next]_vars, faults' = 0
  PROVE  Retried'
<1> SUFFICES ASSUME NEW r \in Reqs, pc'[r] = "apply"
             PROVE  round'[r].retry = IsRetry(req'[r].key, round'[r].stored)
  BY DEF Retried
<1>1. TypeOK /\ Retried /\ pc'[r] \in Live
  BY Calm, Phases DEF AddInv, ToDo
<1>2. ASSUME pc'[r] = pc[r], req'[r] = req[r], round'[r] = round[r]
      PROVE  round'[r].retry = IsRetry(req'[r].key, round'[r].stored)
  BY <1>1, <1>2 DEF Retried
<1>3. CASE Client
  <2>1. ~\E f \in Filters \cup {Nil} : Send(r, f)
    BY <1>1 DEF Send, TypeOK
  <2> QED BY <1>1, <1>2, <1>3, <2>1, LeftAlone, RowUntouched
<1>4. CASE \/ UNCHANGED vars
           \/ \E i \in Items, to \in {"in", "moved", "gone"} : ItemChanges(i, to)
  BY <1>2, <1>4, NobodyServed
<1>5. ASSUME NEW q \in Reqs, Serve(q), q # r
      PROVE  round'[r].retry = IsRetry(req'[r].key, round'[r].stored)
  BY <1>1, <1>2, <1>5, ServedAlone
<1>6. CASE Serve(r)
  <2>1. ~Apply(r)
    BY <1>1, AppliesAlone
  <2>2. ~Invalidate(r) /\ ~FinalWrite(r) /\ ~RestartWrite(r)
    BY <1>1 DEF Invalidate, FinalWrite, RestartWrite, AnswerWith, TypeOK
  <2> QED BY <1>1, <1>6, <2>1, <2>2, ServedInKind, PlainStep
<1> QED BY <1>3, <1>4, <1>5, <1>6, Calm DEF Next

\* Who has come to an Add that is still to be carried out finds nothing created for it.
LEMMA NotYet ==
  ASSUME Exclusive, KInv, AddInv, [Next]_vars, faults' = 0, NEW r \in Reqs,
         pc[r] = "apply", NEW c \in ClientIds, req[r].command = Add(c),
         Replayed(r, c) = {}, NEW i \in Items
  PROVE  author[i] # c
<1> SUFFICES ASSUME author[i] = c PROVE FALSE
  OBVIOUS
<1>1. /\ TypeOK /\ OneHolder /\ RowAsRead(r) /\ stale[r] = {} /\ req[r].key \in Keys
      /\ c # Nil
  BY Calm, SyncAssumption DEF KeyInReach, Working
<1>2. Asks(req[r].key, c)
  BY DEF Asks, ToDo
<1>3. InRound(c, i) \/ Recalled(req[r].key, c, i)
  BY <1>1, <1>2 DEF AddInv, Remembered
<1>4. ~InRound(c, i)
  BY <1>1 DEF InRound, OneHolder, Past, Working, Saving
<1>5. row = round[r].stored /\ round[r].retry = IsRetry(req[r].key, round[r].stored)
  BY <1>1 DEF RowAsRead, Unsaved, AddInv, Retried
<1>6. <<c, i>> \in Replayed(r, c)
  BY <1>3, <1>4, <1>5 DEF Recalled, Replayed
<1> QED BY <1>6

LEMMA AddCommand ==
  ASSUME NEW command \in Commands, command.kind = "Add"
  PROVE  command.on \in ClientIds /\ command = Add(command.on)
BY DEF Commands, NoCommand, Add

\* No ClientId has two items.
LEMMA SingleInductive ==
  ASSUME Exclusive, KInv, AddInv, [Next]_vars, faults' = 0
  PROVE  Single'
<1>1. TypeOK /\ Single
  BY Calm DEF AddInv
<1>2. CASE author' = author
  BY <1>1, <1>2 DEF Single
<1>3. CASE author' # author
  <2>1. PICK q \in Reqs, i \in Items :
           /\ Apply(q) /\ req[q].command.kind = "Add"
           /\ Replayed(q, req[q].command.on) = {}
           /\ author' = [author EXCEPT ![i] = req[q].command.on]
    BY <1>3, AuthorStep
  <2>2. req[q].command.on \in ClientIds /\ req[q].command = Add(req[q].command.on)
    BY <1>1, <2>1, AddCommand DEF TypeOK, Requests
  <2>3. \A j \in Items : author[j] # req[q].command.on
    BY <1>1, <2>1, <2>2, NotYet, AppliesAlone
  <2> QED BY <1>1, <2>1, <2>3 DEF Single, TypeOK
<1> QED BY <1>2, <1>3

\* The device asks for an Add before its requests do.
LEMMA AskedBefore ==
  ASSUME Exclusive, KInv, [Next]_vars, faults' = 0, NEW c \in device.spent,
         NEW k \in Keys \cup {Zero}, Asks(k, c)'
  PROVE  Asks(k, c)
<1>1. TypeOK /\ KeyInReach /\ LineInv
  BY Calm
<1>2. CASE device'.command = Add(c) /\ device'.key = k
  <2>1. Add(c) # NoCommand /\ Add(c).kind = "Add" /\ Add(c).on = c
    BY DEF Add, NoCommand
  <2>2. device'.key = device.key /\ device'.command = device.command
    BY <1>1, <1>2, <2>1, DeviceStep
  <2> QED BY <1>2, <2>2 DEF Asks
<1>3. ASSUME NEW q \in Reqs, pc'[q] \in ToDo, req'[q].command = Add(c), req'[q].key = k
      PROVE  Asks(k, c)
  <2>1. CASE \E f \in Filters \cup {Nil} : Send(q, f)
    BY <1>1, <1>3, <2>1 DEF Send, TypeOK, Asks
  <2>2. CASE ~\E f \in Filters \cup {Nil} : Send(q, f)
    <3>1. req'[q] = req[q]
      BY <1>1, <1>3, <2>2, StillLive, Phases
    <3>2. CASE Client
      BY <1>1, <1>3, <2>2, <3>1, <3>2, LeftAlone, Phases DEF Asks
    <3>3. CASE \/ UNCHANGED vars
               \/ \E i \in Items, to \in {"in", "moved", "gone"} : ItemChanges(i, to)
      BY <1>3, <3>1, <3>3, NobodyServed DEF Asks
    <3>4. ASSUME NEW p \in Reqs, Serve(p), p # q PROVE Asks(k, c)
      BY <1>1, <1>3, <3>1, <3>4, ServedAlone DEF Asks
    <3>5. CASE Serve(q)
      <4>1. ~Apply(q)
        BY <1>1, <1>3, AppliesAlone DEF ToDo
      <4>2. ~Invalidate(q) /\ ~FinalWrite(q) /\ ~RestartWrite(q)
        BY <1>1, <1>3 DEF Invalidate, FinalWrite, RestartWrite, AnswerWith, TypeOK, ToDo
      <4>3. pc[q] \in ToDo
        BY <1>1, <1>3, <3>5, <4>1, <4>2, ServedInKind, PlainStep
      <4> QED BY <1>3, <3>1, <4>3 DEF Asks
    <3> QED BY <3>2, <3>3, <3>4, <3>5, Calm DEF Next
  <2> QED BY <2>1, <2>2
<1> QED BY <1>2, <1>3 DEF Asks

\* Who comes along with it asks for the same.
LEMMA SameAsked ==
  ASSUME Exclusive, KInv, Queue, [Next]_vars, faults' = 0, NEW i \in Items, Remembered(i),
         NEW k \in Keys \cup {Zero}, Asks(k, author[i]), author[i] \in ClientIds,
         NEW q \in Reqs, pc'[q] \in Live, req'[q].key # Zero
  PROVE  req'[q].command = Add(author[i])
<1>1. TypeOK
  BY Calm
<1>2. CASE ~\E f \in Filters \cup {Nil} : Send(q, f)
  BY <1>1, <1>2, StillLive DEF Remembered
<1>3. CASE \E f \in Filters \cup {Nil} : Send(q, f)
  <2>1. req'[q].command = device.command /\ device.key # Zero
    BY <1>1, <1>3 DEF Send, TypeOK
  <2>2. ASSUME NEW r \in Reqs, pc[r] \in ToDo, req[r].command = Add(author[i])
        PROVE  device.command = Add(author[i])
    BY <2>1, <2>2, Phases DEF Queue, Queued, Add, NoCommand
  <2> QED BY <2>1, <2>2 DEF Asks
<1> QED BY <1>2, <1>3

\* A round keeps its pairs until it is saved.
LEMMA PairsKept ==
  ASSUME Exclusive, KInv, [Next]_vars, faults' = 0, NEW q \in Reqs, pc[q] \in Past,
         ~FinalWrite(q)
  PROVE  /\ pc'[q] \in Past /\ req'[q] = req[q]
         /\ round'[q].clientIds = round[q].clientIds
<1>1. TypeOK /\ pc[q] \notin {"idle", "reply", "apply", "restart"}
  BY Calm DEF Past
<1>2. CASE Client
  <2>1. pc'[q] = pc[q] /\ req'[q] = req[q]
    BY <1>1, <1>2 DEF Client, Edit, StartOver, Receive, Lose, GiveUp, Send, TypeOK
  <2> QED BY <1>2, <2>1, RowUntouched
<1>3. CASE \/ UNCHANGED vars
           \/ \E i \in Items, to \in {"in", "moved", "gone"} : ItemChanges(i, to)
  BY <1>3, NobodyServed
<1>4. ASSUME NEW p \in Reqs, Serve(p), p # q
      PROVE  /\ pc'[q] = pc[q] /\ req'[q] = req[q]
             /\ round'[q].clientIds = round[q].clientIds
  BY <1>1, <1>4, ServedAlone
<1>5. CASE Serve(q)
  <2>1. ~Apply(q) /\ ~RestartWrite(q)
    BY <1>1, AppliesAlone DEF RestartWrite
  <2>2. CASE Invalidate(q)
    BY <1>1, <2>2, Invalidates DEF Past
  <2>3. CASE Plain(q)
    <3>1. pc'[q] \in Past /\ round'[q].clientIds = round[q].clientIds
      BY <1>1, <2>3, PlainStep
    <3>2. req'[q] = req[q]
      BY <1>1, <1>5, <3>1, ServedAlone, Phases
    <3> QED BY <3>1, <3>2
  <2> QED BY <1>5, <2>1, <2>2, <2>3, ServedInKind
<1> QED BY <1>2, <1>3, <1>4, <1>5, Calm DEF Next

\* What a round does to the pair of an item that it has found or not.
LEMMA FindsItem ==
  ASSUME Exclusive, KInv, AddInv, [Next]_vars, faults' = 0, NEW q \in Reqs, Apply(q),
         NEW i \in Items, author[i] # Nil, author'[i] = author[i],
         req[q].command = Add(author[i])
  PROVE  <<author[i], i>> \in round'[q].clientIds
<1>1. /\ TypeOK /\ Single /\ Truthful /\ RowAsRead(q) /\ stale[q] = {}
      /\ pc[q] = "apply" /\ author[i] \in ClientIds
  BY Calm, AppliesAlone DEF AddInv, TypeOK
<1>2. req[q].command.kind = "Add" /\ req[q].command.on = author[i]
  BY DEF Add
<1>3. Replayed(q, author[i]) # {}
  BY <1>1, NotYet
<1>4. PICK p \in Replayed(q, author[i]) : round'[q].clientIds = {p}
  BY <1>1, <1>2, <1>3, AppliesAlone
<1>5. p \in round[q].stored.previous.clientIds /\ p[1] = author[i]
  BY <1>4 DEF Replayed
<1>6. row = round[q].stored
  BY <1>1 DEF RowAsRead, Unsaved
<1>7. p \in ClientIds \X Items /\ author[p[2]] = p[1]
  BY <1>1, <1>5, <1>6 DEF Truthful, TypeOK, States, Rounds
<1>8. p = <<author[i], i>>
  BY <1>1, <1>5, <1>7 DEF Single
<1> QED BY <1>4, <1>8

\* Everybody who asks again for an Add goes on being told of its item.
LEMMA RememberedInductive ==
  ASSUME Exclusive, InOrder, KInv, Queue, AddInv, [Next]_vars, faults' = 0,
         NEW i \in Items, NEW c \in ClientIds, author[i] = c
  PROVE  Remembered(i)'
<1>1. /\ TypeOK /\ KeyInReach /\ OneHolder /\ LineInv /\ Spent /\ Remembered(i)
      /\ c # Nil /\ c \in device.spent /\ folder[i] # "none"
  BY Calm, SyncAssumption DEF AddInv, Spent
<1>2. author'[i] = c
  BY <1>1, AuthorStep DEF TypeOK
<1>3. ASSUME NEW k \in Keys \cup {Zero}, Asks(k, c)'
      PROVE  /\ Asks(k, c) /\ k \in Keys
             /\ \A r \in Reqs : pc'[r] \in Live /\ req'[r].key # Zero
                                   => req'[r].command = Add(c)
  <2>1. Asks(k, c)
    BY <1>1, <1>3, AskedBefore
  <2>2. k # Zero
    <3>1. CASE device.command = Add(c) /\ device.key = k
      BY <1>1, <3>1 DEF LineInv, OnDevice, Add, NoCommand
    <3>2. CASE \E q \in Reqs : pc[q] \in ToDo /\ req[q].command = Add(c) /\ req[q].key = k
      BY <3>2, Phases DEF Queue, Queued, Add, NoCommand
    <3> QED BY <2>1, <3>1, <3>2 DEF Asks
  <2> QED BY <1>1, <2>1, <2>2, SameAsked
<1>4. ASSUME NEW r \in Reqs, pc'[r] \in Past, req'[r].command = Add(c)
      PROVE  <<c, i>> \in round'[r].clientIds
  <2>1. req'[r] = req[r]
    BY <1>1, <1>4, PairsStep, StillLive, Phases
  <2>2. CASE Apply(r)
    BY <1>1, <1>2, <1>4, <2>1, <2>2, FindsItem
  <2>3. CASE pc[r] \in Past /\ round'[r].clientIds = round[r].clientIds
    BY <1>1, <1>4, <2>1, <2>3 DEF Remembered
  <2> QED BY <1>4, <2>2, <2>3, PairsStep
<1>5. ASSUME NEW k \in Keys, Asks(k, c)'
      PROVE  InRound(c, i)' \/ Recalled(k, c, i)'
  <2>1. /\ Asks(k, c)
        /\ InRound(c, i) \/ Recalled(k, c, i)
        /\ \A r \in Reqs : pc[r] \in Live /\ req[r].key # Zero => req[r].command = Add(c)
    BY <1>1, <1>3, <1>5 DEF Remembered
  <2>2. CASE \E r \in Reqs : FinalWrite(r)
    <3>1. PICK r \in Reqs : FinalWrite(r)
      BY <2>2
    <3>2. /\ pc[r] = "final" /\ row'.exists /\ row'.syncKey = round[r].key
          /\ row'.previous.key = req[r].key /\ row'.previous.clientIds = round[r].clientIds
      BY <1>1, <3>1, Calm, SaveRecords
    <3>3. /\ req[r].key \in Keys /\ round[r].key # req[r].key /\ pc[r] \in Live
          /\ pc[r] \in Past
      <4>1. generation(round[r].key) = generation(req[r].key) + 1
        BY <3>2, Calm DEF InCourse, Course
      <4>2. req[r].key \in Keys /\ generation(req[r].key) \in Nat
        BY <1>1, <3>2, KeyTypes DEF KeyInReach, Working, Saving
      <4> QED BY <3>2, <4>1, <4>2 DEF Live, Past, Working, Saving
    <3>4. req[r].key # Zero
      BY <1>1, <3>3, KeyTypes
    <3>5. req[r].command = Add(c) /\ <<c, i>> \in round[r].clientIds
      BY <1>1, <2>1, <3>3, <3>4 DEF Remembered
    <3>6. k = req[r].key
      <4>1. CASE device.command = Add(c) /\ device.key = k
        <5>1. device.key # Zero
          BY <1>1, <4>1, KeyTypes
        <5> QED BY <1>1, <3>3, <4>1, <5>1 DEF LineInv, Asked
      <4>2. ASSUME NEW q \in Reqs, pc[q] \in ToDo, req[q].command = Add(c),
                   req[q].key = k
            PROVE  k = req[r].key
        <5>1. Rank(q) = 1 /\ Rank(r) = 1
          BY <1>1, <3>4, <3>5, <4>2, KeyTypes DEF Rank, Add, NoCommand
        <5> QED BY <3>3, <4>2, <5>1, Phases DEF Queue, InLine
      <4> QED BY <2>1, <4>1, <4>2 DEF Asks
    <3> QED BY <3>2, <3>3, <3>5, <3>6 DEF Recalled, IsRetry
  <2>3. CASE \E r \in Reqs : Invalidate(r)
    <3>1. PICK r \in Reqs : Invalidate(r)
      BY <2>3
    <3>2. /\ pc[r] = "save" /\ pc'[r] \in Past /\ req' = req
          /\ round'[r].clientIds = round[r].clientIds
      BY <1>1, <3>1, Invalidates DEF Past
    <3>3. req[r].key # Zero /\ pc[r] \in Live /\ pc[r] \in Past
      BY <1>1, <3>2, KeyTypes DEF KeyInReach, Live, Past, Working, Saving
    <3>4. req[r].command = Add(c) /\ <<c, i>> \in round[r].clientIds
      BY <1>1, <2>1, <3>3 DEF Remembered
    <3> QED BY <3>2, <3>4 DEF InRound
  <2>4. CASE \E r \in Reqs : RestartWrite(r)
    <3>1. PICK r \in Reqs : RestartWrite(r)
      BY <2>4
    <3>2. /\ pc[r] = "restart" /\ req[r].key = Zero /\ device.command = NoCommand
      BY <1>1, <3>1, Calm, RestartUnkeyed DEF RestartWrite, InCourse, Course
    <3>3. PICK q \in Reqs : pc[q] \in ToDo /\ req[q].command = Add(c) /\ req[q].key = k
      BY <2>1, <3>2 DEF Asks, Add, NoCommand
    <3>4. Rank(q) = 1 /\ Rank(r) = 2
      BY <1>1, <3>2, <3>3, KeyTypes DEF Rank, Add, NoCommand
    <3>5. pc[q] \in Live /\ pc[r] \in Live /\ pc[r] # "sent"
      BY <3>2, <3>3, Phases DEF Live, Working, Saving
    <3>6. InLine(q, r)
      BY DEF Queue
    <3> QED BY <3>4, <3>5, <3>6 DEF InLine
  <2>5. CASE ~\E r \in Reqs : FinalWrite(r) \/ Invalidate(r) \/ RestartWrite(r)
    <3>1. row' = row
      BY <1>1, <2>5, RowSteps, Calm
    <3>2. InRound(c, i) => InRound(c, i)'
      BY <2>5, PairsKept DEF InRound
    <3> QED BY <2>1, <3>1, <3>2 DEF Recalled
  <2> QED BY <2>2, <2>3, <2>4, <2>5
<1>6. ASSUME NEW k \in Keys \cup {Zero}, Asks(k, c)'
      PROVE  /\ InRound(c, i)' \/ Recalled(k, c, i)'
             /\ \A r \in Reqs : pc'[r] \in Live /\ req'[r].key # Zero
                                   => req'[r].command = Add(c)
  BY <1>3, <1>5, <1>6
<1> QED BY <1>2, <1>4, <1>6 DEF Remembered

\* So it is with an item that the step has created.
LEMMA CreatedRemembered ==
  ASSUME Exclusive, KInv, Queue, AddInv, [Next]_vars, faults' = 0,
         NEW i \in Items, author[i] = Nil, NEW c \in ClientIds, author'[i] = c
  PROVE  Remembered(i)'
<1>1. TypeOK /\ KeyInReach /\ OneHolder
  BY Calm
<1>2. PICK q \in Reqs :
         /\ Apply(q) /\ req[q].command.kind = "Add"
         /\ c = req[q].command.on /\ round'[q].clientIds = {<<c, i>>}
  BY <1>1, AuthorStep, SyncAssumption DEF TypeOK
<1>3. /\ pc[q] = "apply" /\ pc'[q] = "enum" /\ req' = req /\ req[q].key \in Keys
      /\ \A r \in Reqs \ {q} : pc'[r] = pc[r]
  BY <1>1, <1>2, AppliesAlone DEF KeyInReach, Working
<1>4. req[q].command = Add(c)
  BY <1>1, <1>2, AddCommand DEF TypeOK, Requests
<1>5. <<c, i>> \in round'[q].clientIds
  BY <1>2
<1>6. InRound(c, i)'
  BY <1>3, <1>4, <1>5 DEF InRound, Past
<1>7. ASSUME NEW r \in Reqs, pc'[r] \in Live, req'[r].key # Zero
      PROVE  req'[r].command = Add(c)
  <2>1. pc[r] \in Live /\ req[r].key # Zero /\ pc[q] \in Live /\ pc[q] # "sent"
    BY <1>3, <1>7 DEF Live, Working, Saving
  <2>2. Rank(q) = 1 /\ Rank(r) \in {0, 1}
    BY <1>1, <1>3, <1>4, <2>1, KeyTypes DEF Rank, Add, NoCommand
  <2> QED BY <1>3, <1>4, <2>1, <2>2 DEF Queue, InLine
<1>8. ASSUME NEW r \in Reqs, pc'[r] \in Past PROVE r = q
  BY <1>1, <1>3, <1>8 DEF OneHolder, Past, Working, Saving
<1> QED BY <1>5, <1>6, <1>7, <1>8 DEF Remembered

\* Every step keeps all of it.
LEMMA AddsInductive ==
  ASSUME Exclusive, InOrder, DInv, [Next]_vars
  PROVE  DInv'
<1>1. TypeOK /\ KeyInReach /\ LineInv /\ KInv /\ Queue /\ (cleanup # "none" => faults # 0)
  BY DEF DInv, KInv, SInv, RInv, IInv, HeldInv
<1>2. KInv'
  BY <1>1, SafetyInductive, UnmarkedInductive, KeyServedInductive DEF KInv
<1>3. Queue'
  BY <1>1, QueueInductive
<1>4. ASSUME faults' = 0 PROVE AddInv'
  <2>1. AddInv
    BY <1>1, <1>4, FaultsCounted DEF DInv
  <2>2. ASSUME NEW i \in Items, author'[i] # Nil PROVE Remembered(i)'
    <3>1. author[i] \in ClientIds \cup {Nil} /\ author'[i] \in ClientIds
      BY <1>1, <1>2, <2>2 DEF TypeOK, KInv, SInv, RInv, IInv
    <3> QED BY <1>1, <1>4, <2>1, <3>1, RememberedInductive, CreatedRemembered
  <2> QED BY <1>1, <1>4, <2>1, <2>2, SpentInductive, TruthfulInductive, RetriedInductive,
             SingleInductive DEF AddInv
<1> QED BY <1>2, <1>3, <1>4 DEF DInv

\* Under one lease, granted in order, an Add is carried out once: however often the
\* device loses the answer and asks again, and whatever else is under way, as long as
\* nothing fails in the server no ClientId has two items.
THEOREM AddedOnce ==
  ASSUME Exclusive, InOrder
  PROVE  Spec => []NoDuplicateAdd
<1>1. Init => DInv
  <2> SUFFICES ASSUME Init PROVE DInv
    OBVIOUS
  <2>1. KInv
    BY InitSInv, SyncAssumption DEF Init, KInv, Unmarked, KeyServed
  <2>2. Queue
    BY DEF Init, Queue, Queued, InLine, Live, Working, Saving
  <2>3. AddInv
    <3>1. Spent /\ Retried
      BY DEF Init, Spent, Retried, Live, Working, Saving, NoCommand
    <3>2. Truthful
      BY DEF Init, Truthful, Past, NoState, NoRound
    <3> QED BY <3>1, <3>2 DEF Init, AddInv, Single
  <2> QED BY <2>1, <2>2, <2>3 DEF DInv
<1>2. DInv /\ [Next]_vars => DInv'
  BY AddsInductive
<1>3. DInv => NoDuplicateAdd
  BY DEF DInv, AddInv, Single, NoDuplicateAdd
<1> QED BY <1>1, <1>2, <1>3, PTL DEF Spec
=============================================================================
