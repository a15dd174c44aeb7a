------------------------- MODULE EasSyncKeyUtilsProofs -------------------------
(***************************************************************************)
(* What a page of a stream contains, and what the cursor at its end leaves *)
(* to the next: lemmas about EasSyncKeyUtils for any number of rows and    *)
(* any limit.                                                              *)
(***************************************************************************)
EXTENDS EasSyncKeyUtils, FiniteSetTheorems, TLAPS

Below == {ss \in Nat \X Nat : ss[1] < ss[2]}

\* A set of natural numbers has a least one: what stands for induction here.
LEMMA LeastNumber ==
  ASSUME NEW T \in SUBSET Nat, T # {}
  PROVE  \E m \in T : \A k \in T : m <= k
<1>1. IsWellFoundedOn(Below, Nat)
  BY NatLessThanWellFounded DEF OpToRel, Below
<1>2. PICK m \in T : \A k \in T : ~(<<k, m>> \in Below)
  BY <1>1, WFMin
<1>3. ASSUME NEW k \in T, k < m PROVE FALSE
  BY <1>2, <1>3 DEF Below
<1> QED BY <1>3

\* Rows of a stream: no uid has two.
Stream(rows) ==
    /\ \A r \in rows : r.at \in Time /\ r.uid \in Uids
    /\ \A q, r \in rows : q.uid = r.uid => q = r

\* Among bounded numbers there is a greatest.
LEMMA GreatestNumber ==
  ASSUME NEW n \in Nat, NEW T \in SUBSET (0..n), T # {}
  PROVE  \E m \in T : \A k \in T : k <= m
<1> DEFINE U == {n - k : k \in T}
<1>0. \A k \in T : k \in Int /\ n - k \in Nat
  <2> TAKE k \in T
  <2> QED OBVIOUS
<1>1. U \in SUBSET Nat /\ U # {}
  BY <1>0
<1>2. PICK u \in U : \A v \in U : u <= v
  <2> HIDE DEF U
  <2> QED BY <1>1, LeastNumber
<1>3. PICK m \in T : u = n - m
  OBVIOUS
<1>4. ASSUME NEW k \in T PROVE k <= m
  BY <1>0, <1>2, <1>3
<1> QED BY <1>4

\* A page that is not empty has a last row.
LEMMA LastRow ==
  ASSUME NEW rows, Stream(rows), rows # {}
  PROVE  /\ LastOf(rows) \in rows
         /\ \A q \in rows : ~Precedes(cursorOf(LastOf(rows)), cursorOf(q))
<1> DEFINE T == {r.at : r \in rows}
<1>1. T \in SUBSET (0..MaxTime) /\ T # {}
  BY DEF Stream, Time
<1>2. PICK t \in T : \A k \in T : k <= t
  <2> HIDE DEF T
  <2> QED BY <1>1, GreatestNumber, UtilsAssumption
<1> DEFINE newest == {r \in rows : r.at = t}
           U      == {r.uid : r \in newest}
<1>3. U \in SUBSET (0..MaxUid) /\ U # {}
  BY UtilsAssumption DEF Stream, Uids
<1>4. PICK u \in U : \A k \in U : k <= u
  <2> HIDE DEF U
  <2> QED BY <1>3, GreatestNumber, UtilsAssumption
<1>5. PICK l \in newest : l.uid = u
  OBVIOUS
<1>6. ASSUME NEW q \in rows PROVE ~Precedes(cursorOf(l), cursorOf(q))
  <2>1. q.at <= t /\ (q.at = t => q.uid <= u) /\ l.at = t
    BY <1>2, <1>4, <1>5
  <2>2. q.at \in Int /\ q.uid \in Int /\ t \in Int /\ u \in Int
    BY <1>1, <1>3, UtilsAssumption DEF Stream, Time, Uids
  <2> QED BY <1>5, <2>1, <2>2 DEF Precedes, cursorOf
<1> QED BY <1>6 DEF LastOf

\* What the first rows are: they come before the others, and are all if there is room.
LEMMA FirstRows ==
  ASSUME NEW rows, IsFiniteSet(rows), Stream(rows), NEW n \in Nat
  PROVE  /\ FirstOf(rows, n) \subseteq rows
         /\ \A q \in rows, r \in FirstOf(rows, n) :
                Precedes(cursorOf(q), cursorOf(r)) => q \in FirstOf(rows, n)
         /\ Cardinality(rows) <= n => FirstOf(rows, n) = rows
<1> DEFINE before(r) == {q \in rows : Precedes(cursorOf(q), cursorOf(r))}
<1>1. \A r \in rows : /\ before(r) \subseteq rows
                      /\ r \notin before(r)
  BY UtilsAssumption DEF Precedes, cursorOf, Stream, Time, Uids
<1>2. \A r \in rows : /\ IsFiniteSet(before(r))
                      /\ Cardinality(before(r)) \in Nat
                      /\ Cardinality(before(r)) < Cardinality(rows)
  <2> TAKE r \in rows
  <2>1. before(r) \subseteq rows /\ before(r) # rows
    BY <1>1
  <2> HIDE DEF before
  <2> QED BY <2>1, FS_Subset, FS_CardinalityType
<1>3. ASSUME NEW q \in rows, NEW r \in FirstOf(rows, n), Precedes(cursorOf(q), cursorOf(r))
      PROVE  q \in FirstOf(rows, n)
  <2>1. r \in rows /\ Cardinality(before(r)) < n
    BY DEF FirstOf
  <2>2. before(q) \subseteq before(r)
    BY <1>3, <2>1, UtilsAssumption DEF Precedes, cursorOf, Stream, Time, Uids
  <2>3. Cardinality(before(q)) <= Cardinality(before(r))
    <3> HIDE DEF before
    <3> QED BY <1>2, <2>1, <2>2, FS_Subset
  <2>4. Cardinality(before(q)) < n
    <3> HIDE DEF before
    <3> QED BY <1>2, <2>1, <2>3
  <2> QED BY <2>4 DEF FirstOf
<1>4. ASSUME Cardinality(rows) <= n, NEW r \in rows PROVE Cardinality(before(r)) < n
  <2> HIDE DEF before
  <2>1. Cardinality(rows) \in Nat
    BY FS_CardinalityType
  <2> QED BY <1>2, <1>4, <2>1
<1> QED BY <1>3, <1>4 DEF FirstOf

\* A query for one row more than its limit that does not find it has found all there is.
LEMMA AllRows ==
  ASSUME NEW rows, IsFiniteSet(rows), Stream(rows), NEW n \in Nat,
         Cardinality(FirstOf(rows, n + 1)) <= n
  PROVE  FirstOf(rows, n + 1) = rows
<1> DEFINE before(r) == {q \in rows : Precedes(cursorOf(q), cursorOf(r))}
           first == FirstOf(rows, n + 1)
           sizes == {Cardinality(before(r)) : r \in rows \ first}
<1>1. \A r \in rows : before(r) \subseteq rows /\ IsFiniteSet(before(r))
                      /\ Cardinality(before(r)) \in Nat
  <2> TAKE r \in rows
  <2>1. before(r) \subseteq rows
    OBVIOUS
  <2> HIDE DEF before
  <2> QED BY <2>1, FS_Subset, FS_CardinalityType
<1>2. \A r \in rows : r \in first <=> Cardinality(before(r)) < n + 1
  BY DEF FirstOf
<1>3. first \subseteq rows
  BY DEF FirstOf
<1>4. ASSUME NEW r \in rows, NEW q \in before(r)
      PROVE  q \in rows /\ Cardinality(before(q)) < Cardinality(before(r))
  <2>1. /\ q \in before(r) /\ q \notin before(q)
        /\ before(q) \subseteq before(r)
    BY <1>4, UtilsAssumption DEF Precedes, cursorOf, Stream, Time, Uids
  <2>2. q \in rows
    BY <1>4
  <2> HIDE DEF before
  <2> QED BY <1>1, <2>1, <2>2, FS_Subset
<1> SUFFICES ASSUME first # rows PROVE FALSE
  OBVIOUS
<1>5. sizes \in SUBSET Nat /\ sizes # {}
  <2> HIDE DEF before, first
  <2> QED BY <1>1, <1>3
<1>6. PICK m \in sizes : \A k \in sizes : m <= k
  <2> HIDE DEF sizes
  <2> QED BY <1>5, LeastNumber
<1>7. PICK r \in rows \ first : m = Cardinality(before(r))
  <2> HIDE DEF before, first
  <2> QED OBVIOUS
<1> HIDE DEF before, first
<1>8. before(r) \subseteq first
  <2> SUFFICES ASSUME NEW q \in before(r), q \notin first PROVE FALSE
    OBVIOUS
  <2>1. q \in rows /\ Cardinality(before(q)) < Cardinality(before(r))
    BY <1>4
  <2>2. Cardinality(before(q)) \in sizes
    BY <2>1
  <2> HIDE DEF sizes
  <2> QED BY <1>1, <1>6, <1>7, <2>1, <2>2
<1>9. Cardinality(before(r)) >= n + 1
  BY <1>1, <1>2, <1>7
<1>10. IsFiniteSet(first) /\ Cardinality(first) <= n
  BY <1>3, FS_Subset DEF first
<1>11. Cardinality(before(r)) <= Cardinality(first) /\ Cardinality(first) \in Nat
  BY <1>8, <1>10, FS_Subset, FS_CardinalityType
<1> QED BY <1>1, <1>7, <1>9, <1>10, <1>11

\* Whether a cursor has row r ahead of it, and the cursor at the end of a page.
Shows(cursor, r) == r \in After({r}, cursor)
EndOf(page, cursor) == IF page = {} THEN cursor ELSE cursorOf(LastOf(page))

\* The cursor of a page leaves ahead what the page does not have, and no more.
LEMMA PageCursor ==
  ASSUME NEW rows, IsFiniteSet(rows), Stream(rows), NEW c \in Cursor, NEW n \in Nat,
         NEW page, page = FirstOf(After(rows, c), n),
         NEW end, end = EndOf(page, c)
  PROVE  /\ end \in Cursor
         /\ c.date <= end.date
         /\ end = c \/ \E r \in page : end.date = r.at
         /\ page \subseteq rows
         /\ \A r \in page : Shows(c, r) /\ ~Shows(end, r) /\ r.at <= end.date
         /\ \A r \in rows : Shows(end, r) => Shows(c, r)
         /\ \A r \in rows : Shows(c, r) => r \in page \/ Shows(end, r)
         /\ Cardinality(After(rows, c)) <= n => page = After(rows, c)
<1>1. After(rows, c) \subseteq rows /\ \A r \in rows : r \in After(rows, c) <=> Shows(c, r)
  BY DEF After, Shows
<1>2. IsFiniteSet(After(rows, c)) /\ Stream(After(rows, c))
  BY <1>1, FS_Subset DEF Stream
<1>3. /\ page \subseteq After(rows, c)
      /\ \A q \in After(rows, c), r \in page :
             Precedes(cursorOf(q), cursorOf(r)) => q \in page
      /\ Cardinality(After(rows, c)) <= n => page = After(rows, c)
  BY <1>2, FirstRows
<1>4. Stream(page)
  BY <1>1, <1>3 DEF Stream
<1>5. CASE page = {}
  <2>1. end = c
    BY <1>5 DEF EndOf
  <2> QED BY <1>1, <1>3, <1>5, <2>1 DEF Cursor, Time
<1>6. CASE page # {}
  <2> DEFINE l == LastOf(page)
  <2>1. l \in page /\ \A q \in page : ~Precedes(cursorOf(l), cursorOf(q))
    BY <1>4, <1>6, LastRow
  <2>2. end = [date |-> l.at, uid |-> l.uid] /\ l.at \in Time /\ l.uid \in Uids
    BY <1>4, <1>6, <2>1 DEF EndOf, cursorOf, Stream
  <2> HIDE DEF l
  <2>3. end \in Cursor /\ end.uid # 0
    BY <2>2, UtilsAssumption DEF Cursor, Uids
  <2>4. \A r \in rows : Shows(end, r) <=> Precedes(cursorOf(l), cursorOf(r))
    BY <2>2, <2>3 DEF Shows, After, cursorOf
  <2>5. \A r \in rows : Shows(c, r) <=> IF c.uid = 0 THEN r.at > c.date
                                        ELSE Precedes(c, cursorOf(r))
    BY DEF Shows, After
  <2>6. Shows(c, l)
    BY <1>1, <1>3, <2>1
  <2>7. l \in rows
    BY <1>1, <1>3, <2>1
  <2>8. c.date \in Int /\ c.uid \in Int /\ \A r \in rows : r.at \in Int /\ r.uid \in Int
    BY UtilsAssumption DEF Cursor, Time, Uids, Stream
  <2>9. c.date <= l.at
    BY <2>5, <2>6, <2>7, <2>8 DEF Precedes, cursorOf
  <2>10. \A r \in page : ~Shows(end, r) /\ r.at <= l.at
    BY <1>1, <1>3, <2>1, <2>4, <2>7, <2>8 DEF Precedes, cursorOf
  <2>11. \A r \in rows : Shows(end, r) => Shows(c, r)
    BY <2>4, <2>5, <2>6, <2>7, <2>8 DEF Precedes, cursorOf
  <2>12. ASSUME NEW r \in rows, Shows(c, r), r \notin page PROVE Shows(end, r)
    <3>1. ~Precedes(cursorOf(r), cursorOf(l)) /\ r # l
      BY <1>1, <1>3, <2>1, <2>12
    <3>2. r.uid # l.uid
      BY <2>7, <3>1 DEF Stream
    <3> QED BY <2>4, <2>7, <2>8, <3>1, <3>2 DEF Precedes, cursorOf
  <2> QED BY <1>1, <1>3, <2>1, <2>2, <2>3, <2>9, <2>10, <2>11, <2>12
<1> QED BY <1>5, <1>6
================================================================================
