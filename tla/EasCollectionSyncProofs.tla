------------------------ MODULE EasCollectionSyncProofs ------------------------
(***************************************************************************)
(* Proofs about the enumeration of changes: what a round's loops over the  *)
(* rows it has read do, and that no change is ever passed, for any items,  *)
(* windows and limits.                                                     *)
(***************************************************************************)
EXTENDS EasCollectionSync, EasSyncKeyUtilsProofs

-----------------------------------------------------------------------------
(* Loops over rows.                                                        *)

\* What a loop leaves after each part of its rows.
Runs(after, loop, w, rows) ==
    \A done \in SUBSET rows :
        after[done] = IF done = {} THEN w
                      ELSE Body(loop, after[done \ {LastOf(done)}], LastOf(done))

LEMMA LoopRuns ==
  ASSUME NEW loop, NEW w, NEW rows, IsFiniteSet(rows), Stream(rows)
  PROVE  \E after : Runs(after, loop, w, rows) /\ Loop(loop, w, rows) = after[rows]
<1> DEFINE next(f, done) == IF done = {} THEN w
                            ELSE Body(loop, f[done \ {LastOf(done)}], LastOf(done))
           upTo(n) == \E f : \A done \in SUBSET rows : Cardinality(done) <= n => f[done] = next(f, done)
           T == {n \in Nat : ~upTo(n)}
<1>1. \A done \in SUBSET rows :
          /\ IsFiniteSet(done) /\ Cardinality(done) \in Nat
          /\ done = {} <=> Cardinality(done) = 0
  BY FS_Subset, FS_CardinalityType, FS_EmptySet
<1>2. \A done \in SUBSET rows : done # {} =>
          /\ LastOf(done) \in done
          /\ Cardinality(done \ {LastOf(done)}) = Cardinality(done) - 1
  <2> SUFFICES ASSUME NEW done \in SUBSET rows, done # {}
               PROVE  /\ LastOf(done) \in done
                      /\ Cardinality(done \ {LastOf(done)}) = Cardinality(done) - 1
    OBVIOUS
  <2>1. Stream(done)
    BY DEF Stream
  <2>2. LastOf(done) \in done
    BY <2>1, LastRow
  <2> QED BY <1>1, <2>2, FS_RemoveElement
<1>3. T = {}
  <2> SUFFICES ASSUME T # {} PROVE FALSE
    OBVIOUS
  <2>1. PICK m \in T : \A k \in T : m <= k
    <3>1. T \in SUBSET Nat
      OBVIOUS
    <3> HIDE DEF T
    <3> QED BY <3>1, LeastNumber
  <2>2. CASE m = 0
    <3> DEFINE f == [done \in SUBSET rows |-> w]
    <3>1. \A done \in SUBSET rows : Cardinality(done) <= 0 => f[done] = next(f, done)
      BY <1>1
    <3>2. upTo(0)
      <4> HIDE DEF f
      <4> QED BY <3>1
    <3> QED BY <2>1, <2>2, <3>2
  <2>3. CASE m # 0
    <3>1. m - 1 \in Nat /\ m - 1 \notin T
      <4> HIDE DEF upTo
      <4> QED BY <2>1, <2>3
    <3>2. PICK f : \A done \in SUBSET rows : Cardinality(done) <= m - 1 => f[done] = next(f, done)
      BY <3>1
    <3> DEFINE g == [done \in SUBSET rows |->
                        IF Cardinality(done) <= m - 1 THEN f[done] ELSE next(f, done)]
    <3>3. ASSUME NEW done \in SUBSET rows, Cardinality(done) <= m
          PROVE  g[done] = next(g, done)
      <4>1. g[done] = next(f, done)
        BY <3>2
      <4>2. CASE done = {}
        BY <4>1, <4>2
      <4>3. CASE done # {}
        <5> DEFINE rest == done \ {LastOf(done)}
        <5>1. rest \in SUBSET rows /\ Cardinality(rest) <= m - 1
          BY <1>1, <1>2, <2>1, <3>3, <4>3
        <5>2. g[rest] = f[rest]
          <6> HIDE DEF rest
          <6> QED BY <5>1
        <5> HIDE DEF g
        <5> QED BY <4>1, <4>3, <5>2
      <4> QED BY <4>2, <4>3
    <3>4. upTo(m)
      <4> HIDE DEF g
      <4> QED BY <3>3
    <3> QED BY <2>1, <3>4
  <2> QED BY <2>2, <2>3
<1>4. upTo(Cardinality(rows))
  <2>1. Cardinality(rows) \in Nat
    BY <1>1
  <2> HIDE DEF upTo
  <2> QED BY <1>3, <2>1
<1>5. PICK f : \A done \in SUBSET rows : f[done] = next(f, done)
  <2>1. \A done \in SUBSET rows : Cardinality(done) <= Cardinality(rows)
    BY FS_Subset
  <2> QED BY <1>4, <2>1
<1> DEFINE g == [done \in SUBSET rows |-> f[done]]
<1>6. g = [done \in SUBSET rows |-> next(g, done)]
  <2>1. \A done \in SUBSET rows : next(g, done) = next(f, done)
    <3> SUFFICES ASSUME NEW done \in SUBSET rows PROVE next(g, done) = next(f, done)
      OBVIOUS
    <3>1. g[done \ {LastOf(done)}] = f[done \ {LastOf(done)}]
      OBVIOUS
    <3> HIDE DEF g
    <3> QED BY <3>1
  <2> HIDE DEF next
  <2> QED BY <1>5, <2>1
<1> DEFINE h == CHOOSE after : after = [done \in SUBSET rows |-> next(after, done)]
<1>7. h = [done \in SUBSET rows |-> next(h, done)]
  <2> HIDE DEF g
  <2> QED BY <1>6
<1>8. Runs(h, loop, w, rows)
  <2> HIDE DEF h
  <2> QED BY <1>7 DEF Runs
<1>9. Loop(loop, w, rows) = h[rows]
  BY DEF Loop
<1> QED BY <1>8, <1>9

\* Induction over the rows of a loop: what holds before them, and is handed on by
\* each of them to the next, holds after them.
LEMMA LoopInduction ==
  ASSUME NEW loop, NEW w, NEW rows, IsFiniteSet(rows), Stream(rows),
         NEW Good, w \in Good[{}],
         \A done \in SUBSET rows : \A r \in rows \ done : \A v \in Good[done] :
             (\A q \in done : Precedes(cursorOf(q), cursorOf(r)))
                 => Body(loop, v, r) \in Good[done \cup {r}]
  PROVE  Loop(loop, w, rows) \in Good[rows]
<1>1. PICK after : Runs(after, loop, w, rows) /\ Loop(loop, w, rows) = after[rows]
  BY LoopRuns
<1> DEFINE bad == {done \in SUBSET rows : after[done] \notin Good[done]}
           T   == {Cardinality(done) : done \in bad}
<1> SUFFICES ASSUME bad # {} PROVE FALSE
  BY <1>1
<1>2. \A done \in SUBSET rows : IsFiniteSet(done) /\ Cardinality(done) \in Nat
  BY FS_Subset, FS_CardinalityType
<1>3. PICK m \in T : \A k \in T : m <= k
  <2>1. T \in SUBSET Nat /\ T # {}
    BY <1>2
  <2> HIDE DEF T
  <2> QED BY <2>1, LeastNumber
<1>4. PICK done \in bad : m = Cardinality(done)
  OBVIOUS
<1>5. done \in SUBSET rows /\ done # {}
  BY <1>1, <1>4 DEF Runs
<1> DEFINE r == LastOf(done)
           rest == done \ {r}
<1>6. Stream(done)
  BY <1>5 DEF Stream
<1>7. r \in done /\ \A q \in done : ~Precedes(cursorOf(r), cursorOf(q))
  BY <1>5, <1>6, LastRow
<1>8. \A q \in rest : Precedes(cursorOf(q), cursorOf(r))
  <2> SUFFICES ASSUME NEW q \in rest PROVE Precedes(cursorOf(q), cursorOf(r))
    OBVIOUS
  <2>1. q.uid # r.uid /\ {q.at, r.at} \subseteq Nat /\ {q.uid, r.uid} \subseteq Nat
    BY <1>6, <1>7, UtilsAssumption DEF Stream, Time, Uids
  <2> QED BY <1>7, <2>1 DEF Precedes, cursorOf
<1> HIDE DEF r
<1>9. rest \in SUBSET rows /\ Cardinality(rest) < Cardinality(done)
  <2>1. IsFiniteSet(done) /\ Cardinality(done) \in Nat
    BY <1>2, <1>5
  <2>2. Cardinality(rest) = Cardinality(done) - 1
    BY <1>7, <2>1, FS_RemoveElement
  <2> QED BY <1>5, <2>1, <2>2
<1>10. after[rest] \in Good[rest]
  <2>1. ASSUME rest \in bad PROVE FALSE
    <3>1. Cardinality(rest) \in T
      BY <2>1
    <3> HIDE DEF T
    <3> QED BY <1>2, <1>3, <1>4, <1>5, <1>9, <3>1
  <2> QED BY <1>9, <2>1
<1>11. after[done] = Body(loop, after[rest], r)
  BY <1>1, <1>5 DEF Runs, r
<1>12. Body(loop, after[rest], r) \in Good[rest \cup {r}]
  <2> HIDE DEF rest
  <2>1. r \in rows \ rest
    BY <1>5, <1>7 DEF rest
  <2> QED BY <1>8, <1>9, <1>10, <2>1
<1>13. rest \cup {r} = done
  BY <1>7
<1> QED BY <1>4, <1>11, <1>12, <1>13

-----------------------------------------------------------------------------
(* What the loops of a round do.                                           *)

Works == [s : States, copy : Copies, budget : Nat, more : BOOLEAN,
          movedOut : SUBSET Uids, open : BOOLEAN, created : Copies]

\* A row of the folder, or of another one, as a round reads it.
SeenRow == [uid : Uids, at : Time, edit : Time \ {0}, deleted : BOOLEAN]

\* The held set is the items that the device has a copy of.
HeldIs(s, copy) == \A i \in Uids : i \in s.held <=> copy[i] # 0

Unmoved(w, v, i) == v.copy[i] = w.copy[i] /\ v.s.recent[i] = w.s.recent[i]

\* What the device has of an item once row r of the folder is worked off.
Outcome(w, r) ==
    IF r.uid \in w.movedOut \/ w.s.echoes[r.uid] = r.at THEN w.copy[r.uid]
    ELSE IF r.deleted THEN 0 ELSE r.edit

Settled(w, v, r) == v.s.recent[r.uid] = r.at /\ v.copy[r.uid] = Outcome(w, r)

LEMMA Constants ==
  /\ {Overlap, MoveSlack, MaxLag, MaxLost} \subseteq Nat
  /\ {WindowSize, MoveScanLimit, MaxCount} \subseteq Nat \ {0}
  /\ ReconcileLimit \in Nat /\ Merges \in BOOLEAN
  /\ MaxUid \in Nat /\ MaxTime \in Nat \ {0}
BY CollectionAssumption, UtilsAssumption

\* Every item that the device gets in another state takes a command of the window,
\* and a stream is left only when there is none.
Differ(w, v)  == {i \in Uids : v.copy[i] # w.copy[i]}
OpenOrFull(v) == v.open \/ v.budget = 0
Pays(w, v) ==
    /\ v.budget + Cardinality(Differ(w, v)) <= w.budget
    /\ OpenOrFull(w) => OpenOrFull(v)

LEMMA DifferFinite ==
  ASSUME NEW w, NEW v
  PROVE  IsFiniteSet(Differ(w, v)) /\ Cardinality(Differ(w, v)) \in Nat
<1>1. IsFiniteSet(Uids)
  BY FS_Interval, Constants DEF Uids
<1>2. Differ(w, v) \subseteq Uids
  BY DEF Differ
<1> QED BY <1>1, <1>2, FS_Subset, FS_CardinalityType

LEMMA PaysNothing ==
  ASSUME NEW w \in Works, NEW v, v.copy = w.copy, v.budget = w.budget,
         OpenOrFull(w) => OpenOrFull(v)
  PROVE  Pays(w, v)
<1>1. Differ(w, v) = {}
  BY DEF Differ
<1>2. w.budget \in Nat
  BY DEF Works
<1> QED BY <1>1, <1>2, FS_EmptySet DEF Pays

LEMMA PaysOne ==
  ASSUME NEW w \in Works, NEW v, NEW i \in Uids, w.budget # 0, v.budget = w.budget - 1,
         \A j \in Uids \ {i} : v.copy[j] = w.copy[j], v.open = w.open
  PROVE  Pays(w, v)
<1>1. Differ(w, v) \subseteq {i}
  BY DEF Differ
<1>2. IsFiniteSet({i}) /\ Cardinality({i}) = 1
  BY FS_Singleton
<1>3. Cardinality(Differ(w, v)) <= 1 /\ Cardinality(Differ(w, v)) \in Nat
  BY <1>1, <1>2, FS_Subset, DifferFinite
<1>4. w.budget \in Nat
  BY DEF Works
<1> QED BY <1>3, <1>4 DEF Pays, OpenOrFull

LEMMA PaysOn ==
  ASSUME NEW w \in Works, NEW v \in Works, NEW u \in Works, Pays(w, v), Pays(v, u)
  PROVE  Pays(w, u)
<1> DEFINE A == Differ(w, v)
           B == Differ(v, u)
           C == Differ(w, u)
<1>1. C \subseteq A \cup B
  BY DEF Differ
<1>2. IsFiniteSet(A) /\ IsFiniteSet(B) /\ IsFiniteSet(C)
      /\ {Cardinality(A), Cardinality(B), Cardinality(C)} \subseteq Nat
  BY DifferFinite
<1>3. {w.budget, v.budget, u.budget} \subseteq Nat
  BY DEF Works
<1>4. /\ v.budget + Cardinality(A) <= w.budget
      /\ u.budget + Cardinality(B) <= v.budget
      /\ OpenOrFull(w) => OpenOrFull(u)
  BY DEF Pays
<1> HIDE DEF A, B, C
<1>5. Cardinality(C) <= Cardinality(A) + Cardinality(B)
  <2>1. IsFiniteSet(A \cup B)
        /\ Cardinality(A \cup B) = Cardinality(A) + Cardinality(B) - Cardinality(A \cap B)
    BY <1>2, FS_Union
  <2>2. Cardinality(A \cap B) \in Nat
    BY <1>2, FS_Intersection, FS_CardinalityType
  <2>3. Cardinality(C) <= Cardinality(A \cup B)
    BY <1>1, <2>1, FS_Subset
  <2> QED BY <1>2, <2>1, <2>2, <2>3
<1>6. u.budget + Cardinality(C) <= w.budget
  BY <1>2, <1>3, <1>4, <1>5
<1> QED BY <1>4, <1>6 DEF Pays, C

SameButHeld(v, u) ==
    /\ u.s.cursor = v.s.cursor /\ u.s.moveCursor = v.s.moveCursor
    /\ u.s.echoes = v.s.echoes /\ u.s.recent = v.s.recent
    /\ u.s.reconcileCursor = v.s.reconcileCursor
    /\ u.created = v.created

\* What a command changes.
Reported(v, i, c, u) ==
    /\ u \in Works
    /\ \A j \in Uids : u.copy[j] = IF j = i THEN c ELSE v.copy[j]
    /\ u.s.held = IF c = 0 THEN v.s.held \ {i} ELSE v.s.held \cup {i}
    /\ SameButHeld(v, u)
    /\ u.movedOut = v.movedOut /\ u.open = v.open
    /\ u.budget = v.budget - 1 /\ Pays(v, u)

LEMMA Reports ==
  ASSUME NEW v \in Works, NEW i \in Uids, NEW c \in Time, v.budget # 0
  PROVE  Reported(v, i, c, Report(v, i, c))
<1> DEFINE u    == Report(v, i, c)
           held == IF c = 0 THEN v.s.held \ {i} ELSE v.s.held \cup {i}
           s    == [v.s EXCEPT !.held = held]
           copy == [v.copy EXCEPT ![i] = c]
<1>1. u = [v EXCEPT !.copy = copy, !.budget = v.budget - 1, !.s = s]
  BY DEF Report, Works
<1>2. v.budget - 1 \in Nat
  BY DEF Works
<1>3. v.s \in States /\ v.copy \in Copies
  BY DEF Works
<1>4. s \in States
  BY <1>3 DEF States
<1>5. copy \in Copies
  BY <1>3 DEF Copies
<1> HIDE DEF u, s, copy
<1>6. [v EXCEPT !.copy = copy, !.budget = v.budget - 1, !.s = s] \in Works
  BY <1>2, <1>4, <1>5 DEF Works
<1>7. u \in Works /\ u.s = s /\ u.copy = copy /\ u.movedOut = v.movedOut /\ u.open = v.open
      /\ u.created = v.created /\ u.budget = v.budget - 1
  BY <1>1, <1>6 DEF Works
<1>8. /\ s.held = held /\ s.cursor = v.s.cursor /\ s.moveCursor = v.s.moveCursor
      /\ s.echoes = v.s.echoes /\ s.recent = v.s.recent
      /\ s.reconcileCursor = v.s.reconcileCursor
  BY <1>3 DEF s, States
<1>9. \A j \in Uids : copy[j] = IF j = i THEN c ELSE v.copy[j]
  BY <1>3 DEF copy, Copies
<1>10. Pays(v, u)
  BY <1>7, <1>9, PaysOne
<1>11. Reported(v, i, c, u)
  BY <1>7, <1>8, <1>9, <1>10 DEF SameButHeld, Reported
<1> QED BY <1>11 DEF u

\* What the round makes of a row of the folder.
Worked(v, u, r) ==
    /\ u \in Works
    /\ HeldIs(u.s, u.copy)
    /\ \A i \in Uids \ {r.uid} : Unmoved(v, u, i)
    /\ IF u.open THEN Settled(v, u, r) ELSE Unmoved(v, u, r.uid)
    /\ u.s.cursor = v.s.cursor /\ u.s.moveCursor = v.s.moveCursor
    /\ u.s.echoes = v.s.echoes
    /\ u.movedOut = v.movedOut /\ u.created = v.created
    /\ Pays(v, u)

LEMMA FolderRow ==
  ASSUME NEW v \in Works, NEW r \in SeenRow, HeldIs(v.s, v.copy), v.open
  PROVE  Worked(v, processFolderRow(v, r), r)
<1> DEFINE u == processFolderRow(v, r)
<1> SUFFICES Worked(v, u, r)
  OBVIOUS
<1> DEFINE command == CommandFor(v, r)
           c == IF command = "Delete" THEN 0 ELSE r.edit
<1>1. /\ r.uid \in Uids /\ r.at \in Time /\ r.edit \in Time /\ r.edit # 0 /\ r.deleted \in BOOLEAN
      /\ v.s \in States /\ v.copy \in Copies /\ v.s.recent \in [Uids -> Time] /\ c \in Time
      /\ v.s.held \subseteq Uids
  BY Constants DEF SeenRow, Works, States, Time
<1>2. CASE command # "none" /\ v.budget = 0
  <2>1. u = [v EXCEPT !.open = FALSE, !.more = TRUE]
    BY <1>2 DEF processFolderRow, WindowFull
  <2> HIDE DEF u, command, c
  <2>2. u \in Works /\ u.s = v.s /\ u.copy = v.copy /\ ~u.open
        /\ u.movedOut = v.movedOut /\ u.created = v.created /\ u.budget = v.budget
    <3> QED BY <2>1 DEF Works
  <2>3. Pays(v, u)
    BY <1>2, <2>2, PaysNothing DEF OpenOrFull
  <2> QED BY <2>2, <2>3 DEF Unmoved, Worked
<1>3. CASE command = "none"
  <2>1. u = [v EXCEPT !.s.recent[r.uid] = r.at]
    BY <1>3 DEF processFolderRow
  <2> HIDE DEF u
  <2> DEFINE s == [v.s EXCEPT !.recent[r.uid] = r.at]
  <2>2. s \in States
    BY <1>1 DEF States
  <2>3. u = [v EXCEPT !.s = s]
    BY <2>1
  <2>4. u \in Works /\ u.s = s /\ u.copy = v.copy /\ u.open = v.open
        /\ u.movedOut = v.movedOut /\ u.created = v.created /\ u.budget = v.budget
    <3> HIDE DEF s
    <3> QED BY <2>2, <2>3 DEF Works
  <2>5. /\ s.recent = [v.s.recent EXCEPT ![r.uid] = r.at]
        /\ s.held = v.s.held /\ s.cursor = v.s.cursor /\ s.moveCursor = v.s.moveCursor
        /\ s.echoes = v.s.echoes
    BY <1>1 DEF States
  <2>6. Outcome(v, r) = v.copy[r.uid]
    BY <1>1, <1>3 DEF Outcome, CommandFor, HeldIs
  <2> HIDE DEF s, command
  <2>7. \A i \in Uids \ {r.uid} : Unmoved(v, u, i)
    BY <1>1, <2>4, <2>5 DEF Unmoved
  <2>8. Settled(v, u, r)
    BY <1>1, <2>4, <2>5, <2>6 DEF Settled
  <2>9. Pays(v, u)
    BY <2>4, PaysNothing DEF OpenOrFull
  <2> QED BY <2>4, <2>5, <2>7, <2>8, <2>9 DEF HeldIs, Worked
<1>4. CASE command # "none" /\ v.budget # 0
  <2> DEFINE p == Report(v, r.uid, c)
             s == [p.s EXCEPT !.recent[r.uid] = r.at]
             held == IF c = 0 THEN v.s.held \ {r.uid} ELSE v.s.held \cup {r.uid}
  <2>1. u = [p EXCEPT !.s.recent[r.uid] = r.at]
    BY <1>4 DEF processFolderRow
  <2> HIDE DEF u
  <2>2. /\ p \in Works
        /\ \A j \in Uids : p.copy[j] = IF j = r.uid THEN c ELSE v.copy[j]
        /\ p.s.held = held
        /\ SameButHeld(v, p)
        /\ p.movedOut = v.movedOut /\ p.open = v.open /\ p.budget = v.budget - 1
    <3>1. Reported(v, r.uid, c, p)
      <4>1. c \in Time /\ r.uid \in Uids /\ v.budget # 0
        BY <1>1, <1>4
      <4> HIDE DEF c
      <4> QED BY <4>1, Reports
    <3> HIDE DEF p, c
    <3> QED BY <3>1 DEF Reported
  <2>3. Outcome(v, r) = c
    BY <1>1, <1>4 DEF Outcome, CommandFor
  <2> HIDE DEF p, c, command
  <2>4. p.s \in States
    BY <2>2 DEF Works
  <2>5. s \in States
    BY <1>1, <2>4 DEF States
  <2>6. /\ s.recent = [v.s.recent EXCEPT ![r.uid] = r.at]
        /\ s.held = held /\ s.cursor = v.s.cursor /\ s.moveCursor = v.s.moveCursor
        /\ s.echoes = v.s.echoes
    BY <1>1, <2>2, <2>4 DEF States, SameButHeld
  <2>7. u = [p EXCEPT !.s = s]
    BY <2>1
  <2>8. u \in Works /\ u.s = s /\ u.copy = p.copy /\ u.open = p.open
        /\ u.movedOut = p.movedOut /\ u.created = p.created /\ u.budget = p.budget
    <3> HIDE DEF s
    <3> QED BY <2>2, <2>5, <2>7 DEF Works
  <2> HIDE DEF s
  <2>9. \A i \in Uids \ {r.uid} : Unmoved(v, u, i)
    BY <1>1, <2>2, <2>6, <2>8 DEF Unmoved
  <2>10. Settled(v, u, r)
    BY <1>1, <2>2, <2>3, <2>6, <2>8 DEF Settled, Copies
  <2>11. HeldIs(u.s, u.copy)
    BY <1>1, <2>2, <2>6, <2>8 DEF HeldIs, Copies
  <2>12. Pays(v, u)
    <3>1. /\ v.budget # 0 /\ u.budget = v.budget - 1 /\ u.open = v.open
          /\ \A j \in Uids \ {r.uid} : u.copy[j] = v.copy[j]
      BY <1>4, <2>2, <2>8
    <3> QED BY <1>1, <3>1, PaysOne
  <2> QED BY <2>2, <2>6, <2>8, <2>9, <2>10, <2>11, <2>12 DEF SameButHeld, Worked
<1> QED BY <1>2, <1>3, <1>4

-----------------------------------------------------------------------------
(* Items that left the folder.                                             *)

\* The items that left are gone from the device, the others as they were; the
\* folder's own stream is untouched.
Kept(w, v) ==
    /\ v \in Works /\ HeldIs(v.s, v.copy)
    /\ v.s.cursor = w.s.cursor /\ v.s.echoes = w.s.echoes /\ v.s.recent = w.s.recent
    /\ v.created = w.created
    /\ w.movedOut \subseteq v.movedOut
    /\ \A i \in Uids : v.copy[i] = IF i \in v.movedOut THEN 0 ELSE w.copy[i]
    /\ Pays(w, v)

UidsOf(rows) == {r.uid : r \in rows}

LEMMA KeptStill ==
  ASSUME NEW w \in Works, NEW v, Kept(w, v), NEW u, Kept(v, u)
  PROVE  Kept(w, u)
<1>1. Pays(w, u)
  BY PaysOn DEF Kept
<1> QED BY <1>1 DEF Kept

LEMMA LeftRow ==
  ASSUME NEW v \in Works, Kept(v, v), NEW r \in SeenRow, NEW u, u = processMoved(v, r)
  PROVE  /\ Kept(v, u) /\ u.s.moveCursor = v.s.moveCursor
         /\ u.movedOut \subseteq v.movedOut \cup {r.uid}
         /\ u.open => v.open /\ r.uid \in u.movedOut
         /\ ~v.open => u = v
<1>1. /\ r.uid \in Uids /\ v.s \in States /\ v.copy \in Copies /\ HeldIs(v.s, v.copy)
      /\ v.movedOut \subseteq Uids
  BY DEF SeenRow, Works, Kept
<1>2. CASE ~v.open
  BY <1>2 DEF processMoved
<1>3. CASE v.open /\ r.uid \notin v.s.held
  <2>1. u = [v EXCEPT !.movedOut = @ \cup {r.uid}]
    BY <1>3 DEF processMoved
  <2>2. /\ u \in Works /\ u.s = v.s /\ u.copy = v.copy /\ u.movedOut = v.movedOut \cup {r.uid}
        /\ u.open = v.open /\ u.created = v.created /\ u.budget = v.budget
    BY <1>1, <2>1 DEF Works
  <2>3. Pays(v, u)
    BY <2>2, PaysNothing DEF OpenOrFull
  <2> QED BY <1>1, <1>3, <2>2, <2>3 DEF Kept, HeldIs
<1>4. CASE v.open /\ r.uid \in v.s.held /\ v.budget = 0
  <2>1. u = [v EXCEPT !.open = FALSE, !.more = TRUE]
    BY <1>4 DEF processMoved, WindowFull
  <2>2. /\ u \in Works /\ u.s = v.s /\ u.copy = v.copy /\ u.movedOut = v.movedOut
        /\ ~u.open /\ u.created = v.created /\ u.budget = v.budget
    BY <1>1, <2>1 DEF Works
  <2>3. Pays(v, u)
    BY <1>4, <2>2, PaysNothing DEF OpenOrFull
  <2> QED BY <1>1, <1>4, <2>2, <2>3 DEF Kept
<1>5. CASE v.open /\ r.uid \in v.s.held /\ v.budget # 0
  <2> DEFINE p == Report(v, r.uid, 0)
  <2>1. u = [p EXCEPT !.movedOut = @ \cup {r.uid}]
    BY <1>5 DEF processMoved
  <2>2. Reported(v, r.uid, 0, p)
    BY <1>1, <1>5, Reports, Constants DEF Time
  <2> HIDE DEF p
  <2>3. /\ p \in Works /\ SameButHeld(v, p) /\ p.movedOut = v.movedOut /\ p.open = v.open
        /\ p.s.held = v.s.held \ {r.uid} /\ p.budget = v.budget - 1
        /\ \A j \in Uids : p.copy[j] = IF j = r.uid THEN 0 ELSE v.copy[j]
    BY <2>2 DEF Reported
  <2>4. /\ u \in Works /\ u.s = p.s /\ u.copy = p.copy /\ u.movedOut = v.movedOut \cup {r.uid}
        /\ u.open = v.open /\ u.created = p.created /\ u.budget = p.budget
    BY <1>1, <2>1, <2>3 DEF Works
  <2>5. Pays(v, u)
    <3>1. /\ v.budget # 0 /\ u.budget = v.budget - 1 /\ u.open = v.open
          /\ \A j \in Uids \ {r.uid} : u.copy[j] = v.copy[j]
      BY <1>5, <2>3, <2>4
    <3> QED BY <1>1, <3>1, PaysOne
  <2> QED BY <1>1, <1>5, <2>3, <2>4, <2>5 DEF Kept, SameButHeld, HeldIs
<1> QED BY <1>2, <1>3, <1>4, <1>5

\* The loop behind the cursor of the other folders.
MoveLateDone(w, v, done) ==
    /\ Kept(w, v) /\ v.s.moveCursor = w.s.moveCursor
    /\ v.movedOut \subseteq w.movedOut \cup UidsOf(done)
    /\ v.open => UidsOf(done) \subseteq v.movedOut

LEMMA MoveLateLoop ==
  ASSUME NEW w \in Works, Kept(w, w), NEW rows \in SUBSET SeenRow,
         IsFiniteSet(rows), Stream(rows)
  PROVE  MoveLateDone(w, Loop("moveLate", w, rows), rows)
<1> DEFINE Good == [done \in SUBSET rows |-> {v \in Works : MoveLateDone(w, v, done)}]
<1>1. w \in Good[{}]
  BY DEF MoveLateDone, UidsOf
<1>2. ASSUME NEW done \in SUBSET rows, NEW r \in rows \ done, NEW v \in Good[done]
      PROVE  Body("moveLate", v, r) \in Good[done \cup {r}]
  <2> DEFINE u == processMoved(v, r)
  <2>1. v \in Works /\ MoveLateDone(w, v, done) /\ r \in SeenRow
    OBVIOUS
  <2>2. Kept(v, v)
    <3>1. Pays(v, v)
      BY <2>1, PaysNothing
    <3> QED BY <2>1, <3>1 DEF MoveLateDone, Kept
  <2>3. /\ Kept(v, u) /\ u.s.moveCursor = v.s.moveCursor
        /\ u.movedOut \subseteq v.movedOut \cup {r.uid}
        /\ u.open => v.open /\ r.uid \in u.movedOut
    BY <2>1, <2>2, LeftRow
  <2>4. u = Body("moveLate", v, r)
    BY DEF Body
  <2> HIDE DEF u, Good
  <2>5. Kept(w, u) /\ u \in Works /\ v.movedOut \subseteq u.movedOut
    BY <2>1, <2>3, KeptStill DEF MoveLateDone, Kept
  <2>6. MoveLateDone(w, u, done \cup {r})
    BY <2>1, <2>3, <2>5 DEF MoveLateDone, UidsOf
  <2> QED BY <2>4, <2>5, <2>6 DEF Good
<1>3. Loop("moveLate", w, rows) \in Good[rows]
  <2> HIDE DEF Good
  <2> QED BY <1>1, <1>2, LoopInduction
<1> QED BY <1>3

\* The loop past that cursor: a row that was not worked off is still ahead of it.
MovePageDone(w, v, done) ==
    /\ Kept(w, v)
    /\ v.s.moveCursor = w.s.moveCursor \/ \E q \in done : v.s.moveCursor = cursorOf(q)
    /\ v.movedOut \subseteq w.movedOut \cup UidsOf(done)
    /\ v.open => UidsOf(done) \subseteq v.movedOut
    /\ \A q \in done : q.uid \in v.movedOut \/ Shows(v.s.moveCursor, q)

\* A cursor that is a row's own, or the one before it, shows the rows after it.
LEMMA ShowsLater ==
  ASSUME NEW c \in Cursor, NEW done, NEW r \in SeenRow, Shows(c, r),
         done \subseteq SeenRow, \A q \in done : Precedes(cursorOf(q), cursorOf(r)),
         NEW e, e = c \/ \E q \in done : e = cursorOf(q)
  PROVE  Shows(e, r)
<1>1. CASE e = c
  BY <1>1
<1>2. CASE e # c
  <2>1. PICK q \in done : e = cursorOf(q)
    BY <1>2
  <2>2. q \in SeenRow /\ q.uid \in Uids /\ q.uid # 0 /\ Precedes(cursorOf(q), cursorOf(r))
    BY UtilsAssumption DEF SeenRow, Uids
  <2> QED BY <2>1, <2>2 DEF Shows, After, cursorOf
<1> QED BY <1>1, <1>2

LEMMA MovePageLoop ==
  ASSUME NEW w \in Works, Kept(w, w), NEW rows \in SUBSET SeenRow,
         IsFiniteSet(rows), Stream(rows), \A q \in rows : Shows(w.s.moveCursor, q)
  PROVE  MovePageDone(w, Loop("movePage", w, rows), rows)
<1> DEFINE Good == [done \in SUBSET rows |-> {v \in Works : MovePageDone(w, v, done)}]
<1>1. w \in Good[{}]
  BY DEF MovePageDone, UidsOf
<1>2. ASSUME NEW done \in SUBSET rows, NEW r \in rows \ done, NEW v \in Good[done],
             \A q \in done : Precedes(cursorOf(q), cursorOf(r))
      PROVE  Body("movePage", v, r) \in Good[done \cup {r}]
  <2> DEFINE p == processMoved(v, r)
             u == MovedRow(v, r)
  <2>1. v \in Works /\ MovePageDone(w, v, done) /\ r \in SeenRow /\ done \subseteq SeenRow
    OBVIOUS
  <2>2. Kept(v, v)
    <3>1. Pays(v, v)
      BY <2>1, PaysNothing
    <3> QED BY <2>1, <3>1 DEF MovePageDone, Kept
  <2>3. /\ Kept(v, p) /\ p.s.moveCursor = v.s.moveCursor
        /\ p.movedOut \subseteq v.movedOut \cup {r.uid}
        /\ p.open => v.open /\ r.uid \in p.movedOut
    BY <2>1, <2>2, LeftRow
  <2>4. u = Body("movePage", v, r) /\ u = IF p.open THEN [p EXCEPT !.s.moveCursor = cursorOf(r)] ELSE p
    BY DEF Body, MovedRow
  <2>5. Shows(v.s.moveCursor, r)
    <3>1. w.s.moveCursor \in Cursor
      BY DEF Works, States
    <3> HIDE DEF Good
    <3> QED BY <1>2, <2>1, <3>1, ShowsLater DEF MovePageDone
  <2> HIDE DEF u, p, Good
  <2>6. Kept(w, p) /\ p \in Works /\ v.movedOut \subseteq p.movedOut
    BY <2>1, <2>3, KeptStill DEF MovePageDone, Kept
  <2>7. CASE p.open
    <3> DEFINE s == [p.s EXCEPT !.moveCursor = cursorOf(r)]
    <3>1. p.s \in States /\ cursorOf(r) \in Cursor
      BY <2>1, <2>6 DEF Works, cursorOf, Cursor, SeenRow
    <3>2. /\ s \in States /\ s.moveCursor = cursorOf(r) /\ s.cursor = p.s.cursor
          /\ s.echoes = p.s.echoes /\ s.recent = p.s.recent /\ s.held = p.s.held
      BY <3>1 DEF States
    <3> HIDE DEF s
    <3>3. u = [p EXCEPT !.s = s]
      BY <2>4, <2>7 DEF s
    <3>4. /\ u \in Works /\ u.s = s /\ u.copy = p.copy /\ u.movedOut = p.movedOut
          /\ u.open /\ u.created = p.created /\ u.budget = p.budget
      BY <2>6, <2>7, <3>2, <3>3 DEF Works
    <3>5. Pays(w, u)
      BY <2>6, <3>4 DEF Kept, Pays, Differ, OpenOrFull
    <3>5a. Kept(w, u)
      BY <2>6, <3>2, <3>4, <3>5 DEF Kept, HeldIs
    <3>6. MovePageDone(w, u, done \cup {r})
      BY <2>1, <2>3, <2>6, <2>7, <3>2, <3>4, <3>5a DEF MovePageDone, UidsOf
    <3> QED BY <2>4, <3>4, <3>6 DEF Good
  <2>8. CASE ~p.open
    <3>1. u = p
      BY <2>4, <2>8
    <3>2. MovePageDone(w, u, done \cup {r})
      BY <2>1, <2>3, <2>5, <2>6, <2>8, <3>1 DEF MovePageDone, UidsOf
    <3> QED BY <2>4, <2>6, <3>1, <3>2 DEF Good
  <2> QED BY <2>7, <2>8
<1>3. Loop("movePage", w, rows) \in Good[rows]
  <2> HIDE DEF Good
  <2> QED BY <1>1, <1>2, LoopInduction
<1> QED BY <1>3

-----------------------------------------------------------------------------
(* The folder's own stream.                                                *)

\* Another stream's part of the work is untouched.
SameButCopy(w, v) ==
    /\ v \in Works /\ HeldIs(v.s, v.copy)
    /\ v.s.moveCursor = w.s.moveCursor /\ v.s.echoes = w.s.echoes
    /\ v.movedOut = w.movedOut /\ v.created = w.created
    /\ Pays(w, v)

\* A row behind the cursor that the device is known to have is passed over.
LateSettled(w, v, r) ==
    \/ w.s.recent[r.uid] = r.at /\ Unmoved(w, v, r.uid)
    \/ Settled(w, v, r)

LateDone(w, v, done) ==
    /\ SameButCopy(w, v) /\ v.s.cursor = w.s.cursor
    /\ \A i \in Uids \ UidsOf(done) : Unmoved(w, v, i)
    /\ \A q \in done : LateSettled(w, v, q) \/ (~v.open /\ Unmoved(w, v, q.uid))

LEMMA LateLoop ==
  ASSUME NEW w \in Works, HeldIs(w.s, w.copy), NEW rows \in SUBSET SeenRow,
         IsFiniteSet(rows), Stream(rows)
  PROVE  LateDone(w, Loop("late", w, rows), rows)
<1> DEFINE Good == [done \in SUBSET rows |-> {v \in Works : LateDone(w, v, done)}]
<1>1. w \in Good[{}]
  BY PaysNothing DEF LateDone, SameButCopy, UidsOf, Unmoved
<1>2. ASSUME NEW done \in SUBSET rows, NEW r \in rows \ done, NEW v \in Good[done]
      PROVE  Body("late", v, r) \in Good[done \cup {r}]
  <2> DEFINE u == LateRow(v, r)
  <2>1. /\ v \in Works /\ LateDone(w, v, done) /\ r \in SeenRow /\ r.uid \in Uids
        /\ HeldIs(v.s, v.copy) /\ r.uid \notin UidsOf(done)
    BY DEF LateDone, SameButCopy, SeenRow, Stream, UidsOf
  <2>2. u = Body("late", v, r) /\ u = IF ~v.open \/ v.s.recent[r.uid] = r.at THEN v
                                      ELSE processFolderRow(v, r)
    BY DEF Body, LateRow
  <2>3. Unmoved(w, v, r.uid)
    BY <2>1 DEF LateDone
  <2> HIDE DEF u, Good
  <2>4. CASE ~v.open \/ v.s.recent[r.uid] = r.at
    <3>1. u = v
      BY <2>2, <2>4
    <3>2. LateSettled(w, v, r) \/ (~v.open /\ Unmoved(w, v, r.uid))
      BY <2>3, <2>4 DEF LateSettled, Unmoved
    <3>3. LateDone(w, u, done \cup {r})
      BY <2>1, <3>1, <3>2 DEF LateDone, UidsOf
    <3> QED BY <2>1, <2>2, <3>1, <3>3 DEF Good
  <2>5. CASE v.open /\ v.s.recent[r.uid] # r.at
    <3>1. Worked(v, u, r) /\ u \in Works
      BY <2>1, <2>2, <2>5, FolderRow DEF Worked
    <3>2. Outcome(v, r) = Outcome(w, r)
      BY <2>1, <2>3 DEF Outcome, LateDone, SameButCopy, Unmoved
    <3>3. \A i \in Uids \ {r.uid} : Unmoved(v, u, i)
      BY <3>1 DEF Worked
    <3>4. SameButCopy(w, u) /\ u.s.cursor = w.s.cursor
      <4>1. Pays(w, u)
        BY <2>1, <3>1, PaysOn DEF Worked, LateDone, SameButCopy
      <4> QED BY <2>1, <3>1, <4>1 DEF Worked, LateDone, SameButCopy
    <3>5. \A i \in Uids \ UidsOf(done \cup {r}) : Unmoved(w, u, i)
      BY <2>1, <3>3 DEF LateDone, Unmoved, UidsOf
    <3>6. LateSettled(w, u, r) \/ (~u.open /\ Unmoved(w, u, r.uid))
      BY <2>3, <3>1, <3>2 DEF Worked, LateSettled, Settled, Unmoved
    <3>7. ASSUME NEW q \in done
          PROVE  LateSettled(w, u, q) \/ (~u.open /\ Unmoved(w, u, q.uid))
      <4>1. q.uid \in Uids \ {r.uid} /\ Unmoved(v, u, q.uid)
        BY <2>1, <3>3 DEF SeenRow, UidsOf
      <4>2. LateSettled(w, v, q)
        BY <2>1, <2>5 DEF LateDone
      <4> QED BY <4>1, <4>2 DEF LateSettled, Settled, Unmoved
    <3>8. LateDone(w, u, done \cup {r})
      BY <3>4, <3>5, <3>6, <3>7 DEF LateDone
    <3> QED BY <2>2, <3>1, <3>8 DEF Good
  <2> QED BY <2>4, <2>5
<1>3. Loop("late", w, rows) \in Good[rows]
  <2> HIDE DEF Good
  <2> QED BY <1>1, <1>2, LoopInduction
<1> QED BY <1>3

\* The loop past the cursor: a row that was not worked off is still ahead of it.
PageDone(w, v, done) ==
    /\ SameButCopy(w, v)
    /\ v.s.cursor = w.s.cursor \/ \E q \in done : v.s.cursor = cursorOf(q)
    /\ \A i \in Uids \ UidsOf(done) : Unmoved(w, v, i)
    /\ \A q \in done :
          Settled(w, v, q) \/ (~v.open /\ Unmoved(w, v, q.uid) /\ Shows(v.s.cursor, q))

LEMMA PageLoop ==
  ASSUME NEW w \in Works, HeldIs(w.s, w.copy), NEW rows \in SUBSET SeenRow,
         IsFiniteSet(rows), Stream(rows), \A q \in rows : Shows(w.s.cursor, q)
  PROVE  PageDone(w, Loop("page", w, rows), rows)
<1> DEFINE Good == [done \in SUBSET rows |-> {v \in Works : PageDone(w, v, done)}]
<1>1. w \in Good[{}]
  BY PaysNothing DEF PageDone, SameButCopy, UidsOf, Unmoved
<1>2. ASSUME NEW done \in SUBSET rows, NEW r \in rows \ done, NEW v \in Good[done],
             \A q \in done : Precedes(cursorOf(q), cursorOf(r))
      PROVE  Body("page", v, r) \in Good[done \cup {r}]
  <2> DEFINE p == processFolderRow(v, r)
             u == PageRow(v, r)
  <2>1. /\ v \in Works /\ PageDone(w, v, done) /\ r \in SeenRow /\ r.uid \in Uids
        /\ HeldIs(v.s, v.copy) /\ r.uid \notin UidsOf(done) /\ done \subseteq SeenRow
    BY DEF PageDone, SameButCopy, SeenRow, Stream, UidsOf
  <2>2. u = Body("page", v, r)
    BY DEF Body
  <2>3. Unmoved(w, v, r.uid)
    BY <2>1 DEF PageDone
  <2>4. Shows(v.s.cursor, r)
    <3>1. w.s.cursor \in Cursor
      BY DEF Works, States
    <3> HIDE DEF Good
    <3> QED BY <1>2, <2>1, <3>1, ShowsLater DEF PageDone
  <2>5. CASE ~v.open
    <3>1. u = v
      BY <2>5 DEF PageRow
    <3> HIDE DEF u, Good
    <3>2. PageDone(w, u, done \cup {r})
      BY <2>1, <2>3, <2>4, <2>5, <3>1 DEF PageDone, UidsOf
    <3> QED BY <2>1, <2>2, <3>1, <3>2 DEF Good
  <2>6. CASE v.open
    <3>1. u = IF p.open THEN [p EXCEPT !.s.cursor = cursorOf(r)] ELSE p
      BY <2>6 DEF PageRow
    <3>2. Worked(v, p, r)
      BY <2>1, <2>6, FolderRow
    <3> HIDE DEF u, p, Good
    <3> DEFINE s == [p.s EXCEPT !.cursor = cursorOf(r)]
    <3>3. p \in Works /\ p.s \in States /\ cursorOf(r) \in Cursor
      BY <2>1, <3>2 DEF Worked, Works, cursorOf, Cursor, SeenRow
    <3>4. /\ s \in States /\ s.cursor = cursorOf(r) /\ s.moveCursor = p.s.moveCursor
          /\ s.echoes = p.s.echoes /\ s.recent = p.s.recent /\ s.held = p.s.held
      BY <3>3 DEF States
    <3> HIDE DEF s
    <3>5. /\ u \in Works /\ u.s = IF p.open THEN s ELSE p.s
          /\ u.copy = p.copy /\ u.movedOut = p.movedOut
          /\ u.open = p.open /\ u.created = p.created /\ u.budget = p.budget
      <4>1. CASE p.open
        <5>1. u = [p EXCEPT !.s = s]
          BY <3>1, <4>1 DEF s
        <5> QED BY <3>3, <3>4, <4>1, <5>1 DEF Works
      <4>2. CASE ~p.open
        BY <3>1, <3>3, <4>2
      <4> QED BY <4>1, <4>2
    <3>6. Outcome(v, r) = Outcome(w, r)
      BY <2>1, <2>3 DEF Outcome, PageDone, SameButCopy, Unmoved
    <3>7. \A i \in Uids \ {r.uid} : Unmoved(v, u, i)
      BY <3>2, <3>4, <3>5 DEF Worked, Unmoved
    <3>8. SameButCopy(w, u)
      <4>1. Pays(w, p)
        BY <2>1, <3>2, PaysOn DEF Worked, PageDone, SameButCopy
      <4>2. Pays(w, u)
        BY <3>5, <4>1 DEF Pays, Differ, OpenOrFull
      <4> QED BY <2>1, <3>2, <3>4, <3>5, <4>2 DEF Worked, PageDone, SameButCopy, HeldIs
    <3>9. u.s.cursor = IF p.open THEN cursorOf(r) ELSE v.s.cursor
      BY <3>2, <3>4, <3>5 DEF Worked
    <3>10. \A i \in Uids \ UidsOf(done \cup {r}) : Unmoved(w, u, i)
      BY <2>1, <3>7 DEF PageDone, Unmoved, UidsOf
    <3>11. IF p.open THEN Settled(w, u, r)
           ELSE Unmoved(w, u, r.uid) /\ Shows(u.s.cursor, r)
      BY <2>3, <2>4, <3>2, <3>4, <3>5, <3>6, <3>9 DEF Worked, Settled, Unmoved
    <3>12. ASSUME NEW q \in done PROVE Settled(w, u, q)
      <4>1. q.uid \in Uids \ {r.uid} /\ Unmoved(v, u, q.uid)
        BY <2>1, <3>7 DEF SeenRow, UidsOf
      <4>2. Settled(w, v, q)
        BY <2>1, <2>6 DEF PageDone
      <4> QED BY <4>1, <4>2 DEF Settled, Unmoved
    <3>13. PageDone(w, u, done \cup {r})
      BY <2>1, <3>5, <3>8, <3>9, <3>10, <3>11, <3>12 DEF PageDone
    <3> QED BY <2>2, <3>5, <3>13 DEF Good
  <2> QED BY <2>5, <2>6
<1>3. Loop("page", w, rows) \in Good[rows]
  <2> HIDE DEF Good
  <2> QED BY <1>1, <1>2, LoopInduction
<1> QED BY <1>3

-----------------------------------------------------------------------------
(* Looking held items up.                                                  *)

\* Items that are not there any more are gone from the device, with their echo.
There(i) == row[i].place = "here" /\ ~row[i].deleted

LookupDone(w, v) ==
    /\ v \in Works /\ HeldIs(v.s, v.copy)
    /\ v.s.cursor = w.s.cursor /\ v.s.moveCursor = w.s.moveCursor
    /\ v.s.recent = w.s.recent
    /\ v.movedOut = w.movedOut /\ v.created = w.created
    /\ Pays(w, v)
    /\ \A i \in Uids :
          \/ v.copy[i] = w.copy[i] /\ v.s.echoes[i] = w.s.echoes[i]
          \/ ~There(i) /\ v.copy[i] = 0 /\ v.s.echoes[i] = 0

LEMMA LookedUpOne ==
  ASSUME NEW v \in Works, HeldIs(v.s, v.copy), NEW i \in Uids
  PROVE  LookupDone(v, LookedUp(v, i))
<1> DEFINE u == LookedUp(v, i)
<1>1. /\ v.s \in States /\ v.copy \in Copies
      /\ u = CASE ~v.open                            -> v
               [] v.open /\ ~There(i) /\ v.budget = 0 -> WindowFull(v)
               [] OTHER -> [(IF There(i) THEN v ELSE [Report(v, i, 0) EXCEPT !.s.echoes[i] = 0])
                              EXCEPT !.s.reconcileCursor = i]
  BY DEF LookedUp, There, Works
<1> SUFFICES LookupDone(v, u)
  OBVIOUS
<1> HIDE DEF u
<1>2. CASE ~v.open
  BY <1>1, <1>2, PaysNothing DEF LookupDone
<1>3. CASE v.open /\ ~There(i) /\ v.budget = 0
  <2>1. u = [v EXCEPT !.open = FALSE, !.more = TRUE]
    BY <1>1, <1>3 DEF WindowFull
  <2>2. u \in Works /\ u.s = v.s /\ u.copy = v.copy /\ u.movedOut = v.movedOut
        /\ u.created = v.created /\ u.budget = v.budget
    BY <2>1 DEF Works
  <2>3. Pays(v, u)
    BY <1>3, <2>2, PaysNothing DEF OpenOrFull
  <2> QED BY <2>2, <2>3 DEF LookupDone
<1>4. CASE v.open /\ There(i)
  <2> DEFINE s == [v.s EXCEPT !.reconcileCursor = i]
  <2>1. u = [v EXCEPT !.s = s]
    BY <1>1, <1>4
  <2>2. /\ s \in States /\ s.cursor = v.s.cursor /\ s.moveCursor = v.s.moveCursor
        /\ s.echoes = v.s.echoes /\ s.recent = v.s.recent /\ s.held = v.s.held
    BY <1>1 DEF States
  <2> HIDE DEF s
  <2>3. u \in Works /\ u.s = s /\ u.copy = v.copy /\ u.movedOut = v.movedOut
        /\ u.created = v.created /\ u.budget = v.budget /\ u.open = v.open
    BY <2>1, <2>2 DEF Works
  <2>4. Pays(v, u)
    BY <2>3, PaysNothing DEF OpenOrFull
  <2> QED BY <2>2, <2>3, <2>4 DEF LookupDone, HeldIs
<1>5. CASE v.open /\ ~There(i) /\ v.budget # 0
  <2> DEFINE p == Report(v, i, 0)
             s == [p.s EXCEPT !.echoes[i] = 0, !.reconcileCursor = i]
  <2>1. u = [[p EXCEPT !.s.echoes[i] = 0] EXCEPT !.s.reconcileCursor = i]
    BY <1>1, <1>5
  <2>2. 0 \in Time
    BY Constants DEF Time
  <2>3. Reported(v, i, 0, p)
    BY <1>5, <2>2, Reports
  <2> HIDE DEF p
  <2>4. /\ p \in Works /\ SameButHeld(v, p) /\ p.movedOut = v.movedOut
        /\ p.s.held = v.s.held \ {i} /\ p.budget = v.budget - 1 /\ p.open = v.open
        /\ \A j \in Uids : p.copy[j] = IF j = i THEN 0 ELSE v.copy[j]
    BY <2>3 DEF Reported
  <2>5. p.s \in States
    BY <2>4 DEF Works
  <2>6. /\ s \in States /\ s.cursor = p.s.cursor /\ s.moveCursor = p.s.moveCursor
        /\ s.recent = p.s.recent /\ s.held = p.s.held
        /\ \A j \in Uids : s.echoes[j] = IF j = i THEN 0 ELSE p.s.echoes[j]
    BY <2>2, <2>5 DEF States
  <2>7. u = [p EXCEPT !.s = s]
    BY <2>1, <2>4, <2>5 DEF Works, States
  <2> HIDE DEF s
  <2>8. u \in Works /\ u.s = s /\ u.copy = p.copy /\ u.movedOut = p.movedOut
        /\ u.created = p.created /\ u.budget = p.budget /\ u.open = p.open
    BY <2>4, <2>6, <2>7 DEF Works
  <2>9. Pays(v, u)
    <3>1. /\ v.budget # 0 /\ u.budget = v.budget - 1 /\ u.open = v.open
          /\ \A j \in Uids \ {i} : u.copy[j] = v.copy[j]
      BY <1>5, <2>4, <2>8
    <3> QED BY <3>1, PaysOne
  <2> QED BY <1>1, <1>5, <2>4, <2>6, <2>8, <2>9 DEF LookupDone, HeldIs, SameButHeld
<1> QED BY <1>2, <1>3, <1>4, <1>5

LEMMA LookupLoop ==
  ASSUME NEW w \in Works, HeldIs(w.s, w.copy), NEW rows, IsFiniteSet(rows), Stream(rows)
  PROVE  LookupDone(w, Loop("lookup", w, rows))
<1> DEFINE Good == [done \in SUBSET rows |-> {v \in Works : LookupDone(w, v)}]
<1>1. w \in Good[{}]
  BY PaysNothing DEF LookupDone
<1>2. ASSUME NEW done \in SUBSET rows, NEW r \in rows \ done, NEW v \in Good[done]
      PROVE  Body("lookup", v, r) \in Good[done \cup {r}]
  <2> DEFINE u == LookedUp(v, r.uid)
  <2>1. v \in Works /\ LookupDone(w, v) /\ r.uid \in Uids /\ HeldIs(v.s, v.copy)
    BY DEF LookupDone, Stream
  <2>2. LookupDone(v, u)
    BY <2>1, LookedUpOne
  <2>3. u = Body("lookup", v, r)
    BY DEF Body
  <2> HIDE DEF u, Good
  <2>4. LookupDone(w, u)
    <3>1. Pays(w, u)
      BY <2>1, <2>2, PaysOn DEF LookupDone
    <3> QED BY <2>1, <2>2, <3>1 DEF LookupDone
  <2>5. u \in Works
    BY <2>2 DEF LookupDone
  <2> QED BY <2>3, <2>4, <2>5 DEF Good
<1>3. Loop("lookup", w, rows) \in Good[rows]
  <2> HIDE DEF Good
  <2> QED BY <1>1, <1>2, LoopInduction
<1> QED BY <1>3

-----------------------------------------------------------------------------
(* Types.                                                                  *)

PageRead == [rows : SUBSET SeenRow, more : BOOLEAN]
ReadType == [late : SUBSET SeenRow, page : PageRead, holds : BOOLEAN,
             moveLate : SUBSET SeenRow, movePage : PageRead, startedAt : Time]

\* State x of item i, as a stream shows it.
Version(i, x) == [uid |-> i, at |-> x.at, edit |-> x.edit, deleted |-> x.deleted]
Here(i)  == row[i].place = "here"
Away(i)  == row[i].place = "elsewhere"

\* A row has been written by the time it is shown, and a write is newer than what
\* it replaces and commits in time.
Written(i) ==
    /\ row[i].place \in {"none", "purged"} => row[i].at = 0
    /\ Here(i) \/ Away(i) => 1 <= row[i].edit /\ row[i].edit <= row[i].at
    /\ row[i].at <= clock
    /\ pending[i] # NoWrite =>
          /\ row[i].place # "purged"
          /\ pending[i].place \in {"here", "elsewhere"}
          /\ row[i].at < pending[i].at
          /\ pending[i].at <= clock
          /\ clock <= pending[i].at + MaxLag
          /\ 1 <= pending[i].edit
          /\ pending[i].edit <= pending[i].at

Streamed(rows) == IsFiniteSet(rows) /\ Stream(rows)

Base ==
    /\ TypeOK /\ work \in Works /\ read \in ReadType
    /\ clock >= 1
    /\ \A i \in Uids : Written(i)
    /\ HeldIs(coll, device)
    /\ HeldIs(work.s, work.copy)
    /\ work.movedOut = {}
    /\ Streamed(read.late) /\ Streamed(read.page.rows) /\ Streamed(read.moveLate)
    /\ \A r \in read.page.rows : Shows(work.s.cursor, r)
    /\ read.movePage = NoPage
    /\ pc \in {"idle", "commands", "reconcile", "answer"} => read = NoRead

LEMMA RowsInPlace ==
  ASSUME Base, NEW place \in {"here", "elsewhere"}
  PROVE  /\ InPlace(place) \subseteq SeenRow
         /\ \A rows \in SUBSET InPlace(place) : Streamed(rows)
         /\ \A r : r \in InPlace(place) <=>
                r.uid \in Uids /\ row[r.uid].place = place /\ r = Version(r.uid, row[r.uid])
<1>1. \A i \in Uids : row[i].place = place =>
          row[i] \in Row /\ row[i].edit # 0 /\ Version(i, row[i]) \in SeenRow
  <2> SUFFICES ASSUME NEW i \in Uids, row[i].place = place
               PROVE  row[i] \in Row /\ row[i].edit # 0 /\ Version(i, row[i]) \in SeenRow
    OBVIOUS
  <2>1. row[i] \in Row /\ row[i].edit >= 1
    BY DEF Base, TypeOK, Written, Here, Away
  <2> QED BY <2>1, Constants DEF Row, Version, SeenRow, Time
<1>2. InPlace(place) = {Version(i, row[i]) : i \in {j \in Uids : row[j].place = place}}
  BY DEF InPlace, Version
<1>3. IsFiniteSet(InPlace(place))
  <2>1. IsFiniteSet(Uids)
    BY FS_Interval, Constants DEF Uids
  <2>2. IsFiniteSet({j \in Uids : row[j].place = place})
    BY <2>1, FS_Subset
  <2> DEFINE S == {j \in Uids : row[j].place = place}
             f == [i \in S |-> Version(i, row[i])]
  <2>3. f \in Surjection(S, {Version(i, row[i]) : i \in S})
    BY DEF Surjection
  <2> HIDE DEF S, f
  <2>4. IsFiniteSet({Version(i, row[i]) : i \in S})
    BY <2>2, <2>3, FS_Surjection DEF S
  <2> QED BY <1>2, <2>4 DEF S
<1>4. InPlace(place) \subseteq SeenRow
  BY <1>1, <1>2
<1>5. Stream(InPlace(place))
  BY <1>2, <1>4 DEF Stream, SeenRow, Version
<1>6. \A rows \in SUBSET InPlace(place) : Streamed(rows)
  BY <1>3, <1>5, FS_Subset DEF Streamed, Stream
<1> QED BY <1>2, <1>4, <1>6 DEF Version

\* What a command of the device makes of the work.
Commanded(w, v, i, echo, copy, made) ==
    /\ v \in Works /\ HeldIs(v.s, v.copy)
    /\ v.s.cursor = w.s.cursor /\ v.s.moveCursor = w.s.moveCursor
    /\ v.s.recent = w.s.recent /\ v.movedOut = w.movedOut /\ v.budget = w.budget
    /\ \A j \in Uids :
          /\ v.copy[j] = IF j = i THEN copy ELSE w.copy[j]
          /\ v.s.echoes[j] = IF j = i THEN echo ELSE w.s.echoes[j]
          /\ v.created[j] = IF j = i THEN made ELSE w.created[j]

NotedBy(w, i, at, u) ==
    /\ u \in Works
    /\ u.s.held = w.s.held \cup {i}
    /\ \A j \in Uids : u.s.echoes[j] = IF j = i THEN at ELSE w.s.echoes[j]
    /\ u.s.cursor = w.s.cursor /\ u.s.moveCursor = w.s.moveCursor
    /\ u.s.recent = w.s.recent
    /\ u.copy = w.copy /\ u.movedOut = w.movedOut /\ u.created = w.created
    /\ u.budget = w.budget

LEMMA NotedWork ==
  ASSUME NEW w \in Works, NEW i \in Uids, NEW at \in Time
  PROVE  NotedBy(w, i, at, Noted(w, i, at))
<1> DEFINE s == [w.s EXCEPT !.held = @ \cup {i}, !.echoes[i] = at]
           u == Noted(w, i, at)
<1>1. w.s \in States
  BY DEF Works
<1>2. u = [w EXCEPT !.s = s]
  BY <1>1 DEF Noted, Works, States
<1>3. /\ s \in States /\ s.held = w.s.held \cup {i}
      /\ \A j \in Uids : s.echoes[j] = IF j = i THEN at ELSE w.s.echoes[j]
      /\ s.cursor = w.s.cursor /\ s.moveCursor = w.s.moveCursor /\ s.recent = w.s.recent
  BY <1>1 DEF States
<1> HIDE DEF s, u
<1>4. u \in Works /\ u.s = s /\ u.copy = w.copy /\ u.movedOut = w.movedOut
      /\ u.created = w.created /\ u.budget = w.budget
  BY <1>2, <1>3 DEF Works
<1>5. NotedBy(w, i, at, u)
  BY <1>3, <1>4 DEF NotedBy
<1> QED BY <1>5 DEF u

LEMMA CommandWork ==
  ASSUME Base, NEW i \in Uids
  PROVE  /\ applyAdd(i) => Commanded(work, work', i, clock, clock, clock)
         /\ replayAdd(i) => Commanded(work, work', i, row[i].at, created[i], created[i])
         /\ applyChange(i) => Commanded(work, work', i, clock, work.copy[i], work.created[i])
         /\ applyDelete(i) => Commanded(work, work', i, 0, 0, work.created[i])
<1>1. /\ work \in Works /\ work.s \in States /\ HeldIs(work.s, work.copy)
      /\ work.copy \in Copies /\ work.created \in Copies
      /\ clock \in Time /\ clock # 0 /\ created[i] \in Time /\ row[i].at \in Time /\ 0 \in Time
  BY Constants DEF Base, TypeOK, Works, Copies, Row, Time
<1>2. ASSUME NEW at \in Time, NEW made \in Time, made # 0,
             work' = [Noted(work, i, at) EXCEPT !.copy[i] = made, !.created[i] = made]
      PROVE  Commanded(work, work', i, at, made, made)
  <2> DEFINE p == Noted(work, i, at)
  <2>0. NotedBy(work, i, at, p)
    BY <1>1, NotedWork
  <2> HIDE DEF p
  <2>1. /\ p \in Works /\ p.s.held = work.s.held \cup {i}
        /\ \A j \in Uids : p.s.echoes[j] = IF j = i THEN at ELSE work.s.echoes[j]
        /\ p.s.cursor = work.s.cursor /\ p.s.moveCursor = work.s.moveCursor
        /\ p.s.recent = work.s.recent
        /\ p.copy = work.copy /\ p.movedOut = work.movedOut /\ p.created = work.created
        /\ p.budget = work.budget
    BY <2>0 DEF NotedBy
  <2> DEFINE copy == [work.copy EXCEPT ![i] = made]
             maker == [work.created EXCEPT ![i] = made]
  <2>2. /\ copy \in Copies /\ maker \in Copies
        /\ \A j \in Uids : copy[j] = IF j = i THEN made ELSE work.copy[j]
        /\ \A j \in Uids : maker[j] = IF j = i THEN made ELSE work.created[j]
    BY <1>1 DEF Copies
  <2>3. work' = [p EXCEPT !.copy = copy, !.created = maker]
    BY <1>2, <2>1 DEF Works, p
  <2> HIDE DEF copy, maker
  <2>4. work' \in Works /\ work'.s = p.s /\ work'.copy = copy /\ work'.created = maker
        /\ work'.movedOut = p.movedOut /\ work'.budget = p.budget
    BY <2>1, <2>2, <2>3 DEF Works
  <2>5. HeldIs(work'.s, work'.copy)
    <3> SUFFICES ASSUME NEW j \in Uids PROVE j \in work'.s.held <=> work'.copy[j] # 0
      BY DEF HeldIs
    <3>1. j \in work.s.held <=> work.copy[j] # 0
      BY <1>1 DEF HeldIs
    <3> QED BY <1>2, <2>1, <2>2, <2>4, <3>1
  <2> QED BY <2>1, <2>2, <2>4, <2>5 DEF Commanded
<1>3. applyAdd(i) => Commanded(work, work', i, clock, clock, clock)
  BY <1>1, <1>2 DEF applyAdd
<1>4. replayAdd(i) => Commanded(work, work', i, row[i].at, created[i], created[i])
  BY <1>1, <1>2 DEF replayAdd
<1>5. applyChange(i) => Commanded(work, work', i, clock, work.copy[i], work.created[i])
  <2> SUFFICES ASSUME applyChange(i)
               PROVE  Commanded(work, work', i, clock, work.copy[i], work.created[i])
    OBVIOUS
  <2>1. NotedBy(work, i, clock, work') /\ i \in work.s.held
    BY <1>1, NotedWork DEF applyChange
  <2>2. HeldIs(work'.s, work'.copy)
    BY <1>1, <2>1 DEF HeldIs, NotedBy
  <2> QED BY <2>1, <2>2 DEF NotedBy, Commanded
<1>6. ASSUME applyDelete(i) PROVE Commanded(work, work', i, 0, 0, work.created[i])
  <2> DEFINE s == [work.s EXCEPT !.held = @ \ {i}, !.echoes[i] = 0]
             copy == [work.copy EXCEPT ![i] = 0]
  <2>1. work' = [work EXCEPT !.s = s, !.copy = copy]
    BY <1>1, <1>6 DEF applyDelete, Works, States
  <2>2. /\ s \in States /\ s.held = work.s.held \ {i}
        /\ \A j \in Uids : s.echoes[j] = IF j = i THEN 0 ELSE work.s.echoes[j]
        /\ s.cursor = work.s.cursor /\ s.moveCursor = work.s.moveCursor
        /\ s.recent = work.s.recent
    BY <1>1 DEF States
  <2>3. copy \in Copies /\ \A j \in Uids : copy[j] = IF j = i THEN 0 ELSE work.copy[j]
    BY <1>1 DEF Copies
  <2> HIDE DEF s, copy
  <2>4. work' \in Works /\ work'.s = s /\ work'.copy = copy /\ work'.created = work.created
        /\ work'.movedOut = work.movedOut /\ work'.budget = work.budget
    BY <1>1, <2>1, <2>2, <2>3 DEF Works
  <2>5. HeldIs(work'.s, work'.copy)
    BY <1>1, <2>2, <2>3, <2>4 DEF HeldIs
  <2> QED BY <2>2, <2>3, <2>4, <2>5 DEF Commanded
<1> QED BY <1>3, <1>4, <1>5, <1>6

-----------------------------------------------------------------------------
(* What a round makes of everything it has read.                           *)

Streams(w, r) ==
    /\ r \in ReadType
    /\ Streamed(r.late) /\ Streamed(r.page.rows)
    /\ Streamed(r.moveLate) /\ Streamed(r.movePage.rows)
    /\ \A q \in r.page.rows : Shows(w.s.cursor, q)
    /\ \A q \in r.movePage.rows : Shows(w.s.moveCursor, q)

\* Where the out-of-folder cursor is taken to while the device holds nothing.
Floor(now) == [date |-> IF now > MoveSlack THEN now - MoveSlack ELSE 0, uid |-> 0]

MovesDone(w, v, r) ==
    /\ Kept(w, v)
    /\ IF r.holds
       THEN /\ v.movedOut \subseteq UidsOf(r.moveLate) \cup UidsOf(r.movePage.rows)
            /\ MoveLate(w, r).open => UidsOf(r.moveLate) \subseteq v.movedOut
            /\ w.open /\ v.budget # 0 =>
                  UidsOf(r.moveLate) \cup UidsOf(r.movePage.rows) \subseteq v.movedOut
            /\ \A q \in r.movePage.rows : q.uid \in v.movedOut \/ Shows(v.s.moveCursor, q)
            /\ \/ v.s.moveCursor = w.s.moveCursor
               \/ \E q \in r.movePage.rows : v.s.moveCursor = cursorOf(q)
       ELSE /\ v.movedOut = {}
            /\ v.s.moveCursor \in {w.s.moveCursor, Floor(r.startedAt)}

LEMMA MovedStreamDone ==
  ASSUME NEW w \in Works, HeldIs(w.s, w.copy), w.movedOut = {}, NEW r, Streams(w, r)
  PROVE  MovesDone(w, MovedStream(w, r), r)
<1> DEFINE u == MovedStream(w, r)
<1>1. Kept(w, w) /\ r.startedAt \in Time /\ r.holds \in BOOLEAN /\ w.s \in States
  BY PaysNothing DEF Kept, Streams, ReadType, Works
<1>2. CASE r.holds
  <2> DEFINE p == MoveLate(w, r)
             q == [p EXCEPT !.open = TRUE]
  <2>1. MoveLateDone(w, p, r.moveLate)
    <3>1. r.moveLate \in SUBSET SeenRow /\ IsFiniteSet(r.moveLate) /\ Stream(r.moveLate)
      BY DEF Streams, ReadType, Streamed
    <3> QED BY <1>1, <3>1, MoveLateLoop DEF MoveLate
  <2>2. u = Loop("movePage", q, r.movePage.rows)
    BY <1>2 DEF MovedStream
  <2> HIDE DEF u, p
  <2>3. p \in Works /\ Kept(w, p) /\ p.s.moveCursor = w.s.moveCursor
        /\ p.movedOut \subseteq UidsOf(r.moveLate)
        /\ (p.open => UidsOf(r.moveLate) \subseteq p.movedOut)
    BY <2>1 DEF MoveLateDone, Kept
  <2>4. q \in Works /\ q.s = p.s /\ q.copy = p.copy /\ q.movedOut = p.movedOut
        /\ q.created = p.created /\ q.budget = p.budget /\ q.open
    BY <2>3 DEF Works
  <2> HIDE DEF q
  <2>5. Kept(w, q) /\ Kept(q, q)
    <3>1. Pays(w, q)
      BY <2>3, <2>4 DEF Kept, Pays, Differ, OpenOrFull
    <3>2. Pays(q, q)
      BY <2>4, PaysNothing
    <3> QED BY <2>3, <2>4, <3>1, <3>2 DEF Kept
  <2>6. MovePageDone(q, u, r.movePage.rows)
    <3>1. r.movePage.rows \in SUBSET SeenRow /\ IsFiniteSet(r.movePage.rows)
          /\ Stream(r.movePage.rows)
      BY DEF Streams, ReadType, PageRead, Streamed
    <3>2. \A x \in r.movePage.rows : Shows(q.s.moveCursor, x)
      BY <2>3, <2>4 DEF Streams
    <3> QED BY <2>2, <2>4, <2>5, <3>1, <3>2, MovePageLoop
  <2>7. Kept(w, u)
    BY <2>5, <2>6, KeptStill DEF MovePageDone
  <2>8. /\ u.movedOut \subseteq UidsOf(r.moveLate) \cup UidsOf(r.movePage.rows)
        /\ p.open => UidsOf(r.moveLate) \subseteq u.movedOut
    BY <2>3, <2>4, <2>6 DEF MovePageDone, Kept
  <2>9. /\ \A x \in r.movePage.rows : x.uid \in u.movedOut \/ Shows(u.s.moveCursor, x)
        /\ \/ u.s.moveCursor = w.s.moveCursor
           \/ \E x \in r.movePage.rows : u.s.moveCursor = cursorOf(x)
    BY <2>3, <2>4, <2>6 DEF MovePageDone
  <2>10. ASSUME w.open, u.budget # 0
         PROVE  UidsOf(r.moveLate) \cup UidsOf(r.movePage.rows) \subseteq u.movedOut
    <3>1. Pays(w, p) /\ Pays(q, u) /\ u \in Works
      BY <2>3, <2>6 DEF MovePageDone, Kept
    <3>2. OpenOrFull(p) /\ OpenOrFull(u)
      BY <2>4, <2>10, <3>1 DEF Pays, OpenOrFull
    <3>3. p.budget # 0
      <4>1. {u.budget, q.budget, Cardinality(Differ(q, u))} \subseteq Nat
        BY <2>4, <3>1, DifferFinite DEF Works
      <4> QED BY <2>4, <2>10, <3>1, <4>1 DEF Pays
    <3>4. p.open /\ u.open
      BY <2>10, <3>2, <3>3 DEF OpenOrFull
    <3> QED BY <2>8, <2>6, <3>4 DEF MovePageDone
  <2> QED BY <1>2, <2>7, <2>8, <2>9, <2>10 DEF MovesDone, p, u
<1>3. CASE ~r.holds
  <2>1. u = IF Precedes(w.s.moveCursor, Floor(r.startedAt))
            THEN [w EXCEPT !.s.moveCursor = Floor(r.startedAt)] ELSE w
    BY <1>3 DEF MovedStream, FastForward, Floor
  <2> HIDE DEF u
  <2>2. CASE u = w
    BY <1>1, <1>3, <2>2 DEF MovesDone, u
  <2>3. CASE u = [w EXCEPT !.s.moveCursor = Floor(r.startedAt)]
    <3> DEFINE s == [w.s EXCEPT !.moveCursor = Floor(r.startedAt)]
    <3>1. Floor(r.startedAt) \in Cursor
      BY <1>1, Constants DEF Floor, Cursor, Time
    <3>2. /\ s \in States /\ s.moveCursor = Floor(r.startedAt) /\ s.cursor = w.s.cursor
          /\ s.echoes = w.s.echoes /\ s.recent = w.s.recent /\ s.held = w.s.held
      BY <1>1, <3>1 DEF States
    <3>3. u = [w EXCEPT !.s = s]
      BY <2>3
    <3> HIDE DEF s
    <3>4. /\ u \in Works /\ u.s = s /\ u.copy = w.copy /\ u.movedOut = w.movedOut
          /\ u.created = w.created /\ u.budget = w.budget /\ u.open = w.open
      BY <3>2, <3>3 DEF Works
    <3>5. Kept(w, u)
      <4>1. Pays(w, u)
        BY <3>4, PaysNothing DEF OpenOrFull
      <4> QED BY <1>1, <3>2, <3>4, <4>1 DEF Kept, HeldIs
    <3> QED BY <1>3, <3>2, <3>4, <3>5 DEF MovesDone, u
  <2> QED BY <2>1, <2>2, <2>3
<1> QED BY <1>1, <1>2, <1>3

\* Echoes and `recent` are kept or forgotten.
PrunedFrom(w, v) ==
    /\ v \in Works /\ HeldIs(v.s, v.copy) /\ v.copy = w.copy /\ v.created = w.created
    /\ v.budget = w.budget
    /\ v.s.cursor = w.s.cursor /\ v.s.moveCursor = w.s.moveCursor
    /\ \A i \in Uids : /\ v.s.echoes[i] \in {0, w.s.echoes[i]}
                       /\ v.s.recent[i] \in {0, w.s.recent[i]}

LEMMA PrunedDone ==
  ASSUME NEW w \in Works, HeldIs(w.s, w.copy)
  PROVE  PrunedFrom(w, Pruned(w))
<1> DEFINE e == [i \in Uids |-> IF Precedes(w.s.cursor, [date |-> w.s.echoes[i], uid |-> i])
                                THEN w.s.echoes[i] ELSE 0]
           f == [i \in Uids |-> IF w.s.recent[i] >= w.s.cursor.date - Overlap
                                THEN w.s.recent[i] ELSE 0]
           s == [w.s EXCEPT !.echoes = e, !.recent = f]
           u == Pruned(w)
<1>1. w.s \in States /\ 0 \in Time
  BY Constants DEF Works, Time
<1>2. u = [w EXCEPT !.s = s]
  BY <1>1 DEF Pruned, Works, States
<1>3. e \in [Uids -> Time] /\ f \in [Uids -> Time]
  BY <1>1 DEF States
<1>4. \A i \in Uids : e[i] \in {0, w.s.echoes[i]} /\ f[i] \in {0, w.s.recent[i]}
  OBVIOUS
<1> HIDE DEF e, f
<1>5. /\ s \in States /\ s.cursor = w.s.cursor /\ s.moveCursor = w.s.moveCursor
      /\ s.held = w.s.held /\ s.echoes = e /\ s.recent = f
  BY <1>1, <1>3 DEF States
<1> HIDE DEF s, u
<1>6. /\ u \in Works /\ u.s = s /\ u.copy = w.copy /\ u.created = w.created
      /\ u.budget = w.budget
  BY <1>2, <1>5 DEF Works
<1> QED BY <1>4, <1>5, <1>6 DEF PrunedFrom, HeldIs, u

Started(w, r)    == [w EXCEPT !.more = r.page.more \/ r.movePage.more]
AfterMoves(w, r) == MovedStream(Started(w, r), r)
AfterLate(w, r)  == FolderLate(AfterMoves(w, r), r)

EnumeratedBy(w, r, u) ==
    \E x, v \in Works :
        /\ x = Started(w, r)
        /\ x.s = w.s /\ x.copy = w.copy /\ x.movedOut = {} /\ x.created = w.created
        /\ MovesDone(x, AfterMoves(w, r), r)
        /\ LateDone(AfterMoves(w, r), AfterLate(w, r), r.late)
        /\ PageDone(AfterLate(w, r), v, r.page.rows)
        /\ PrunedFrom(v, u) /\ u.movedOut = {}
        /\ x.budget = w.budget /\ x.open = w.open
        /\ OpenOrFull(AfterLate(w, r)) /\ OpenOrFull(v)
        /\ Pays(w, u)

LEMMA EnumeratedDone ==
  ASSUME NEW w \in Works, HeldIs(w.s, w.copy), w.movedOut = {}, NEW r, Streams(w, r)
  PROVE  EnumeratedBy(w, r, Enumerated(w, r))
<1> DEFINE x  == Started(w, r)
           v1 == AfterMoves(w, r)
           y  == [v1 EXCEPT !.open = TRUE]
           v2 == AfterLate(w, r)
           z  == [v2 EXCEPT !.open = TRUE]
           v3 == FolderStream(v1, r)
           v4 == Pruned(v3)
           u  == Enumerated(w, r)
<1>1. r.page.more \in BOOLEAN /\ r.movePage.more \in BOOLEAN /\ r \in ReadType
      /\ r.late \in SUBSET SeenRow /\ r.page.rows \in SUBSET SeenRow
      /\ IsFiniteSet(r.late) /\ Stream(r.late)
      /\ IsFiniteSet(r.page.rows) /\ Stream(r.page.rows)
  BY DEF Streams, ReadType, PageRead, Streamed
<1>2. x \in Works /\ x.s = w.s /\ x.copy = w.copy /\ x.movedOut = {} /\ x.created = w.created
      /\ x.budget = w.budget /\ x.open = w.open
  BY <1>1 DEF Works, Started
<1>3. MovesDone(x, v1, r)
  <2>1. v1 = MovedStream(x, r)
    BY DEF AfterMoves
  <2> HIDE DEF x, v1
  <2>2. Streams(x, r)
    BY <1>2 DEF Streams
  <2> QED BY <1>2, <2>1, <2>2, MovedStreamDone
<1>4. v2 = Loop("late", y, r.late) /\ v3 = Loop("page", z, r.page.rows)
  BY DEF AfterLate, FolderLate, FolderStream
<1>5. u = [v4 EXCEPT !.movedOut = {}, !.open = TRUE]
  BY DEF Enumerated, AfterMoves, Started
<1> HIDE DEF x, v1, v2, v3, v4, u
<1>6. v1 \in Works /\ HeldIs(v1.s, v1.copy) /\ v1.s.cursor = w.s.cursor
  BY <1>2, <1>3 DEF MovesDone, Kept
<1>7. y \in Works /\ y.s = v1.s /\ y.copy = v1.copy /\ y.movedOut = v1.movedOut
      /\ y.created = v1.created /\ y.budget = v1.budget /\ y.open
  BY <1>6 DEF Works
<1> HIDE DEF y
<1>8. LateDone(y, v2, r.late)
  BY <1>1, <1>4, <1>6, <1>7, LateLoop
<1>9. LateDone(v1, v2, r.late)
  <2>1. Pays(v1, v2)
    BY <1>7, <1>8 DEF LateDone, SameButCopy, Pays, Differ, OpenOrFull
  <2> QED BY <1>7, <1>8, <2>1 DEF LateDone, SameButCopy, LateSettled, Settled, Unmoved, Outcome
<1>10. v2 \in Works /\ HeldIs(v2.s, v2.copy) /\ v2.s.cursor = w.s.cursor
  BY <1>6, <1>9 DEF LateDone, SameButCopy
<1>11. z \in Works /\ z.s = v2.s /\ z.copy = v2.copy /\ z.movedOut = v2.movedOut
      /\ z.created = v2.created /\ z.budget = v2.budget /\ z.open
  BY <1>10 DEF Works
<1> HIDE DEF z
<1>12. PageDone(z, v3, r.page.rows)
  <2>1. \A q \in r.page.rows : Shows(z.s.cursor, q)
    BY <1>10, <1>11 DEF Streams
  <2> QED BY <1>1, <1>4, <1>10, <1>11, <2>1, PageLoop
<1>13. PageDone(v2, v3, r.page.rows)
  <2>1. Pays(v2, v3)
    BY <1>11, <1>12 DEF PageDone, SameButCopy, Pays, Differ, OpenOrFull
  <2> QED BY <1>11, <1>12, <2>1 DEF PageDone, SameButCopy, Settled, Unmoved, Outcome
<1>14. v3 \in Works /\ HeldIs(v3.s, v3.copy)
  BY <1>13 DEF PageDone, SameButCopy
<1>15. PrunedFrom(v3, v4)
  BY <1>14, PrunedDone DEF v4
<1>16. PrunedFrom(v3, u) /\ u.movedOut = {} /\ u.open
  <2>1. v4 \in Works
    BY <1>15 DEF PrunedFrom
  <2>2. u \in Works /\ u.s = v4.s /\ u.copy = v4.copy /\ u.movedOut = {} /\ u.created = v4.created
        /\ u.budget = v4.budget /\ u.open
    BY <1>5, <2>1 DEF Works
  <2> QED BY <1>15, <2>2 DEF PrunedFrom
<1>17. OpenOrFull(v2) /\ OpenOrFull(v3)
  BY <1>7, <1>8, <1>11, <1>12 DEF LateDone, PageDone, SameButCopy, Pays, OpenOrFull
<1>18. Pays(w, u)
  <2>1. Pays(x, v1) /\ Pays(v1, v2) /\ Pays(v2, v3)
    BY <1>3, <1>9, <1>13 DEF MovesDone, Kept, LateDone, PageDone, SameButCopy
  <2>2. Pays(w, v3)
    <3>1. Pays(w, x)
      BY <1>2, PaysNothing DEF OpenOrFull
    <3>2. Pays(w, v1)
      BY <1>2, <1>6, <2>1, <3>1, PaysOn
    <3>3. Pays(w, v2)
      BY <1>6, <1>10, <2>1, <3>2, PaysOn
    <3> QED BY <1>10, <1>14, <2>1, <3>3, PaysOn
  <2> QED BY <1>16, <2>2 DEF PrunedFrom, Pays, Differ, OpenOrFull
<1> QED BY <1>2, <1>3, <1>9, <1>13, <1>14, <1>16, <1>17, <1>18 DEF EnumeratedBy, x, v1, v2, u

LEMMA ReconciledDone ==
  ASSUME NEW w \in Works, HeldIs(w.s, w.copy)
  PROVE  LookupDone(w, Reconciled(w))
<1> DEFINE rows == {[at |-> 0, uid |-> i] : i \in {j \in w.s.held : j > w.s.reconcileCursor}}
           v    == Loop("lookup", w, Slice(w))
           u    == Reconciled(w)
<1>1. w.s \in States /\ w.s.held \subseteq Uids /\ 0 \in Time
  BY Constants DEF Works, States, Time
<1>2. IsFiniteSet(rows)
  <2> DEFINE S == {j \in w.s.held : j > w.s.reconcileCursor}
             f == [i \in S |-> [at |-> 0, uid |-> i]]
  <2>1. IsFiniteSet(S)
    <3>1. S \subseteq Uids
      BY <1>1
    <3>2. IsFiniteSet(Uids)
      BY FS_Interval, Constants DEF Uids
    <3> QED BY <3>1, <3>2, FS_Subset
  <2>2. f \in Surjection(S, rows)
    BY DEF Surjection
  <2> HIDE DEF S, f, rows
  <2> QED BY <2>1, <2>2, FS_Surjection
<1>3. Stream(rows)
  BY <1>1 DEF Stream
<1>4. Slice(w) = FirstOf(rows, ReconcileLimit)
  BY DEF Slice
<1> HIDE DEF rows
<1>5. Slice(w) \subseteq rows
  BY <1>2, <1>3, <1>4, FirstRows, Constants
<1>6. IsFiniteSet(Slice(w)) /\ Stream(Slice(w))
  BY <1>2, <1>3, <1>5, FS_Subset DEF Stream
<1>7. LookupDone(w, v)
  BY <1>6, LookupLoop
<1>8. u = IF v.open /\ Cardinality(Slice(w)) < ReconcileLimit
          THEN [v EXCEPT !.s.reconcileCursor = 0] ELSE [v EXCEPT !.open = TRUE]
  BY DEF Reconciled
<1> HIDE DEF u, v
<1>9. v \in Works /\ v.s \in States
  BY <1>7 DEF LookupDone, Works
<1> DEFINE s == [v.s EXCEPT !.reconcileCursor = 0]
<1>10. CASE u = [v EXCEPT !.s.reconcileCursor = 0]
  <2>1. /\ s \in States /\ s.cursor = v.s.cursor /\ s.moveCursor = v.s.moveCursor
        /\ s.echoes = v.s.echoes /\ s.recent = v.s.recent /\ s.held = v.s.held
    BY <1>9 DEF States
  <2>2. u = [v EXCEPT !.s = s]
    BY <1>10
  <2> HIDE DEF s
  <2>3. /\ u \in Works /\ u.s = s /\ u.copy = v.copy /\ u.movedOut = v.movedOut
        /\ u.created = v.created /\ u.budget = v.budget /\ u.open = v.open
    BY <1>9, <2>1, <2>2 DEF Works
  <2>4. Pays(w, u)
    BY <1>7, <2>3 DEF LookupDone, Pays, Differ, OpenOrFull
  <2> QED BY <1>7, <2>1, <2>3, <2>4 DEF LookupDone, HeldIs, u
<1>11. CASE u = [v EXCEPT !.open = TRUE]
  <2>1. /\ u \in Works /\ u.s = v.s /\ u.copy = v.copy /\ u.movedOut = v.movedOut
        /\ u.created = v.created /\ u.budget = v.budget /\ u.open
    BY <1>9, <1>11 DEF Works
  <2>2. Pays(w, u)
    BY <1>7, <2>1 DEF LookupDone, Pays, Differ, OpenOrFull
  <2> QED BY <1>7, <2>1, <2>2 DEF LookupDone, u
<1> QED BY <1>8, <1>10, <1>11

\* What a round has read when it goes through it.
LEMMA PageStreams ==
  ASSUME Base, pc = "page"
  PROVE  Streams(work, WithFolderPage) /\ WithFolderPage \in ReadType
<1> DEFINE page == scanAfter(InPlace("here"), work.s.cursor, WindowSize)
           u == WithFolderPage
<1>1. page.rows = FirstOf(After(InPlace("here"), work.s.cursor), WindowSize) /\ page.more \in BOOLEAN
  BY DEF scanAfter
<1>2. /\ InPlace("here") \subseteq SeenRow
      /\ \A rows \in SUBSET InPlace("here") : Streamed(rows)
  BY RowsInPlace
<1>3. After(InPlace("here"), work.s.cursor) \in SUBSET InPlace("here")
      /\ \A q \in After(InPlace("here"), work.s.cursor) : Shows(work.s.cursor, q)
  BY DEF After, Shows
<1>4. page.rows \subseteq After(InPlace("here"), work.s.cursor)
  <2> DEFINE found == After(InPlace("here"), work.s.cursor)
  <2>1. IsFiniteSet(found) /\ Stream(found) /\ WindowSize \in Nat
    BY <1>2, <1>3, Constants DEF Streamed
  <2>2. page.rows = FirstOf(found, WindowSize)
    BY <1>1
  <2> HIDE DEF found, page
  <2>3. page.rows \subseteq found
    BY <2>1, <2>2, FirstRows
  <2> QED BY <2>3 DEF found
<1>5. page = [rows |-> page.rows, more |-> page.more]
  BY DEF scanAfter
<1>6. u = [read EXCEPT !.page = page, !.holds = work.s.held # {}]
  BY DEF WithFolderPage
<1>7. read \in ReadType
  BY DEF Base
<1> HIDE DEF page, u
<1>8. page \in PageRead /\ Streamed(page.rows)
  BY <1>1, <1>2, <1>3, <1>4, <1>5 DEF PageRead
<1>9. /\ u \in ReadType /\ u.late = read.late /\ u.page = page /\ u.moveLate = read.moveLate
      /\ u.movePage = read.movePage /\ u.startedAt = read.startedAt
  BY <1>6, <1>7, <1>8 DEF ReadType
<1>10. Streamed(u.movePage.rows) /\ u.movePage.rows = {}
  BY <1>2, <1>9 DEF Base, NoPage
<1> QED BY <1>3, <1>4, <1>8, <1>9, <1>10 DEF Base, Streams, u

LEMMA MovePageStreams ==
  ASSUME Base
  PROVE  Streams(work, WithMovePage)
<1> DEFINE page == scanAfter(InPlace("elsewhere"), work.s.moveCursor, MoveScanLimit)
           u == WithMovePage
<1>1. page.rows = FirstOf(After(InPlace("elsewhere"), work.s.moveCursor), MoveScanLimit)
      /\ page.more \in BOOLEAN
  BY DEF scanAfter
<1>2. /\ InPlace("elsewhere") \subseteq SeenRow
      /\ \A rows \in SUBSET InPlace("elsewhere") : Streamed(rows)
  BY RowsInPlace
<1>3. After(InPlace("elsewhere"), work.s.moveCursor) \in SUBSET InPlace("elsewhere")
      /\ \A q \in After(InPlace("elsewhere"), work.s.moveCursor) : Shows(work.s.moveCursor, q)
  BY DEF After, Shows
<1>4. page.rows \subseteq After(InPlace("elsewhere"), work.s.moveCursor)
  <2> DEFINE found == After(InPlace("elsewhere"), work.s.moveCursor)
  <2>1. IsFiniteSet(found) /\ Stream(found) /\ MoveScanLimit \in Nat
    BY <1>2, <1>3, Constants DEF Streamed
  <2>2. page.rows = FirstOf(found, MoveScanLimit)
    BY <1>1
  <2> HIDE DEF found, page
  <2>3. page.rows \subseteq found
    BY <2>1, <2>2, FirstRows
  <2> QED BY <2>3 DEF found
<1>5. page = [rows |-> page.rows, more |-> page.more]
  BY DEF scanAfter
<1>6. u = [read EXCEPT !.movePage = page]
  BY DEF WithMovePage
<1>7. read \in ReadType
  BY DEF Base
<1> HIDE DEF page, u
<1>8. page \in PageRead /\ Streamed(page.rows)
  BY <1>1, <1>2, <1>3, <1>4, <1>5 DEF PageRead
<1>9. /\ u \in ReadType /\ u.late = read.late /\ u.page = read.page /\ u.moveLate = read.moveLate
      /\ u.movePage = page /\ u.startedAt = read.startedAt
  BY <1>6, <1>7, <1>8 DEF ReadType
<1> QED BY <1>3, <1>4, <1>8, <1>9 DEF Base, Streams, u

LEMMA ProcessWork ==
  ASSUME Base, NEW r, Streams(work, r), Process(r)
  PROVE  EnumeratedBy(work, r, work') /\ read' = NoRead /\ pc' \in {"reconcile", "answer"}
<1>1. EnumeratedBy(work, r, Enumerated(work, r))
  BY EnumeratedDone DEF Base
<1> QED BY <1>1 DEF Process

LEMMA BaseInit == Init => Base
<1> SUFFICES ASSUME Init PROVE Base
  OBVIOUS
<1>1. 0 \in Time /\ 1 \in Time /\ 0 \in 0..WindowSize /\ 0 \in 0..MaxLost
  BY Constants DEF Time
<1>2. /\ clock = 1 /\ row = [i \in Uids |-> NoRow] /\ pending = [i \in Uids |-> NoWrite]
      /\ device = Never /\ coll = NoState /\ created = Never /\ pc = "idle"
      /\ read = NoRead /\ work = NoWork /\ lost = 0
  BY DEF Init
<1>3. NoRow \in Row /\ NoWrite \in Row /\ Never \in Copies
  BY <1>1 DEF NoRow, NoWrite, Row, Never, Copies
<1>4. NoState \in States
  BY <1>1, <1>3 DEF NoState, States, Epoch, Cursor, Copies
<1>5. NoWork \in Works /\ NoWork.budget = 0
  BY <1>1, <1>3, <1>4 DEF NoWork, Works
<1>6. NoRead \in ReadType /\ NoRead.late = {} /\ NoRead.page.rows = {} /\ NoRead.moveLate = {}
      /\ NoRead.movePage = NoPage
  BY <1>1 DEF NoRead, NoPage, ReadType, PageRead
<1>7. TypeOK
  BY <1>1, <1>2, <1>3, <1>4, <1>5 DEF TypeOK, Works
<1>8. \A i \in Uids : Written(i)
  BY <1>2 DEF Written, NoRow, Here, Away
<1>9. Streamed({})
  BY FS_EmptySet DEF Streamed, Stream
<1>10. HeldIs(coll, device) /\ HeldIs(work.s, work.copy) /\ work.movedOut = {}
  BY <1>2 DEF HeldIs, NoState, NoWork, Never
<1> QED BY <1>1, <1>2, <1>5, <1>6, <1>7, <1>8, <1>9, <1>10 DEF Base

\* A step that leaves the round alone has to keep the types of the store.
LEMMA BaseStore ==
  ASSUME Base, UNCHANGED <<device, coll, created, pc, read, work>>,
         clock' \in Time, clock' >= 1, row' \in [Uids -> Row], pending' \in [Uids -> Row],
         lost' \in 0..MaxLost, \A i \in Uids : Written(i)'
  PROVE  Base'
<1>1. TypeOK'
  BY DEF Base, TypeOK
<1> QED BY <1>1 DEF Base

LEMMA TickBase ==
  ASSUME Base, Tick
  PROVE  Base'
<1>1. clock' \in Time /\ clock' >= 1
  BY Constants DEF Base, TypeOK, Tick, Time
<1>2. ASSUME NEW i \in Uids PROVE Written(i)'
  <2>1. Written(i) /\ row[i] \in Row /\ pending[i] \in Row
    BY DEF Base, TypeOK
  <2>2. /\ row' = row /\ pending' = pending /\ clock' = clock + 1 /\ clock \in Nat
        /\ pending[i] # NoWrite => clock < pending[i].at + MaxLag
    BY Constants DEF Tick, Base, TypeOK, Time
  <2>3. row[i].at \in Nat /\ pending[i].at \in Nat /\ MaxLag \in Nat
    BY <2>1, Constants DEF Row, Time
  <2> QED BY <2>1, <2>2, <2>3 DEF Written, Here, Away
<1> QED BY <1>1, <1>2, BaseStore DEF Tick, Base, TypeOK

LEMMA WritesDone ==
  ASSUME Base, NEW i \in Uids, row[i].at < clock, NEW r \in Writes(row[i])
  PROVE  /\ r \in Row /\ r.place \in {"here", "elsewhere"} /\ r.at = clock
         /\ 1 <= r.edit /\ r.edit <= r.at
         /\ row[i].place # "purged"
<1>1. Written(i) /\ row[i] \in Row /\ clock \in Time /\ clock \in Nat /\ clock >= 1
  BY Constants DEF Base, TypeOK, Time
<1>2. row[i].at \in Nat /\ row[i].edit \in Nat /\ row[i].edit \in Time
  BY <1>1, Constants DEF Row, Time
<1> DEFINE now == [row[i] EXCEPT !.at = clock]
<1>0. now \in Row /\ now.at = clock /\ now.edit = row[i].edit /\ now.place = row[i].place
  BY <1>1 DEF Row
<1>3. CASE row[i].place = "none"
  <2>1. r = [now EXCEPT !.place = "here", !.edit = clock]
    BY <1>3 DEF Writes
  <2> HIDE DEF now
  <2>2. r \in Row /\ r.place = "here" /\ r.at = now.at /\ r.edit = clock
    BY <1>0, <1>1, <2>1 DEF Row
  <2> QED BY <1>0, <1>1, <1>3, <2>2
<1>4. CASE row[i].place = "here" /\ ~row[i].deleted
  <2>1. r \in {[now EXCEPT !.edit = clock], [now EXCEPT !.place = "elsewhere"],
               [now EXCEPT !.deleted = TRUE]}
    BY <1>4 DEF Writes
  <2>2. 1 <= row[i].edit /\ row[i].edit <= clock
    BY <1>1, <1>2, <1>4 DEF Written, Here
  <2> HIDE DEF now
  <2>3. CASE r = [now EXCEPT !.edit = clock]
    <3>1. r \in Row /\ r.place = now.place /\ r.at = now.at /\ r.edit = clock
      BY <1>0, <1>1, <2>3 DEF Row
    <3> QED BY <1>0, <1>1, <1>4, <3>1
  <2>4. CASE r = [now EXCEPT !.place = "elsewhere"]
    <3>1. r \in Row /\ r.place = "elsewhere" /\ r.at = now.at /\ r.edit = now.edit
      BY <1>0, <2>4 DEF Row
    <3> QED BY <1>0, <1>4, <2>2, <3>1
  <2>5. CASE r = [now EXCEPT !.deleted = TRUE]
    <3>1. r \in Row /\ r.place = now.place /\ r.at = now.at /\ r.edit = now.edit
      BY <1>0, <2>5 DEF Row
    <3> QED BY <1>0, <1>4, <2>2, <3>1
  <2> QED BY <2>1, <2>3, <2>4, <2>5
<1>5. CASE row[i].place = "elsewhere"
  <2>1. r = [now EXCEPT !.place = "here"]
    BY <1>5 DEF Writes
  <2>2. 1 <= row[i].edit /\ row[i].edit <= clock
    BY <1>1, <1>2, <1>5 DEF Written, Away
  <2> HIDE DEF now
  <2>3. r \in Row /\ r.place = "here" /\ r.at = now.at /\ r.edit = now.edit
    BY <1>0, <2>1 DEF Row
  <2> QED BY <1>0, <1>5, <2>2, <2>3
<1>6. CASE ~(row[i].place = "none") /\ ~(row[i].place = "here" /\ ~row[i].deleted)
           /\ ~(row[i].place = "elsewhere")
  <2>1. Writes(row[i]) = {}
    BY <1>6 DEF Writes
  <2> QED BY <2>1
<1> QED BY <1>3, <1>4, <1>5, <1>6

LEMMA StampBase ==
  ASSUME Base, NEW i \in Uids, Stamp(i)
  PROVE  Base'
<1>1. PICK r \in Writes(row[i]) : pending' = [pending EXCEPT ![i] = r]
  BY DEF Stamp
<1>2. /\ r \in Row /\ r.place \in {"here", "elsewhere"} /\ r.at = clock
      /\ 1 <= r.edit /\ r.edit <= r.at /\ row[i].place # "purged"
  BY WritesDone DEF Stamp
<1>3. pending \in [Uids -> Row] /\ row' = row /\ clock' = clock /\ row[i].at < clock
      /\ clock \in Nat /\ MaxLag \in Nat
  BY Constants DEF Stamp, Base, TypeOK, Time
<1>4. ASSUME NEW j \in Uids PROVE Written(j)'
  BY <1>1, <1>2, <1>3 DEF Base, Written, Here, Away
<1>5. pending' \in [Uids -> Row]
  BY <1>1, <1>2, <1>3
<1> QED BY <1>4, <1>5, BaseStore DEF Stamp, Base, TypeOK

LEMMA CommitBase ==
  ASSUME Base, NEW i \in Uids, Commit(i)
  PROVE  Base'
<1>1. /\ row' = [row EXCEPT ![i] = pending[i]] /\ pending' = [pending EXCEPT ![i] = NoWrite]
      /\ pending[i] # NoWrite /\ clock' = clock
      /\ row \in [Uids -> Row] /\ pending \in [Uids -> Row] /\ NoWrite \in Row
  BY Constants DEF Commit, Base, TypeOK, NoWrite, Row, Time
<1>2. ASSUME NEW j \in Uids PROVE Written(j)'
  BY <1>1 DEF Base, Written, Here, Away
<1>3. row' \in [Uids -> Row] /\ pending' \in [Uids -> Row]
  BY <1>1
<1> QED BY <1>2, <1>3, BaseStore DEF Commit, Base, TypeOK

LEMMA PurgeBase ==
  ASSUME Base, NEW i \in Uids, Purge(i)
  PROVE  Base'
<1> DEFINE none == [NoRow EXCEPT !.place = "purged"]
<1>1. /\ row' = [row EXCEPT ![i] = none] /\ UNCHANGED <<clock, pending>> /\ pending[i] = NoWrite
      /\ row \in [Uids -> Row]
  BY DEF Purge, Base, TypeOK
<1>2. none \in Row /\ none.place = "purged" /\ none.at = 0
  <2>1. 0 \in Time
    BY Constants DEF Time
  <2>2. NoRow \in Row /\ NoRow.at = 0
    BY <2>1 DEF NoRow, Row
  <2> QED BY <2>2 DEF Row
<1> HIDE DEF none
<1>3. ASSUME NEW j \in Uids PROVE Written(j)'
  BY <1>1, <1>2, Constants DEF Base, Written, Here, Away, TypeOK, Time
<1>4. row' \in [Uids -> Row]
  BY <1>1, <1>2
<1> QED BY <1>3, <1>4, BaseStore DEF Purge, Base, TypeOK

\* A round's own step has to keep the types of the work and of what was read.
LEMMA BaseRound ==
  ASSUME Base, UNCHANGED <<clock, pending, coll, device, created, lost>>,
         row' \in [Uids -> Row], \A i \in Uids : Written(i)',
         pc' \in {"idle", "commands", "page", "moveLate", "movePage", "reconcile", "answer"},
         work' \in Works, HeldIs(work'.s, work'.copy), work'.movedOut = {},
         work'.budget \in 0..WindowSize, read' \in ReadType, read'.movePage = NoPage,
         Streamed(read'.late), Streamed(read'.page.rows), Streamed(read'.moveLate),
         \A r \in read'.page.rows : Shows(work'.s.cursor, r),
         pc' \in {"idle", "commands", "reconcile", "answer"} => read' = NoRead
  PROVE  Base'
<1>1. TypeOK'
  BY DEF Base, TypeOK, Works
<1> QED BY <1>1 DEF Base

LEMMA NothingRead ==
  /\ NoRead \in ReadType /\ NoRead.movePage = NoPage
  /\ NoRead.late = {} /\ NoRead.page.rows = {} /\ NoRead.moveLate = {}
  /\ NoRead.page = NoPage /\ Streamed({})
<1>1. 0 \in Time
  BY Constants DEF Time
<1>2. Streamed({})
  BY FS_EmptySet DEF Streamed, Stream
<1> QED BY <1>1, <1>2 DEF NoRead, NoPage, ReadType, PageRead

LEMMA BeginBase ==
  ASSUME Base, Begin
  PROVE  Base'
<1>1. work' = [s |-> coll, copy |-> device, budget |-> WindowSize, more |-> FALSE,
               movedOut |-> {}, open |-> TRUE, created |-> Never]
  BY DEF Begin, WorkOn
<1>2. Never \in Copies /\ WindowSize \in 0..WindowSize /\ coll \in States /\ device \in Copies
  BY Constants DEF Never, Copies, Time, Base, TypeOK
<1>3. work' \in Works /\ work'.s = coll /\ work'.copy = device /\ work'.movedOut = {}
      /\ work'.budget \in 0..WindowSize
  BY <1>1, <1>2, Constants DEF Works
<1>4. /\ UNCHANGED <<clock, pending, row, coll, device, created, read, lost>>
      /\ pc = "idle" /\ pc' = "commands" /\ read = NoRead
  BY DEF Begin, store, Base
<1>5. row' \in [Uids -> Row] /\ \A i \in Uids : Written(i)'
  BY <1>4 DEF Base, TypeOK, Written, Here, Away
<1>6. HeldIs(work'.s, work'.copy)
  BY <1>3 DEF Base
<1> QED BY <1>3, <1>4, <1>5, <1>6, BaseRound, NothingRead

\* A command of the device keeps the types if what it writes has them.
LEMMA CommandBase ==
  ASSUME Base, pc = "commands", UNCHANGED <<clock, pending, coll, device, created, pc, read, lost>>,
         NEW i \in Uids, NEW echo, NEW copy, NEW made,
         Commanded(work, work', i, echo, copy, made),
         row' \in [Uids -> Row], \A j \in Uids : Written(j)'
  PROVE  Base'
<1>1. work' \in Works /\ HeldIs(work'.s, work'.copy) /\ work'.movedOut = {}
      /\ work'.budget \in 0..WindowSize
  BY DEF Commanded, Base, TypeOK
<1>2. read = NoRead
  BY DEF Base
<1> QED BY <1>1, <1>2, BaseRound, NothingRead

\* Rows the device writes.
LEMMA CommandRows ==
  ASSUME Base, NEW i \in Uids,
         applyAdd(i) \/ replayAdd(i) \/ applyChange(i) \/ applyDelete(i)
  PROVE  /\ row' \in [Uids -> Row] /\ \A j \in Uids : Written(j)'
         /\ pc = "commands"
         /\ UNCHANGED <<clock, pending, coll, device, created, pc, read, lost>>
<1>1. /\ clock \in Time /\ clock \in Nat /\ clock >= 1 /\ 0 \in Time
      /\ row \in [Uids -> Row] /\ row[i] \in Row /\ row[i].at \in Nat /\ row[i].edit \in Nat
      /\ Written(i)
  BY Constants DEF Base, TypeOK, Row, Time
<1>2. pc = "commands" /\ UNCHANGED <<clock, pending, coll, device, created, pc, read, lost>>
  BY DEF applyAdd, replayAdd, applyChange, applyDelete, store
<1>3. CASE row' = row
  BY <1>1, <1>2, <1>3 DEF Base, Written, Here, Away
<1>4. ASSUME NEW r \in Row, row' = [row EXCEPT ![i] = r], pending[i] = NoWrite,
             r.place \in {"here", "elsewhere"}, r.at = clock, 1 <= r.edit, r.edit <= r.at
      PROVE  row' \in [Uids -> Row] /\ \A j \in Uids : Written(j)'
  <2>1. row' \in [Uids -> Row] /\ row'[i] = r /\ \A j \in Uids \ {i} : row'[j] = row[j]
    BY <1>1, <1>4
  <2>2. Written(i)'
    BY <1>1, <1>2, <1>4, <2>1 DEF Written, Here, Away
  <2>3. \A j \in Uids \ {i} : Written(j)'
    BY <1>2, <2>1 DEF Base, Written, Here, Away
  <2> QED BY <2>1, <2>2, <2>3
<1>5. CASE applyAdd(i)
  <2> DEFINE r == [place |-> "here", deleted |-> FALSE, at |-> clock, edit |-> clock]
  <2>1. r \in Row
    BY <1>1 DEF Row
  <2>2. r.place = "here" /\ r.at = clock /\ 1 <= r.edit /\ r.edit <= r.at
    BY <1>1
  <2>3. row' = [row EXCEPT ![i] = r] /\ pending[i] = NoWrite
    BY <1>5 DEF applyAdd
  <2> HIDE DEF r
  <2> QED BY <1>2, <1>4, <2>1, <2>2, <2>3
<1>6. CASE replayAdd(i)
  BY <1>2, <1>3, <1>6 DEF replayAdd, store
<1>7. CASE applyChange(i)
  <2> DEFINE r == [row[i] EXCEPT !.at = clock]
  <2>1. r \in Row /\ r.place = "here" /\ r.at = clock /\ r.edit = row[i].edit
    BY <1>1, <1>7 DEF Row, applyChange
  <2>2. 1 <= r.edit /\ r.edit <= r.at
    BY <1>1, <1>7, <2>1 DEF applyChange, Written, Here
  <2>3. row' = [row EXCEPT ![i] = r] /\ pending[i] = NoWrite
    BY <1>1, <1>7 DEF applyChange
  <2> HIDE DEF r
  <2> QED BY <1>2, <1>4, <2>1, <2>2, <2>3
<1>8. CASE applyDelete(i)
  <2>1. row[i].place = "here" /\ row[i].at < clock /\ pending[i] = NoWrite
        /\ 1 <= row[i].edit /\ row[i].edit <= clock
    BY <1>1, <1>8 DEF applyDelete, Written, Here
  <2>2. CASE row' = [row EXCEPT ![i].at = clock, ![i].place = "elsewhere"]
    <3> DEFINE r == [row[i] EXCEPT !.at = clock, !.place = "elsewhere"]
    <3>1. r \in Row /\ r.place = "elsewhere" /\ r.at = clock /\ r.edit = row[i].edit
      BY <1>1 DEF Row
    <3>2. row' = [row EXCEPT ![i] = r]
      BY <1>1, <2>2
    <3> HIDE DEF r
    <3> QED BY <1>1, <1>2, <1>4, <2>1, <3>1, <3>2
  <2>3. CASE row' = [row EXCEPT ![i].at = clock, ![i].deleted = TRUE]
    <3> DEFINE r == [row[i] EXCEPT !.at = clock, !.deleted = TRUE]
    <3>1. r \in Row /\ r.place = "here" /\ r.at = clock /\ r.edit = row[i].edit
      BY <1>1, <2>1 DEF Row
    <3>2. row' = [row EXCEPT ![i] = r]
      BY <1>1, <2>3
    <3> HIDE DEF r
    <3> QED BY <1>1, <1>2, <1>4, <2>1, <3>1, <3>2
  <2> QED BY <1>8, <2>2, <2>3 DEF applyDelete
<1> QED BY <1>5, <1>6, <1>7, <1>8, <1>2

LEMMA ReadFolderLateBase ==
  ASSUME Base, ReadFolderLate
  PROVE  Base'
<1> DEFINE late == scanOverlap(InPlace("here"), work.s.cursor, Overlap)
<1>1. late \subseteq InPlace("here")
  BY DEF scanOverlap, Behind
<1>2. late \subseteq SeenRow /\ Streamed(late)
  BY <1>1, RowsInPlace
<1>3. read' = [NoRead EXCEPT !.late = late, !.startedAt = clock] /\ clock \in Time
  BY DEF ReadFolderLate, Base, TypeOK
<1> HIDE DEF late
<1>4. /\ read' \in ReadType /\ read'.late = late /\ read'.page = NoPage
      /\ read'.moveLate = {} /\ read'.movePage = NoPage
  BY <1>2, <1>3, NothingRead DEF ReadType
<1>5. /\ UNCHANGED <<clock, pending, row, coll, device, created, lost, work>> /\ pc' = "page"
  BY DEF ReadFolderLate, store
<1>6. row' \in [Uids -> Row] /\ \A i \in Uids : Written(i)'
  BY <1>5 DEF Base, TypeOK, Written, Here, Away
<1>7. read'.page.rows = {}
  BY <1>4, NothingRead
<1>8. work' \in Works /\ HeldIs(work'.s, work'.copy) /\ work'.movedOut = {}
      /\ work'.budget \in 0..WindowSize
  BY <1>5 DEF Base, TypeOK
<1> QED BY <1>2, <1>4, <1>5, <1>6, <1>7, <1>8, BaseRound, NothingRead

LEMMA PaysWithin ==
  ASSUME Base, NEW w \in Works, Pays(work, w)
  PROVE  w.budget \in 0..WindowSize
<1>1. Cardinality(Differ(work, w)) \in Nat /\ w.budget \in Nat
  BY DifferFinite DEF Works
<1> QED BY <1>1, Constants DEF Base, TypeOK, Pays

\* Once the round has gone through what it read.
LEMMA ProcessBase ==
  ASSUME Base, NEW r, Streams(work, r), Process(r),
         UNCHANGED <<store, device, coll, created, lost>>
  PROVE  Base'
<1>1. EnumeratedBy(work, r, work') /\ read' = NoRead /\ pc' \in {"reconcile", "answer"}
  BY ProcessWork
<1>2. work' \in Works /\ HeldIs(work'.s, work'.copy) /\ work'.movedOut = {}
      /\ work'.budget \in 0..WindowSize
  BY <1>1, PaysWithin DEF EnumeratedBy, PrunedFrom
<1>3. row' \in [Uids -> Row] /\ \A i \in Uids : Written(i)'
  BY DEF store, Base, TypeOK, Written, Here, Away
<1> QED BY <1>1, <1>2, <1>3, BaseRound, NothingRead DEF store

LEMMA ReadFolderPageBase ==
  ASSUME Base, ReadFolderPage
  PROVE  Base'
<1>1. Streams(work, WithFolderPage) /\ WithFolderPage \in ReadType
  BY PageStreams DEF ReadFolderPage
<1>2. UNCHANGED <<store, device, coll, created, lost>>
  BY DEF ReadFolderPage
<1>3. CASE work.s.held # {}
  <2>1. read' = WithFolderPage /\ pc' = "moveLate" /\ UNCHANGED work
    BY <1>3 DEF ReadFolderPage
  <2>2. row' \in [Uids -> Row] /\ \A i \in Uids : Written(i)'
    BY <1>2 DEF store, Base, TypeOK, Written, Here, Away
  <2>3. read'.movePage = NoPage
    BY <1>1, <2>1 DEF Base, WithFolderPage, ReadType
  <2>4. work' \in Works /\ HeldIs(work'.s, work'.copy) /\ work'.movedOut = {}
        /\ work'.budget \in 0..WindowSize
    BY <2>1 DEF Base, TypeOK
  <2> QED BY <1>1, <1>2, <2>1, <2>2, <2>3, <2>4, BaseRound DEF Streams, store
<1>4. CASE work.s.held = {}
  <2>1. Process(WithFolderPage)
    BY <1>4 DEF ReadFolderPage
  <2> QED BY <1>1, <1>2, <2>1, ProcessBase
<1> QED BY <1>3, <1>4

LEMMA ReadMoveLateBase ==
  ASSUME Base, ReadMoveLate
  PROVE  Base'
<1> DEFINE late == scanOverlap(InPlace("elsewhere"), work.s.moveCursor, Overlap)
<1>1. late \subseteq InPlace("elsewhere")
  BY DEF scanOverlap, Behind
<1>2. late \subseteq SeenRow /\ Streamed(late)
  BY <1>1, RowsInPlace
<1>3. read' = [read EXCEPT !.moveLate = late] /\ read \in ReadType
  BY DEF ReadMoveLate, Base
<1> HIDE DEF late
<1>4. /\ read' \in ReadType /\ read'.late = read.late /\ read'.page = read.page
      /\ read'.moveLate = late /\ read'.movePage = read.movePage
  BY <1>2, <1>3 DEF ReadType
<1>5. /\ UNCHANGED <<clock, pending, row, coll, device, created, lost, work>> /\ pc' = "movePage"
  BY DEF ReadMoveLate, store
<1>6. row' \in [Uids -> Row] /\ \A i \in Uids : Written(i)'
  BY <1>5 DEF Base, TypeOK, Written, Here, Away
<1>7. work' \in Works /\ HeldIs(work'.s, work'.copy) /\ work'.movedOut = {}
      /\ work'.budget \in 0..WindowSize
  BY <1>5 DEF Base, TypeOK
<1>8. Streamed(read'.late) /\ Streamed(read'.page.rows) /\ Streamed(read'.moveLate)
      /\ \A r \in read'.page.rows : Shows(work'.s.cursor, r)
  BY <1>2, <1>4, <1>5 DEF Base
<1>9. read'.movePage = NoPage
  BY <1>4 DEF Base
<1> QED BY <1>4, <1>5, <1>6, <1>7, <1>8, <1>9, BaseRound

LEMMA ReadMovePageBase ==
  ASSUME Base, ReadMovePage
  PROVE  Base'
BY MovePageStreams, ProcessBase DEF ReadMovePage

LEMMA ReconcileBase ==
  ASSUME Base, Reconcile
  PROVE  Base'
<1>1. LookupDone(work, work') /\ pc' = "answer"
  BY ReconciledDone DEF Reconcile, Base
<1>2. work' \in Works /\ HeldIs(work'.s, work'.copy) /\ work'.movedOut = {}
      /\ work'.budget \in 0..WindowSize
  BY <1>1, PaysWithin DEF LookupDone, Base
<1>3. UNCHANGED <<store, device, coll, created, read, lost>> /\ read = NoRead
  BY DEF Reconcile, Base
<1>4. row' \in [Uids -> Row] /\ \A i \in Uids : Written(i)'
  BY <1>3 DEF store, Base, TypeOK, Written, Here, Away
<1> QED BY <1>1, <1>2, <1>3, <1>4, BaseRound, NothingRead DEF store

LEMMA NoWorkBase ==
  /\ NoWork \in Works /\ HeldIs(NoWork.s, NoWork.copy) /\ NoWork.movedOut = {}
  /\ Never \in Copies /\ NoWork.budget \in 0..WindowSize
<1>1. 0 \in Time /\ 0 \in 0..WindowSize
  BY Constants DEF Time
<1>2. Never \in Copies
  BY <1>1 DEF Never, Copies
<1>3. NoState \in States
  BY <1>1, <1>2 DEF NoState, States, Epoch, Cursor, Copies
<1>4. NoWork \in Works
  BY <1>1, <1>2, <1>3 DEF NoWork, Works
<1> QED BY <1>1, <1>2, <1>4 DEF NoWork, NoState, Never, HeldIs

LEMMA DeliverBase ==
  ASSUME Base, Deliver
  PROVE  Base'
<1>1. /\ coll' = work.s /\ device' = work.copy /\ created' = Never /\ pc' = "idle"
      /\ work' = NoWork /\ UNCHANGED <<store, read, lost>> /\ read = NoRead
  BY DEF Deliver, Base
<1>2. work.s \in States /\ work.copy \in Copies /\ HeldIs(work.s, work.copy)
  BY DEF Base, Works
<1>3. TypeOK'
  BY <1>1, <1>2, NoWorkBase DEF Base, TypeOK, store, Works
<1>4. \A i \in Uids : Written(i)'
  BY <1>1 DEF store, Base, Written, Here, Away
<1>5. \A r \in read'.page.rows : Shows(work'.s.cursor, r)
  BY <1>1, NothingRead
<1> QED BY <1>1, <1>2, <1>3, <1>4, <1>5, NoWorkBase DEF Base, store

LEMMA LoseBase ==
  ASSUME Base, Lose
  PROVE  Base'
<1>1. /\ created' = work.created /\ pc' = "idle" /\ lost' = lost + 1 /\ lost < MaxLost
      /\ work' = NoWork /\ UNCHANGED <<store, device, coll, read>> /\ read = NoRead
  BY DEF Lose, Base
<1>2. work.created \in Copies /\ lost' \in 0..MaxLost
  BY <1>1, Constants DEF Base, Works, TypeOK
<1>3. TypeOK'
  BY <1>1, <1>2, NoWorkBase DEF Base, TypeOK, store, Works
<1>4. \A i \in Uids : Written(i)'
  BY <1>1 DEF store, Base, Written, Here, Away
<1>5. \A r \in read'.page.rows : Shows(work'.s.cursor, r)
  BY <1>1, NothingRead
<1> QED BY <1>1, <1>3, <1>4, <1>5, NoWorkBase DEF Base, store

LEMMA BaseNext == Base /\ [Next]_vars => Base'
<1> SUFFICES ASSUME Base, [Next]_vars PROVE Base'
  OBVIOUS
<1>1. CASE Tick
  BY <1>1, TickBase
<1>2. CASE Others
  BY <1>2, StampBase, CommitBase, PurgeBase DEF Others
<1>3. CASE Commands
  <2>1. PICK i \in Uids : applyAdd(i) \/ replayAdd(i) \/ applyChange(i) \/ applyDelete(i)
    BY <1>3 DEF Commands
  <2>2. /\ row' \in [Uids -> Row] /\ \A j \in Uids : Written(j)'
        /\ pc = "commands"
        /\ UNCHANGED <<clock, pending, coll, device, created, pc, read, lost>>
    BY <2>1, CommandRows
  <2>3. \E echo, copy, made : Commanded(work, work', i, echo, copy, made)
    BY <2>1, CommandWork
  <2> QED BY <2>2, <2>3, CommandBase
<1>4. CASE Round
  BY <1>4, BeginBase, ReadFolderLateBase, ReadFolderPageBase, ReadMoveLateBase, ReadMovePageBase,
     ReconcileBase, DeliverBase DEF Round
<1>5. CASE Lose
  BY <1>5, LoseBase
<1>6. CASE UNCHANGED vars
  BY <1>6 DEF vars, Base, TypeOK, Written, Here, Away
<1> QED BY <1>1, <1>2, <1>3, <1>4, <1>5, <1>6 DEF Next

LEMMA BaseAlways == Spec => []Base
BY BaseInit, BaseNext, PTL DEF Spec

\* Every variable has its type, and no round puts more commands into an answer than
\* its window has room for, whatever it reads and however it is interrupted.
THEOREM TypeCorrect == Spec => []TypeOK
<1>1. Base => TypeOK
  BY DEF Base
<1> QED BY <1>1, BaseAlways, PTL

-----------------------------------------------------------------------------
(* What a working state knows of the store: nothing that is newer than what is    *)
(* there.  Everything here is about given rows and a given time, so that it can   *)
(* be said of the state before a step and of the state after it.                  *)

\* A write commits before the streams that have to show it have passed it, and no
\* edit is merged into a device's own.
Timely == ~Merges /\ 0 < Overlap /\ MaxLag <= Overlap /\ MaxLag < MoveSlack

Present(x) == IF x.deleted THEN 0 ELSE x.edit

Sane(rows, now) ==
    /\ rows \in [Uids -> Row] /\ now \in Time
    /\ \A i \in Uids :
          /\ rows[i].at <= now
          /\ rows[i].place \in {"here", "elsewhere"} =>
                1 <= rows[i].edit /\ rows[i].edit <= rows[i].at

\* What a step can do to the rows: replace some by newer ones, which were stamped
\* not long ago, or remove them.
Grown(old, new, now) ==
    \A i \in Uids :
        \/ new[i] = old[i]
        \/ new[i].place = "purged" /\ new[i].at = 0
        \/ /\ old[i].place # "purged" /\ new[i].place \in {"here", "elsewhere"}
           /\ old[i].at < new[i].at /\ now <= new[i].at + MaxLag

KnownTo(s, rows, now) ==
    /\ s.cursor.date <= now
    /\ s.cursor.uid = 0 => s.cursor.date = 0
    /\ s.moveCursor.date <= now
    /\ s.moveCursor.uid = 0 /\ s.moveCursor.date # 0 => s.moveCursor.date + MoveSlack <= now
    /\ \A i \in Uids : rows[i].place # "purged" =>
          s.echoes[i] <= rows[i].at /\ s.recent[i] <= rows[i].at

\* An item whose stamp is the device's own write is on the device as it is.
EchoTrue(s, copy, rows) ==
    \A i \in Uids : rows[i].place = "here" /\ s.echoes[i] = rows[i].at
                       => copy[i] = Present(rows[i])

Rereads(c, r) == r \in Behind({r}, c, Overlap)

\* The next round is going to work row r off.
Shown(s, r)     == Shows(s.cursor, r) \/ (Rereads(s.cursor, r) /\ s.recent[r.uid] # r.at)
MoveShown(s, r) == Shows(s.moveCursor, r) \/ Rereads(s.moveCursor, r)

\* What the device lacks, of the folder or of what has left it, is going to be shown.
Covered(s, copy, rows) ==
    \A i \in Uids : rows[i].place = "here" /\ copy[i] # Present(rows[i])
                       => Shown(s, Version(i, rows[i]))
MovesCovered(s, copy, rows) ==
    \A i \in Uids : rows[i].place = "elsewhere" /\ copy[i] # 0
                       => MoveShown(s, Version(i, rows[i]))

LEMMA ShowsRow ==
  ASSUME NEW c \in Cursor, NEW r \in SeenRow
  PROVE  /\ Shows(c, r) <=> IF c.uid = 0 THEN r.at > c.date
                            ELSE c.date < r.at \/ (c.date = r.at /\ c.uid < r.uid)
         /\ Rereads(c, r) <=>
              /\ c.date # 0 /\ Overlap > 0 /\ r.at >= c.date - Overlap
              /\ ~(c.date < r.at \/ (c.date = r.at /\ c.uid < r.uid))
         /\ c.date \in Nat /\ c.uid \in Nat /\ r.at \in Nat /\ r.uid \in Nat /\ r.uid # 0
BY Constants DEF Shows, Rereads, After, Behind, Precedes, cursorOf, Cursor, SeenRow, Time, Uids

\* A row that was stamped not long ago is shown by every state that does not know it.
LEMMA RecentRow ==
  ASSUME Timely, NEW s \in States, NEW now \in Time, NEW r \in SeenRow, r.at >= 1,
         now <= r.at + MaxLag
  PROVE  /\ s.cursor.date <= now /\ (s.cursor.uid = 0 => s.cursor.date = 0)
            /\ s.recent[r.uid] # r.at => Shown(s, r)
         /\ s.moveCursor.date <= now
            /\ (s.moveCursor.uid = 0 /\ s.moveCursor.date # 0
                   => s.moveCursor.date + MoveSlack <= now) => MoveShown(s, r)
<1>1. s.cursor \in Cursor /\ s.moveCursor \in Cursor /\ now \in Nat
      /\ {MaxLag, Overlap, MoveSlack} \subseteq Nat
  BY Constants DEF States, Time
<1>2. ASSUME s.cursor.date <= now, s.cursor.uid = 0 => s.cursor.date = 0,
             s.recent[r.uid] # r.at
      PROVE  Shown(s, r)
  BY <1>1, <1>2, ShowsRow DEF Shown, Timely
<1>3. ASSUME s.moveCursor.date <= now,
             s.moveCursor.uid = 0 /\ s.moveCursor.date # 0 => s.moveCursor.date + MoveSlack <= now
      PROVE  MoveShown(s, r)
  BY <1>1, <1>3, ShowsRow DEF MoveShown, Timely
<1> QED BY <1>2, <1>3

LEMMA VersionRow ==
  ASSUME NEW rows, NEW now, Sane(rows, now), NEW i \in Uids,
         rows[i].place \in {"here", "elsewhere"}
  PROVE  /\ Version(i, rows[i]) \in SeenRow
         /\ Version(i, rows[i]).uid = i /\ Version(i, rows[i]).at = rows[i].at
         /\ Version(i, rows[i]).at >= 1 /\ rows[i].at \in Nat /\ rows[i].at <= now
<1>1. rows[i] \in Row /\ 1 <= rows[i].edit /\ rows[i].edit <= rows[i].at /\ rows[i].at <= now
  BY DEF Sane
<1>2. rows[i].at \in Nat /\ rows[i].edit \in Nat /\ rows[i].edit \in Time
  BY <1>1, Constants DEF Row, Time
<1> QED BY <1>1, <1>2 DEF Version, SeenRow, Row

\* What a state knows stays true.
LEMMA KnownLater ==
  ASSUME NEW s \in States, NEW copy, NEW old, NEW new, NEW then, NEW now,
         Sane(old, then), Sane(new, now), Grown(old, new, now), then <= now,
         KnownTo(s, old, then)
  PROVE  /\ KnownTo(s, new, now)
         /\ EchoTrue(s, copy, old) => EchoTrue(s, copy, new)
<1>1. then \in Nat /\ now \in Nat /\ s.cursor.date \in Nat /\ s.moveCursor.date \in Nat
      /\ MoveSlack \in Nat
      /\ \A i \in Uids : /\ old[i].at \in Nat /\ new[i].at \in Nat
                         /\ s.echoes[i] \in Nat /\ s.recent[i] \in Nat
  BY Constants DEF Sane, States, Cursor, Row, Time
<1>2. ASSUME NEW i \in Uids, new[i].place # "purged"
      PROVE  /\ s.echoes[i] <= new[i].at /\ s.recent[i] <= new[i].at
             /\ new[i] = old[i] \/ s.echoes[i] < new[i].at
  BY <1>1, <1>2 DEF KnownTo, Grown
<1>3. KnownTo(s, new, now)
  BY <1>1, <1>2 DEF KnownTo
<1>4. ASSUME EchoTrue(s, copy, old) PROVE EchoTrue(s, copy, new)
  <2> SUFFICES ASSUME NEW i \in Uids, new[i].place = "here", s.echoes[i] = new[i].at
               PROVE  copy[i] = Present(new[i])
    BY DEF EchoTrue
  <2>1. new[i] = old[i]
    BY <1>1, <1>2
  <2> QED BY <1>4, <2>1 DEF EchoTrue
<1> QED BY <1>3, <1>4

-----------------------------------------------------------------------------
(* What is true of the rows that a round has read, although the store went on     *)
(* changing: r is what it read, s the state it works on.                          *)

FolderRead(r) == r.late \cup r.page.rows

\* Each row is the item's present state, or an older one.
ReadTrue(r, s, rows, now) ==
    /\ r.startedAt <= now
    /\ s.cursor.date <= r.startedAt /\ s.moveCursor.date <= r.startedAt
    /\ \A q \in FolderRead(r) :
          /\ 1 <= q.at /\ q.at <= r.startedAt
          /\ rows[q.uid].place # "purged" => q.at <= rows[q.uid].at
          /\ rows[q.uid].at = q.at => rows[q.uid].place = "here" /\ q = Version(q.uid, rows[q.uid])
          /\ s.echoes[q.uid] <= q.at
    /\ \A q \in r.late : ~Shows(s.cursor, q)
    /\ \A q \in r.moveLate :
          /\ 1 <= q.at
          /\ rows[q.uid].place # "purged" => q.at <= rows[q.uid].at
          /\ rows[q.uid].at = q.at => rows[q.uid].place = "elsewhere"
          /\ s.echoes[q.uid] <= q.at

\* The present state of item i was committed after the round had read.
Fresh(r, s, i, rows) ==
    /\ r.startedAt <= rows[i].at + MaxLag
    /\ \A q \in FolderRead(r) : q.uid = i => q.at < rows[i].at
    /\ s.recent[i] < rows[i].at

\* The present state of an item of the folder is fresh, or was read, or is ahead
\* of the page, or is the one the device has.
SeenItem(r, s, copy, i, rows) ==
    \/ Fresh(r, s, i, rows)
    \/ Version(i, rows[i]) \in r.late
    \/ /\ Shows(s.cursor, Version(i, rows[i]))
       /\ \/ Version(i, rows[i]) \in r.page.rows
          \/ \A q \in r.page.rows : Precedes(cursorOf(q), cursorOf(Version(i, rows[i])))
    \/ copy[i] = Present(rows[i]) /\ \A q \in FolderRead(r) : q.uid # i

Seen(r, s, copy, rows) ==
    /\ \A i \in Uids : rows[i].place = "here" => SeenItem(r, s, copy, i, rows)
    /\ \A q \in r.moveLate : rows[q.uid].place = "here" => Fresh(r, s, q.uid, rows)

LEMMA ReadTypes ==
  ASSUME NEW r \in ReadType, NEW s \in States, NEW rows, NEW now, Sane(rows, now)
  PROVE  /\ r.startedAt \in Nat
         /\ \A q \in FolderRead(r) \cup r.moveLate : q \in SeenRow /\ q.uid \in Uids /\ q.at \in Nat
         /\ \A i \in Uids : rows[i].at \in Nat /\ s.echoes[i] \in Nat /\ s.recent[i] \in Nat
         /\ MaxLag \in Nat /\ now \in Nat
BY Constants DEF ReadType, PageRead, FolderRead, SeenRow, Time, States, Sane, Row

LEMMA ReadLater ==
  ASSUME NEW r \in ReadType, NEW s \in States, NEW old, NEW new, NEW then, NEW now,
         Sane(old, then), Sane(new, now), Grown(old, new, now), then <= now,
         ReadTrue(r, s, old, then)
  PROVE  ReadTrue(r, s, new, now)
<1>1. /\ r.startedAt \in Nat /\ then \in Nat /\ now \in Nat
      /\ \A q \in FolderRead(r) \cup r.moveLate : q \in SeenRow /\ q.uid \in Uids /\ q.at \in Nat
      /\ \A i \in Uids : old[i].at \in Nat /\ new[i].at \in Nat
  BY ReadTypes
<1>2. ASSUME NEW q \in FolderRead(r) \cup r.moveLate
      PROVE  \/ new[q.uid] = old[q.uid]
             \/ new[q.uid].place = "purged" /\ new[q.uid].at # q.at
             \/ q.at < new[q.uid].at
  BY <1>1 DEF ReadTrue, Grown
<1>3. \A q \in FolderRead(r) :
          /\ new[q.uid].place # "purged" => q.at <= new[q.uid].at
          /\ new[q.uid].at = q.at => new[q.uid].place = "here" /\ q = Version(q.uid, new[q.uid])
  BY <1>1, <1>2 DEF ReadTrue
<1>4. \A q \in r.moveLate :
          /\ new[q.uid].place # "purged" => q.at <= new[q.uid].at
          /\ new[q.uid].at = q.at => new[q.uid].place = "elsewhere"
  BY <1>1, <1>2 DEF ReadTrue
<1> QED BY <1>1, <1>3, <1>4 DEF ReadTrue

LEMMA SeenLater ==
  ASSUME NEW r \in ReadType, NEW s \in States, NEW copy, NEW old, NEW new, NEW then, NEW now,
         Sane(old, then), Sane(new, now), Grown(old, new, now), then <= now,
         KnownTo(s, old, then), ReadTrue(r, s, old, then), Seen(r, s, copy, old)
  PROVE  Seen(r, s, copy, new)
<1>1. /\ r.startedAt \in Nat /\ then \in Nat /\ now \in Nat /\ MaxLag \in Nat
      /\ \A q \in FolderRead(r) \cup r.moveLate : q \in SeenRow /\ q.uid \in Uids /\ q.at \in Nat
      /\ \A i \in Uids : /\ old[i].at \in Nat /\ new[i].at \in Nat
                         /\ s.echoes[i] \in Nat /\ s.recent[i] \in Nat
  BY ReadTypes
<1>2. ASSUME NEW i \in Uids, new[i].place = "here"
      PROVE  new[i] = old[i] \/ Fresh(r, s, i, new)
  <2> SUFFICES ASSUME new[i] # old[i] PROVE Fresh(r, s, i, new)
    OBVIOUS
  <2>1. old[i].place # "purged" /\ old[i].at < new[i].at /\ now <= new[i].at + MaxLag
    BY <1>2 DEF Grown
  <2>2. r.startedAt <= new[i].at + MaxLag
    BY <1>1, <2>1 DEF ReadTrue
  <2>3. \A q \in FolderRead(r) : q.uid = i => q.at < new[i].at
    BY <1>1, <2>1 DEF ReadTrue
  <2>4. s.recent[i] < new[i].at
    BY <1>1, <2>1 DEF KnownTo
  <2> QED BY <2>2, <2>3, <2>4 DEF Fresh
<1>3. ASSUME NEW i \in Uids, new[i].place = "here"
      PROVE  SeenItem(r, s, copy, i, new)
  <2>1. CASE new[i] = old[i]
    <3>1. SeenItem(r, s, copy, i, old)
      BY <1>3, <2>1 DEF Seen
    <3> QED BY <2>1, <3>1 DEF SeenItem, Fresh
  <2>2. CASE new[i] # old[i]
    BY <1>2, <1>3, <2>2 DEF SeenItem
  <2> QED BY <2>1, <2>2
<1>4. ASSUME NEW q \in r.moveLate, new[q.uid].place = "here"
      PROVE  Fresh(r, s, q.uid, new)
  <2>1. q.uid \in Uids
    BY <1>1
  <2>2. CASE new[q.uid] = old[q.uid]
    BY <1>4, <2>2 DEF Seen, Fresh
  <2>3. CASE new[q.uid] # old[q.uid]
    BY <1>2, <1>4, <2>1, <2>3
  <2> QED BY <2>2, <2>3
<1> QED BY <1>3, <1>4 DEF Seen

-----------------------------------------------------------------------------
(* A round that has gone through what it read.                                    *)

\* The rows of the other folders are read last of all.
LastRead(r, rows) == \A q \in r.movePage.rows :
                        rows[q.uid].place = "elsewhere" /\ q = Version(q.uid, rows[q.uid])

\* What the round remembers of an item is what it read, or what it knew.
Remembers(r, w, v, i) ==
    \/ \E q \in FolderRead(r) : q.uid = i /\ v.s.recent[i] = q.at
    \/ v.s.recent[i] = w.s.recent[i]

\* An item that the round has not read is as it was in the folder's stream.
LEMMA Untouched ==
  ASSUME NEW w \in Works, NEW r, Streams(w, r), NEW v1, NEW v2, NEW v,
         LateDone(v1, v2, r.late), PageDone(v2, v, r.page.rows), NEW i \in Uids
  PROVE  /\ i \notin UidsOf(r.late) => Unmoved(v1, v2, i)
         /\ i \notin UidsOf(r.page.rows) => Unmoved(v2, v, i)
         /\ Remembers(r, v1, v, i)
<1>1. i \notin UidsOf(r.late) => Unmoved(v1, v2, i)
  BY DEF LateDone
<1>2. i \notin UidsOf(r.page.rows) => Unmoved(v2, v, i)
  BY DEF PageDone
<1>3. v2.s.recent[i] = v1.s.recent[i] \/ \E q \in r.late : q.uid = i /\ v2.s.recent[i] = q.at
  BY <1>1 DEF UidsOf, LateDone, LateSettled, Settled, Unmoved
<1>4. v.s.recent[i] = v2.s.recent[i] \/ \E q \in r.page.rows : q.uid = i /\ v.s.recent[i] = q.at
  BY <1>2 DEF UidsOf, PageDone, Settled, Unmoved
<1> QED BY <1>1, <1>2, <1>3, <1>4 DEF FolderRead, Remembers

LEMMA ProcessKnown ==
  ASSUME NEW w \in Works, NEW r, Streams(w, r), NEW u, EnumeratedBy(w, r, u),
         NEW rows, NEW now, Sane(rows, now), LastRead(r, rows),
         KnownTo(w.s, rows, now), EchoTrue(w.s, w.copy, rows), ReadTrue(r, w.s, rows, now)
  PROVE  KnownTo(u.s, rows, now) /\ EchoTrue(u.s, u.copy, rows)
<1> DEFINE v1 == AfterMoves(w, r)
           v2 == AfterLate(w, r)
<1>1. PICK x, v \in Works :
        /\ x = Started(w, r)
        /\ x.s = w.s /\ x.copy = w.copy /\ x.movedOut = {} /\ x.created = w.created
        /\ MovesDone(x, v1, r)
        /\ LateDone(v1, v2, r.late)
        /\ PageDone(v2, v, r.page.rows)
        /\ PrunedFrom(v, u) /\ u.movedOut = {}
  BY DEF EnumeratedBy
<1> HIDE DEF v1, v2
<1>2. /\ r \in ReadType /\ w.s \in States
  BY DEF Streams, Works
<1>3. /\ r.startedAt \in Nat /\ now \in Nat
      /\ \A q \in FolderRead(r) \cup r.moveLate : q \in SeenRow /\ q.uid \in Uids /\ q.at \in Nat
      /\ \A i \in Uids : rows[i].at \in Nat /\ w.s.echoes[i] \in Nat /\ w.s.recent[i] \in Nat
  BY <1>2, ReadTypes
<1>4. \A q \in r.movePage.rows : q \in SeenRow /\ q.uid \in Uids /\ q.uid # 0 /\ q.at <= now
  <2>1. \A q \in r.movePage.rows : q \in SeenRow /\ q.uid \in Uids /\ q.uid # 0
    BY <1>2, Constants DEF ReadType, PageRead, SeenRow, Uids
  <2> QED BY <2>1 DEF LastRead, Sane, Version
<1>5. /\ Kept(x, v1) /\ v1.s.cursor = w.s.cursor /\ v1.s.echoes = w.s.echoes
      /\ v1.s.recent = w.s.recent
  BY <1>1 DEF MovesDone, Kept
<1>6. /\ u.s.cursor = v.s.cursor /\ u.s.moveCursor = v1.s.moveCursor /\ v2.s.cursor = w.s.cursor
      /\ v.s.echoes = w.s.echoes /\ v2.s.echoes = w.s.echoes
      /\ v.movedOut = v1.movedOut /\ v2.movedOut = v1.movedOut
  BY <1>1, <1>5 DEF PrunedFrom, PageDone, LateDone, SameButCopy
<1>7. KnownTo(u.s, rows, now)
  <2>1. u.s.cursor.date <= now /\ (u.s.cursor.uid = 0 => u.s.cursor.date = 0)
    <3>1. CASE u.s.cursor = w.s.cursor
      BY <3>1 DEF KnownTo
    <3>2. ASSUME NEW q \in r.page.rows, u.s.cursor = cursorOf(q)
          PROVE  u.s.cursor.date <= now /\ u.s.cursor.uid # 0
      <4>1. q \in FolderRead(r) /\ q.uid # 0
        BY <1>3, Constants DEF FolderRead, Uids
      <4>2. q.at <= r.startedAt /\ r.startedAt <= now
        BY <4>1 DEF ReadTrue
      <4> QED BY <1>3, <3>2, <4>1, <4>2 DEF cursorOf
    <3> QED BY <1>1, <1>6, <3>1, <3>2 DEF PageDone
  <2>2. /\ u.s.moveCursor.date <= now
        /\ (u.s.moveCursor.uid = 0 /\ u.s.moveCursor.date # 0
               => u.s.moveCursor.date + MoveSlack <= now)
    <3>1. CASE u.s.moveCursor = w.s.moveCursor
      BY <3>1 DEF KnownTo
    <3>2. ASSUME NEW q \in r.movePage.rows, u.s.moveCursor = cursorOf(q)
          PROVE  u.s.moveCursor.date <= now /\ u.s.moveCursor.uid # 0
      BY <1>4, <3>2 DEF cursorOf
    <3>3. CASE u.s.moveCursor = Floor(r.startedAt)
      <4>1. r.startedAt <= now
        BY DEF ReadTrue
      <4>2. Floor(r.startedAt).date = IF r.startedAt > MoveSlack THEN r.startedAt - MoveSlack ELSE 0
        BY DEF Floor
      <4> QED BY <1>3, <3>3, <4>1, <4>2, Constants
    <3> QED BY <1>1, <1>6, <3>1, <3>2, <3>3 DEF MovesDone
  <2>3. ASSUME NEW i \in Uids, rows[i].place # "purged"
        PROVE  u.s.echoes[i] <= rows[i].at /\ u.s.recent[i] <= rows[i].at
    <3>1. u.s.echoes[i] \in {0, w.s.echoes[i]} /\ u.s.recent[i] \in {0, v.s.recent[i]}
      BY <1>1, <1>6 DEF PrunedFrom
    <3>2. w.s.echoes[i] <= rows[i].at /\ w.s.recent[i] <= rows[i].at
      BY <2>3 DEF KnownTo
    <3>3. (\E q \in FolderRead(r) : q.uid = i /\ v.s.recent[i] = q.at) \/ v.s.recent[i] = w.s.recent[i]
      <4>1. Remembers(r, v1, v, i)
        BY <1>1, Untouched
      <4> QED BY <1>5, <4>1 DEF Remembers
    <3>4. v.s.recent[i] <= rows[i].at
      BY <2>3, <3>2, <3>3 DEF ReadTrue
    <3> QED BY <1>3, <3>1, <3>2, <3>4
  <2> QED BY <2>1, <2>2, <2>3 DEF KnownTo
<1>8. ASSUME NEW i \in Uids, rows[i].place = "here", u.s.echoes[i] = rows[i].at
      PROVE  u.copy[i] = Present(rows[i])
  <2>1. rows[i].at >= 1
    BY <1>8, VersionRow
  <2>2. w.s.echoes[i] = rows[i].at
    BY <1>1, <1>3, <1>6, <1>8, <2>1 DEF PrunedFrom
  <2>3. w.copy[i] = Present(rows[i])
    BY <1>8, <2>2 DEF EchoTrue
  <2>4. i \notin v1.movedOut
    <3>1. i \notin UidsOf(r.moveLate)
      <4> SUFFICES ASSUME NEW q \in r.moveLate, q.uid = i PROVE FALSE
        BY DEF UidsOf
      <4>1. q.at <= rows[i].at /\ rows[i].at <= q.at /\ q.at \in Nat
        BY <1>3, <1>8, <2>2 DEF ReadTrue
      <4> QED BY <1>3, <1>8, <4>1 DEF ReadTrue
    <3>2. i \notin UidsOf(r.movePage.rows)
      BY <1>8 DEF UidsOf, LastRead
    <3> QED BY <1>1, <3>1, <3>2 DEF MovesDone
  <2>5. v1.copy[i] = w.copy[i]
    BY <1>1, <1>5, <2>4 DEF Kept
  <2>6. \A q \in FolderRead(r) : q.uid = i => q.at = rows[i].at
    BY <1>3, <1>8, <2>2 DEF ReadTrue
  <2>7. v2.copy[i] = v1.copy[i]
    <3>1. \A q \in r.late : q.uid = i => Outcome(v1, q) = v1.copy[i]
      BY <1>5, <2>2, <2>6 DEF Outcome, FolderRead
    <3> QED BY <1>1, <3>1, Untouched DEF UidsOf, LateDone, LateSettled, Settled, Unmoved
  <2>8. v.copy[i] = v2.copy[i]
    <3>1. \A q \in r.page.rows : q.uid = i => Outcome(v2, q) = v2.copy[i]
      BY <1>6, <2>2, <2>6 DEF Outcome, FolderRead
    <3> QED BY <1>1, <3>1, Untouched DEF UidsOf, PageDone, Settled, Unmoved
  <2> QED BY <1>1, <2>3, <2>5, <2>7, <2>8 DEF PrunedFrom
<1> QED BY <1>7, <1>8 DEF EchoTrue

\* The folder's cursor passes nothing that the device lacks, unless it is moved on
\* after the window was full already behind it.
LEMMA ProcessCovered ==
  ASSUME Timely,
         NEW w \in Works, NEW r, Streams(w, r), NEW u, EnumeratedBy(w, r, u),
         NEW rows, NEW now, Sane(rows, now), LastRead(r, rows),
         KnownTo(w.s, rows, now), EchoTrue(w.s, w.copy, rows), ReadTrue(r, w.s, rows, now),
         Seen(r, w.s, w.copy, rows), Covered(w.s, w.copy, rows),
         AfterLate(w, r).open \/ u.s.cursor = w.s.cursor
  PROVE  Covered(u.s, u.copy, rows)
<1> DEFINE v1 == AfterMoves(w, r)
           v2 == AfterLate(w, r)
<1>0. v2.open \/ u.s.cursor = w.s.cursor
  OBVIOUS
<1>1. PICK x, v \in Works :
        /\ x = Started(w, r)
        /\ x.s = w.s /\ x.copy = w.copy /\ x.movedOut = {} /\ x.created = w.created
        /\ MovesDone(x, v1, r)
        /\ LateDone(v1, v2, r.late)
        /\ PageDone(v2, v, r.page.rows)
        /\ PrunedFrom(v, u) /\ u.movedOut = {}
  BY DEF EnumeratedBy
<1> HIDE DEF v1, v2
<1>2. /\ r \in ReadType /\ w.s \in States /\ u.s \in States /\ now \in Time
  BY <1>1 DEF Streams, Works, PrunedFrom, Sane
<1>3. /\ r.startedAt \in Nat /\ now \in Nat /\ r.startedAt \in Time
      /\ \A q \in FolderRead(r) \cup r.moveLate : q \in SeenRow /\ q.uid \in Uids /\ q.at \in Nat
      /\ \A i \in Uids : rows[i].at \in Nat /\ w.s.echoes[i] \in Nat /\ w.s.recent[i] \in Nat
  BY <1>2, ReadTypes DEF ReadType
<1>5. /\ Kept(x, v1) /\ v1.s.cursor = w.s.cursor /\ v1.s.echoes = w.s.echoes
      /\ v1.s.recent = w.s.recent
  BY <1>1 DEF MovesDone, Kept
<1>6. /\ u.s.cursor = v.s.cursor /\ u.copy = v.copy /\ v2.s.cursor = w.s.cursor
      /\ v2.s.echoes = w.s.echoes
      /\ v.movedOut = v1.movedOut /\ v2.movedOut = v1.movedOut
  BY <1>1, <1>5 DEF PrunedFrom, PageDone, LateDone, SameButCopy
<1>7. KnownTo(u.s, rows, now)
  BY ProcessKnown
<1> SUFFICES ASSUME NEW i \in Uids, rows[i].place = "here", u.copy[i] # Present(rows[i])
             PROVE  Shown(u.s, Version(i, rows[i]))
  BY DEF Covered
<1> DEFINE V == Version(i, rows[i])
<1>8. V \in SeenRow /\ V.uid = i /\ V.at = rows[i].at /\ rows[i].at >= 1
  BY VersionRow
<1>9. Remembers(r, v1, v, i) /\ u.s.recent[i] \in {0, v.s.recent[i]}
      /\ (i \notin UidsOf(r.late) => Unmoved(v1, v2, i))
      /\ (i \notin UidsOf(r.page.rows) => Unmoved(v2, v, i))
  BY <1>1, Untouched DEF PrunedFrom
<1>10. u.s.cursor = w.s.cursor \/ \E q \in r.page.rows : u.s.cursor = cursorOf(q)
  BY <1>1, <1>6 DEF PageDone
<1>11. u.s.cursor.date <= r.startedAt
  <2>1. \A q \in r.page.rows : q.at <= r.startedAt
    BY DEF ReadTrue, FolderRead
  <2>2. w.s.cursor.date <= r.startedAt
    BY DEF ReadTrue
  <2>3. \A q : cursorOf(q).date = q.at
    BY DEF cursorOf
  <2> QED BY <1>10, <2>1, <2>2, <2>3
<1> HIDE DEF V
<1>12. CASE Fresh(r, w.s, i, rows)
  <2>1. u.s.recent[V.uid] # V.at
    BY <1>3, <1>5, <1>8, <1>9, <1>12 DEF Remembers, Fresh
  <2>2. r.startedAt <= V.at + MaxLag /\ (u.s.cursor.uid = 0 => u.s.cursor.date = 0)
    BY <1>7, <1>8, <1>12 DEF Fresh, KnownTo
  <2> QED BY <1>2, <1>3, <1>8, <1>11, <2>1, <2>2, RecentRow DEF V
<1>13. ASSUME ~Fresh(r, w.s, i, rows) PROVE v1.copy[i] = w.copy[i] /\ i \notin v1.movedOut
  <2>1. i \notin UidsOf(r.moveLate)
    BY <1>13 DEF UidsOf, Seen
  <2>2. i \notin UidsOf(r.movePage.rows)
    BY DEF UidsOf, LastRead
  <2>3. i \notin v1.movedOut
    BY <1>1, <2>1, <2>2 DEF MovesDone
  <2> QED BY <1>1, <1>5, <2>3 DEF Kept
<1>14. CASE ~Fresh(r, w.s, i, rows) /\ V \in r.late
  <2>1. ~Shows(w.s.cursor, V)
    BY <1>14 DEF ReadTrue
  <2>2. i \notin UidsOf(r.page.rows)
    <3> SUFFICES ASSUME NEW q \in r.page.rows, q.uid = i PROVE FALSE
      BY DEF UidsOf
    <3>1. q \in SeenRow /\ q.at <= rows[i].at /\ Shows(w.s.cursor, q) /\ w.s.cursor \in Cursor
      BY <1>2, <1>3 DEF FolderRead, ReadTrue, Streams, States
    <3> QED BY <1>8, <2>1, <3>1, ShowsRow
  <2>3. Unmoved(v2, v, i)
    BY <1>9, <2>2
  <2>4. CASE LateSettled(v1, v2, V)
    <3>1. CASE w.s.recent[i] = V.at /\ v2.copy[i] = v1.copy[i]
      <4>1. w.copy[i] # Present(rows[i])
        BY <1>6, <1>13, <1>14, <2>3, <3>1 DEF Unmoved
      <4>2. Shown(w.s, V)
        BY <4>1 DEF Covered, V
      <4> QED BY <1>8, <2>1, <3>1, <4>2 DEF Shown
    <3>2. CASE v2.copy[i] = Outcome(v1, V)
      <4>1. V.deleted = rows[i].deleted /\ V.edit = rows[i].edit
        BY DEF V, Version
      <4>2. Outcome(v1, V) = Present(rows[i])
        <5>1. w.s.echoes[i] = V.at => w.copy[i] = Present(rows[i])
          BY <1>8 DEF EchoTrue
        <5> QED BY <1>5, <1>8, <1>13, <1>14, <4>1, <5>1 DEF Outcome, Present
      <4> QED BY <1>6, <2>3, <3>2, <4>2 DEF Unmoved
    <3> QED BY <1>5, <1>8, <2>4, <3>1, <3>2 DEF LateSettled, Settled, Unmoved
  <2>5. CASE ~v2.open /\ Unmoved(v1, v2, i)
    <3>1. u.s.cursor = w.s.cursor
      BY <1>0, <2>5
    <3>2. w.copy[i] # Present(rows[i])
      BY <1>6, <1>13, <1>14, <2>3, <2>5 DEF Unmoved
    <3>3. Shown(w.s, V)
      BY <3>2 DEF Covered, V
    <3>4. w.s.recent[i] # V.at /\ Rereads(w.s.cursor, V)
      BY <1>8, <2>1, <3>3 DEF Shown
    <3>5. u.s.recent[i] # V.at
      BY <1>5, <1>8, <1>9, <2>3, <2>5, <3>4 DEF Unmoved
    <3> QED BY <1>8, <3>1, <3>4, <3>5 DEF Shown, V
  <2> QED BY <1>1, <1>8, <1>14, <2>4, <2>5 DEF LateDone
<1>15. CASE Shows(w.s.cursor, V) /\ \A q \in r.page.rows : Precedes(cursorOf(q), cursorOf(V))
  <2>1. w.s.cursor \in Cursor /\ r.page.rows \subseteq SeenRow
    BY <1>2 DEF States, ReadType, PageRead
  <2>2. Shows(u.s.cursor, V)
    BY <1>8, <1>10, <1>15, <2>1, ShowsLater
  <2> QED BY <2>2 DEF Shown, V
<1>16. CASE ~Fresh(r, w.s, i, rows) /\ Shows(w.s.cursor, V) /\ V \in r.page.rows
  <2>1. CASE Shows(v.s.cursor, V)
    BY <1>6, <2>1 DEF Shown, V
  <2>2. CASE Settled(v2, v, V)
    <3>1. V.deleted = rows[i].deleted /\ V.edit = rows[i].edit
      BY DEF V, Version
    <3>2. v.copy[i] = Outcome(v2, V)
      BY <1>8, <2>2 DEF Settled
    <3>3. w.s.echoes[i] = V.at => v2.copy[i] = Present(rows[i])
      <4> SUFFICES ASSUME w.s.echoes[i] = V.at PROVE v2.copy[i] = Present(rows[i])
        OBVIOUS
      <4>1. w.copy[i] = Present(rows[i])
        BY <1>8 DEF EchoTrue
      <4>2. i \notin UidsOf(r.late)
        <5> SUFFICES ASSUME NEW q \in r.late, q.uid = i PROVE FALSE
          BY DEF UidsOf
        <5>1. q.at = rows[i].at
          BY <1>3, <1>8 DEF ReadTrue, FolderRead
        <5>2. q = V
          BY <5>1 DEF ReadTrue, FolderRead, V
        <5> QED BY <1>16, <5>2 DEF ReadTrue
      <4> QED BY <1>9, <1>13, <1>16, <4>1, <4>2 DEF Unmoved
    <3> QED BY <1>6, <1>8, <1>13, <1>16, <3>1, <3>2, <3>3 DEF Outcome, Present
  <2> QED BY <1>1, <1>16, <2>1, <2>2 DEF PageDone
<1>17. CASE ~Fresh(r, w.s, i, rows) /\ w.copy[i] = Present(rows[i])
            /\ \A q \in FolderRead(r) : q.uid # i
  <2>1. i \notin UidsOf(r.late) /\ i \notin UidsOf(r.page.rows)
    BY <1>17 DEF UidsOf, FolderRead
  <2> QED BY <1>6, <1>9, <1>13, <1>17, <2>1 DEF Unmoved
<1>18. SeenItem(r, w.s, w.copy, i, rows)
  BY DEF Seen
<1> QED BY <1>12, <1>14, <1>15, <1>16, <1>17, <1>18 DEF SeenItem, V

\* An item that has left the folder matters if the device has it, or is going to be
\* told of the state that was read.
Matters(r, copy, i, rows) ==
    rows[i].place = "elsewhere" /\ (copy[i] # 0 \/ \E q \in FolderRead(r) : q.uid = i)

\* The other folders' cursor passes nothing that the device still has, unless it is
\* moved on after the window was full already behind it.
LEMMA ProcessMoves ==
  ASSUME Timely,
         NEW w \in Works, NEW r, Streams(w, r), NEW u, EnumeratedBy(w, r, u),
         NEW rows, NEW now, Sane(rows, now), LastRead(r, rows),
         KnownTo(w.s, rows, now), EchoTrue(w.s, w.copy, rows), ReadTrue(r, w.s, rows, now),
         \A i \in Uids : Matters(r, w.copy, i, rows) => MoveShown(w.s, Version(i, rows[i])),
         r.holds => \A i \in Uids : Matters(r, w.copy, i, rows) =>
             \/ Version(i, rows[i]) \in r.moveLate
             \/ Shows(w.s.moveCursor, Version(i, rows[i]))
             \/ now <= rows[i].at + MaxLag,
         r.holds => \A i \in Uids : rows[i].place = "elsewhere"
                                       /\ Shows(w.s.moveCursor, Version(i, rows[i])) =>
             \/ Version(i, rows[i]) \in r.movePage.rows
             \/ \A q \in r.movePage.rows : Precedes(cursorOf(q), cursorOf(Version(i, rows[i]))),
         ~r.holds => \A i \in Uids : Matters(r, w.copy, i, rows) =>
             r.startedAt <= rows[i].at + MaxLag,
         r.holds => MoveLate(Started(w, r), r).open \/ u.s.moveCursor = w.s.moveCursor
  PROVE  MovesCovered(u.s, u.copy, rows)
<1> DEFINE v1 == AfterMoves(w, r)
           v2 == AfterLate(w, r)
<1>1. PICK x, v \in Works :
        /\ x = Started(w, r)
        /\ x.s = w.s /\ x.copy = w.copy /\ x.movedOut = {} /\ x.created = w.created
        /\ MovesDone(x, v1, r)
        /\ LateDone(v1, v2, r.late)
        /\ PageDone(v2, v, r.page.rows)
        /\ PrunedFrom(v, u) /\ u.movedOut = {}
  BY DEF EnumeratedBy
<1>0. r.holds => MoveLate(x, r).open \/ u.s.moveCursor = w.s.moveCursor
  BY <1>1
<1> HIDE DEF v1, v2
<1>2. /\ r \in ReadType /\ w.s \in States /\ u.s \in States /\ now \in Time
  BY <1>1 DEF Streams, Works, PrunedFrom, Sane
<1>3. /\ r.startedAt \in Nat /\ now \in Nat /\ MaxLag \in Nat
      /\ r.movePage.rows \subseteq SeenRow
  BY <1>2, ReadTypes DEF ReadType, PageRead
<1>4. Kept(x, v1)
  BY <1>1 DEF MovesDone
<1>5. /\ u.s.moveCursor = v1.s.moveCursor /\ u.copy = v.copy
      /\ v2.movedOut = v1.movedOut
  BY <1>1 DEF PrunedFrom, PageDone, LateDone, SameButCopy
<1>6. KnownTo(u.s, rows, now)
  BY ProcessKnown
<1> SUFFICES ASSUME NEW i \in Uids, rows[i].place = "elsewhere", u.copy[i] # 0
             PROVE  MoveShown(u.s, Version(i, rows[i]))
  BY DEF MovesCovered
<1> DEFINE V == Version(i, rows[i])
<1>7. V \in SeenRow /\ V.uid = i /\ V.at = rows[i].at /\ rows[i].at >= 1
      /\ rows[i].at \in Nat
  BY VersionRow
<1> HIDE DEF V
<1>8. /\ i \notin UidsOf(r.late) => Unmoved(v1, v2, i)
      /\ i \notin UidsOf(r.page.rows) => Unmoved(v2, v, i)
  BY <1>1, Untouched
<1>9. i \notin v1.movedOut /\ v1.copy[i] = w.copy[i]
  <2>1. ASSUME i \in v1.movedOut PROVE FALSE
    <3>1. v1.copy[i] = 0
      BY <1>4, <2>1 DEF Kept
    <3>2. \A q \in r.late : q.uid = i => Outcome(v1, q) = 0
      BY <2>1, <3>1 DEF Outcome
    <3>3. v2.copy[i] = 0
      BY <1>1, <1>8, <3>1, <3>2 DEF UidsOf, LateDone, LateSettled, Settled, Unmoved
    <3>4. \A q \in r.page.rows : q.uid = i => Outcome(v2, q) = 0
      BY <1>5, <2>1, <3>3 DEF Outcome
    <3>5. v.copy[i] = 0
      BY <1>1, <1>8, <3>3, <3>4 DEF UidsOf, PageDone, Settled, Unmoved
    <3> QED BY <1>5, <3>5
  <2> QED BY <1>1, <1>4, <2>1 DEF Kept
<1>10. Matters(r, w.copy, i, rows)
  BY <1>5, <1>8, <1>9 DEF Matters, UidsOf, FolderRead, Unmoved
<1>11. MoveShown(w.s, V)
  BY <1>10 DEF V
<1>12. CASE u.s.moveCursor = w.s.moveCursor
  BY <1>11, <1>12 DEF MoveShown, V
<1>13. CASE ~r.holds /\ u.s.moveCursor = Floor(r.startedAt)
  <2>1. r.startedAt <= rows[i].at + MaxLag
    BY <1>10, <1>13
  <2>2. Floor(r.startedAt).uid = 0
        /\ Floor(r.startedAt).date = IF r.startedAt > MoveSlack THEN r.startedAt - MoveSlack ELSE 0
    BY DEF Floor
  <2>3. u.s.moveCursor \in Cursor
    BY <1>2 DEF States
  <2>4. Floor(r.startedAt).date < rows[i].at
    BY <1>3, <1>7, <2>1, <2>2, Constants DEF Timely
  <2>5. Shows(u.s.moveCursor, V)
    BY <1>7, <1>13, <2>2, <2>3, <2>4, ShowsRow
  <2> QED BY <2>5 DEF MoveShown, V
<1>14. CASE r.holds /\ u.s.moveCursor # w.s.moveCursor
  <2>1. /\ UidsOf(r.moveLate) \subseteq v1.movedOut
        /\ \A q \in r.movePage.rows : q.uid \in v1.movedOut \/ Shows(v1.s.moveCursor, q)
        /\ \/ v1.s.moveCursor = w.s.moveCursor
           \/ \E q \in r.movePage.rows : v1.s.moveCursor = cursorOf(q)
    BY <1>0, <1>1, <1>14 DEF MovesDone
  <2>2. V \notin r.moveLate
    BY <1>7, <1>9, <2>1 DEF UidsOf
  <2>3. CASE now <= rows[i].at + MaxLag
    <3>1. /\ u.s.moveCursor.date <= now
          /\ u.s.moveCursor.uid = 0 /\ u.s.moveCursor.date # 0
               => u.s.moveCursor.date + MoveSlack <= now
      BY <1>6 DEF KnownTo
    <3> QED BY <1>2, <1>7, <2>3, <3>1, RecentRow DEF V
  <2>4. CASE Shows(w.s.moveCursor, V)
    <3>1. V \in r.movePage.rows \/ \A q \in r.movePage.rows : Precedes(cursorOf(q), cursorOf(V))
      BY <1>14, <2>4 DEF V
    <3>2. CASE V \in r.movePage.rows
      BY <1>5, <1>7, <1>9, <2>1, <3>2 DEF MoveShown, V
    <3>3. CASE \A q \in r.movePage.rows : Precedes(cursorOf(q), cursorOf(V))
      <4>1. w.s.moveCursor \in Cursor
        BY <1>2 DEF States
      <4>2. Shows(u.s.moveCursor, V)
        BY <1>3, <1>5, <1>7, <2>1, <2>4, <3>3, <4>1, ShowsLater
      <4> QED BY <4>2 DEF MoveShown, V
    <3> QED BY <3>1, <3>2, <3>3
  <2> QED BY <1>10, <1>14, <2>2, <2>3, <2>4 DEF V
<1>15. ~r.holds => u.s.moveCursor \in {w.s.moveCursor, Floor(r.startedAt)}
  BY <1>1, <1>5 DEF MovesDone
<1> QED BY <1>12, <1>13, <1>14, <1>15

-----------------------------------------------------------------------------
(* What the steps do to the rows.                                                 *)

LEMMA SaneRows == Base => Sane(row, clock)
BY DEF Base, TypeOK, Written, Here, Away, Sane

\* The item that a command of the device is about: its row, and the device's copy.
CommandEffect(i, echo, copy, made) ==
    /\ Commanded(work, work', i, echo, copy, made)
    /\ Grown(row, row', clock) /\ row'[i].place # "purged"
    /\ echo <= row'[i].at
    /\ row'[i].place = "here" => copy = Present(row'[i])
    /\ row'[i].place = "elsewhere" => copy = 0 \/ copy = created[i]
    /\ \/ made = work.created[i]
       \/ made = created[i] /\ row' = row
       \/ made = clock /\ row'[i].place = "here" /\ row'[i].at = clock

LEMMA CommandDone ==
  ASSUME Base, Timely, NEW i \in Uids,
         applyAdd(i) \/ replayAdd(i) \/ applyChange(i) \/ applyDelete(i)
  PROVE  \E echo, copy, made : CommandEffect(i, echo, copy, made)
<1>1. /\ clock \in Nat /\ clock >= 1 /\ row \in [Uids -> Row] /\ row[i] \in Row
      /\ row[i].at \in Nat /\ MaxLag \in Nat /\ Written(i)
  BY Constants DEF Base, TypeOK, Row, Time
<1>2. ASSUME NEW x, row' = [row EXCEPT ![i] = x], x.place \in {"here", "elsewhere"},
             x.at = clock, row[i].at < clock, row[i].place # "purged"
      PROVE  Grown(row, row', clock) /\ row'[i] = x
  <2>1. row'[i] = x /\ \A j \in Uids \ {i} : row'[j] = row[j]
    BY <1>1, <1>2
  <2>2. clock <= x.at + MaxLag
    BY <1>1, <1>2
  <2> QED BY <1>2, <2>1, <2>2 DEF Grown
<1>3. CASE applyAdd(i)
  <2> DEFINE x == [place |-> "here", deleted |-> FALSE, at |-> clock, edit |-> clock]
  <2>1. row[i].place = "none" /\ row[i].at = 0 /\ row' = [row EXCEPT ![i] = x]
    BY <1>1, <1>3 DEF applyAdd, Written
  <2>2. x.place = "here" /\ x.at = clock /\ Present(x) = clock
    BY DEF Present
  <2>3. Commanded(work, work', i, clock, clock, clock)
    BY <1>3, CommandWork
  <2> HIDE DEF x
  <2>4. Grown(row, row', clock) /\ row'[i] = x
    <3>1. row[i].place # "purged" /\ x.place \in {"here", "elsewhere"} /\ row[i].at < clock
      BY <1>1, <2>1, <2>2
    <3> QED BY <1>1, <1>2, <2>1, <2>2, <3>1
  <2>5. CommandEffect(i, clock, clock, clock)
    BY <1>1, <2>2, <2>3, <2>4 DEF CommandEffect
  <2> QED BY <2>5
<1>4. CASE replayAdd(i)
  <2>1. row' = row /\ row[i].place # "purged" /\ ~row[i].deleted /\ row[i].edit = created[i]
    BY <1>4 DEF replayAdd, store, Timely
  <2>2. Commanded(work, work', i, row[i].at, created[i], created[i])
    BY <1>4, CommandWork
  <2>3. CommandEffect(i, row[i].at, created[i], created[i])
    BY <1>1, <2>1, <2>2 DEF CommandEffect, Grown, Present
  <2> QED BY <2>3
<1>5. CASE applyChange(i)
  <2> DEFINE x == [row[i] EXCEPT !.at = clock]
  <2>1. /\ row[i].place = "here" /\ ~row[i].deleted /\ row[i].at < clock
        /\ row[i].edit = work.copy[i] /\ row' = [row EXCEPT ![i] = x]
    BY <1>1, <1>5 DEF applyChange, Timely
  <2>2. x.place = "here" /\ x.at = clock /\ Present(x) = work.copy[i]
    BY <1>1, <2>1 DEF Present, Row
  <2>3. Commanded(work, work', i, clock, work.copy[i], work.created[i])
    BY <1>5, CommandWork
  <2> HIDE DEF x
  <2>4. Grown(row, row', clock) /\ row'[i] = x
    <3>1. row[i].place # "purged" /\ x.place \in {"here", "elsewhere"}
      BY <2>1, <2>2
    <3> QED BY <1>2, <2>1, <2>2, <3>1
  <2>5. CommandEffect(i, clock, work.copy[i], work.created[i])
    BY <1>1, <2>2, <2>3, <2>4 DEF CommandEffect
  <2> QED BY <2>5
<1>6. CASE applyDelete(i)
  <2>1. row[i].place = "here" /\ row[i].at < clock
    BY <1>6 DEF applyDelete
  <2>2. PICK x : /\ row' = [row EXCEPT ![i] = x] /\ x.at = clock
                 /\ x.place = "elsewhere" \/ (x.place = "here" /\ x.deleted)
    <3>1. CASE row' = [row EXCEPT ![i].at = clock, ![i].place = "elsewhere"]
      <4> DEFINE x == [row[i] EXCEPT !.at = clock, !.place = "elsewhere"]
      <4>1. row' = [row EXCEPT ![i] = x] /\ x.at = clock /\ x.place = "elsewhere"
        BY <1>1, <3>1 DEF Row
      <4> HIDE DEF x
      <4> QED BY <4>1
    <3>2. CASE row' = [row EXCEPT ![i].at = clock, ![i].deleted = TRUE]
      <4> DEFINE x == [row[i] EXCEPT !.at = clock, !.deleted = TRUE]
      <4>1. row' = [row EXCEPT ![i] = x] /\ x.at = clock /\ x.place = "here" /\ x.deleted
        BY <1>1, <2>1, <3>2 DEF Row
      <4> HIDE DEF x
      <4> QED BY <4>1
    <3> QED BY <1>6, <3>1, <3>2 DEF applyDelete
  <2>3. Commanded(work, work', i, 0, 0, work.created[i])
    BY <1>6, CommandWork
  <2>4. Grown(row, row', clock) /\ row'[i] = x
    <3>1. row[i].place # "purged" /\ x.place \in {"here", "elsewhere"}
      BY <2>1, <2>2
    <3> QED BY <1>2, <2>1, <2>2, <3>1
  <2>5. CommandEffect(i, 0, 0, work.created[i])
    BY <1>1, <2>2, <2>3, <2>4 DEF CommandEffect, Present
  <2> QED BY <2>5
<1> QED BY <1>3, <1>4, <1>5, <1>6

\* Time goes on, and rows are only replaced by newer ones.
Onward == Sane(row, clock) /\ Sane(row', clock') /\ Grown(row, row', clock') /\ clock <= clock'

LEMMA Goes ==
  ASSUME Base, Timely, [Next]_vars
  PROVE  Onward
<1>1. Base' /\ Sane(row, clock) /\ Sane(row', clock')
  <2>1. Base'
    BY BaseNext
  <2>2. Sane(row', clock')
    BY <2>1 DEF Base, TypeOK, Written, Here, Away, Sane
  <2> QED BY <2>1, <2>2, SaneRows
<1>2. clock \in Nat /\ row \in [Uids -> Row]
  BY Constants DEF Base, TypeOK, Time
<1>3. CASE UNCHANGED <<row, clock>>
  BY <1>1, <1>2, <1>3 DEF Onward, Grown
<1>4. CASE Tick
  BY <1>1, <1>2, <1>4 DEF Tick, Onward, Grown
<1>5. ASSUME NEW i \in Uids, Commit(i) PROVE Onward
  <2>1. /\ row' = [row EXCEPT ![i] = pending[i]] /\ clock' = clock /\ pending[i] # NoWrite
        /\ Written(i)
    BY <1>5 DEF Commit, Base
  <2> QED BY <1>1, <1>2, <2>1 DEF Onward, Grown, Written
<1>6. ASSUME NEW i \in Uids, Purge(i) PROVE Onward
  <2> DEFINE none == [NoRow EXCEPT !.place = "purged"]
  <2>1. row' = [row EXCEPT ![i] = none] /\ clock' = clock
    BY <1>6 DEF Purge
  <2>2. none.place = "purged" /\ none.at = 0
    BY DEF NoRow
  <2> HIDE DEF none
  <2> QED BY <1>1, <1>2, <2>1, <2>2 DEF Onward, Grown
<1>7. ASSUME NEW i \in Uids, applyAdd(i) \/ replayAdd(i) \/ applyChange(i) \/ applyDelete(i)
      PROVE  Onward
  <2>1. clock' = clock
    BY <1>7, CommandRows
  <2>2. Grown(row, row', clock)
    BY <1>7, CommandDone DEF CommandEffect
  <2> QED BY <1>1, <1>2, <2>1, <2>2 DEF Onward
<1>8. CASE Others
  <2>1. \A i \in Uids : Stamp(i) => UNCHANGED <<row, clock>>
    BY DEF Stamp
  <2> QED BY <1>3, <1>5, <1>6, <1>8, <2>1 DEF Others
<1>9. CASE Round \/ Lose
  <2>1. UNCHANGED <<row, clock>>
    BY <1>9 DEF Round, Lose, store, Begin, ReadFolderLate, ReadFolderPage, ReadMoveLate,
                ReadMovePage, Reconcile, Deliver
  <2> QED BY <1>3, <2>1
<1>10. CASE UNCHANGED vars
  BY <1>3, <1>10 DEF vars
<1> QED BY <1>4, <1>7, <1>8, <1>9, <1>10 DEF Next, Commands

-----------------------------------------------------------------------------
(* What the states of the round and of the device know.                           *)

Reading == {"page", "moveLate", "movePage"}

Known ==
    /\ KnownTo(coll, row, clock) /\ EchoTrue(coll, device, row)
    /\ pc # "idle" => KnownTo(work.s, row, clock) /\ EchoTrue(work.s, work.copy, row)
    /\ pc \in Reading => ReadTrue(read, work.s, row, clock)
    /\ pc = "page" => /\ read.startedAt = clock /\ read.page = NoPage
                      /\ read.moveLate = {} /\ ~read.holds
    /\ pc = "moveLate" => read.moveLate = {}
    /\ pc \in {"moveLate", "movePage"} => read.holds

LEMMA KnownInit == Init => Known
<1> SUFFICES ASSUME Init PROVE Known
  OBVIOUS
<1>1. clock = 1 /\ coll = NoState /\ pc = "idle" /\ row = [i \in Uids |-> NoRow]
  BY DEF Init
<1>2. KnownTo(coll, row, clock)
  BY <1>1, Constants DEF KnownTo, NoState, Epoch, Never, NoRow
<1>3. EchoTrue(coll, device, row)
  BY <1>1 DEF EchoTrue, NoRow
<1> QED BY <1>1, <1>2, <1>3 DEF Known, Reading

\* What the device's state knows, whatever the round does.
LEMMA CollKnown ==
  ASSUME Base, Timely, Known, [Next]_vars, UNCHANGED <<coll, device>>
  PROVE  KnownTo(coll', row', clock') /\ EchoTrue(coll', device', row')
<1>1. Onward /\ coll \in States
  BY Goes DEF Base, TypeOK
<1> QED BY <1>1, KnownLater DEF Known, Onward

LEMMA WorkKnown ==
  ASSUME Base, Timely, Known, [Next]_vars, pc # "idle"
  PROVE  KnownTo(work.s, row', clock') /\ EchoTrue(work.s, work.copy, row')
<1>1. Onward /\ work.s \in States
  BY Goes DEF Base, Works
<1> QED BY <1>1, KnownLater DEF Known, Onward

\* Steps of everyone else.
LEMMA KnownStore ==
  ASSUME Base, Timely, Known, [Next]_vars, UNCHANGED <<device, coll, pc, read, work>>,
         pc = "page" => clock' = clock
  PROVE  Known'
<1>1. KnownTo(coll', row', clock') /\ EchoTrue(coll', device', row')
  BY CollKnown
<1>2. pc' # "idle" => KnownTo(work'.s, row', clock') /\ EchoTrue(work'.s, work'.copy, row')
  BY WorkKnown
<1>3. pc' \in Reading => ReadTrue(read', work'.s, row', clock')
  <2>1. Onward /\ work.s \in States /\ read \in ReadType
    BY Goes DEF Base, Works
  <2> QED BY <2>1, ReadLater DEF Known, Onward
<1> QED BY <1>1, <1>2, <1>3 DEF Known

LEMMA KnownCommand ==
  ASSUME Base, Timely, Known, [Next]_vars, NEW i \in Uids,
         applyAdd(i) \/ replayAdd(i) \/ applyChange(i) \/ applyDelete(i)
  PROVE  Known'
<1>1. pc = "commands" /\ UNCHANGED <<clock, coll, device, pc, read>>
  BY CommandRows
<1>2. PICK echo, copy, made : CommandEffect(i, echo, copy, made)
  BY CommandDone
<1>3. KnownTo(work.s, row', clock') /\ EchoTrue(work.s, work.copy, row')
  BY <1>1, WorkKnown
<1>4. KnownTo(work'.s, row', clock')
  BY <1>2, <1>3 DEF CommandEffect, Commanded, KnownTo
<1>5. EchoTrue(work'.s, work'.copy, row')
  BY <1>2, <1>3 DEF CommandEffect, Commanded, EchoTrue
<1>6. KnownTo(coll', row', clock') /\ EchoTrue(coll', device', row')
  BY <1>1, CollKnown
<1> QED BY <1>1, <1>4, <1>5, <1>6 DEF Known, Reading

LEMMA KnownBegin ==
  ASSUME Base, Timely, Known, [Next]_vars, Begin
  PROVE  Known'
<1>1. /\ work'.s = coll /\ work'.copy = device /\ pc' = "commands"
      /\ UNCHANGED <<row, clock, coll, device>>
  BY DEF Begin, WorkOn, store
<1>2. KnownTo(coll', row', clock') /\ EchoTrue(coll', device', row')
  BY <1>1, CollKnown
<1> QED BY <1>1, <1>2 DEF Known, Reading

LEMMA KnownReadFolderLate ==
  ASSUME Base, Timely, Known, [Next]_vars, ReadFolderLate
  PROVE  Known'
<1> DEFINE late == scanOverlap(InPlace("here"), work.s.cursor, Overlap)
<1>1. /\ read' = [NoRead EXCEPT !.late = late, !.startedAt = clock] /\ pc = "commands" /\ pc' = "page"
      /\ UNCHANGED <<row, clock, coll, device, work>>
  BY DEF ReadFolderLate, store
<1>2. \A q \in late : q \in InPlace("here") /\ ~Precedes(work.s.cursor, cursorOf(q))
                       /\ work.s.cursor.date # 0
  BY DEF scanOverlap, Behind
<1> HIDE DEF late
<1>3. /\ read'.late = late /\ read'.startedAt = clock /\ read'.page = NoPage
      /\ read'.page.rows = {} /\ read'.moveLate = {} /\ ~read'.holds
  BY <1>1 DEF NoRead, NoPage
<1>4. KnownTo(work.s, row, clock) /\ work.s.cursor \in Cursor /\ Sane(row, clock)
  BY <1>1, SaneRows DEF Known, Base, Works, States
<1>5. ASSUME NEW q \in late
      PROVE  /\ 1 <= q.at /\ q.at <= clock /\ q.at = row[q.uid].at /\ row[q.uid].place = "here"
             /\ q = Version(q.uid, row[q.uid]) /\ q.at <= row[q.uid].at
             /\ work.s.echoes[q.uid] <= q.at
             /\ ~Shows(work.s.cursor, q)
  <2>1. q.uid \in Uids /\ row[q.uid].place = "here" /\ q = Version(q.uid, row[q.uid])
    BY <1>2, RowsInPlace
  <2>2. q \in SeenRow /\ q.at = row[q.uid].at /\ q.at >= 1 /\ q.at <= clock
    BY <1>4, <2>1, VersionRow
  <2>3. work.s.echoes[q.uid] <= q.at
    BY <1>4, <2>1, <2>2 DEF KnownTo
  <2>5. q.at <= row[q.uid].at
    BY <2>2, Constants DEF SeenRow, Time
  <2>4. ~Shows(work.s.cursor, q)
    <3>1. work.s.cursor.uid # 0
      BY <1>2, <1>4 DEF KnownTo
    <3> QED BY <1>2, <3>1 DEF Shows, After
  <2> QED BY <2>1, <2>2, <2>3, <2>4, <2>5
<1>6. FolderRead(read') = late
  BY <1>3 DEF FolderRead
<1>7. clock <= clock
  BY Constants DEF Base, TypeOK, Time
<1>8. ReadTrue(read', work'.s, row', clock')
  <2>1. work.s.cursor.date <= clock /\ work.s.moveCursor.date <= clock
    BY <1>4 DEF KnownTo
  <2>2. work'.s = work.s /\ row' = row /\ clock' = clock
    BY <1>1
  <2> QED BY <1>3, <1>5, <1>6, <1>7, <2>1, <2>2 DEF ReadTrue
<1>9. KnownTo(coll', row', clock') /\ EchoTrue(coll', device', row')
  BY <1>1, CollKnown
<1>10. KnownTo(work'.s, row', clock') /\ EchoTrue(work'.s, work'.copy, row')
  BY <1>1, WorkKnown
<1> QED BY <1>1, <1>3, <1>8, <1>9, <1>10 DEF Known

\* A page has present rows, and leaves only later ones ahead.
LEMMA PresentPage ==
  ASSUME Base, NEW place \in {"here", "elsewhere"}, NEW c, NEW n \in Nat,
         NEW page, page = scanAfter(InPlace(place), c, n)
  PROVE  /\ \A q \in page.rows :
               /\ q.uid \in Uids /\ row[q.uid].place = place /\ q = Version(q.uid, row[q.uid])
               /\ q \in SeenRow /\ 1 <= q.at /\ q.at <= clock /\ q.at = row[q.uid].at
               /\ q.at <= row[q.uid].at
         /\ \A i \in Uids : row[i].place = place /\ Shows(c, Version(i, row[i])) =>
               \/ Version(i, row[i]) \in page.rows
               \/ \A q \in page.rows : Precedes(cursorOf(q), cursorOf(Version(i, row[i])))
<1> DEFINE found == After(InPlace(place), c)
<1>1. page.rows = FirstOf(found, n)
  BY DEF scanAfter
<1>2. /\ \A q : q \in InPlace(place) <=> q.uid \in Uids /\ row[q.uid].place = place
                                              /\ q = Version(q.uid, row[q.uid])
      /\ \A rows \in SUBSET InPlace(place) : Streamed(rows)
  BY RowsInPlace
<1>3. found \in SUBSET InPlace(place)
  BY DEF After
<1>4. /\ page.rows \subseteq found
      /\ \A q \in found, r \in page.rows : Precedes(cursorOf(q), cursorOf(r)) => q \in page.rows
  <2>1. IsFiniteSet(found) /\ Stream(found)
    BY <1>2, <1>3 DEF Streamed
  <2> HIDE DEF found
  <2> QED BY <1>1, <2>1, FirstRows
<1>5. \A q : q \in found <=> q \in InPlace(place) /\ Shows(c, q)
  BY DEF After, Shows
<1>6. Sane(row, clock)
  BY SaneRows
<1> HIDE DEF found
<1>7. ASSUME NEW q \in page.rows
      PROVE  /\ q.uid \in Uids /\ row[q.uid].place = place /\ q = Version(q.uid, row[q.uid])
             /\ q \in SeenRow /\ 1 <= q.at /\ q.at <= clock /\ q.at = row[q.uid].at
             /\ q.at <= row[q.uid].at
  <2>1. q.uid \in Uids /\ row[q.uid].place = place /\ q = Version(q.uid, row[q.uid])
    BY <1>2, <1>4, <1>5
  <2>2. q \in SeenRow /\ q.at = row[q.uid].at /\ q.at >= 1 /\ q.at <= clock
    BY <1>6, <2>1, VersionRow
  <2>3. q.at <= row[q.uid].at
    BY <2>2, Constants DEF SeenRow, Time
  <2> QED BY <2>1, <2>2, <2>3
<1>8. ASSUME NEW i \in Uids, row[i].place = place, Shows(c, Version(i, row[i])),
              Version(i, row[i]) \notin page.rows, NEW q \in page.rows
       PROVE  Precedes(cursorOf(q), cursorOf(Version(i, row[i])))
  <2> DEFINE V == Version(i, row[i])
  <2>1. V \in SeenRow /\ V.uid = i /\ V.at = row[i].at /\ row[i].at \in Nat
    BY <1>6, <1>8, VersionRow
  <2>2. V \in found
    BY <1>2, <1>5, <1>8, <2>1
  <2>3. ~Precedes(cursorOf(V), cursorOf(q))
    BY <1>4, <1>8, <2>2
  <2>4. q.uid # i
    BY <1>7, <1>8
  <2>5. q.at \in Nat /\ q.uid \in Nat /\ i \in Nat
    BY <1>7, Constants DEF SeenRow, Time, Uids
  <2> HIDE DEF V
  <2> QED BY <2>1, <2>3, <2>4, <2>5 DEF Precedes, cursorOf, V
<1> QED BY <1>7, <1>8

\* The rows of a page are the folder's present ones.
LEMMA PageTrue ==
  ASSUME Base, Known, pc = "page"
  PROVE  /\ ReadTrue(WithFolderPage, work.s, row, clock)
         /\ WithFolderPage.late = read.late /\ WithFolderPage.startedAt = read.startedAt
         /\ WithFolderPage.moveLate = {} /\ WithFolderPage.movePage.rows = {}
         /\ WithFolderPage.holds = (work.s.held # {})
         /\ \A q \in WithFolderPage.page.rows :
               q.uid \in Uids /\ row[q.uid].place = "here" /\ q = Version(q.uid, row[q.uid])
         /\ \A i \in Uids : row[i].place = "here" /\ Shows(work.s.cursor, Version(i, row[i])) =>
               \/ Version(i, row[i]) \in WithFolderPage.page.rows
               \/ \A q \in WithFolderPage.page.rows :
                      Precedes(cursorOf(q), cursorOf(Version(i, row[i])))
<1> DEFINE page == scanAfter(InPlace("here"), work.s.cursor, WindowSize)
           u    == WithFolderPage
<1>1. u = [read EXCEPT !.page = page, !.holds = work.s.held # {}] /\ read \in ReadType
  BY DEF WithFolderPage, Base
<1>2. WindowSize \in Nat
  BY Constants
<1> HIDE DEF page, u
<1>3. /\ \A q \in page.rows :
               /\ q.uid \in Uids /\ row[q.uid].place = "here" /\ q = Version(q.uid, row[q.uid])
               /\ q \in SeenRow /\ 1 <= q.at /\ q.at <= clock /\ q.at = row[q.uid].at
               /\ q.at <= row[q.uid].at
      /\ \A i \in Uids : row[i].place = "here" /\ Shows(work.s.cursor, Version(i, row[i])) =>
               \/ Version(i, row[i]) \in page.rows
               \/ \A q \in page.rows : Precedes(cursorOf(q), cursorOf(Version(i, row[i])))
  BY <1>2, PresentPage DEF page
<1>4. /\ u.page = page /\ u.late = read.late /\ u.startedAt = read.startedAt
      /\ u.moveLate = read.moveLate /\ u.movePage = read.movePage /\ u.holds = (work.s.held # {})
  BY <1>1 DEF ReadType
<1>5. read.startedAt = clock /\ read.page = NoPage /\ read.moveLate = {} /\ read.movePage = NoPage
      /\ KnownTo(work.s, row, clock) /\ ReadTrue(read, work.s, row, clock)
  BY DEF Known, Base, Reading
<1>6. \A q \in page.rows : work.s.echoes[q.uid] <= q.at
  BY <1>3, <1>5 DEF KnownTo
<1>7. ReadTrue(u, work.s, row, clock)
  BY <1>3, <1>4, <1>5, <1>6 DEF ReadTrue, FolderRead
<1>8. u.movePage.rows = {}
  BY <1>4, <1>5 DEF NoPage
<1> QED BY <1>3, <1>4, <1>5, <1>7, <1>8 DEF u

\* The rows of the other folders' page are there at present.
LEMMA MovePageTrue ==
  ASSUME Base, Known, pc = "movePage"
  PROVE  /\ ReadTrue(WithMovePage, work.s, row, clock) /\ LastRead(WithMovePage, row)
         /\ WithMovePage.late = read.late /\ WithMovePage.page = read.page
         /\ WithMovePage.startedAt = read.startedAt
         /\ WithMovePage.moveLate = read.moveLate /\ WithMovePage.holds
         /\ \A i \in Uids : row[i].place = "elsewhere"
                               /\ Shows(work.s.moveCursor, Version(i, row[i])) =>
               \/ Version(i, row[i]) \in WithMovePage.movePage.rows
               \/ \A q \in WithMovePage.movePage.rows :
                      Precedes(cursorOf(q), cursorOf(Version(i, row[i])))
<1> DEFINE page == scanAfter(InPlace("elsewhere"), work.s.moveCursor, MoveScanLimit)
           u    == WithMovePage
<1>1. u = [read EXCEPT !.movePage = page] /\ read \in ReadType
  BY DEF WithMovePage, Base
<1>2. MoveScanLimit \in Nat
  BY Constants
<1> HIDE DEF page, u
<1>3. /\ \A q \in page.rows :
               q.uid \in Uids /\ row[q.uid].place = "elsewhere" /\ q = Version(q.uid, row[q.uid])
      /\ \A i \in Uids : row[i].place = "elsewhere"
                            /\ Shows(work.s.moveCursor, Version(i, row[i])) =>
               \/ Version(i, row[i]) \in page.rows
               \/ \A q \in page.rows : Precedes(cursorOf(q), cursorOf(Version(i, row[i])))
  BY <1>2, PresentPage DEF page
<1>4. /\ u.page = read.page /\ u.late = read.late /\ u.startedAt = read.startedAt
      /\ u.moveLate = read.moveLate /\ u.movePage = page /\ u.holds = read.holds
  BY <1>1 DEF ReadType
<1>5. read.holds /\ ReadTrue(read, work.s, row, clock)
  BY DEF Known, Reading
<1>6. ReadTrue(u, work.s, row, clock)
  BY <1>4, <1>5 DEF ReadTrue, FolderRead
<1>7. LastRead(u, row)
  BY <1>3, <1>4 DEF LastRead
<1> QED BY <1>3, <1>4, <1>5, <1>6, <1>7 DEF u

\* Once the round has gone through what it read.
LEMMA KnownProcess ==
  ASSUME Base, Timely, Known, [Next]_vars, pc # "idle", NEW r, Streams(work, r), Process(r),
         UNCHANGED <<store, device, coll>>, LastRead(r, row), ReadTrue(r, work.s, row, clock)
  PROVE  Known'
<1>1. EnumeratedBy(work, r, work') /\ pc' \in {"reconcile", "answer"}
  BY ProcessWork
<1>2. work \in Works /\ Sane(row, clock) /\ row' = row /\ clock' = clock
  BY SaneRows DEF Base, store
<1>3. KnownTo(work'.s, row, clock) /\ EchoTrue(work'.s, work'.copy, row)
  BY <1>1, <1>2, ProcessKnown DEF Known
<1>4. KnownTo(coll', row', clock') /\ EchoTrue(coll', device', row')
  BY CollKnown
<1> QED BY <1>1, <1>2, <1>3, <1>4 DEF Known, Reading

LEMMA KnownReadFolderPage ==
  ASSUME Base, Timely, Known, [Next]_vars, ReadFolderPage
  PROVE  Known'
<1>1. pc = "page" /\ UNCHANGED <<store, device, coll>> /\ row' = row /\ clock' = clock
  BY DEF ReadFolderPage, store
<1>2. /\ ReadTrue(WithFolderPage, work.s, row, clock)
      /\ WithFolderPage.moveLate = {} /\ WithFolderPage.movePage.rows = {}
      /\ WithFolderPage.holds = (work.s.held # {})
  BY <1>1, PageTrue
<1>3. CASE work.s.held # {}
  <2>1. read' = WithFolderPage /\ pc' = "moveLate" /\ work' = work
    BY <1>3 DEF ReadFolderPage
  <2>2. KnownTo(work.s, row', clock') /\ EchoTrue(work.s, work.copy, row')
    BY <1>1, WorkKnown
  <2>3. KnownTo(coll', row', clock') /\ EchoTrue(coll', device', row')
    BY <1>1, CollKnown
  <2> HIDE DEF WithFolderPage
  <2> QED BY <1>1, <1>2, <1>3, <2>1, <2>2, <2>3 DEF Known, Reading
<1>4. CASE work.s.held = {}
  <2>1. Process(WithFolderPage) /\ Streams(work, WithFolderPage)
    BY <1>1, <1>4, PageStreams DEF ReadFolderPage
  <2>2. LastRead(WithFolderPage, row)
    BY <1>2 DEF LastRead
  <2> QED BY <1>1, <1>2, <2>1, <2>2, KnownProcess
<1> QED BY <1>3, <1>4

LEMMA KnownReadMoveLate ==
  ASSUME Base, Timely, Known, [Next]_vars, ReadMoveLate
  PROVE  Known'
<1> DEFINE late == scanOverlap(InPlace("elsewhere"), work.s.moveCursor, Overlap)
<1>1. /\ read' = [read EXCEPT !.moveLate = late] /\ pc = "moveLate" /\ pc' = "movePage"
      /\ row' = row /\ clock' = clock
      /\ UNCHANGED <<coll, device, work>>
  BY DEF ReadMoveLate, store
<1>2. late \subseteq InPlace("elsewhere")
  BY DEF scanOverlap, Behind
<1> HIDE DEF late
<1>3. /\ read'.late = read.late /\ read'.startedAt = read.startedAt /\ read'.page = read.page
      /\ read'.moveLate = late /\ read'.holds = read.holds
  BY <1>1 DEF Base, ReadType
<1>4. KnownTo(work.s, row, clock) /\ ReadTrue(read, work.s, row, clock) /\ Sane(row, clock)
  BY <1>1, SaneRows DEF Known, Reading
<1>5. ASSUME NEW q \in late
      PROVE  /\ 1 <= q.at /\ q.at <= row[q.uid].at /\ row[q.uid].place = "elsewhere"
             /\ work.s.echoes[q.uid] <= q.at
  <2>1. q.uid \in Uids /\ row[q.uid].place = "elsewhere" /\ q = Version(q.uid, row[q.uid])
    BY <1>2, RowsInPlace
  <2>2. q \in SeenRow /\ q.at = row[q.uid].at /\ q.at >= 1
    BY <1>4, <2>1, VersionRow
  <2>3. q.at <= row[q.uid].at
    BY <2>2, Constants DEF SeenRow, Time
  <2> QED BY <1>4, <2>1, <2>2, <2>3 DEF KnownTo
<1>6. FolderRead(read') = FolderRead(read)
  BY <1>3 DEF FolderRead
<1>7. ReadTrue(read', work'.s, row', clock')
  BY <1>1, <1>3, <1>4, <1>5, <1>6 DEF ReadTrue
<1>8. KnownTo(coll', row', clock') /\ EchoTrue(coll', device', row')
  BY <1>1, CollKnown
<1>9. KnownTo(work'.s, row', clock') /\ EchoTrue(work'.s, work'.copy, row')
  BY <1>1, WorkKnown
<1> QED BY <1>1, <1>3, <1>7, <1>8, <1>9 DEF Known, Reading

LEMMA KnownReadMovePage ==
  ASSUME Base, Timely, Known, [Next]_vars, ReadMovePage
  PROVE  Known'
<1>1. pc = "movePage" /\ UNCHANGED <<store, device, coll>> /\ Process(WithMovePage)
  BY DEF ReadMovePage
<1>2. Streams(work, WithMovePage)
  BY MovePageStreams
<1>3. ReadTrue(WithMovePage, work.s, row, clock) /\ LastRead(WithMovePage, row)
  BY <1>1, MovePageTrue
<1> QED BY <1>1, <1>2, <1>3, KnownProcess

LEMMA KnownReconcile ==
  ASSUME Base, Timely, Known, [Next]_vars, Reconcile
  PROVE  Known'
<1>1. pc = "reconcile" /\ pc' = "answer" /\ row' = row /\ clock' = clock
      /\ UNCHANGED <<coll, device>> /\ work' = Reconciled(work)
  BY DEF Reconcile, store
<1>2. LookupDone(work, work')
  BY <1>1, ReconciledDone DEF Base
<1>3. KnownTo(work.s, row', clock') /\ EchoTrue(work.s, work.copy, row')
  BY <1>1, WorkKnown
<1>4. KnownTo(work'.s, row', clock')
  BY <1>1, <1>2, <1>3, Constants DEF LookupDone, KnownTo, Base, TypeOK, Row, Time
<1>5. EchoTrue(work'.s, work'.copy, row')
  <2>1. ASSUME NEW i \in Uids, row[i].place = "here", work'.s.echoes[i] = row[i].at
        PROVE  work'.copy[i] = Present(row[i])
    <3>1. row[i].at >= 1 /\ row[i].at \in Nat
      BY <2>1, VersionRow, SaneRows
    <3>2. work'.copy[i] = work.copy[i] /\ work'.s.echoes[i] = work.s.echoes[i]
      BY <1>2, <2>1, <3>1 DEF LookupDone
    <3> QED BY <1>1, <1>3, <2>1, <3>2 DEF EchoTrue
  <2> QED BY <1>1, <2>1 DEF EchoTrue
<1>6. KnownTo(coll', row', clock') /\ EchoTrue(coll', device', row')
  BY <1>1, CollKnown
<1> QED BY <1>1, <1>4, <1>5, <1>6 DEF Known, Reading

LEMMA KnownEnd ==
  ASSUME Base, Timely, Known, [Next]_vars, Deliver \/ Lose
  PROVE  Known'
<1>1. pc = "answer" /\ pc' = "idle"
  BY DEF Deliver, Lose
<1>2. KnownTo(coll', row', clock') /\ EchoTrue(coll', device', row')
  <2>1. CASE Deliver
    <3>1. coll' = work.s /\ device' = work.copy
      BY <2>1 DEF Deliver
    <3> QED BY <1>1, <3>1, WorkKnown
  <2>2. CASE Lose
    <3>1. UNCHANGED <<coll, device>>
      BY <2>2 DEF Lose
    <3> QED BY <3>1, CollKnown
  <2> QED BY <2>1, <2>2
<1> QED BY <1>1, <1>2 DEF Known, Reading

\* The steps of everyone else leave the round and the device alone.
LEMMA OthersSteps ==
  ASSUME Tick \/ Others \/ UNCHANGED vars
  PROVE  /\ UNCHANGED <<device, coll, created, pc, read, work>>
         /\ pc \in {"page", "movePage"} => clock' = clock
BY DEF Tick, Others, Stamp, Commit, Purge, vars

LEMMA KnownNext ==
  ASSUME Base, Timely, Known, [Next]_vars
  PROVE  Known'
<1>1. CASE Tick \/ Others \/ UNCHANGED vars
  BY <1>1, OthersSteps, KnownStore
<1>2. CASE Commands
  BY <1>2, KnownCommand DEF Commands
<1>3. CASE Round
  BY <1>3, KnownBegin, KnownReadFolderLate, KnownReadFolderPage, KnownReadMoveLate,
     KnownReadMovePage, KnownReconcile, KnownEnd DEF Round
<1>4. CASE Lose
  BY <1>4, KnownEnd
<1> QED BY <1>1, <1>2, <1>3, <1>4 DEF Next

LEMMA KnownAlways ==
  ASSUME Timely
  PROVE  Spec => [](Base /\ Known)
<1>1. Init => Base /\ Known
  BY BaseInit, KnownInit
<1>2. (Base /\ Known) /\ [Next]_vars => (Base /\ Known)'
  BY BaseNext, KnownNext
<1> QED BY <1>1, <1>2, PTL DEF Spec
-----------------------------------------------------------------------------
(* No change of the folder is passed.                                             *)

\* The one step that may pass a change: the rows behind the cursor have filled the
\* window, and what follows them moves the cursor on all the same.
WholeRead == IF pc = "page" THEN WithFolderPage ELSE WithMovePage
RunsAhead ==
    /\ pc \in {"page", "movePage"} /\ pc' \in {"reconcile", "answer"}
    /\ ~AfterLate(work, WholeRead).open
    /\ work'.s.cursor # work.s.cursor

\* What the device lacks is shown to the next round, and to the one at work.
Unskipped ==
    /\ Covered(coll, device, row)
    /\ pc # "idle" => Covered(work.s, work.copy, row)
    /\ pc \in Reading => Seen(read, work.s, work.copy, row)

LEMMA UnskippedInit == Init => Unskipped
BY DEF Init, Unskipped, Covered, Reading, NoRow

LEMMA CoveredLater ==
  ASSUME Timely, NEW s \in States, NEW copy, NEW old, NEW new, NEW then, NEW now,
         Sane(old, then), Sane(new, now), Grown(old, new, now), then <= now,
         KnownTo(s, old, then), Covered(s, copy, old)
  PROVE  Covered(s, copy, new)
<1> SUFFICES ASSUME NEW i \in Uids, new[i].place = "here", copy[i] # Present(new[i])
             PROVE  Shown(s, Version(i, new[i]))
  BY DEF Covered
<1>1. CASE new[i] = old[i]
  BY <1>1 DEF Covered
<1>2. CASE new[i] # old[i]
  <2> DEFINE V == Version(i, new[i])
  <2>1. old[i].place # "purged" /\ old[i].at < new[i].at /\ now <= new[i].at + MaxLag
    BY <1>2 DEF Grown
  <2>2. V \in SeenRow /\ V.uid = i /\ V.at = new[i].at /\ V.at >= 1 /\ new[i].at \in Nat
    BY VersionRow
  <2>3. s.recent[i] <= old[i].at /\ s.recent[i] \in Nat /\ old[i].at \in Nat
    BY <2>1, Constants DEF KnownTo, States, Sane, Row, Time
  <2>4. KnownTo(s, new, now) /\ now \in Time
    BY KnownLater DEF Sane
  <2>5. s.cursor.date <= now /\ (s.cursor.uid = 0 => s.cursor.date = 0)
    BY <2>4 DEF KnownTo
  <2>6. s.recent[V.uid] # V.at /\ now <= V.at + MaxLag
    BY <2>1, <2>2, <2>3
  <2> HIDE DEF V
  <2>7. Shown(s, V)
    BY <2>2, <2>4, <2>5, <2>6, RecentRow
  <2> QED BY <2>7 DEF V
<1> QED BY <1>1, <1>2

\* What the device's state covers, whatever the round does.
LEMMA CollCovered ==
  ASSUME Base, Timely, Known, Unskipped, [Next]_vars, UNCHANGED <<coll, device>>
  PROVE  Covered(coll', device', row')
<1>1. Onward /\ coll \in States
  BY Goes DEF Base, TypeOK
<1> QED BY <1>1, CoveredLater DEF Known, Unskipped, Onward

LEMMA WorkCovered ==
  ASSUME Base, Timely, Known, Unskipped, [Next]_vars, pc # "idle"
  PROVE  Covered(work.s, work.copy, row')
<1>1. Onward /\ work.s \in States
  BY Goes DEF Base, Works
<1> QED BY <1>1, CoveredLater DEF Known, Unskipped, Onward

LEMMA UnskippedStore ==
  ASSUME Base, Timely, Known, Unskipped, [Next]_vars, UNCHANGED <<device, coll, pc, read, work>>
  PROVE  Unskipped'
<1>1. Covered(coll', device', row')
  BY CollCovered
<1>2. pc' # "idle" => Covered(work'.s, work'.copy, row')
  BY WorkCovered
<1>3. pc' \in Reading => Seen(read', work'.s, work'.copy, row')
  <2>1. Onward /\ work.s \in States /\ read \in ReadType
    BY Goes DEF Base, Works
  <2>2. pc \in Reading => pc # "idle"
    BY DEF Reading
  <2> QED BY <2>1, <2>2, SeenLater DEF Known, Unskipped, Onward
<1> QED BY <1>1, <1>2, <1>3 DEF Unskipped

LEMMA UnskippedCommand ==
  ASSUME Base, Timely, Known, Unskipped, [Next]_vars, NEW i \in Uids,
         applyAdd(i) \/ replayAdd(i) \/ applyChange(i) \/ applyDelete(i)
  PROVE  Unskipped'
<1>1. pc = "commands" /\ UNCHANGED <<clock, coll, device, pc, read>>
  BY CommandRows
<1>2. PICK echo, copy, made : CommandEffect(i, echo, copy, made)
  BY CommandDone
<1>3. Covered(work.s, work.copy, row')
  BY <1>1, WorkCovered
<1>4. Covered(work'.s, work'.copy, row')
  BY <1>2, <1>3 DEF CommandEffect, Commanded, Covered, Shown, Version
<1>5. Covered(coll', device', row')
  BY <1>1, CollCovered
<1> QED BY <1>1, <1>4, <1>5 DEF Unskipped, Reading

LEMMA UnskippedBegin ==
  ASSUME Base, Timely, Known, Unskipped, [Next]_vars, Begin
  PROVE  Unskipped'
<1>1. /\ work'.s = coll /\ work'.copy = device /\ pc' = "commands"
      /\ UNCHANGED <<row, coll, device>>
  BY DEF Begin, WorkOn, store
<1>2. Covered(coll', device', row')
  BY <1>1, CollCovered
<1> QED BY <1>1, <1>2 DEF Unskipped, Reading

LEMMA UnskippedReadFolderLate ==
  ASSUME Base, Timely, Known, Unskipped, [Next]_vars, ReadFolderLate
  PROVE  Unskipped'
<1> DEFINE late == scanOverlap(InPlace("here"), work.s.cursor, Overlap)
<1>1. /\ read' = [NoRead EXCEPT !.late = late, !.startedAt = clock] /\ pc = "commands" /\ pc' = "page"
      /\ row' = row /\ UNCHANGED <<coll, device, work>>
  BY DEF ReadFolderLate, store
<1>2. \A q : q \in late <=> q \in InPlace("here") /\ Rereads(work.s.cursor, q)
  BY DEF scanOverlap, Behind, Rereads
<1>3. /\ \A q : q \in InPlace("here") <=> q.uid \in Uids /\ row[q.uid].place = "here"
                                              /\ q = Version(q.uid, row[q.uid])
  BY RowsInPlace
<1> HIDE DEF late
<1>4. /\ read'.late = late /\ read'.page.rows = {} /\ read'.moveLate = {}
  BY <1>1 DEF NoRead, NoPage
<1>5. FolderRead(read') = late
  BY <1>4 DEF FolderRead
<1>6. Covered(work.s, work.copy, row)
  BY <1>1 DEF Unskipped
<1>7. ASSUME NEW i \in Uids, row[i].place = "here"
      PROVE  SeenItem(read', work.s, work.copy, i, row)
  <2> DEFINE V == Version(i, row[i])
  <2>1. V.uid = i
    BY DEF Version
  <2>2. V \in InPlace("here")
    BY <1>3, <1>7, <2>1
  <2>3. CASE work.copy[i] = Present(row[i])
    <3>1. CASE \E q \in late : q.uid = i
      <4>1. V \in late
        BY <1>2, <1>3, <3>1
      <4> QED BY <1>4, <4>1 DEF SeenItem
    <3>2. CASE \A q \in late : q.uid # i
      BY <1>5, <2>3, <3>2 DEF SeenItem
    <3> QED BY <3>1, <3>2
  <2>4. CASE work.copy[i] # Present(row[i])
    <3>1. Shows(work.s.cursor, V) \/ Rereads(work.s.cursor, V)
      BY <1>6, <1>7, <2>4 DEF Covered, Shown
    <3>2. CASE Rereads(work.s.cursor, V)
      BY <1>2, <1>4, <2>2, <3>2 DEF SeenItem
    <3>3. CASE Shows(work.s.cursor, V)
      BY <1>4, <3>3 DEF SeenItem
    <3> QED BY <3>1, <3>2, <3>3
  <2> QED BY <2>3, <2>4
<1>8. Seen(read', work'.s, work'.copy, row')
  BY <1>1, <1>4, <1>7 DEF Seen
<1>9. Covered(coll', device', row')
  BY <1>1, CollCovered
<1> QED BY <1>1, <1>6, <1>8, <1>9 DEF Unskipped

\* The page has every row that the device has not been told of otherwise.
LEMMA PageSeen ==
  ASSUME Base, Known, Unskipped, pc = "page"
  PROVE  Seen(WithFolderPage, work.s, work.copy, row)
<1> DEFINE u == WithFolderPage
<1>1. /\ u.late = read.late /\ u.startedAt = read.startedAt /\ u.moveLate = {}
      /\ \A q \in u.page.rows :
            q.uid \in Uids /\ row[q.uid].place = "here" /\ q = Version(q.uid, row[q.uid])
      /\ \A i \in Uids : row[i].place = "here" /\ Shows(work.s.cursor, Version(i, row[i])) =>
            \/ Version(i, row[i]) \in u.page.rows
            \/ \A q \in u.page.rows : Precedes(cursorOf(q), cursorOf(Version(i, row[i])))
  BY PageTrue
<1>2. \A q \in u.page.rows : Shows(work.s.cursor, q)
  BY PageStreams DEF Streams
<1>3. read.page.rows = {} /\ Seen(read, work.s, work.copy, row)
  BY DEF Known, NoPage, Unskipped, Reading
<1> HIDE DEF u
<1>4. FolderRead(u) = read.late \cup u.page.rows /\ FolderRead(read) = read.late
  BY <1>1, <1>3 DEF FolderRead
<1>5. ASSUME NEW i \in Uids, row[i].place = "here"
      PROVE  SeenItem(u, work.s, work.copy, i, row)
  <2> DEFINE V == Version(i, row[i])
  <2>1. CASE \E q \in u.page.rows : q.uid = i
    <3>1. V \in u.page.rows
      BY <1>1, <2>1
    <3> QED BY <1>2, <3>1 DEF SeenItem
  <2>2. CASE \A q \in u.page.rows : q.uid # i
    <3>1. SeenItem(read, work.s, work.copy, i, row)
      BY <1>3, <1>5 DEF Seen
    <3>2. CASE Fresh(read, work.s, i, row)
      <4>1. Fresh(u, work.s, i, row)
        BY <1>1, <1>4, <2>2, <3>2 DEF Fresh
      <4> QED BY <4>1 DEF SeenItem
    <3>3. CASE V \in read.late
      BY <1>1, <3>3 DEF SeenItem
    <3>4. CASE Shows(work.s.cursor, V)
      BY <1>1, <1>5, <3>4 DEF SeenItem
    <3>5. CASE work.copy[i] = Present(row[i]) /\ \A q \in FolderRead(read) : q.uid # i
      BY <1>4, <2>2, <3>5 DEF SeenItem
    <3> HIDE DEF V
    <3> QED BY <3>1, <3>2, <3>3, <3>4, <3>5 DEF SeenItem, V
  <2> QED BY <2>1, <2>2
<1> QED BY <1>1, <1>5 DEF Seen, u

LEMMA UnskippedProcess ==
  ASSUME Base, Timely, Known, Unskipped, [Next]_vars, ~RunsAhead,
         pc \in {"page", "movePage"}, Streams(work, WholeRead), Process(WholeRead),
         UNCHANGED <<store, device, coll>>, LastRead(WholeRead, row),
         ReadTrue(WholeRead, work.s, row, clock), Seen(WholeRead, work.s, work.copy, row)
  PROVE  Unskipped'
<1>1. EnumeratedBy(work, WholeRead, work') /\ pc' \in {"reconcile", "answer"}
  BY ProcessWork
<1>2. work \in Works /\ Sane(row, clock) /\ row' = row
  BY SaneRows DEF Base, store
<1>3. AfterLate(work, WholeRead).open \/ work'.s.cursor = work.s.cursor
  BY <1>1 DEF RunsAhead
<1>4. KnownTo(work.s, row, clock) /\ EchoTrue(work.s, work.copy, row)
      /\ Covered(work.s, work.copy, row)
  BY DEF Known, Unskipped
<1>5. Covered(work'.s, work'.copy, row)
  BY <1>1, <1>2, <1>3, <1>4, ProcessCovered
<1>6. Covered(coll', device', row')
  BY CollCovered
<1> QED BY <1>1, <1>2, <1>5, <1>6 DEF Unskipped, Reading

LEMMA UnskippedReadFolderPage ==
  ASSUME Base, Timely, Known, Unskipped, [Next]_vars, ~RunsAhead, ReadFolderPage
  PROVE  Unskipped'
<1>1. pc = "page" /\ UNCHANGED <<store, device, coll>> /\ row' = row
  BY DEF ReadFolderPage, store
<1>2. /\ ReadTrue(WithFolderPage, work.s, row, clock) /\ WithFolderPage.movePage.rows = {}
      /\ Seen(WithFolderPage, work.s, work.copy, row)
  BY <1>1, PageTrue, PageSeen
<1>3. CASE work.s.held # {}
  <2>1. read' = WithFolderPage /\ pc' = "moveLate" /\ work' = work
    BY <1>3 DEF ReadFolderPage
  <2>2. Covered(work.s, work.copy, row') /\ Covered(coll', device', row')
    BY <1>1, WorkCovered, CollCovered
  <2> QED BY <1>1, <1>2, <2>1, <2>2 DEF Unskipped
<1>4. CASE work.s.held = {}
  <2>1. Process(WithFolderPage) /\ Streams(work, WithFolderPage)
    BY <1>1, <1>4, PageStreams DEF ReadFolderPage
  <2>2. LastRead(WithFolderPage, row)
    BY <1>2 DEF LastRead
  <2>3. WholeRead = WithFolderPage
    BY <1>1 DEF WholeRead
  <2> QED BY <1>1, <1>2, <2>1, <2>2, <2>3, UnskippedProcess
<1> QED BY <1>3, <1>4

LEMMA UnskippedReadMoveLate ==
  ASSUME Base, Timely, Known, Unskipped, [Next]_vars, ReadMoveLate
  PROVE  Unskipped'
<1> DEFINE late == scanOverlap(InPlace("elsewhere"), work.s.moveCursor, Overlap)
<1>1. /\ read' = [read EXCEPT !.moveLate = late] /\ pc = "moveLate" /\ pc' = "movePage"
      /\ row' = row /\ UNCHANGED <<coll, device, work>>
  BY DEF ReadMoveLate, store
<1>2. late \subseteq InPlace("elsewhere")
  BY DEF scanOverlap, Behind
<1> HIDE DEF late
<1>3. /\ read'.late = read.late /\ read'.startedAt = read.startedAt /\ read'.page = read.page
      /\ read'.moveLate = late
  BY <1>1 DEF Base, ReadType
<1>4. \A q \in late : row[q.uid].place = "elsewhere"
  BY <1>2, RowsInPlace
<1>5. Seen(read, work.s, work.copy, row)
  BY <1>1 DEF Unskipped, Reading
<1>6. Seen(read', work'.s, work'.copy, row')
  BY <1>1, <1>3, <1>4, <1>5 DEF Seen, SeenItem, Fresh, FolderRead
<1>7. Covered(coll', device', row') /\ Covered(work.s, work.copy, row')
  BY <1>1, CollCovered, WorkCovered
<1> QED BY <1>1, <1>6, <1>7 DEF Unskipped

LEMMA UnskippedReadMovePage ==
  ASSUME Base, Timely, Known, Unskipped, [Next]_vars, ~RunsAhead, ReadMovePage
  PROVE  Unskipped'
<1>1. pc = "movePage" /\ UNCHANGED <<store, device, coll>> /\ Process(WithMovePage)
  BY DEF ReadMovePage
<1>2. Streams(work, WithMovePage)
  BY MovePageStreams
<1>3. /\ ReadTrue(WithMovePage, work.s, row, clock) /\ LastRead(WithMovePage, row)
      /\ WithMovePage.late = read.late /\ WithMovePage.page = read.page
      /\ WithMovePage.startedAt = read.startedAt /\ WithMovePage.moveLate = read.moveLate
  BY <1>1, MovePageTrue
<1>4. Seen(read, work.s, work.copy, row)
  BY <1>1 DEF Unskipped, Reading
<1> HIDE DEF WithMovePage
<1>5. Seen(WithMovePage, work.s, work.copy, row)
  BY <1>3, <1>4 DEF Seen, SeenItem, Fresh, FolderRead
<1>6. WholeRead = WithMovePage
  BY <1>1 DEF WholeRead
<1> QED BY <1>1, <1>2, <1>3, <1>5, <1>6, UnskippedProcess

LEMMA UnskippedReconcile ==
  ASSUME Base, Timely, Known, Unskipped, [Next]_vars, Reconcile
  PROVE  Unskipped'
<1>1. pc = "reconcile" /\ pc' = "answer" /\ row' = row
      /\ UNCHANGED <<coll, device>> /\ work' = Reconciled(work)
  BY DEF Reconcile, store
<1>2. LookupDone(work, work')
  BY <1>1, ReconciledDone DEF Base
<1>3. Covered(work.s, work.copy, row) /\ Covered(coll', device', row')
  BY <1>1, CollCovered DEF Unskipped
<1>4. Covered(work'.s, work'.copy, row)
  <2> SUFFICES ASSUME NEW i \in Uids, row[i].place = "here", work'.copy[i] # Present(row[i])
               PROVE  Shown(work'.s, Version(i, row[i]))
    BY DEF Covered
  <2>1. work'.copy[i] = work.copy[i]
    BY <1>2 DEF LookupDone, There, Present
  <2>2. Shown(work.s, Version(i, row[i]))
    BY <1>3, <2>1 DEF Covered
  <2> QED BY <1>2, <2>2 DEF LookupDone, Shown
<1> QED BY <1>1, <1>3, <1>4 DEF Unskipped, Reading

LEMMA UnskippedEnd ==
  ASSUME Base, Timely, Known, Unskipped, [Next]_vars, Deliver \/ Lose
  PROVE  Unskipped'
<1>1. pc = "answer" /\ pc' = "idle"
  BY DEF Deliver, Lose
<1>2. Covered(coll', device', row')
  <2>1. CASE Deliver
    <3>1. coll' = work.s /\ device' = work.copy
      BY <2>1 DEF Deliver
    <3> QED BY <1>1, <3>1, WorkCovered
  <2>2. CASE Lose
    <3>1. UNCHANGED <<coll, device>>
      BY <2>2 DEF Lose
    <3> QED BY <3>1, CollCovered
  <2> QED BY <2>1, <2>2
<1> QED BY <1>1, <1>2 DEF Unskipped, Reading

LEMMA UnskippedNext ==
  ASSUME Base, Timely, Known, Unskipped, [Next]_vars, ~RunsAhead
  PROVE  Unskipped'
<1>1. CASE Tick \/ Others \/ UNCHANGED vars
  BY <1>1, OthersSteps, UnskippedStore
<1>2. CASE Commands
  BY <1>2, UnskippedCommand DEF Commands
<1>3. CASE Round
  BY <1>3, UnskippedBegin, UnskippedReadFolderLate, UnskippedReadFolderPage,
     UnskippedReadMoveLate, UnskippedReadMovePage, UnskippedReconcile, UnskippedEnd DEF Round
<1>4. CASE Lose
  BY <1>4, UnskippedEnd
<1> QED BY <1>1, <1>2, <1>3, <1>4 DEF Next

\* "never past a pending server change" (SyncCommand.ts:118), EasCollectionSync.ts:145-260:
\* whatever is written, moved, purged or lost between the reads of a round, what the
\* device lacks is ahead of its cursor, or in the overlap and not yet reported, as long
\* as a write commits within the overlap, nobody's edit is merged into the device's, and
\* no round moves the cursor on over a window that was full behind it.
THEOREM ChangesShown ==
  ASSUME Timely
  PROVE  Spec /\ [][~RunsAhead]_vars => []NothingSkipped
<1>1. Init => Base /\ Known /\ Unskipped
  BY BaseInit, KnownInit, UnskippedInit
<1>2. Base /\ Known /\ Unskipped /\ [Next]_vars /\ [~RunsAhead]_vars
         => (Base /\ Known /\ Unskipped)'
  <2>1. UNCHANGED vars => ~RunsAhead
    BY DEF vars, RunsAhead
  <2> QED BY <2>1, BaseNext, KnownNext, UnskippedNext
<1>3. Unskipped => NothingSkipped
  BY DEF Unskipped, NothingSkipped, Covered, Outdated, StillShown, Present, Version,
         Shown, Shows, Rereads
<1> QED BY <1>1, <1>2, <1>3, PTL DEF Spec
-----------------------------------------------------------------------------
(* No item that left the folder is passed.                                        *)

\* The one step that may pass an item that left: as above, in the other stream.
MovesRunAhead ==
    /\ pc = "movePage" /\ pc' \in {"reconcile", "answer"}
    /\ ~MoveLate(Started(work, WithMovePage), WithMovePage).open
    /\ work'.s.moveCursor # work.s.moveCursor

\* What a round has created for the device was written at time `since` or later, and
\* has been written again if it has left.
CreatedKnown(c, since, rows) ==
    \A i \in Uids : c[i] # 0 =>
        /\ rows[i].place # "none"
        /\ rows[i].place \in {"here", "elsewhere"} =>
              since <= c[i] /\ c[i] <= rows[i].at
        /\ rows[i].place = "elsewhere" => c[i] < rows[i].at

\* What the round has to take from the device is shown by the state it works on.
AllShown(r, s, copy, rows) ==
    \A i \in Uids : Matters(r, copy, i, rows) => MoveShown(s, Version(i, rows[i]))

\* An item that was read in the folder and has left it did so while it was read.
LeftMeanwhile(r, rows) ==
    \A i \in Uids : rows[i].place = "elsewhere" /\ (\E q \in FolderRead(r) : q.uid = i)
                       => r.startedAt <= rows[i].at + MaxLag

\* It was read behind the other folders' cursor, or is ahead of it, or is fresh.
AllRead(r, s, copy, rows, now) ==
    \A i \in Uids : Matters(r, copy, i, rows) =>
        \/ Version(i, rows[i]) \in r.moveLate
        \/ Shows(s.moveCursor, Version(i, rows[i]))
        \/ now <= rows[i].at + MaxLag

MovesUnskipped ==
    /\ MovesCovered(coll, device, row)
    /\ CreatedKnown(created, coll.moveCursor.date, row)
    /\ pc # "idle" => /\ MovesCovered(work.s, work.copy, row)
                      /\ CreatedKnown(work.created, coll.moveCursor.date, row)
    /\ pc = "commands" => work.s.moveCursor = coll.moveCursor
    /\ pc \in Reading => AllShown(read, work.s, work.copy, row)
    /\ pc = "page" => LeftMeanwhile(read, row)
    /\ pc = "movePage" => AllRead(read, work.s, work.copy, row, clock)

LEMMA MovesInit == Init => MovesUnskipped
BY DEF Init, MovesUnskipped, MovesCovered, CreatedKnown, Reading, NoRow, Never

\* A row that has just been replaced is shown by every state.
LEMMA ReplacedShown ==
  ASSUME Timely, NEW s \in States, NEW old, NEW new, NEW then, NEW now,
         Sane(old, then), Sane(new, now), Grown(old, new, now), then <= now,
         KnownTo(s, old, then), NEW i \in Uids, new[i].place = "elsewhere", new[i] # old[i]
  PROVE  MoveShown(s, Version(i, new[i])) /\ now <= new[i].at + MaxLag
<1> DEFINE V == Version(i, new[i])
<1>1. now <= new[i].at + MaxLag
  BY DEF Grown
<1>2. V \in SeenRow /\ V.at = new[i].at /\ V.at >= 1
  BY VersionRow
<1>3. KnownTo(s, new, now) /\ now \in Time
  BY KnownLater DEF Sane
<1>4. /\ s.moveCursor.date <= now
      /\ s.moveCursor.uid = 0 /\ s.moveCursor.date # 0 => s.moveCursor.date + MoveSlack <= now
  BY <1>3 DEF KnownTo
<1> HIDE DEF V
<1>5. MoveShown(s, V)
  BY <1>1, <1>2, <1>3, <1>4, RecentRow
<1> QED BY <1>1, <1>5 DEF V

LEMMA MovesLater ==
  ASSUME Timely, NEW s \in States, NEW copy, NEW r, NEW old, NEW new, NEW then, NEW now,
         Sane(old, then), Sane(new, now), Grown(old, new, now), then <= now,
         KnownTo(s, old, then)
  PROVE  /\ MovesCovered(s, copy, old) => MovesCovered(s, copy, new)
         /\ AllShown(r, s, copy, old) => AllShown(r, s, copy, new)
         /\ AllRead(r, s, copy, old, then) /\ then = now => AllRead(r, s, copy, new, now)
<1>1. \A i \in Uids : new[i].place = "elsewhere" /\ new[i] # old[i] =>
         MoveShown(s, Version(i, new[i])) /\ now <= new[i].at + MaxLag
  BY ReplacedShown
<1>2. MovesCovered(s, copy, old) => MovesCovered(s, copy, new)
  <2> SUFFICES ASSUME MovesCovered(s, copy, old), NEW i \in Uids,
                      new[i].place = "elsewhere", copy[i] # 0
               PROVE  MoveShown(s, Version(i, new[i]))
    BY DEF MovesCovered
  <2>1. CASE new[i] = old[i]
    BY <2>1 DEF MovesCovered
  <2> QED BY <1>1, <2>1
<1>3. AllShown(r, s, copy, old) => AllShown(r, s, copy, new)
  <2> SUFFICES ASSUME AllShown(r, s, copy, old), NEW i \in Uids, Matters(r, copy, i, new)
               PROVE  MoveShown(s, Version(i, new[i]))
    BY DEF AllShown
  <2>1. CASE new[i] = old[i]
    <3>1. Matters(r, copy, i, old)
      BY <2>1 DEF Matters
    <3> QED BY <2>1, <3>1 DEF AllShown
  <2> QED BY <1>1, <2>1 DEF Matters
<1>4. AllRead(r, s, copy, old, then) /\ then = now => AllRead(r, s, copy, new, now)
  <2> SUFFICES ASSUME AllRead(r, s, copy, old, then), then = now,
                      NEW i \in Uids, Matters(r, copy, i, new)
               PROVE  \/ Version(i, new[i]) \in r.moveLate
                      \/ Shows(s.moveCursor, Version(i, new[i]))
                      \/ now <= new[i].at + MaxLag
    BY DEF AllRead
  <2>1. CASE new[i] = old[i]
    <3>1. Matters(r, copy, i, old)
      BY <2>1 DEF Matters
    <3> QED BY <2>1, <3>1 DEF AllRead
  <2> QED BY <1>1, <2>1 DEF Matters
<1> QED BY <1>2, <1>3, <1>4

LEMMA CreatedLater ==
  ASSUME NEW c \in Copies, NEW since, NEW old, NEW new, NEW then, NEW now,
         Sane(old, then), Sane(new, now), Grown(old, new, now),
         CreatedKnown(c, since, old)
  PROVE  CreatedKnown(c, since, new)
<1> SUFFICES ASSUME NEW i \in Uids, c[i] # 0
             PROVE  /\ new[i].place # "none"
                    /\ new[i].place \in {"here", "elsewhere"} =>
                          since <= c[i] /\ c[i] <= new[i].at
                    /\ new[i].place = "elsewhere" => c[i] < new[i].at
  BY DEF CreatedKnown
<1>1. CASE new[i] = old[i]
  BY <1>1 DEF CreatedKnown
<1>2. CASE new[i].place = "purged"
  BY <1>2
<1>3. CASE old[i].place # "purged" /\ new[i].place \in {"here", "elsewhere"}
              /\ old[i].at < new[i].at
  <2>1. old[i].place \in {"none", "here", "elsewhere", "purged"}
        /\ old[i].at \in Nat /\ new[i].at \in Nat /\ c[i] \in Nat
    BY Constants DEF Sane, Row, Time, Copies
  <2>2. old[i].place # "none"
    BY DEF CreatedKnown
  <2>3. since <= c[i] /\ c[i] <= old[i].at
    BY <1>3, <2>1, <2>2 DEF CreatedKnown
  <2> QED BY <1>3, <2>1, <2>3
<1> QED BY <1>1, <1>2, <1>3 DEF Grown

\* What the device has, whatever the round does.
LEMMA CollMoves ==
  ASSUME Base, Timely, Known, MovesUnskipped, [Next]_vars, UNCHANGED <<coll, device>>
  PROVE  /\ MovesCovered(coll', device', row')
         /\ CreatedKnown(created, coll'.moveCursor.date, row')
<1>1. Onward /\ coll \in States /\ created \in Copies
  BY Goes DEF Base, TypeOK
<1>2. MovesCovered(coll, device, row')
  BY <1>1, MovesLater DEF Known, MovesUnskipped, Onward
<1>3. CreatedKnown(created, coll.moveCursor.date, row')
  BY <1>1, CreatedLater DEF MovesUnskipped, Onward
<1> QED BY <1>2, <1>3

LEMMA WorkMoves ==
  ASSUME Base, Timely, Known, MovesUnskipped, [Next]_vars, pc # "idle"
  PROVE  /\ MovesCovered(work.s, work.copy, row')
         /\ CreatedKnown(work.created, coll.moveCursor.date, row')
<1>1. Onward /\ work.s \in States /\ work.created \in Copies
  BY Goes DEF Base, Works
<1>2. MovesCovered(work.s, work.copy, row')
  BY <1>1, MovesLater DEF Known, MovesUnskipped, Onward
<1>3. CreatedKnown(work.created, coll.moveCursor.date, row')
  BY <1>1, CreatedLater DEF MovesUnskipped, Onward
<1> QED BY <1>2, <1>3

LEMMA MovesStore ==
  ASSUME Base, Timely, Known, MovesUnskipped, [Next]_vars,
         UNCHANGED <<device, coll, created, pc, read, work>>,
         pc \in {"page", "movePage"} => clock' = clock
  PROVE  MovesUnskipped'
<1>1. /\ MovesCovered(coll', device', row')
      /\ CreatedKnown(created', coll'.moveCursor.date, row')
  BY CollMoves
<1>2. pc' # "idle" => /\ MovesCovered(work'.s, work'.copy, row')
                      /\ CreatedKnown(work'.created, coll'.moveCursor.date, row')
  BY WorkMoves
<1>3. Onward /\ work.s \in States /\ read \in ReadType
  BY Goes DEF Base, Works
<1>4. pc \in Reading => pc # "idle" /\ KnownTo(work.s, row, clock)
  BY DEF Reading, Known
<1>5. pc' \in Reading => AllShown(read', work'.s, work'.copy, row')
  BY <1>3, <1>4, MovesLater DEF MovesUnskipped, Onward
<1>6. pc' = "movePage" => AllRead(read', work'.s, work'.copy, row', clock')
  BY <1>3, <1>4, MovesLater DEF MovesUnskipped, Onward, Reading
<1>7. pc' = "page" => LeftMeanwhile(read', row')
  <2> SUFFICES ASSUME pc = "page", NEW i \in Uids, row'[i].place = "elsewhere",
                      \E q \in FolderRead(read) : q.uid = i
               PROVE  read.startedAt <= row'[i].at + MaxLag
    BY DEF LeftMeanwhile, FolderRead
  <2>1. CASE row'[i] = row[i]
    BY <2>1 DEF MovesUnskipped, LeftMeanwhile
  <2>2. CASE row'[i] # row[i]
    BY <1>3, <2>2 DEF Onward, Grown, Known
  <2> QED BY <2>1, <2>2
<1> QED BY <1>1, <1>2, <1>5, <1>6, <1>7 DEF MovesUnskipped

LEMMA MovesCommand ==
  ASSUME Base, Timely, Known, MovesUnskipped, [Next]_vars, NEW i \in Uids,
         applyAdd(i) \/ replayAdd(i) \/ applyChange(i) \/ applyDelete(i)
  PROVE  MovesUnskipped'
<1>1. pc = "commands" /\ UNCHANGED <<clock, coll, device, created, pc, read>>
  BY CommandRows
<1>2. PICK echo, copy, made : CommandEffect(i, echo, copy, made)
  BY CommandDone
<1>3. /\ MovesCovered(work.s, work.copy, row')
      /\ CreatedKnown(work.created, coll.moveCursor.date, row')
      /\ MovesCovered(coll', device', row')
      /\ CreatedKnown(created, coll.moveCursor.date, row')
      /\ work.s.moveCursor = coll.moveCursor
  BY <1>1, WorkMoves, CollMoves DEF MovesUnskipped
<1>4. /\ work'.s.moveCursor = coll.moveCursor
      /\ \A j \in Uids \ {i} : work'.copy[j] = work.copy[j] /\ work'.created[j] = work.created[j]
      /\ work'.copy[i] = copy /\ work'.created[i] = made
  BY <1>2, <1>3 DEF CommandEffect, Commanded
<1>5. Onward /\ coll.moveCursor \in Cursor /\ coll.moveCursor.date <= clock /\ created \in Copies
  BY Goes DEF Base, TypeOK, States, Known, KnownTo
<1>6. MovesCovered(work'.s, work'.copy, row')
  <2> SUFFICES ASSUME NEW j \in Uids, row'[j].place = "elsewhere", work'.copy[j] # 0
               PROVE  MoveShown(work'.s, Version(j, row'[j]))
    BY DEF MovesCovered
  <2>1. CASE j # i
    BY <1>3, <1>4, <2>1 DEF MovesCovered, MoveShown
  <2>2. CASE j = i
    <3> DEFINE V == Version(i, row'[i])
    <3>1. created[i] # 0
      BY <1>2, <1>4, <2>2 DEF CommandEffect
    <3>2. coll.moveCursor.date <= created[i] /\ created[i] < row'[i].at
      BY <1>3, <2>2, <3>1 DEF CreatedKnown
    <3>3. V \in SeenRow /\ V.at = row'[i].at /\ row'[i].at \in Nat
      BY <1>5, <2>2, VersionRow DEF Onward
    <3>4. coll.moveCursor.date \in Nat /\ created[i] \in Nat
      BY <1>5, Constants DEF Cursor, Copies, Time
    <3> HIDE DEF V
    <3>5. Shows(coll.moveCursor, V)
      BY <1>5, <3>2, <3>3, <3>4, ShowsRow
    <3> QED BY <1>4, <2>2, <3>5 DEF MoveShown, V
  <2> QED BY <2>1, <2>2
<1>7. CreatedKnown(work'.created, coll.moveCursor.date, row')
  <2>1. CASE made = work.created[i]
    BY <1>3, <1>4, <2>1 DEF CreatedKnown
  <2>2. CASE made = created[i]
    BY <1>3, <1>4, <2>2 DEF CreatedKnown
  <2>3. CASE made = clock /\ row'[i].place = "here" /\ row'[i].at = clock
    <3>1. clock \in Nat /\ clock <= clock
      BY Constants DEF Base, TypeOK, Time
    <3> QED BY <1>3, <1>4, <1>5, <2>3, <3>1 DEF CreatedKnown
  <2> QED BY <1>2, <2>1, <2>2, <2>3 DEF CommandEffect
<1> QED BY <1>1, <1>3, <1>4, <1>6, <1>7 DEF MovesUnskipped, Reading

LEMMA MovesBegin ==
  ASSUME Base, Timely, Known, MovesUnskipped, [Next]_vars, Begin
  PROVE  MovesUnskipped'
<1>1. /\ work'.s = coll /\ work'.copy = device /\ work'.created = Never /\ pc' = "commands"
      /\ UNCHANGED <<coll, device, created>>
  BY DEF Begin, WorkOn, store
<1>2. MovesCovered(coll', device', row') /\ CreatedKnown(created, coll'.moveCursor.date, row')
  BY <1>1, CollMoves
<1>3. CreatedKnown(Never, coll'.moveCursor.date, row')
  BY DEF CreatedKnown, Never
<1> QED BY <1>1, <1>2, <1>3 DEF MovesUnskipped, Reading

LEMMA MovesReadFolderLate ==
  ASSUME Base, Timely, Known, MovesUnskipped, [Next]_vars, ReadFolderLate
  PROVE  MovesUnskipped'
<1> DEFINE late == scanOverlap(InPlace("here"), work.s.cursor, Overlap)
<1>1. /\ read' = [NoRead EXCEPT !.late = late, !.startedAt = clock] /\ pc = "commands" /\ pc' = "page"
      /\ row' = row /\ UNCHANGED <<coll, device, created, work>>
  BY DEF ReadFolderLate, store
<1>2. late \subseteq InPlace("here")
  BY DEF scanOverlap, Behind
<1> HIDE DEF late
<1>3. /\ read'.late = late /\ read'.page.rows = {}
  BY <1>1 DEF NoRead, NoPage
<1>4. \A q \in FolderRead(read') : row[q.uid].place = "here"
  BY <1>2, <1>3, RowsInPlace DEF FolderRead
<1>5. /\ MovesCovered(work.s, work.copy, row')
      /\ CreatedKnown(work.created, coll.moveCursor.date, row')
      /\ MovesCovered(coll', device', row')
      /\ CreatedKnown(created, coll'.moveCursor.date, row')
  BY <1>1, WorkMoves, CollMoves
<1>6. AllShown(read', work'.s, work'.copy, row')
  BY <1>1, <1>4, <1>5 DEF AllShown, Matters, MovesCovered
<1>7. LeftMeanwhile(read', row')
  BY <1>1, <1>4 DEF LeftMeanwhile
<1> QED BY <1>1, <1>5, <1>6, <1>7 DEF MovesUnskipped

\* A page of the folder has nothing that left it.
LEMMA PageMoves ==
  ASSUME Base, Known, MovesUnskipped, pc = "page"
  PROVE  /\ AllShown(WithFolderPage, work.s, work.copy, row)
         /\ LeftMeanwhile(WithFolderPage, row)
<1>1. /\ WithFolderPage.late = read.late /\ WithFolderPage.startedAt = read.startedAt
      /\ \A q \in WithFolderPage.page.rows : row[q.uid].place = "here"
  BY PageTrue
<1>2. AllShown(read, work.s, work.copy, row) /\ LeftMeanwhile(read, row)
  BY DEF MovesUnskipped, Reading
<1> HIDE DEF WithFolderPage
<1>3. \A i \in Uids : row[i].place = "elsewhere" /\ (\E q \in FolderRead(WithFolderPage) : q.uid = i)
                         => \E q \in FolderRead(read) : q.uid = i
  BY <1>1 DEF FolderRead
<1> QED BY <1>1, <1>2, <1>3 DEF AllShown, LeftMeanwhile, Matters

LEMMA MovesProcess ==
  ASSUME Base, Timely, Known, MovesUnskipped, [Next]_vars, pc # "idle",
         NEW r, Streams(work, r), Process(r), UNCHANGED <<store, device, coll, created>>,
         LastRead(r, row), ReadTrue(r, work.s, row, clock),
         AllShown(r, work.s, work.copy, row),
         r.holds => AllRead(r, work.s, work.copy, row, clock),
         r.holds => \A i \in Uids : row[i].place = "elsewhere"
                                       /\ Shows(work.s.moveCursor, Version(i, row[i])) =>
             \/ Version(i, row[i]) \in r.movePage.rows
             \/ \A q \in r.movePage.rows : Precedes(cursorOf(q), cursorOf(Version(i, row[i]))),
         ~r.holds => \A i \in Uids : Matters(r, work.copy, i, row) =>
             r.startedAt <= row[i].at + MaxLag,
         r.holds => MoveLate(Started(work, r), r).open
                       \/ work'.s.moveCursor = work.s.moveCursor
  PROVE  MovesUnskipped'
<1>1. EnumeratedBy(work, r, work') /\ pc' \in {"reconcile", "answer"}
  BY ProcessWork
<1>2. work \in Works /\ Sane(row, clock) /\ row' = row
  BY SaneRows DEF Base, store
<1>3. KnownTo(work.s, row, clock) /\ EchoTrue(work.s, work.copy, row)
  BY DEF Known
<1>4. \A i \in Uids : Matters(r, work.copy, i, row) => MoveShown(work.s, Version(i, row[i]))
  BY DEF AllShown
<1>5. r.holds => \A i \in Uids : Matters(r, work.copy, i, row) =>
             \/ Version(i, row[i]) \in r.moveLate
             \/ Shows(work.s.moveCursor, Version(i, row[i]))
             \/ clock <= row[i].at + MaxLag
  BY DEF AllRead
<1>6. MovesCovered(work'.s, work'.copy, row)
  BY <1>1, <1>2, <1>3, <1>4, <1>5, ProcessMoves
<1>7. work'.created = work.created
  BY <1>1 DEF EnumeratedBy, MovesDone, Kept, LateDone, PageDone, SameButCopy, PrunedFrom
<1>8. /\ MovesCovered(coll', device', row')
      /\ CreatedKnown(created, coll'.moveCursor.date, row')
      /\ CreatedKnown(work.created, coll.moveCursor.date, row')
  BY CollMoves, WorkMoves
<1> QED BY <1>1, <1>2, <1>6, <1>7, <1>8 DEF MovesUnskipped, Reading

LEMMA MovesReadFolderPage ==
  ASSUME Base, Timely, Known, MovesUnskipped, [Next]_vars, ReadFolderPage
  PROVE  MovesUnskipped'
<1>1. pc = "page" /\ UNCHANGED <<store, device, coll, created>> /\ row' = row
  BY DEF ReadFolderPage, store
<1>2. /\ ReadTrue(WithFolderPage, work.s, row, clock) /\ WithFolderPage.movePage.rows = {}
      /\ WithFolderPage.holds = (work.s.held # {})
      /\ AllShown(WithFolderPage, work.s, work.copy, row)
      /\ LeftMeanwhile(WithFolderPage, row)
  BY <1>1, PageTrue, PageMoves
<1>3. CASE work.s.held # {}
  <2>1. read' = WithFolderPage /\ pc' = "moveLate" /\ work' = work
    BY <1>3 DEF ReadFolderPage
  <2>2. /\ MovesCovered(work.s, work.copy, row')
        /\ CreatedKnown(work.created, coll.moveCursor.date, row')
        /\ MovesCovered(coll', device', row')
        /\ CreatedKnown(created, coll'.moveCursor.date, row')
    BY <1>1, WorkMoves, CollMoves
  <2> QED BY <1>1, <1>2, <2>1, <2>2 DEF MovesUnskipped
<1>4. CASE work.s.held = {}
  <2>1. Process(WithFolderPage) /\ Streams(work, WithFolderPage)
    BY <1>1, <1>4, PageStreams DEF ReadFolderPage
  <2>2. LastRead(WithFolderPage, row) /\ ~WithFolderPage.holds
    BY <1>2, <1>4 DEF LastRead
  <2>3. \A i \in Uids : work.copy[i] = 0
    BY <1>4 DEF Base, HeldIs
  <2>4. \A i \in Uids : Matters(WithFolderPage, work.copy, i, row) =>
             WithFolderPage.startedAt <= row[i].at + MaxLag
    BY <1>2, <2>3 DEF Matters, LeftMeanwhile
  <2> HIDE DEF WithFolderPage
  <2> QED BY <1>1, <1>2, <2>1, <2>2, <2>4, MovesProcess
<1> QED BY <1>3, <1>4

LEMMA MovesReadMoveLate ==
  ASSUME Base, Timely, Known, MovesUnskipped, [Next]_vars, ReadMoveLate
  PROVE  MovesUnskipped'
<1> DEFINE late == scanOverlap(InPlace("elsewhere"), work.s.moveCursor, Overlap)
<1>1. /\ read' = [read EXCEPT !.moveLate = late] /\ pc = "moveLate" /\ pc' = "movePage"
      /\ row' = row /\ clock' = clock /\ UNCHANGED <<coll, device, created, work>>
  BY DEF ReadMoveLate, store
<1>2. \A q : q \in late <=> q \in InPlace("elsewhere") /\ Rereads(work.s.moveCursor, q)
  BY DEF scanOverlap, Behind, Rereads
<1> HIDE DEF late
<1>3. read'.late = read.late /\ read'.page = read.page /\ read'.moveLate = late
  BY <1>1 DEF Base, ReadType
<1>4. FolderRead(read') = FolderRead(read)
  BY <1>3 DEF FolderRead
<1>5. /\ MovesCovered(work.s, work.copy, row')
      /\ CreatedKnown(work.created, coll.moveCursor.date, row')
      /\ MovesCovered(coll', device', row')
      /\ CreatedKnown(created, coll'.moveCursor.date, row')
      /\ AllShown(read, work.s, work.copy, row)
  BY <1>1, WorkMoves, CollMoves DEF MovesUnskipped, Reading
<1>6. AllShown(read', work'.s, work'.copy, row')
  BY <1>1, <1>4, <1>5 DEF AllShown, Matters
<1>7. AllRead(read', work'.s, work'.copy, row', clock')
  <2> SUFFICES ASSUME NEW i \in Uids, Matters(read', work.copy, i, row)
               PROVE  \/ Version(i, row[i]) \in late
                      \/ Shows(work.s.moveCursor, Version(i, row[i]))
    BY <1>1, <1>3 DEF AllRead
  <2> DEFINE V == Version(i, row[i])
  <2>1. V.uid = i /\ row[i].place = "elsewhere"
    BY DEF Version, Matters
  <2>2. V \in InPlace("elsewhere")
    BY <2>1, RowsInPlace
  <2>3. MoveShown(work.s, V)
    BY <1>1, <1>6 DEF AllShown
  <2> HIDE DEF V
  <2>4. V \in late \/ Shows(work.s.moveCursor, V)
    BY <1>2, <2>2, <2>3 DEF MoveShown
  <2> QED BY <2>4 DEF V
<1> QED BY <1>1, <1>5, <1>6, <1>7 DEF MovesUnskipped

LEMMA MovesReadMovePage ==
  ASSUME Base, Timely, Known, MovesUnskipped, [Next]_vars, ~MovesRunAhead, ReadMovePage
  PROVE  MovesUnskipped'
<1> DEFINE r == WithMovePage
<1>1. pc = "movePage" /\ UNCHANGED <<store, device, coll, created>> /\ Process(r)
  BY DEF ReadMovePage
<1>2. Streams(work, r)
  BY MovePageStreams
<1>3. /\ ReadTrue(r, work.s, row, clock) /\ LastRead(r, row)
      /\ r.late = read.late /\ r.page = read.page /\ r.moveLate = read.moveLate /\ r.holds
      /\ \A i \in Uids : row[i].place = "elsewhere"
                            /\ Shows(work.s.moveCursor, Version(i, row[i])) =>
               \/ Version(i, row[i]) \in r.movePage.rows
               \/ \A q \in r.movePage.rows : Precedes(cursorOf(q), cursorOf(Version(i, row[i])))
  BY <1>1, MovePageTrue
<1>4. AllShown(read, work.s, work.copy, row) /\ AllRead(read, work.s, work.copy, row, clock)
  BY <1>1 DEF MovesUnskipped, Reading
<1>5. pc' \in {"reconcile", "answer"}
  BY <1>1, <1>2, ProcessWork
<1>6. MoveLate(Started(work, r), r).open \/ work'.s.moveCursor = work.s.moveCursor
  BY <1>1, <1>5 DEF MovesRunAhead
<1> HIDE DEF r
<1>7. FolderRead(r) = FolderRead(read)
  BY <1>3 DEF FolderRead
<1>8. AllShown(r, work.s, work.copy, row) /\ AllRead(r, work.s, work.copy, row, clock)
  BY <1>3, <1>4, <1>7 DEF AllShown, AllRead, Matters
<1> QED BY <1>1, <1>2, <1>3, <1>6, <1>8, MovesProcess

LEMMA MovesReconcile ==
  ASSUME Base, Timely, Known, MovesUnskipped, [Next]_vars, Reconcile
  PROVE  MovesUnskipped'
<1>1. pc = "reconcile" /\ pc' = "answer" /\ row' = row
      /\ UNCHANGED <<coll, device, created>> /\ work' = Reconciled(work)
  BY DEF Reconcile, store
<1>2. LookupDone(work, work')
  BY <1>1, ReconciledDone DEF Base
<1>3. /\ MovesCovered(work.s, work.copy, row')
      /\ CreatedKnown(work.created, coll.moveCursor.date, row')
      /\ MovesCovered(coll', device', row')
      /\ CreatedKnown(created, coll'.moveCursor.date, row')
  BY <1>1, WorkMoves, CollMoves
<1>4. work'.created = work.created /\ work'.s.moveCursor = work.s.moveCursor
      /\ \A i \in Uids : work'.copy[i] # 0 => work'.copy[i] = work.copy[i]
  BY <1>2 DEF LookupDone
<1>5. MovesCovered(work'.s, work'.copy, row')
  BY <1>3, <1>4 DEF MovesCovered, MoveShown
<1> QED BY <1>1, <1>3, <1>4, <1>5 DEF MovesUnskipped, Reading

LEMMA MovesEnd ==
  ASSUME Base, Timely, Known, MovesUnskipped, [Next]_vars, Deliver \/ Lose
  PROVE  MovesUnskipped'
<1>1. pc = "answer" /\ pc' = "idle"
  BY DEF Deliver, Lose
<1>2. CASE Deliver
  <2>1. coll' = work.s /\ device' = work.copy /\ created' = Never
    BY <1>2 DEF Deliver
  <2>2. MovesCovered(coll', device', row')
    BY <1>1, <2>1, WorkMoves
  <2>3. CreatedKnown(created', coll'.moveCursor.date, row')
    BY <2>1 DEF CreatedKnown, Never
  <2> QED BY <1>1, <2>2, <2>3 DEF MovesUnskipped, Reading
<1>3. CASE Lose
  <2>1. UNCHANGED <<coll, device>> /\ created' = work.created
    BY <1>3 DEF Lose
  <2>2. MovesCovered(coll', device', row')
    BY <2>1, CollMoves
  <2>3. CreatedKnown(created', coll'.moveCursor.date, row')
    BY <1>1, <2>1, WorkMoves
  <2> QED BY <1>1, <2>2, <2>3 DEF MovesUnskipped, Reading
<1> QED BY <1>2, <1>3

LEMMA MovesNext ==
  ASSUME Base, Timely, Known, MovesUnskipped, [Next]_vars, ~MovesRunAhead
  PROVE  MovesUnskipped'
<1>1. CASE Tick \/ Others \/ UNCHANGED vars
  BY <1>1, OthersSteps, MovesStore
<1>2. CASE Commands
  BY <1>2, MovesCommand DEF Commands
<1>3. CASE Round
  BY <1>3, MovesBegin, MovesReadFolderLate, MovesReadFolderPage, MovesReadMoveLate,
     MovesReadMovePage, MovesReconcile, MovesEnd DEF Round
<1>4. CASE Lose
  BY <1>4, MovesEnd
<1> QED BY <1>1, <1>2, <1>3, <1>4 DEF Next

\* An item the device has that was moved to another folder (EasCollectionSync.ts:171-210)
\* is ahead of the out-of-folder cursor or in its overlap, also if it left between the
\* reads of a round, was created by a round whose answer was lost, or the cursor followed
\* the clock because the device held nothing: under what ChangesShown assumes, of the
\* other folders' window.
THEOREM MovesAreShown ==
  ASSUME Timely
  PROVE  Spec /\ [][~MovesRunAhead]_vars => []NoMoveSkipped
<1>1. Init => Base /\ Known /\ MovesUnskipped
  BY BaseInit, KnownInit, MovesInit
<1>2. Base /\ Known /\ MovesUnskipped /\ [Next]_vars /\ [~MovesRunAhead]_vars
         => (Base /\ Known /\ MovesUnskipped)'
  <2>1. UNCHANGED vars => ~MovesRunAhead
    BY DEF vars, MovesRunAhead
  <2> QED BY <2>1, BaseNext, KnownNext, MovesNext
<1>3. Base /\ MovesUnskipped => NoMoveSkipped
  <2> SUFFICES ASSUME Base, MovesUnskipped, NEW i \in Uids,
                      row[i].place = "elsewhere", device[i] # 0
               PROVE  \E r \in After(InPlace("elsewhere"), coll.moveCursor)
                         \cup Behind(InPlace("elsewhere"), coll.moveCursor, Overlap) : r.uid = i
    BY DEF NoMoveSkipped
  <2> DEFINE V == Version(i, row[i])
  <2>1. V.uid = i
    BY DEF Version
  <2>2. V \in InPlace("elsewhere")
    BY <2>1, RowsInPlace
  <2>3. MoveShown(coll, V)
    BY DEF MovesUnskipped, MovesCovered
  <2> HIDE DEF V
  <2>4. V \in After(InPlace("elsewhere"), coll.moveCursor)
           \cup Behind(InPlace("elsewhere"), coll.moveCursor, Overlap)
    BY <2>2, <2>3 DEF MoveShown, Shows, Rereads, After, Behind
  <2> QED BY <2>1, <2>4
<1> QED BY <1>1, <1>2, <1>3, PTL DEF Spec
-----------------------------------------------------------------------------
(* What an estimate counts.                                                       *)

\* What the dry run of GetItemEstimate starts from, and what it has to count.
DryWork == [WorkOn(coll) EXCEPT !.budget = MaxCount]
Due == {i \in Uids : Outdated(i) \/ (row[i].place = "elsewhere" /\ device[i] # 0)}

LEMMA DryWorkStarts ==
  ASSUME Base
  PROVE  /\ DryWork \in Works /\ HeldIs(DryWork.s, DryWork.copy) /\ DryWork.movedOut = {}
         /\ DryWork.s = coll /\ DryWork.copy = device
         /\ DryWork.budget = MaxCount /\ DryWork.open
<1> DEFINE w == WorkOn(coll)
<1>1. coll \in States /\ device \in Copies /\ Never \in Copies /\ MaxCount \in Nat
      /\ WindowSize \in Nat /\ HeldIs(coll, device)
  BY NoWorkBase, Constants DEF Base, TypeOK
<1>2. w \in Works /\ w.s = coll /\ w.copy = device /\ w.movedOut = {} /\ w.open
  BY <1>1 DEF WorkOn, Works
<1>3. DryWork = [w EXCEPT !.budget = MaxCount]
  BY DEF DryWork
<1> HIDE DEF w
<1>4. /\ DryWork \in Works /\ DryWork.budget = MaxCount /\ DryWork.s = w.s
      /\ DryWork.copy = w.copy /\ DryWork.movedOut = w.movedOut /\ DryWork.open = w.open
  BY <1>1, <1>2, <1>3 DEF Works
<1> QED BY <1>1, <1>2, <1>4

\* A page that leaves nothing has all rows past the cursor.
LEMMA WholePage ==
  ASSUME Base, NEW place \in {"here", "elsewhere"}, NEW c, NEW n \in Nat,
         NEW page, page = scanAfter(InPlace(place), c, n)
  PROVE  /\ page \in PageRead /\ Streamed(page.rows)
         /\ \A q \in page.rows : Shows(c, q) /\ q.uid \in Uids /\ row[q.uid].place = place
                                 /\ q = Version(q.uid, row[q.uid])
         /\ ~page.more => \A i \in Uids :
               row[i].place = place /\ Shows(c, Version(i, row[i]))
                  => Version(i, row[i]) \in page.rows
<1> DEFINE found == After(InPlace(place), c)
<1>1. /\ page = [rows |-> page.rows, more |-> page.more]
      /\ page.rows = FirstOf(found, n)
      /\ page.more = (Cardinality(found) > n)
  BY DEF scanAfter
<1>2. /\ InPlace(place) \subseteq SeenRow
      /\ \A rows \in SUBSET InPlace(place) : Streamed(rows)
      /\ \A q : q \in InPlace(place) <=>
            q.uid \in Uids /\ row[q.uid].place = place /\ q = Version(q.uid, row[q.uid])
  BY RowsInPlace
<1>3. \A q : q \in found <=> q \in InPlace(place) /\ Shows(c, q)
  BY DEF After, Shows
<1>4. Streamed(found)
  BY <1>2, <1>3
<1> HIDE DEF found
<1>5. /\ page.rows \subseteq found
      /\ Cardinality(found) <= n => page.rows = found
  BY <1>1, <1>4, FirstRows DEF Streamed
<1>6. Cardinality(found) \in Nat
  BY <1>4, FS_CardinalityType DEF Streamed
<1>7. page \in PageRead
  <2> DEFINE R == page.rows  M == page.more
  <2>1. page = [rows |-> R, more |-> M]
    BY <1>1
  <2>2. R \in SUBSET SeenRow
    BY <1>2, <1>3, <1>5
  <2>3. M \in BOOLEAN
    BY <1>1
  <2> HIDE DEF R, M
  <2> QED BY <2>1, <2>2, <2>3 DEF PageRead
<1>8. Streamed(page.rows)
  BY <1>2, <1>3, <1>5
<1>9. ASSUME ~page.more, NEW i \in Uids, row[i].place = place, Shows(c, Version(i, row[i]))
      PROVE  Version(i, row[i]) \in page.rows
  <2>1. page.rows = found
    <3>1. ~(Cardinality(found) > n)
      BY <1>1, <1>9
    <3>2. Cardinality(found) <= n
      BY <1>6, <3>1
    <3> QED BY <1>5, <3>2
  <2>2. Version(i, row[i]).uid = i
    BY DEF Version
  <2> QED BY <1>2, <1>3, <1>9, <2>1, <2>2
<1> QED BY <1>2, <1>3, <1>5, <1>7, <1>8, <1>9

\* What the dry run reads, at one moment.
ReadNow(r) ==
    /\ \A q \in r.late \cup r.page.rows :
          q.uid \in Uids /\ row[q.uid].place = "here" /\ q = Version(q.uid, row[q.uid])
    /\ \A q \in r.moveLate \cup r.movePage.rows :
          q.uid \in Uids /\ row[q.uid].place = "elsewhere"
    /\ \A i \in Uids : row[i].place = "here" =>
          /\ Rereads(coll.cursor, Version(i, row[i])) => Version(i, row[i]) \in r.late
          /\ ~r.page.more /\ Shows(coll.cursor, Version(i, row[i]))
                => Version(i, row[i]) \in r.page.rows
    /\ r.holds <=> coll.held # {}
    /\ r.holds /\ ~r.movePage.more => \A i \in Uids :
          row[i].place = "elsewhere" /\ MoveShown(coll, Version(i, row[i]))
             => Version(i, row[i]) \in r.moveLate \cup r.movePage.rows

LEMMA DryRunReads ==
  ASSUME Base, NEW r, r = Reads(Overlap)
  PROVE  Streams(DryWork, r) /\ ReadNow(r)
<1> DEFINE late(place, c) == scanOverlap(InPlace(place), c, Overlap)
<1>1. /\ r.late = late("here", coll.cursor)
      /\ r.page = scanAfter(InPlace("here"), coll.cursor, MaxCount)
      /\ r.holds = (coll.held # {})
      /\ r.moveLate = IF r.holds THEN late("elsewhere", coll.moveCursor) ELSE {}
      /\ r.movePage = IF r.holds
                      THEN scanAfter(InPlace("elsewhere"), coll.moveCursor, MoveScanLimit)
                      ELSE NoPage
      /\ r = [late |-> r.late, page |-> r.page, holds |-> r.holds, moveLate |-> r.moveLate,
              movePage |-> r.movePage, startedAt |-> clock]
  BY DEF Reads
<1>2. ASSUME NEW place \in {"here", "elsewhere"}, NEW c
      PROVE  /\ late(place, c) \subseteq SeenRow /\ Streamed(late(place, c))
             /\ \A q : q \in late(place, c) <=>
                   /\ q.uid \in Uids /\ row[q.uid].place = place
                   /\ q = Version(q.uid, row[q.uid]) /\ Rereads(c, q)
  <2>1. \A q : q \in late(place, c) <=> q \in InPlace(place) /\ Rereads(c, q)
    BY DEF scanOverlap, Behind, Rereads
  <2> HIDE DEF late
  <2>2. late(place, c) \in SUBSET InPlace(place)
    BY <2>1
  <2> QED BY <2>1, <2>2, RowsInPlace
<1> DEFINE now(q, place) == q.uid \in Uids /\ row[q.uid].place = place
                            /\ q = Version(q.uid, row[q.uid])
<1> HIDE DEF late
<1>3. /\ r.late \subseteq SeenRow /\ Streamed(r.late)
      /\ \A q : q \in r.late <=> now(q, "here") /\ Rereads(coll.cursor, q)
  <2>1. "here" \in {"here", "elsewhere"}
    OBVIOUS
  <2>2. r.late = late("here", coll.cursor)
    BY <1>1
  <2> QED BY <1>2, <2>1, <2>2
<1>4. /\ r.page \in PageRead /\ Streamed(r.page.rows)
      /\ \A q \in r.page.rows : Shows(coll.cursor, q) /\ now(q, "here")
      /\ ~r.page.more => \A i \in Uids :
            row[i].place = "here" /\ Shows(coll.cursor, Version(i, row[i]))
               => Version(i, row[i]) \in r.page.rows
  <2>1. MaxCount \in Nat
    BY Constants
  <2>2. r.page = scanAfter(InPlace("here"), coll.cursor, MaxCount)
    BY <1>1
  <2> QED BY <2>1, <2>2, WholePage
<1>5. /\ r.moveLate \subseteq SeenRow /\ Streamed(r.moveLate)
      /\ \A q \in r.moveLate : now(q, "elsewhere")
      /\ r.holds => \A q : now(q, "elsewhere") /\ Rereads(coll.moveCursor, q)
                            => q \in r.moveLate
  <2>1. CASE r.holds
    <3>1. r.moveLate = late("elsewhere", coll.moveCursor)
      BY <1>1, <2>1
    <3>2. "elsewhere" \in {"here", "elsewhere"}
      OBVIOUS
    <3> QED BY <1>2, <3>1, <3>2
  <2>2. CASE ~r.holds
    <3>1. r.moveLate = {}
      BY <1>1, <2>2
    <3> HIDE DEF now
    <3> QED BY <2>2, <3>1, NothingRead
  <2> QED BY <2>1, <2>2
<1>6. /\ r.movePage \in PageRead /\ Streamed(r.movePage.rows)
      /\ \A q \in r.movePage.rows : Shows(coll.moveCursor, q) /\ now(q, "elsewhere")
      /\ r.holds /\ ~r.movePage.more => \A i \in Uids :
            row[i].place = "elsewhere" /\ Shows(coll.moveCursor, Version(i, row[i]))
               => Version(i, row[i]) \in r.movePage.rows
  <2>1. CASE r.holds
    <3>1. r.movePage = scanAfter(InPlace("elsewhere"), coll.moveCursor, MoveScanLimit)
      BY <1>1, <2>1
    <3>2. MoveScanLimit \in Nat
      BY Constants
    <3> QED BY <3>1, <3>2, WholePage
  <2>2. CASE ~r.holds
    <3>1. r.movePage = NoPage
      BY <1>1, <2>2
    <3>2. NoPage.rows = {} /\ NoPage \in PageRead
      BY DEF NoPage, PageRead
    <3> HIDE DEF now
    <3> QED BY <2>2, <3>1, <3>2, NothingRead
  <2> QED BY <2>1, <2>2
<1>7. r \in ReadType
  <2>1. clock \in Time /\ r.holds \in BOOLEAN
    BY <1>1 DEF Base, TypeOK
  <2> DEFINE L == r.late  P == r.page  H == r.holds  ML == r.moveLate  MP == r.movePage
  <2>2. r = [late |-> L, page |-> P, holds |-> H, moveLate |-> ML, movePage |-> MP,
             startedAt |-> clock]
    BY <1>1
  <2>3. L \in SUBSET SeenRow /\ P \in PageRead /\ H \in BOOLEAN /\ ML \in SUBSET SeenRow
        /\ MP \in PageRead
    BY <1>3, <1>4, <1>5, <1>6, <2>1
  <2> HIDE DEF L, P, H, ML, MP
  <2> QED BY <2>1, <2>2, <2>3 DEF ReadType
<1>8. Streams(DryWork, r)
  <2>1. DryWork.s = coll
    BY DryWorkStarts
  <2> QED BY <1>3, <1>4, <1>5, <1>6, <1>7, <2>1 DEF Streams
<1>9. \A i \in Uids : \A place : row[i].place = place => now(Version(i, row[i]), place)
  <2>1. \A i \in Uids : Version(i, row[i]).uid = i
    BY DEF Version
  <2> QED BY <2>1
<1>10. ReadNow(r)
  <2>1. \A q \in r.late \cup r.page.rows : now(q, "here")
    BY <1>3, <1>4
  <2>2. \A q \in r.moveLate \cup r.movePage.rows : now(q, "elsewhere")
    BY <1>5, <1>6
  <2>3. ASSUME NEW i \in Uids, row[i].place = "here"
        PROVE  /\ Rereads(coll.cursor, Version(i, row[i])) => Version(i, row[i]) \in r.late
               /\ ~r.page.more /\ Shows(coll.cursor, Version(i, row[i]))
                     => Version(i, row[i]) \in r.page.rows
    <3>1. now(Version(i, row[i]), "here")
      BY <1>9, <2>3
    <3> HIDE DEF now
    <3> QED BY <1>3, <1>4, <2>3, <3>1
  <2>4. ASSUME r.holds, ~r.movePage.more, NEW i \in Uids, row[i].place = "elsewhere",
               MoveShown(coll, Version(i, row[i]))
        PROVE  Version(i, row[i]) \in r.moveLate \cup r.movePage.rows
    <3>1. now(Version(i, row[i]), "elsewhere")
      BY <1>9, <2>4
    <3> HIDE DEF now
    <3> QED BY <1>5, <1>6, <2>4, <3>1 DEF MoveShown
  <2>5. r.holds <=> coll.held # {}
    BY <1>1
  <2> QED BY <2>1, <2>2, <2>3, <2>4, <2>5 DEF ReadNow
<1> QED BY <1>8, <1>10

\* With something left of the window, the dry run has given the device every item that
\* is due in another state.
LEMMA DueReported ==
  ASSUME Base, Known, Unskipped, MovesUnskipped, NEW r, Streams(DryWork, r), ReadNow(r),
         ~r.page.more, ~r.movePage.more,
         NEW u, EnumeratedBy(DryWork, r, u), u.budget # 0, NEW i \in Due
  PROVE  u.copy[i] # device[i]
<1> DEFINE v1 == AfterMoves(DryWork, r)
           v2 == AfterLate(DryWork, r)
           V  == Version(i, row[i])
<1>1. PICK x, v \in Works :
        /\ x.s = coll /\ x.copy = device /\ x.movedOut = {}
        /\ MovesDone(x, v1, r)
        /\ LateDone(v1, v2, r.late)
        /\ PageDone(v2, v, r.page.rows)
        /\ PrunedFrom(v, u)
        /\ x.open /\ OpenOrFull(v2) /\ OpenOrFull(v)
  BY DryWorkStarts DEF EnumeratedBy
<1> HIDE DEF v1, v2
<1>2. Kept(x, v1) /\ SameButCopy(v1, v2) /\ SameButCopy(v2, v)
      /\ u.copy = v.copy /\ u.budget = v.budget
  BY <1>1 DEF MovesDone, LateDone, PageDone, PrunedFrom
<1>3. v1 \in Works /\ v2 \in Works /\ Pays(v1, v2) /\ Pays(v2, v)
  BY <1>2 DEF Kept, SameButCopy
<1>4. v1.budget # 0 /\ v2.open /\ v.open
  <2>1. /\ {v1.budget, v2.budget, v.budget} \subseteq Nat
        /\ {Cardinality(Differ(v1, v2)), Cardinality(Differ(v2, v))} \subseteq Nat
    BY <1>3, DifferFinite DEF Works
  <2>2. v.budget # 0
    BY <1>2
  <2>3. v2.budget # 0
    BY <1>3, <2>1, <2>2 DEF Pays
  <2>4. v1.budget # 0
    BY <1>3, <2>1, <2>3 DEF Pays
  <2> QED BY <1>1, <2>2, <2>3, <2>4 DEF OpenOrFull
<1>5. i \in Uids /\ V.uid = i /\ V.at = row[i].at /\ V.edit = row[i].edit
      /\ V.deleted = row[i].deleted
  BY DEF Due, Version
<1>6. \A q \in r.late \cup r.page.rows : q.uid = i => q = V /\ row[i].place = "here"
  BY DEF ReadNow
<1>7. /\ V \notin r.late => Unmoved(v1, v2, i)
      /\ V \notin r.page.rows => Unmoved(v2, v, i)
      /\ V \in r.late => LateSettled(v1, v2, V)
      /\ V \in r.page.rows => Settled(v2, v, V)
  BY <1>1, <1>4, <1>5, <1>6 DEF LateDone, PageDone, UidsOf
<1>8. /\ v1.copy[i] = IF i \in v1.movedOut THEN 0 ELSE device[i]
      /\ v1.s.echoes = coll.echoes /\ v1.s.recent = coll.recent
      /\ v2.s.echoes = coll.echoes /\ v2.movedOut = v1.movedOut
  BY <1>1, <1>2, <1>5 DEF Kept, SameButCopy
<1>9. CASE row[i].place = "elsewhere"
  <2>1. device[i] # 0
    BY <1>9 DEF Due, Outdated
  <2>2. V \notin r.late /\ V \notin r.page.rows
    BY <1>5, <1>6, <1>9
  <2>3. r.holds
    BY <1>5, <2>1 DEF ReadNow, Base, HeldIs
  <2>4. V \in r.moveLate \cup r.movePage.rows
    BY <1>5, <1>9, <2>1, <2>3 DEF ReadNow, MovesUnskipped, MovesCovered
  <2>5. i \in v1.movedOut
    BY <1>1, <1>4, <1>5, <2>3, <2>4 DEF MovesDone, UidsOf
  <2> QED BY <1>2, <1>7, <1>8, <2>1, <2>2, <2>5 DEF Unmoved
<1>10. CASE row[i].place = "here"
  <2>1. device[i] # Present(row[i])
    BY <1>10 DEF Due, Outdated, Present
  <2>2. coll.echoes[i] # row[i].at
    BY <1>5, <1>10, <2>1 DEF Known, EchoTrue
  <2>3. i \notin v1.movedOut
    <3>1. v1.movedOut \subseteq UidsOf(r.moveLate) \cup UidsOf(r.movePage.rows)
      BY <1>1 DEF MovesDone
    <3> QED BY <1>10, <3>1 DEF ReadNow, UidsOf
  <2>4. Outcome(v1, V) = Present(row[i]) /\ Outcome(v2, V) = Present(row[i])
    BY <1>5, <1>8, <2>2, <2>3 DEF Outcome, Present
  <2>5. Shown(coll, V)
    BY <1>5, <1>10, <2>1 DEF Unskipped, Covered
  <2>6. v.copy[i] = Present(row[i])
    <3>1. CASE V \in r.page.rows
      BY <1>5, <1>7, <2>4, <3>1 DEF Settled
    <3>2. CASE V \notin r.page.rows
      <4>1. ~Shows(coll.cursor, V)
        BY <1>5, <1>10, <3>2 DEF ReadNow
      <4>2. V \in r.late /\ coll.recent[i] # V.at
        BY <1>5, <1>10, <2>5, <4>1 DEF ReadNow, Shown
      <4>3. v2.copy[i] = Present(row[i])
        BY <1>5, <1>7, <1>8, <2>4, <4>2 DEF LateSettled, Settled
      <4> QED BY <1>7, <3>2, <4>3 DEF Unmoved
    <3> QED BY <3>1, <3>2
  <2> QED BY <1>2, <2>1, <2>6
<1> QED BY <1>9, <1>10 DEF Due, Outdated

\* An estimate counts what is due, up to its limit.
LEMMA DueCounted ==
  ASSUME Base, Known, Unskipped, MovesUnskipped
  PROVE  EstimateCovers
<1> DEFINE r == Reads(Overlap)
           w == DryWork
           u == Enumerated(w, r)
           e == IF HasRoom(u) THEN Reconciled(u) ELSE u
<1> SUFFICES ASSUME ~r.page.more, ~r.movePage.more
             PROVE  Estimate >= IF Cardinality(Due) < MaxCount THEN Cardinality(Due) ELSE MaxCount
  BY DEF EstimateCovers, Due
<1>1. Estimate = MaxCount - e.budget
  BY DEF Estimate, DryRun, DryWork
<1>2. Streams(w, r) /\ ReadNow(r)
  BY DryRunReads
<1>3. /\ w \in Works /\ HeldIs(w.s, w.copy) /\ w.movedOut = {} /\ w.copy = device
      /\ w.budget = MaxCount
  BY DryWorkStarts
<1>4. EnumeratedBy(w, r, u)
  <2> HIDE DEF w, r
  <2> QED BY <1>2, <1>3, EnumeratedDone
<1> HIDE DEF r, u
<1>5. u \in Works /\ HeldIs(u.s, u.copy) /\ Pays(w, u)
  BY <1>4 DEF EnumeratedBy, PrunedFrom
<1>6. e \in Works /\ Pays(w, e)
      /\ (e = u \/ LookupDone(u, e))
  <2>1. CASE HasRoom(u)
    <3>1. LookupDone(u, e)
      BY <1>5, <2>1, ReconciledDone
    <3> HIDE DEF e, w
    <3> QED BY <1>3, <1>5, <3>1, PaysOn DEF LookupDone
  <2>2. CASE ~HasRoom(u)
    BY <1>5, <2>2
  <2> QED BY <2>1, <2>2
<1> HIDE DEF e
<1>7. Due \subseteq Uids /\ IsFiniteSet(Differ(w, e)) /\ Cardinality(Differ(w, e)) \in Nat
      /\ e.budget \in Nat /\ MaxCount \in Nat
  BY <1>6, DifferFinite, Constants DEF Due, Works
<1>8. e.budget # 0 => Due \subseteq Differ(w, e)
  <2> SUFFICES ASSUME e.budget # 0, NEW i \in Due PROVE e.copy[i] # device[i]
    BY <1>3, <1>7 DEF Differ
  <2>1. u.budget # 0
    <3>1. e = u \/ Pays(u, e)
      BY <1>6 DEF LookupDone
    <3>2. u.budget \in Nat /\ Cardinality(Differ(u, e)) \in Nat
      BY <1>5, DifferFinite DEF Works
    <3> QED BY <1>7, <3>1, <3>2 DEF Pays
  <2>2. u.copy[i] # device[i]
    <3> HIDE DEF w
    <3> QED BY <1>2, <1>4, <2>1, DueReported DEF w
  <2>3. ASSUME ~There(i) PROVE device[i] # 0
    BY <2>3 DEF There, Due, Outdated
  <2> QED BY <1>6, <1>7, <2>2, <2>3 DEF LookupDone
<1>9. e.budget # 0 => Cardinality(Due) <= Cardinality(Differ(w, e)) /\ Cardinality(Due) \in Nat
  BY <1>7, <1>8, FS_Subset, FS_CardinalityType
<1>10. e.budget + Cardinality(Differ(w, e)) <= MaxCount
  BY <1>3, <1>6 DEF Pays
<1>11. CASE e.budget = 0
  <2>1. IsFiniteSet(Uids)
    BY FS_Interval, Constants DEF Uids
  <2>2. Cardinality(Due) \in Nat
    BY <1>7, <2>1, FS_Subset, FS_CardinalityType
  <2> QED BY <1>1, <1>7, <1>11, <2>2
<1>12. CASE e.budget # 0
  BY <1>1, <1>7, <1>9, <1>10, <1>12
<1> QED BY <1>11, <1>12

\* GetItemEstimateCommand.ts:157-172: for any number of items and any limits, an estimate
\* of the current key counts, up to MaxCount, at least the items that the device lacks,
\* has in an older state, or has although they left the folder, if the reads of its dry
\* run leave no row behind; under what ChangesShown and MovesAreShown assume.
THEOREM EstimateCounts ==
  ASSUME Timely
  PROVE  Spec /\ [][~RunsAhead /\ ~MovesRunAhead]_vars => []EstimateCovers
<1>1. Init => Base /\ Known /\ Unskipped /\ MovesUnskipped
  BY BaseInit, KnownInit, UnskippedInit, MovesInit
<1>2. Base /\ Known /\ Unskipped /\ MovesUnskipped /\ [Next]_vars
         /\ [~RunsAhead /\ ~MovesRunAhead]_vars
         => (Base /\ Known /\ Unskipped /\ MovesUnskipped)'
  <2>1. UNCHANGED vars => ~RunsAhead /\ ~MovesRunAhead
    BY DEF vars, RunsAhead, MovesRunAhead
  <2> QED BY <2>1, BaseNext, KnownNext, UnskippedNext, MovesNext
<1>3. Base /\ Known /\ Unskipped /\ MovesUnskipped => EstimateCovers
  BY DueCounted
<1> QED BY <1>1, <1>2, <1>3, PTL DEF Spec
=============================================================================
