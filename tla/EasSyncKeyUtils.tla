--------------------------- MODULE EasSyncKeyUtils ---------------------------
(***************************************************************************)
(* Cursors into a stream of changes, and the reads that go by them         *)
(* (src/src/EasSyncKeyUtils.ts).  A stream is a set of rows, each with the *)
(* time `at` of its last write; a cursor is a time and a uid.              *)
(*                                                                         *)
(* Uids are numbers: only their order matters.  Uid 0 is the "" of a       *)
(* cursor without uid, time 0 the epoch and `never`.                       *)
(***************************************************************************)
EXTENDS Integers, FiniteSets

CONSTANTS
    MaxUid,  \* uids are 1..MaxUid
    MaxTime  \* bound: the clock stops here

ASSUME UtilsAssumption == {MaxUid, MaxTime} \subseteq Nat

Uids  == 1..MaxUid
Time  == 0..MaxTime
Never == [i \in Uids |-> 0]

Cursor == [date : Time, uid : {0} \cup Uids]
Epoch  == [date |-> 0, uid |-> 0]

Precedes(a, b) ==
    a.date < b.date \/ (a.date = b.date /\ a.uid < b.uid)
cursorOf(r) == [date |-> r.at, uid |-> r.uid]

\* The first `limit` rows, in the order of their cursors, and the last row.
FirstOf(rows, limit) ==
    {r \in rows : Cardinality({q \in rows : Precedes(cursorOf(q), cursorOf(r))}) < limit}
LastOf(rows) ==
    CHOOSE r \in rows : \A q \in rows : ~Precedes(cursorOf(r), cursorOf(q))

\* scanAfter: a cursor without uid has all rows of its time behind it.
After(rows, cursor) ==
    {r \in rows : IF cursor.uid = 0 THEN r.at > cursor.date
                  ELSE Precedes(cursor, cursorOf(r))}

scanAfter(rows, cursor, limit) ==
    LET found == After(rows, cursor)
    IN  [rows |-> FirstOf(found, limit), more |-> Cardinality(found) > limit]

\* What the last `window` behind the cursor shows by now.
Behind(rows, cursor, window) ==
    {r \in rows : /\ cursor.date # 0
                  /\ window > 0
                  /\ r.at >= cursor.date - window
                  /\ ~Precedes(cursor, cursorOf(r))}

\* Mutant of scanOverlap: nothing behind the cursor is read again.
scanOverlapNothing(rows, cursor, window) == {}

\* scanOverlap reads all of it.
scanOverlap(rows, cursor, window) == Behind(rows, cursor, window)

\* Mutant of computeChanges: a live row is an Add if its uid is new to the page.
computeChangesByStamp(rows, cursor, windowSize) ==
    LET page == scanAfter(rows, cursor, windowSize)
        new  == {r \in page.rows : r.created >= r.at}
    IN  [adds    |-> {r \in new : ~r.deleted},
         changes |-> {r \in page.rows \ new : ~r.deleted},
         deletes |-> {r \in page.rows \ new : r.deleted},
         cursor  |-> IF page.rows = {} THEN cursor ELSE cursorOf(LastOf(page.rows)),
         more    |-> page.more]

\* computeChanges: a row created after the cursor is not on the device yet.
computeChanges(rows, cursor, windowSize) ==
    LET page == scanAfter(rows, cursor, windowSize)
        new  == {r \in page.rows : r.created > cursor.date}
    IN  [adds    |-> {r \in new : ~r.deleted},
         changes |-> {r \in page.rows \ new : ~r.deleted},
         deletes |-> {r \in page.rows \ new : r.deleted},
         cursor  |-> IF page.rows = {} THEN cursor ELSE cursorOf(LastOf(page.rows)),
         more    |-> page.more]
=============================================================================
