------------------------ MODULE FolderSyncCommandProofs ------------------------
(***************************************************************************)
(* Proofs about FolderSyncCommand: what its pages leave for the next, and  *)
(* what the device has been told by then.                                  *)
(***************************************************************************)
EXTENDS FolderSyncCommand, EasSyncKeyUtilsProofs

-----------------------------------------------------------------------------
(* What a page says of the folders.                                        *)

\* The rows' stamps.
Sane(fo, now) ==
    \A f \in Uids : fo[f].state # "none" =>
        1 <= fo[f].created /\ fo[f].created <= fo[f].at /\ fo[f].at <= now

\* Whether the cursor c has folder f's row ahead of it.
Ahead(fo, f, c) ==
    /\ fo[f].state # "none"
    /\ IF c.uid = 0 THEN fo[f].at > c.date
       ELSE Precedes(c, [date |-> fo[f].at, uid |-> f])

RowOf(f) == [uid |-> f, at |-> folder[f].at, created |-> folder[f].created,
             deleted |-> folder[f].state = "deleted"]
There(f) == folder[f].state # "none"

\* The page that computeChanges reads from c on, and whether it has f's row.
PageFrom(c) == FirstOf(After(Rows, c), WindowSize)
OnPage(f, c) == There(f) /\ RowOf(f) \in PageFrom(c)
NextCursor(c) == computeChanges(Rows, c, WindowSize).cursor

\* The folders' rows are finitely many, and a stream.
LEMMA FolderRows ==
  ASSUME TypeOK
  PROVE  /\ Rows = {RowOf(f) : f \in {g \in Uids : There(g)}}
         /\ IsFiniteSet(Rows)
         /\ Stream(Rows)
         /\ \A f \in Uids : There(f) => RowOf(f) \in Rows
<1>1. Rows = {RowOf(f) : f \in {g \in Uids : There(g)}}
  BY DEF Rows, RowOf, There
<1> DEFINE G == {g \in Uids : There(g)}
           fn == [f \in G |-> RowOf(f)]
<1>2. IsFiniteSet(G)
  <2>1. IsFiniteSet(1..MaxUid)
    BY FS_Interval, UtilsAssumption
  <2> QED BY <2>1, FS_Subset DEF Uids
<1>3. IsFiniteSet({RowOf(f) : f \in G})
  <2> HIDE DEF G
  <2>1. fn \in Surjection(G, {RowOf(f) : f \in G})
    BY DEF Surjection
  <2> HIDE DEF fn
  <2> QED BY <1>2, <2>1, FS_Surjection
<1>4. \A f \in Uids : RowOf(f).at \in Time /\ RowOf(f).uid = f
  BY DEF TypeOK, Row, RowOf
<1>5. Stream(Rows)
  BY <1>1, <1>4 DEF Stream
<1> QED BY <1>1, <1>3, <1>5

\* What the page and its cursor have of each folder.
LEMMA PageOfFolders ==
  ASSUME TypeOK, Sane(folder, clock), NEW c \in Cursor, c.date <= clock
  PROVE  /\ NextCursor(c) \in Cursor
         /\ c.date <= NextCursor(c).date /\ NextCursor(c).date <= clock
         /\ \A f \in Uids :
               /\ OnPage(f, c) => /\ Ahead(folder, f, c)
                                 /\ ~Ahead(folder, f, NextCursor(c))
                                 /\ folder[f].at <= NextCursor(c).date
               /\ Ahead(folder, f, NextCursor(c)) => Ahead(folder, f, c)
               /\ Ahead(folder, f, c) => OnPage(f, c) \/ Ahead(folder, f, NextCursor(c))
         /\ ~computeChanges(Rows, c, WindowSize).more =>
               \A f \in Uids : Ahead(folder, f, c) => OnPage(f, c)
<1> DEFINE page == PageFrom(c)
           end  == EndOf(page, c)
<1>1. NextCursor(c) = end
  BY DEF NextCursor, computeChanges, scanAfter, EndOf, PageFrom
<1>2. computeChanges(Rows, c, WindowSize).more = (Cardinality(After(Rows, c)) > WindowSize)
  BY DEF computeChanges, scanAfter
<1>3. WindowSize \in Nat /\ clock \in Nat
  BY FolderAssumption, UtilsAssumption DEF TypeOK, Time
<1>4. /\ end \in Cursor
      /\ c.date <= end.date
      /\ end = c \/ \E r \in page : end.date = r.at
      /\ page \subseteq Rows
      /\ \A r \in page : Shows(c, r) /\ ~Shows(end, r) /\ r.at <= end.date
      /\ \A r \in Rows : Shows(end, r) => Shows(c, r)
      /\ \A r \in Rows : Shows(c, r) => r \in page \/ Shows(end, r)
      /\ Cardinality(After(Rows, c)) <= WindowSize => page = After(Rows, c)
  <2> HIDE DEF end
  <2>1. end = EndOf(PageFrom(c), c)
    BY DEF end
  <2> HIDE DEF page
  <2>2. page = FirstOf(After(Rows, c), WindowSize) /\ end = EndOf(page, c)
    BY <2>1 DEF page, PageFrom
  <2> QED BY <1>3, <2>2, FolderRows, PageCursor
<1> HIDE DEF end, page
<1>5. \A f \in Uids, d \in Cursor :
         Ahead(folder, f, d) <=> There(f) /\ Shows(d, RowOf(f))
  BY DEF Ahead, There, Shows, After, RowOf, cursorOf
<1>6. \A f \in Uids : OnPage(f, c) <=> There(f) /\ RowOf(f) \in page
  BY DEF OnPage, page
<1>7. \A f \in Uids : There(f) => RowOf(f) \in Rows /\ RowOf(f).at = folder[f].at
  BY FolderRows DEF RowOf
<1>8. end.date <= clock
  <2>1. \A r \in Rows : r.at <= clock
    BY FolderRows DEF Sane, RowOf, There
  <2> QED BY <1>4, <2>1
<1>9. ASSUME Cardinality(After(Rows, c)) <= WindowSize, NEW f \in Uids, Ahead(folder, f, c)
      PROVE  RowOf(f) \in page
  BY <1>4, <1>5, <1>7, <1>9 DEF Shows, After
<1>10. Cardinality(After(Rows, c)) \in Nat
  <2>1. IsFiniteSet(After(Rows, c))
    BY FolderRows, FS_Subset DEF After
  <2> QED BY <2>1, FS_CardinalityType
<1>11. ~computeChanges(Rows, c, WindowSize).more =>
         \A f \in Uids : Ahead(folder, f, c) => OnPage(f, c)
  <2> SUFFICES ASSUME ~computeChanges(Rows, c, WindowSize).more,
                      NEW f \in Uids, Ahead(folder, f, c)
               PROVE  OnPage(f, c)
    OBVIOUS
  <2>1. ~(Cardinality(After(Rows, c)) > WindowSize)
    BY <1>2
  <2>2. Cardinality(After(Rows, c)) <= WindowSize
    BY <1>3, <1>10, <2>1
  <2> QED BY <1>5, <1>6, <1>9, <2>2
<1>12. \A f \in Uids :
         /\ OnPage(f, c) => /\ Ahead(folder, f, c)
                           /\ ~Ahead(folder, f, end)
                           /\ folder[f].at <= end.date
         /\ Ahead(folder, f, end) => Ahead(folder, f, c)
         /\ Ahead(folder, f, c) => OnPage(f, c) \/ Ahead(folder, f, end)
  BY <1>4, <1>5, <1>6, <1>7
<1> QED BY <1>1, <1>4, <1>8, <1>11, <1>12

\* The stamps of some of the folders' rows.
LEMMA Stamps ==
  ASSUME TypeOK, NEW S \in SUBSET Rows
  PROVE  StampsOf(S) = [f \in Uids |-> IF There(f) /\ RowOf(f) \in S THEN folder[f].at ELSE 0]
<1>1. \A r \in S : \E f \in Uids : There(f) /\ r = RowOf(f)
  BY FolderRows
<1>2. ASSUME NEW f \in Uids
      PROVE  (\E r \in S : r.uid = f) <=> There(f) /\ RowOf(f) \in S
  BY <1>1 DEF RowOf
<1>3. ASSUME NEW f \in Uids, There(f), RowOf(f) \in S
      PROVE  (CHOOSE r \in S : r.uid = f).at = folder[f].at
  <2>1. \E r \in S : r.uid = f
    BY <1>2, <1>3
  <2>2. \A r \in S : r.uid = f => r = RowOf(f)
    BY <1>1 DEF RowOf
  <2>3. (CHOOSE r \in S : r.uid = f) = RowOf(f)
    BY <2>1, <2>2
  <2>4. RowOf(f).at = folder[f].at
    BY DEF RowOf
  <2> QED BY <2>3, <2>4
<1> QED BY <1>2, <1>3 DEF StampsOf

\* What the page makes of each folder on it.
LEMMA Reported ==
  ASSUME TypeOK, NEW c \in Cursor
  PROVE  LET found == computeChanges(Rows, c, WindowSize)
         IN  /\ StampsOf(found.adds) =
                   [f \in Uids |-> IF OnPage(f, c) /\ folder[f].state = "live"
                                       /\ folder[f].created > c.date
                                   THEN folder[f].at ELSE 0]
             /\ StampsOf(found.changes) =
                   [f \in Uids |-> IF OnPage(f, c) /\ folder[f].state = "live"
                                       /\ ~(folder[f].created > c.date)
                                   THEN folder[f].at ELSE 0]
             /\ StampsOf(found.adds \cup found.changes) =
                   [f \in Uids |-> IF OnPage(f, c) /\ folder[f].state = "live"
                                   THEN folder[f].at ELSE 0]
             /\ {d.uid : d \in found.deletes} =
                   {f \in Uids : OnPage(f, c) /\ folder[f].state = "deleted"
                                   /\ ~(folder[f].created > c.date)}
<1> DEFINE found == computeChanges(Rows, c, WindowSize)
           page  == PageFrom(c)
<1>1. /\ found.adds = {r \in page : r.created > c.date /\ ~r.deleted}
      /\ found.changes = {r \in page : ~(r.created > c.date) /\ ~r.deleted}
      /\ found.deletes = {r \in page : ~(r.created > c.date) /\ r.deleted}
  BY DEF computeChanges, scanAfter, PageFrom
<1>2. page \subseteq Rows
  BY DEF PageFrom, FirstOf, After
<1>3. \A f \in Uids : OnPage(f, c) <=> There(f) /\ RowOf(f) \in page
  BY DEF OnPage
<1>4. \A f \in Uids : /\ RowOf(f).uid = f
                      /\ RowOf(f).created = folder[f].created
                      /\ RowOf(f).deleted = (folder[f].state = "deleted")
                      /\ folder[f].state \in {"none", "live", "deleted"}
  BY DEF RowOf, TypeOK, Row
<1>5. \A r \in page : \E f \in Uids : There(f) /\ r = RowOf(f)
  BY <1>2, FolderRows
<1> HIDE DEF found, page
<1>6. StampsOf(found.adds) = [f \in Uids |-> IF OnPage(f, c) /\ folder[f].state = "live"
                                       /\ folder[f].created > c.date
                                   THEN folder[f].at ELSE 0]
  <2>1. found.adds \in SUBSET Rows
    BY <1>1, <1>2
  <2>2. StampsOf(found.adds) = [f \in Uids |-> IF There(f) /\ RowOf(f) \in found.adds
                                               THEN folder[f].at ELSE 0]
    BY <2>1, Stamps
  <2>3. \A f \in Uids : There(f) /\ RowOf(f) \in found.adds
             <=> OnPage(f, c) /\ folder[f].state = "live" /\ folder[f].created > c.date
    BY <1>1, <1>3, <1>4 DEF There
  <2> QED BY <2>2, <2>3
<1>7. StampsOf(found.changes) = [f \in Uids |-> IF OnPage(f, c) /\ folder[f].state = "live"
                                       /\ ~(folder[f].created > c.date)
                                   THEN folder[f].at ELSE 0]
  <2>1. found.changes \in SUBSET Rows
    BY <1>1, <1>2
  <2>2. StampsOf(found.changes) = [f \in Uids |-> IF There(f) /\ RowOf(f) \in found.changes
                                                  THEN folder[f].at ELSE 0]
    BY <2>1, Stamps
  <2>3. \A f \in Uids : There(f) /\ RowOf(f) \in found.changes
             <=> OnPage(f, c) /\ folder[f].state = "live" /\ ~(folder[f].created > c.date)
    BY <1>1, <1>3, <1>4 DEF There
  <2> QED BY <2>2, <2>3
<1>8. StampsOf(found.adds \cup found.changes) =
         [f \in Uids |-> IF OnPage(f, c) /\ folder[f].state = "live" THEN folder[f].at ELSE 0]
  <2> DEFINE both == found.adds \cup found.changes
  <2>1. both \in SUBSET Rows
    BY <1>1, <1>2
  <2>2. \A f \in Uids : There(f) /\ RowOf(f) \in both <=> OnPage(f, c) /\ folder[f].state = "live"
    BY <1>1, <1>3, <1>4 DEF There
  <2> HIDE DEF both
  <2>3. StampsOf(both) = [f \in Uids |-> IF There(f) /\ RowOf(f) \in both
                                         THEN folder[f].at ELSE 0]
    BY <2>1, Stamps
  <2>4. StampsOf(both) =
         [f \in Uids |-> IF OnPage(f, c) /\ folder[f].state = "live" THEN folder[f].at ELSE 0]
    BY <2>2, <2>3
  <2> QED BY <2>4 DEF both
<1>9. {d.uid : d \in found.deletes} =
         {f \in Uids : OnPage(f, c) /\ folder[f].state = "deleted"
                         /\ ~(folder[f].created > c.date)}
  <2>1. ASSUME NEW d \in found.deletes
        PROVE  d.uid \in {f \in Uids : OnPage(f, c) /\ folder[f].state = "deleted"
                                           /\ ~(folder[f].created > c.date)}
    <3>1. PICK f \in Uids : There(f) /\ d = RowOf(f)
      BY <1>1, <1>5, <2>1
    <3> QED BY <1>1, <1>3, <1>4, <3>1
  <2>2. ASSUME NEW f \in Uids, OnPage(f, c), folder[f].state = "deleted",
               ~(folder[f].created > c.date)
        PROVE  f \in {d.uid : d \in found.deletes}
    <3>1. RowOf(f) \in found.deletes /\ RowOf(f).uid = f
      BY <1>1, <1>3, <1>4, <2>2
    <3> QED BY <3>1
  <2> QED BY <2>1, <2>2
<1> QED BY <1>6, <1>7, <1>8, <1>9 DEF found

-----------------------------------------------------------------------------
(* The inductive invariants.                                               *)

\* What a tree has of the folders that the cursor c has passed is what they are, and
\* it has none that was created after c.
CaughtUp(fo, now, tree, c) ==
    /\ c.date <= now
    /\ \A f \in Uids : /\ fo[f].state # "none" /\ ~Ahead(fo, f, c) =>
                            tree[f] = IF fo[f].state = "deleted" THEN 0 ELSE fo[f].at
                       /\ tree[f] # 0 => fo[f].state # "none" /\ fo[f].created <= c.date

\* It has all that were created before.
Complete(fo, tree, c) ==
    \A f \in Uids : Ahead(fo, f, c) /\ fo[f].created <= c.date => tree[f] # 0

\* What the device's tree becomes by an answer.
Applied(tree, a) ==
    [f \in Uids |-> IF f \in a.deletes THEN 0
                    ELSE IF a.adds[f] # 0 THEN a.adds[f]
                    ELSE IF a.changes[f] # 0 THEN a.changes[f] ELSE tree[f]]

\* An answer speaks of no folder the tree does not have, and adds none that it has.
Fits(tree, a) ==
    \A f \in Uids : /\ a.adds[f] # 0 => tree[f] = 0
                    /\ a.changes[f] # 0 \/ f \in a.deletes => tree[f] # 0

\* An answer with cursor c brings the device up to c.
Brings(a, c, first) ==
    /\ CaughtUp(folder, clock, Applied(device.tree, a), c)
    /\ ~cut => Complete(folder, Applied(device.tree, a), c)
    /\ ~cut /\ ~first => Fits(device.tree, a)

\* Keys and pages stay in bounds.
InBounds ==
    /\ \A r \in Reqs : pc[r] # "idle" => req[r].generation < MaxGen
    /\ \A r \in Reqs : pc[r] = "pages" => work[r].pages < MaxPages
    /\ \A r \in Reqs : reply[r].status = 1 => reply[r].key \in Keys \ {Zero}

\* A request that the device waits for presents the device's key.
Awaited ==
    \A r \in Reqs : device.waits = r => pc[r] # "idle" /\ req[r] = device.key

\* The device has what its key stands for.
DeviceCaughtUp ==
    /\ CaughtUp(folder, clock, device.tree, device.key.cursor)
    /\ ~cut => Complete(folder, device.tree, device.key.cursor)
    /\ device.key = Zero => device.tree = Never

\* The first round collects Adds page by page.
Collecting(r) ==
    /\ req[r] = Zero
    /\ work[r].changes = Never /\ work[r].deletes = {}
    /\ CaughtUp(folder, clock, work[r].adds, work[r].cursor)
    /\ \A f \in Uids : Ahead(folder, f, work[r].cursor) => work[r].adds[f] = 0

\* The round that the device waits for brings it to the new key's cursor.
RoundOf(r) ==
    /\ pc[r] = "pages" => Collecting(r)
    /\ pc[r] = "page" => work[r].cursor = req[r].cursor /\ req[r] # Zero
    /\ pc[r] = "persist" => Brings(work[r], work[r].cursor, req[r] = Zero)
    /\ pc[r] = "reply" /\ reply[r].status = 1 =>
          Brings(reply[r], reply[r].key.cursor, req[r] = Zero)
    /\ pc[r] = "reply" /\ reply[r].status # 1 =>
          reply[r].adds = Never /\ reply[r].changes = Never /\ reply[r].deletes = {}

RoundBrings == \A r \in Reqs : device.waits = r => RoundOf(r)

IInv ==
    /\ TypeOK
    /\ InBounds
    /\ Sane(folder, clock)
    /\ Awaited

FInv == IInv /\ DeviceCaughtUp /\ RoundBrings

Served(r) == pc[r] \in {"sent", "pages", "page", "persist"}

\* While requests do not cross, the device's key is one that the row accepts.
KInv ==
    ~crossed =>
        /\ device.key \in {Zero, keys.current, keys.previous}
        /\ \A q, r \in Reqs : Served(q) /\ Served(r) => q = r
        /\ \A r \in Reqs : Served(r) => device.waits \in {r, Nil} /\ req[r] = device.key
        /\ \A r \in Reqs : device.waits = r /\ pc[r] = "reply" /\ reply[r].status = 1 =>
              reply[r].key = keys.current

-----------------------------------------------------------------------------
(* Types, bounds, stamps and who waits for whom.                           *)

\* What a write makes of a row.
LEMMA WriteOf ==
  ASSUME NEW old \in Row, NEW t, NEW new \in Writes(old, t)
  PROVE  /\ new = [state |-> new.state, created |-> new.created, at |-> t]
         /\ new.state \in {"live", "deleted"}
         /\ \/ old.state = "none" /\ new.created = t /\ new.state = "live"
            \/ old.state = "live" /\ new.created = old.created
<1>1. CASE old.state = "none"
  BY <1>1 DEF Writes
<1>2. CASE old.state = "live"
  BY <1>2 DEF Writes, Row
<1>3. old.state # "deleted"
  BY DEF Writes
<1> QED BY <1>1, <1>2, <1>3 DEF Row

\* The constants of the model are of their types.
LEMMA Constant ==
    /\ Zero \in Keys /\ Epoch \in Cursor /\ Zero.cursor = Epoch /\ Zero.generation = 0
    /\ Never \in Stamped /\ NoWork \in Works /\ NoReply \in Replies /\ NoRow \in Row
    /\ Uids \subseteq Nat \ {0} /\ Time \subseteq Nat /\ 0 \in Time
<1>1. Epoch \in Cursor /\ 0 \in Time /\ Time \subseteq Nat /\ Uids \subseteq Nat \ {0}
  BY UtilsAssumption DEF Epoch, Cursor, Time, Uids
<1>2. Zero \in Keys /\ Zero.cursor = Epoch /\ Zero.generation = 0
  BY <1>1, FolderAssumption DEF Zero, Keys
<1>3. Never \in Stamped /\ NoRow \in Row
  BY <1>1 DEF Never, Stamped, NoRow, Row
<1>4. NoWork \in Works
  BY <1>1, <1>3, FolderAssumption DEF NoWork, Works
<1>5. NoReply \in Replies
  BY <1>3 DEF NoReply, Replies
<1> QED BY <1>1, <1>2, <1>3, <1>4, <1>5

\* What a page puts into a round is of its type.
LEMMA PageType ==
  ASSUME TypeOK, Sane(folder, clock), NEW c \in Cursor
  PROVE  LET found == computeChanges(Rows, c, WindowSize)
         IN  /\ found.cursor \in Cursor
             /\ StampsOf(found.adds) \in Stamped
             /\ StampsOf(found.changes) \in Stamped
             /\ StampsOf(found.adds \cup found.changes) \in Stamped
             /\ {d.uid : d \in found.deletes} \in SUBSET Uids
             /\ found.more \in BOOLEAN
<1>1. \A f \in Uids : folder[f].at \in Time
  BY DEF TypeOK, Row
<1>2. computeChanges(Rows, c, WindowSize).cursor \in Cursor
  <2>1. computeChanges(Rows, c, WindowSize).cursor = EndOf(PageFrom(c), c)
    BY DEF computeChanges, scanAfter, EndOf, PageFrom
  <2>2. WindowSize \in Nat
    BY FolderAssumption
  <2>3. EndOf(PageFrom(c), c) \in Cursor
    BY <2>2, FolderRows, PageCursor DEF PageFrom
  <2> QED BY <2>1, <2>3
<1>3. computeChanges(Rows, c, WindowSize).more \in BOOLEAN
  BY DEF computeChanges, scanAfter
<1> DEFINE found == computeChanges(Rows, c, WindowSize)
<1>4. /\ found.adds \in SUBSET Rows /\ found.changes \in SUBSET Rows
      /\ found.deletes \in SUBSET Rows
  BY DEF computeChanges, scanAfter, FirstOf, After
<1> HIDE DEF found
<1>5. ASSUME NEW S \in SUBSET Rows PROVE StampsOf(S) \in Stamped
  <2>1. \A f \in Uids : (IF There(f) /\ RowOf(f) \in S THEN folder[f].at ELSE 0) \in Time
    BY <1>1, Constant
  <2> QED BY <2>1, Stamps DEF Stamped
<1>6. found.adds \cup found.changes \in SUBSET Rows
  BY <1>4
<1>7. {d.uid : d \in found.deletes} \in SUBSET Uids
  BY <1>4, FolderRows DEF Stream
<1>8. /\ StampsOf(found.adds) \in Stamped /\ StampsOf(found.changes) \in Stamped
      /\ StampsOf(found.adds \cup found.changes) \in Stamped
  BY <1>4, <1>5, <1>6
<1> QED BY <1>2, <1>3, <1>7, <1>8 DEF found

\* The initial state satisfies the invariant of the types and keys.
LEMMA InitIInv == Init => IInv
<1> SUFFICES ASSUME Init PROVE IInv
  OBVIOUS
<1>1. 1 \in Time /\ MaxLost \in Nat
  BY FolderAssumption, UtilsAssumption DEF Time
<1>2. TypeOK
  <2>1. clock \in Time /\ folder \in [Uids -> Row] /\ lost \in 0..MaxLost
    BY <1>1, Constant DEF Init
  <2>2. /\ keys \in [current : Keys \cup {None}, previous : Keys \cup {None}]
        /\ device \in [key : Keys, tree : Stamped, waits : Reqs \cup {Nil}]
        /\ {crossed, cut} \subseteq BOOLEAN
    BY Constant DEF Init
  <2>3. /\ pc \in [Reqs -> {"idle", "sent", "pages", "page", "persist", "reply"}]
        /\ req \in [Reqs -> Keys]
        /\ work \in [Reqs -> Works]
        /\ reply \in [Reqs -> Replies]
    BY Constant DEF Init
  <2> QED BY <2>1, <2>2, <2>3 DEF TypeOK
<1>3. InBounds /\ Awaited
  BY FolderAssumption DEF Init, InBounds, Awaited, NoReply
<1>4. Sane(folder, clock)
  BY DEF Init, Sane, NoRow
<1> QED BY <1>2, <1>3, <1>4 DEF IInv

\* A write of a folder keeps it.
LEMMA WriteIInv ==
  ASSUME IInv, NEW f \in Uids, Write(f)
  PROVE  IInv'
<1>1. PICK w \in Writes(folder[f], clock + 1) : folder' = [folder EXCEPT ![f] = w]
  BY DEF Write
<1>2. clock' = clock + 1 /\ clock < MaxTime /\ clock \in Nat /\ clock + 1 \in Time
  BY UtilsAssumption DEF Write, IInv, TypeOK, Time
<1>3. folder \in [Uids -> Row] /\ folder[f] \in Row
  BY DEF IInv, TypeOK
<1>4. /\ w = [state |-> w.state, created |-> w.created, at |-> clock + 1]
      /\ w.state \in {"live", "deleted"}
      /\ \/ folder[f].state = "none" /\ w.created = clock + 1 /\ w.state = "live"
         \/ folder[f].state = "live" /\ w.created = folder[f].created
  BY <1>1, <1>3, WriteOf
<1>5. w.created \in Time /\ w.state \in {"none", "live", "deleted"}
  BY <1>2, <1>3, <1>4 DEF Row
<1>6. w \in Row
  BY <1>2, <1>4, <1>5 DEF Row
<1>7. folder' \in [Uids -> Row]
  BY <1>1, <1>3, <1>6
<1>8. UNCHANGED <<keys, device, pc, req, work, reply, lost, crossed, cut>>
  BY DEF Write, history
<1>9. TypeOK'
  BY <1>2, <1>7, <1>8 DEF IInv, TypeOK
<1>10. Sane(folder', clock')
  <2> SUFFICES ASSUME NEW g \in Uids, folder'[g].state # "none"
               PROVE  /\ 1 <= folder'[g].created
                      /\ folder'[g].created <= folder'[g].at
                      /\ folder'[g].at <= clock'
    BY DEF Sane
  <2>1. CASE g # f
    <3>1. folder'[g] = folder[g] /\ folder[g] \in Row
      BY <1>1, <1>3, <2>1
    <3>2. folder[g].at \in Nat /\ folder[g].at <= clock
      BY <3>1, Constant DEF IInv, Sane, Row
    <3> QED BY <1>2, <3>1, <3>2 DEF IInv, Sane
  <2>2. CASE g = f
    <3>1. folder'[g] = w /\ w.at = clock + 1
      BY <1>1, <1>3, <1>4, <2>2
    <3>2. w.created = clock + 1 \/
            (folder[f].state = "live" /\ w.created = folder[f].created)
      BY <1>4
    <3>3. folder[f].state = "live" =>
            /\ folder[f].created \in Nat /\ folder[f].at \in Nat
            /\ 1 <= folder[f].created /\ folder[f].created <= folder[f].at
            /\ folder[f].at <= clock
      BY <1>3, Constant DEF IInv, Sane, Row
    <3> QED BY <1>2, <3>1, <3>2, <3>3
  <2> QED BY <2>1, <2>2
<1>11. InBounds' /\ Awaited'
  BY <1>8 DEF IInv, InBounds, Awaited
<1> QED BY <1>9, <1>10, <1>11 DEF IInv

\* So does what the device does.
LEMMA DeviceIInv ==
  ASSUME IInv, NEW r \in Reqs, Send(r) \/ GiveUp(r) \/ Receive(r)
  PROVE  IInv'
<1>1. UNCHANGED <<clock, folder, keys, work, cut>>
  BY DEF Send, GiveUp, Receive, history
<1>2. Sane(folder', clock')
  BY <1>1 DEF IInv
<1>3. CASE Send(r)
  <2>1. TypeOK'
    BY <1>1, <1>3 DEF Send, IInv, TypeOK
  <2>2. InBounds'
    BY <1>1, <1>3 DEF Send, IInv, TypeOK, InBounds
  <2>3. Awaited'
    BY <1>3 DEF Send, IInv, TypeOK, Awaited
  <2> QED BY <1>2, <2>1, <2>2, <2>3 DEF IInv
<1>4. CASE GiveUp(r)
  <2>1. TypeOK'
    BY <1>1, <1>4, FolderAssumption DEF GiveUp, IInv, TypeOK, history
  <2>2. InBounds'
    BY <1>1, <1>4 DEF GiveUp, IInv, InBounds
  <2>3. Awaited'
    BY <1>4, FolderAssumption DEF GiveUp, IInv, TypeOK, Awaited
  <2> QED BY <1>2, <2>1, <2>2, <2>3 DEF IInv
<1>5. CASE Receive(r)
  <2>1. /\ pc' = [pc EXCEPT ![r] = "idle"]
        /\ req' = [req EXCEPT ![r] = Zero]
        /\ reply' = [reply EXCEPT ![r] = NoReply]
        /\ UNCHANGED <<lost, crossed>>
    BY <1>5 DEF Receive, history
  <2>2. /\ device'.key \in Keys /\ device'.tree \in Stamped
        /\ device' = [key |-> device'.key, tree |-> device'.tree, waits |-> device'.waits]
        /\ device'.waits \in {device.waits, Nil} /\ device'.waits # r
        /\ device'.waits = device.waits => device' = device
    <3> DEFINE answer == reply[r]
               tree == [f \in Uids |->
                           IF f \in answer.deletes THEN 0
                           ELSE IF answer.adds[f] # 0 THEN answer.adds[f]
                           ELSE IF answer.changes[f] # 0 THEN answer.changes[f]
                           ELSE device.tree[f]]
    <3>1. answer \in Replies /\ device.tree \in Stamped
      BY DEF IInv, TypeOK
    <3>2. tree \in Stamped
      BY <3>1, Constant DEF Stamped, Replies
    <3>3. device' = IF device.waits # r THEN device
             ELSE CASE answer.status = 1 -> [key |-> answer.key, tree |-> tree, waits |-> Nil]
                    [] answer.status = 9 -> [key |-> Zero, tree |-> Never, waits |-> Nil]
                    [] answer.status = 0 -> [device EXCEPT !.waits = Nil]
      BY <1>5 DEF Receive
    <3>4. device \in [key : Keys, tree : Stamped, waits : Reqs \cup {Nil}] /\ r # Nil
      BY FolderAssumption DEF IInv, TypeOK
    <3> HIDE DEF tree, answer
    <3>5. CASE device.waits # r
      <4>1. device' = device
        BY <3>3, <3>5
      <4> QED BY <3>4, <3>5, <4>1
    <3>6. CASE device.waits = r /\ answer.status = 1
      <4>1. device' = [key |-> answer.key, tree |-> tree, waits |-> Nil]
        BY <3>3, <3>6
      <4>2. answer.key \in Keys
        BY <3>6 DEF IInv, InBounds, answer
      <4> QED BY <3>2, <3>4, <3>6, <4>1, <4>2
    <3>7. CASE device.waits = r /\ answer.status = 9
      <4>1. device' = [key |-> Zero, tree |-> Never, waits |-> Nil]
        BY <3>3, <3>7
      <4> QED BY <3>4, <3>7, <4>1, Constant
    <3>8. CASE device.waits = r /\ answer.status = 0
      <4>1. device' = [device EXCEPT !.waits = Nil]
        BY <3>3, <3>8
      <4> QED BY <3>4, <3>8, <4>1
    <3>9. answer.status \in {0, 1, 9}
      BY <3>1 DEF Replies
    <3> QED BY <3>5, <3>6, <3>7, <3>8, <3>9
  <2>3. TypeOK'
    BY <1>1, <2>1, <2>2, Constant DEF IInv, TypeOK
  <2>4. InBounds'
    BY <1>1, <2>1 DEF IInv, TypeOK, InBounds, NoReply
  <2>5. Awaited'
    BY <2>1, <2>2, FolderAssumption DEF IInv, TypeOK, Awaited
  <2> QED BY <1>2, <2>3, <2>4, <2>5 DEF IInv
<1> QED BY <1>3, <1>4, <1>5

\* Whatever the handler does, everyone else, the device and the folders stay.
LEMMA HandlerKeeps ==
  ASSUME IInv, NEW r \in Reqs, Handle(r)
  PROVE  /\ UNCHANGED <<clock, folder, device, req, lost, crossed>>
         /\ \A q \in Reqs \ {r} : pc'[q] = pc[q] /\ work'[q] = work[q] /\ reply'[q] = reply[q]
         /\ pc[r] \notin {"idle", "reply"} /\ pc'[r] \notin {"idle", "sent"}
         /\ keys' = keys \/ Persist(r)
         /\ cut => cut'
<1>1. CASE ReadKeys(r)
  BY <1>1 DEF ReadKeys, Answer, IInv, TypeOK, history
<1>2. CASE ReadAll(r)
  BY <1>2 DEF ReadAll, IInv, TypeOK
<1>3. CASE ReadChanges(r)
  BY <1>3 DEF ReadChanges, IInv, TypeOK
<1>4. CASE Persist(r)
  BY <1>4 DEF Persist, Answer, IInv, TypeOK, history
<1>5. CASE Fail(r)
  BY <1>5 DEF Fail, Answer, IInv, TypeOK, history
<1> QED BY <1>1, <1>2, <1>3, <1>4, <1>5 DEF Handle

\* So does every step of handle.
LEMMA HandlerIInv ==
  ASSUME IInv, NEW r \in Reqs, Handle(r)
  PROVE  IInv'
<1>1. /\ UNCHANGED <<clock, folder, device, req, lost, crossed>>
      /\ \A q \in Reqs \ {r} : pc'[q] = pc[q] /\ work'[q] = work[q] /\ reply'[q] = reply[q]
      /\ pc[r] \notin {"idle", "reply"} /\ pc'[r] \notin {"idle", "sent"}
  BY HandlerKeeps
<1>2. Sane(folder', clock') /\ Awaited'
  BY <1>1 DEF IInv, Awaited
<1>3. /\ TypeOK
      /\ work[r] \in Works /\ reply[r] \in Replies /\ req[r] \in Keys
      /\ req[r].generation < MaxGen /\ req[r].cursor \in Cursor
      /\ keys.current \in Keys \cup {None} /\ keys.previous \in Keys \cup {None}
  BY <1>1 DEF IInv, TypeOK, InBounds, Keys
<1>4. ASSUME /\ pc' = [pc EXCEPT ![r] = pc'[r]]
             /\ work' = [work EXCEPT ![r] = work'[r]]
             /\ reply' = [reply EXCEPT ![r] = reply'[r]]
             /\ pc'[r] \in {"pages", "page", "persist", "reply"}
             /\ work'[r] \in Works /\ reply'[r] \in Replies
             /\ pc'[r] = "pages" => work'[r].pages < MaxPages
             /\ reply'[r].status = 1 => reply'[r].key \in Keys \ {Zero}
             /\ keys' \in [current : Keys \cup {None}, previous : Keys \cup {None}]
             /\ cut' \in BOOLEAN
      PROVE  IInv'
  <2>1. TypeOK'
    BY <1>1, <1>3, <1>4 DEF TypeOK
  <2>2. InBounds'
    BY <1>1, <1>3, <1>4 DEF IInv, TypeOK, InBounds
  <2> QED BY <1>2, <2>1, <2>2 DEF IInv
<1>5. CASE ReadKeys(r)
  <2>1. CASE req[r] \in {Zero, keys.current, keys.previous}
    <3>1. /\ work' = [work EXCEPT ![r] =
                   [NoWork EXCEPT !.current = keys.current, !.previous = keys.previous,
                                  !.cursor = req[r].cursor]]
          /\ pc' = [pc EXCEPT ![r] = IF req[r] = Zero THEN "pages" ELSE "page"]
          /\ UNCHANGED <<reply, keys, cut>>
      BY <1>5, <2>1 DEF ReadKeys, history
    <3>2. work'[r] = [current |-> keys.current, previous |-> keys.previous,
                      cursor |-> req[r].cursor, pages |-> 0, adds |-> Never,
                      changes |-> Never, deletes |-> {}]
      BY <1>3, <3>1 DEF TypeOK, NoWork
    <3>3. work'[r] \in Works /\ work'[r].pages = 0 /\ 0 < MaxPages
      BY <1>3, <3>2, Constant, FolderAssumption DEF Works
    <3> QED BY <1>3, <1>4, <3>1, <3>3 DEF IInv, InBounds, TypeOK
  <2>2. CASE req[r] \notin {Zero, keys.current, keys.previous}
    <3>1. /\ pc' = [pc EXCEPT ![r] = "reply"]
          /\ reply' = [reply EXCEPT ![r] = [NoReply EXCEPT !.status = 9]]
          /\ work' = [work EXCEPT ![r] = NoWork]
          /\ UNCHANGED <<keys, cut>>
      BY <1>5, <2>2 DEF ReadKeys, Answer, history
    <3>2. [NoReply EXCEPT !.status = 9] \in Replies
      BY Constant DEF Replies
    <3> QED BY <1>3, <1>4, <3>1, <3>2, Constant DEF TypeOK, Replies
  <2> QED BY <2>1, <2>2
<1> DEFINE found == computeChanges(Rows, work[r].cursor, WindowSize)
<1>6. /\ found.cursor \in Cursor
      /\ StampsOf(found.adds) \in Stamped
      /\ StampsOf(found.changes) \in Stamped
      /\ StampsOf(found.adds \cup found.changes) \in Stamped
      /\ {d.uid : d \in found.deletes} \in SUBSET Uids
      /\ found.more \in BOOLEAN
  <2>1. work[r].cursor \in Cursor
    BY <1>3 DEF Works
  <2> QED BY <2>1, PageType DEF IInv
<1> HIDE DEF found
<1>7. CASE ReadAll(r)
  <2> DEFINE adds == StampsOf(found.adds \cup found.changes)
             last == ~found.more \/ work[r].pages + 1 = MaxPages
             all  == [f \in Uids |-> IF adds[f] # 0 THEN adds[f] ELSE work[r].adds[f]]
  <2>1. /\ work' = [work EXCEPT ![r].cursor = found.cursor, ![r].pages = @ + 1,
                               ![r].adds = [f \in Uids |-> IF adds[f] # 0 THEN adds[f] ELSE @[f]]]
        /\ pc' = [pc EXCEPT ![r] = IF last THEN "persist" ELSE "pages"]
        /\ cut' = (cut \/ (last /\ found.more))
        /\ pc[r] = "pages" /\ UNCHANGED <<keys, reply>>
    BY <1>7 DEF ReadAll, found
  <2>2. work[r].pages < MaxPages /\ work[r].pages \in Nat /\ MaxPages \in Nat
    BY <1>3, <2>1, FolderAssumption DEF IInv, InBounds, Works
  <2>3. adds \in Stamped /\ work[r].adds \in Stamped
    BY <1>3, <1>6 DEF Works
  <2> HIDE DEF adds
  <2>4. all \in Stamped
    BY <2>3 DEF Stamped
  <2>5. work'[r] = [work[r] EXCEPT !.cursor = found.cursor, !.pages = @ + 1, !.adds = all]
    BY <1>3, <2>1 DEF TypeOK
  <2> HIDE DEF all, last
  <2>6. work'[r] \in Works /\ work'[r].pages = work[r].pages + 1
    <3>1. work[r].pages + 1 \in 0..MaxPages
      BY <2>2
    <3>2. work[r] \in Works /\ found.cursor \in Cursor
      BY <1>3, <1>6
    <3> QED BY <2>4, <2>5, <3>1, <3>2 DEF Works
  <2>7. pc'[r] = (IF last THEN "persist" ELSE "pages")
    BY <1>3, <2>1 DEF TypeOK
  <2>8. pc'[r] = "pages" => work'[r].pages < MaxPages
    BY <2>2, <2>6, <2>7 DEF last
  <2>9. cut' \in BOOLEAN
    BY <2>1
  <2>10. work' = [work EXCEPT ![r] = work'[r]]
    BY <1>3, <2>1 DEF TypeOK
  <2> QED BY <1>3, <1>4, <2>1, <2>6, <2>7, <2>8, <2>9, <2>10 DEF IInv, InBounds, TypeOK
<1>8. CASE ReadChanges(r)
  <2>1. /\ work' = [work EXCEPT ![r].cursor = found.cursor,
                               ![r].adds = StampsOf(found.adds),
                               ![r].changes = StampsOf(found.changes),
                               ![r].deletes = {d.uid : d \in found.deletes}]
        /\ cut' = (cut \/ found.more)
        /\ pc' = [pc EXCEPT ![r] = "persist"]
        /\ UNCHANGED <<keys, reply>>
    BY <1>8 DEF ReadChanges, found
  <2>2. work'[r] = [work[r] EXCEPT !.cursor = found.cursor, !.adds = StampsOf(found.adds),
                                   !.changes = StampsOf(found.changes),
                                   !.deletes = {d.uid : d \in found.deletes}]
    BY <1>3, <2>1 DEF TypeOK
  <2>3. work'[r] \in Works
    BY <1>3, <1>6, <2>2 DEF Works
  <2>4. cut' \in BOOLEAN /\ work' = [work EXCEPT ![r] = work'[r]]
    BY <1>3, <2>1 DEF TypeOK
  <2> QED BY <1>3, <1>4, <2>1, <2>3, <2>4 DEF IInv, InBounds, TypeOK
<1>9. CASE Persist(r)
  <2> DEFINE key == [generation |-> req[r].generation + 1, cursor |-> work[r].cursor]
  <2>1. /\ keys' = [current |-> key, previous |-> Previous(r)]
        /\ pc' = [pc EXCEPT ![r] = "reply"]
        /\ reply' = [reply EXCEPT ![r] =
                [status |-> 1, key |-> key, adds |-> work[r].adds,
                 changes |-> work[r].changes, deletes |-> work[r].deletes]]
        /\ work' = [work EXCEPT ![r] = NoWork]
        /\ UNCHANGED cut
    BY <1>9 DEF Persist, Answer, history
  <2>2. key \in Keys \ {Zero}
    BY <1>3, FolderAssumption DEF Keys, Works, Zero
  <2>3. Previous(r) \in Keys \cup {None}
    BY <1>3 DEF Previous, Works
  <2> HIDE DEF key
  <2>4. reply'[r] = [status |-> 1, key |-> key, adds |-> work[r].adds,
                     changes |-> work[r].changes, deletes |-> work[r].deletes]
    BY <1>3, <2>1 DEF TypeOK
  <2>5. reply'[r] \in Replies /\ reply'[r].key \in Keys \ {Zero}
    BY <1>3, <2>2, <2>4 DEF Replies, Works
  <2> QED BY <1>3, <1>4, <2>1, <2>2, <2>3, <2>5, Constant DEF TypeOK
<1>10. CASE Fail(r)
  <2>1. /\ pc' = [pc EXCEPT ![r] = "reply"]
        /\ reply' = [reply EXCEPT ![r] = NoReply]
        /\ work' = [work EXCEPT ![r] = NoWork]
        /\ UNCHANGED <<keys, cut>>
    BY <1>10 DEF Fail, Answer, history
  <2>2. NoReply.status # 1
    BY DEF NoReply
  <2>3. cut' \in BOOLEAN
    BY <1>3, <2>1 DEF TypeOK
  <2>4. work'[r] = NoWork /\ reply'[r] = NoReply /\ pc'[r] = "reply"
    BY <1>3, <2>1 DEF TypeOK
  <2>5. keys' \in [current : Keys \cup {None}, previous : Keys \cup {None}]
    BY <1>3, <2>1 DEF TypeOK
  <2>6. /\ pc' = [pc EXCEPT ![r] = pc'[r]]
        /\ work' = [work EXCEPT ![r] = work'[r]]
        /\ reply' = [reply EXCEPT ![r] = reply'[r]]
    BY <2>1, <2>4
  <2>7. /\ pc'[r] \in {"pages", "page", "persist", "reply"} /\ pc'[r] # "pages"
        /\ work'[r] \in Works /\ reply'[r] \in Replies /\ reply'[r].status # 1
    BY <2>2, <2>4, Constant
  <2> QED BY <1>4, <2>3, <2>5, <2>6, <2>7
<1> QED BY <1>5, <1>7, <1>8, <1>9, <1>10 DEF Handle

\* So does every step.
LEMMA StepIInv == IInv /\ [Next]_vars => IInv'
<1> SUFFICES ASSUME IInv, [Next]_vars PROVE IInv'
  OBVIOUS
<1>1. CASE UNCHANGED vars
  BY <1>1 DEF vars, IInv, TypeOK, InBounds, Sane, Awaited
<1>2. ASSUME NEW r \in Reqs, Handle(r) PROVE IInv'
  BY <1>2, HandlerIInv
<1>3. ASSUME NEW r \in Reqs, Send(r) \/ GiveUp(r) \/ Receive(r) PROVE IInv'
  BY <1>3, DeviceIInv
<1>4. ASSUME NEW f \in Uids, Write(f) PROVE IInv'
  BY <1>4, WriteIInv
<1> QED BY <1>1, <1>2, <1>3, <1>4 DEF Next

\* It holds always.
LEMMA AlwaysIInv == Spec => []IInv
  BY InitIInv, StepIInv, PTL DEF Spec

-----------------------------------------------------------------------------
(* The keys.                                                               *)

\* The keys of the initial state.
LEMMA InitKInv == Init => KInv
  BY DEF Init, KInv, Served

\* Every step keeps what is known of the keys.
LEMMA StepKInv == IInv /\ KInv /\ [Next]_vars => KInv'
<1> SUFFICES ASSUME IInv, KInv, [Next]_vars, ~crossed' PROVE KInv'
  BY DEF KInv
<1>1. CASE UNCHANGED vars
  BY <1>1 DEF vars, KInv, Served
<1>2. ASSUME NEW f \in Uids, Write(f) PROVE KInv'
  BY <1>2 DEF Write, history, KInv, Served
<1>3. ASSUME NEW r \in Reqs, Send(r) PROVE KInv'
  <2>1. /\ device' = [device EXCEPT !.waits = r]
        /\ pc' = [pc EXCEPT ![r] = "sent"]
        /\ req' = [req EXCEPT ![r] = device.key]
        /\ ~crossed /\ \A q \in Reqs : ~Served(q)
        /\ UNCHANGED <<keys, reply>>
    BY <1>3 DEF Send, Served, IInv, TypeOK
  <2>2. device'.key = device.key /\ device'.waits = r
    BY <2>1 DEF IInv, TypeOK
  <2>3. \A q \in Reqs : Served(q)' => q = r
    BY <2>1 DEF Served, IInv, TypeOK
  <2>4. req'[r] = device.key /\ pc'[r] = "sent"
    BY <2>1 DEF IInv, TypeOK
  <2>5. \A q \in Reqs : device'.waits = q => q = r
    BY <2>2
  <2> QED BY <2>1, <2>2, <2>3, <2>4, <2>5 DEF KInv
<1>4. ASSUME NEW r \in Reqs, GiveUp(r) PROVE KInv'
  <2>1. /\ device' = [device EXCEPT !.waits = Nil]
        /\ UNCHANGED <<keys, pc, req, reply, crossed>>
    BY <1>4 DEF GiveUp, history
  <2>2. device'.key = device.key /\ device'.waits = Nil /\ Nil \notin Reqs
    BY <2>1, FolderAssumption DEF IInv, TypeOK
  <2> QED BY <2>1, <2>2 DEF KInv, Served
<1>5. ASSUME NEW r \in Reqs, Receive(r) PROVE KInv'
  <2>1. /\ pc[r] = "reply" /\ pc' = [pc EXCEPT ![r] = "idle"]
        /\ req' = [req EXCEPT ![r] = Zero]
        /\ reply' = [reply EXCEPT ![r] = NoReply]
        /\ UNCHANGED <<keys, crossed>>
    BY <1>5 DEF Receive, history
  <2>2. \A q \in Reqs : /\ Served(q)' => q # r /\ Served(q) /\ req'[q] = req[q]
                        /\ pc'[q] = "reply" => q # r /\ pc[q] = "reply" /\ reply'[q] = reply[q]
    BY <2>1 DEF Served, IInv, TypeOK
  <2>3. CASE device.waits # r
    <3>1. device' = device
      BY <1>5, <2>3 DEF Receive
    <3> QED BY <2>1, <2>2, <3>1 DEF KInv
  <2>4. CASE device.waits = r
    <3>1. \A q \in Reqs : ~Served(q)
      BY <2>1, <2>4, FolderAssumption DEF KInv, Served
    <3>2. reply[r].status \in {0, 1, 9}
      BY DEF IInv, TypeOK, Replies
    <3>3. /\ device'.waits = Nil
          /\ device'.key = IF reply[r].status = 1 THEN reply[r].key
                           ELSE IF reply[r].status = 9 THEN Zero ELSE device.key
      <4>1. CASE reply[r].status = 1
        BY <1>5, <2>4, <4>1 DEF Receive
      <4>2. CASE reply[r].status = 9
        BY <1>5, <2>4, <4>2 DEF Receive
      <4>3. CASE reply[r].status = 0
        <5>1. device' = [device EXCEPT !.waits = Nil]
          BY <1>5, <2>4, <4>3 DEF Receive
        <5> QED BY <4>3, <5>1 DEF IInv, TypeOK
      <4> QED BY <3>2, <4>1, <4>2, <4>3
    <3>4. device'.key \in {Zero, keys.current, keys.previous}
      BY <2>1, <2>4, <3>2, <3>3 DEF KInv
    <3> QED BY <2>1, <2>2, <3>1, <3>3, <3>4, FolderAssumption DEF KInv
  <2> QED BY <2>3, <2>4
<1>6. ASSUME NEW r \in Reqs, Handle(r) PROVE KInv'
  <2>1. /\ UNCHANGED <<clock, folder, device, req, lost, crossed>>
        /\ \A q \in Reqs \ {r} : pc'[q] = pc[q] /\ work'[q] = work[q] /\ reply'[q] = reply[q]
        /\ Served(r) /\ (keys' = keys \/ Persist(r))
    <3>1. Served(r)
      BY <1>6 DEF Handle, ReadKeys, ReadAll, ReadChanges, Persist, Fail, Served
    <3> QED BY <1>6, <3>1, HandlerKeeps
  <2>2. /\ ~crossed /\ \A q \in Reqs : Served(q) => q = r
        /\ device.waits \in {r, Nil} /\ req[r] = device.key
    BY <2>1 DEF KInv
  <2>3. \A q \in Reqs : Served(q)' => q = r
    BY <2>1, <2>2 DEF Served
  <2>4. CASE Persist(r)
    <3>1. /\ keys' = [current |-> [generation |-> req[r].generation + 1,
                                   cursor |-> work[r].cursor],
                      previous |-> Previous(r)]
          /\ reply' = [reply EXCEPT ![r] =
                [status |-> 1, key |-> keys'.current, adds |-> work[r].adds,
                 changes |-> work[r].changes, deletes |-> work[r].deletes]]
      BY <2>4 DEF Persist, Answer
    <3>2. Previous(r) = IF req[r] = Zero THEN None ELSE req[r]
      BY DEF Previous, IsRetry
    <3>3. reply'[r].key = keys'.current /\ keys'.previous = Previous(r)
      BY <3>1 DEF IInv, TypeOK
    <3>4. device'.key \in {Zero, keys'.current, keys'.previous}
      BY <2>1, <2>2, <3>2, <3>3
    <3>5. \A q \in Reqs : device'.waits = q => q = r
      BY <2>1, <2>2, FolderAssumption
    <3> QED BY <2>1, <2>2, <2>3, <3>3, <3>4, <3>5 DEF KInv
  <2>5. CASE ~Persist(r)
    <3>1. keys' = keys
      BY <2>1, <2>5
    <3>2. reply'[r].status # 1 \/ pc'[r] # "reply"
      <4>1. CASE ReadKeys(r)
        BY <4>1 DEF ReadKeys, Answer, IInv, TypeOK, NoReply
      <4>2. CASE ReadAll(r)
        BY <4>2 DEF ReadAll, IInv, TypeOK
      <4>3. CASE ReadChanges(r)
        BY <4>3 DEF ReadChanges, IInv, TypeOK
      <4>4. CASE Fail(r)
        BY <4>4 DEF Fail, Answer, IInv, TypeOK, NoReply
      <4> QED BY <1>6, <2>5, <4>1, <4>2, <4>3, <4>4 DEF Handle
    <3>3. \A q \in Reqs : device'.waits = q => q = r
      BY <2>1, <2>2, FolderAssumption
    <3> QED BY <2>1, <2>2, <2>3, <3>1, <3>2, <3>3 DEF KInv
  <2> QED BY <2>4, <2>5
<1> QED BY <1>1, <1>2, <1>3, <1>4, <1>5, <1>6 DEF Next

\* "a client that never received the response (...) retries with that older key"
\* (BaseEasRoute.ts): a device without a request at work has a key the row accepts.
THEOREM AcceptedKey == Spec => []KeyAccepted
<1>1. IInv /\ KInv /\ [Next]_vars => (IInv /\ KInv)'
  BY StepIInv, StepKInv
<1>2. KInv => KeyAccepted
  BY DEF KInv, KeyAccepted
<1> QED BY <1>1, <1>2, InitIInv, InitKInv, PTL DEF Spec
-----------------------------------------------------------------------------
(* What the device has.                                                    *)

\* The numbers and states that the comparisons below are about.
LEMMA Numbers ==
  ASSUME IInv
  PROVE  /\ clock \in Nat
         /\ \A c \in Cursor : c.date \in Nat
         /\ \A f \in Uids :
               /\ folder[f].at \in Nat /\ folder[f].created \in Nat
               /\ folder[f].state \in {"none", "live", "deleted"}
               /\ There(f) => /\ 1 <= folder[f].created
                              /\ folder[f].created <= folder[f].at
                              /\ folder[f].at <= clock
<1>1. \A f \in Uids : folder[f] \in Row
  BY DEF IInv, TypeOK
<1>2. \A x \in Row : /\ x.at \in Nat /\ x.created \in Nat
                     /\ x.state \in {"none", "live", "deleted"}
  BY Constant DEF Row
<1>3. \A c \in Cursor : c.date \in Nat
  BY Constant DEF Cursor
<1>4. clock \in Nat
  BY Constant DEF IInv, TypeOK
<1>5. \A f \in Uids : There(f) => /\ 1 <= folder[f].created
                                 /\ folder[f].created <= folder[f].at
                                 /\ folder[f].at <= clock
  BY DEF IInv, Sane, There
<1> QED BY <1>1, <1>2, <1>3, <1>4, <1>5

\* Without any folder one is up to the epoch.
LEMMA Start ==
  ASSUME IInv
  PROVE  /\ CaughtUp(folder, clock, Never, Epoch)
         /\ Complete(folder, Never, Epoch)
         /\ \A f \in Uids : There(f) => Ahead(folder, f, Epoch)
<1>1. \A f \in Uids : There(f) => /\ folder[f].created \in Nat /\ folder[f].at \in Nat
                                 /\ 1 <= folder[f].created /\ 1 <= folder[f].at
  BY Numbers
<1>2. \A f \in Uids : There(f) => Ahead(folder, f, Epoch)
  BY <1>1 DEF Ahead, Epoch, There
<1>3. 0 <= clock
  BY Constant DEF IInv, TypeOK
<1>4. CaughtUp(folder, clock, Never, Epoch)
  BY <1>2, <1>3 DEF CaughtUp, Never, There, Epoch
<1>5. Complete(folder, Never, Epoch)
  BY <1>1 DEF Complete, Ahead, Epoch, There
<1> QED BY <1>2, <1>4, <1>5

\* A write is ahead of every cursor there is.
LEMMA WriteKeeps ==
  ASSUME IInv, NEW f \in Uids, Write(f), NEW tree, NEW c \in Cursor,
         CaughtUp(folder, clock, tree, c)
  PROVE  /\ CaughtUp(folder', clock', tree, c)
         /\ Complete(folder, tree, c) => Complete(folder', tree, c)
<1>1. PICK w \in Writes(folder[f], clock + 1) : folder' = [folder EXCEPT ![f] = w]
  BY DEF Write
<1>2. clock' = clock + 1 /\ clock \in Nat /\ c.date \in Nat /\ c.date <= clock
  BY Constant DEF Write, IInv, TypeOK, CaughtUp, Cursor
<1>3. folder \in [Uids -> Row] /\ folder[f] \in Row
  BY DEF IInv, TypeOK
<1>4. /\ w.at = clock + 1 /\ w.state \in {"live", "deleted"}
      /\ \/ folder[f].state = "none" /\ w.created = clock + 1
         \/ folder[f].state = "live" /\ w.created = folder[f].created
  BY <1>1, <1>3, WriteOf
<1>5. folder'[f] = w /\ \A g \in Uids \ {f} : folder'[g] = folder[g]
  BY <1>1, <1>3
<1>6. \A g \in Uids \ {f} : Ahead(folder', g, c) <=> Ahead(folder, g, c)
  BY <1>5 DEF Ahead
<1>7. Ahead(folder', f, c)
  BY <1>2, <1>4, <1>5 DEF Ahead, Precedes
<1>8. folder[f].state = "none" => tree[f] = 0
  BY DEF CaughtUp
<1>9. CaughtUp(folder', clock', tree, c)
  <2>1. c.date <= clock'
    BY <1>2
  <2>2. ASSUME NEW g \in Uids
        PROVE  /\ folder'[g].state # "none" /\ ~Ahead(folder', g, c) =>
                    tree[g] = IF folder'[g].state = "deleted" THEN 0 ELSE folder'[g].at
               /\ tree[g] # 0 => folder'[g].state # "none" /\ folder'[g].created <= c.date
    <3>1. CASE g = f
      BY <1>4, <1>5, <1>7, <1>8, <3>1 DEF CaughtUp
    <3>2. CASE g # f
      BY <1>5, <1>6, <3>2 DEF CaughtUp
    <3> QED BY <3>1, <3>2
  <2> QED BY <2>1, <2>2 DEF CaughtUp
<1>10. ASSUME Complete(folder, tree, c), NEW g \in Uids, Ahead(folder', g, c),
              folder'[g].created <= c.date
       PROVE  tree[g] # 0
  <2>1. CASE g # f
    BY <1>5, <1>6, <1>10, <2>1 DEF Complete
  <2>2. CASE g = f
    <3>1. folder[f].state = "live" /\ folder[f].created <= c.date
      BY <1>2, <1>4, <1>5, <1>10, <2>2
    <3>2. CASE Ahead(folder, f, c)
      BY <1>10, <2>2, <3>1, <3>2 DEF Complete
    <3>3. CASE ~Ahead(folder, f, c)
      <4>1. tree[f] = folder[f].at
        BY <3>1, <3>3 DEF CaughtUp
      <4>2. folder[f].at # 0
        BY <3>1, Numbers DEF There
      <4> QED BY <2>2, <4>1, <4>2
    <3> QED BY <3>2, <3>3
  <2> QED BY <2>1, <2>2
<1> QED BY <1>9, <1>10 DEF Complete

\* One page of changes brings a tree from the cursor to the page's.
LEMMA ChangesBring ==
  ASSUME IInv, NEW c \in Cursor, NEW tree \in Stamped, CaughtUp(folder, clock, tree, c),
         NEW a, LET found == computeChanges(Rows, c, WindowSize)
                IN  /\ a.adds = StampsOf(found.adds)
                    /\ a.changes = StampsOf(found.changes)
                    /\ a.deletes = {d.uid : d \in found.deletes}
  PROVE  /\ CaughtUp(folder, clock, Applied(tree, a), NextCursor(c))
         /\ ~computeChanges(Rows, c, WindowSize).more =>
               Complete(folder, Applied(tree, a), NextCursor(c))
         /\ Complete(folder, tree, c) => Fits(tree, a)
<1> DEFINE end == NextCursor(c)
<1>1. /\ end \in Cursor /\ c.date <= end.date /\ end.date <= clock
      /\ \A f \in Uids :
            /\ OnPage(f, c) => /\ Ahead(folder, f, c)
                              /\ ~Ahead(folder, f, end)
                              /\ folder[f].at <= end.date
            /\ Ahead(folder, f, end) => Ahead(folder, f, c)
            /\ Ahead(folder, f, c) => OnPage(f, c) \/ Ahead(folder, f, end)
      /\ ~computeChanges(Rows, c, WindowSize).more =>
            \A f \in Uids : Ahead(folder, f, c) => OnPage(f, c)
  BY PageOfFolders DEF IInv, CaughtUp
<1>2. /\ a.adds = [f \in Uids |-> IF OnPage(f, c) /\ folder[f].state = "live"
                                       /\ folder[f].created > c.date
                                   THEN folder[f].at ELSE 0]
      /\ a.changes = [f \in Uids |-> IF OnPage(f, c) /\ folder[f].state = "live"
                                       /\ ~(folder[f].created > c.date)
                                   THEN folder[f].at ELSE 0]
      /\ a.deletes = {f \in Uids : OnPage(f, c) /\ folder[f].state = "deleted"
                                   /\ ~(folder[f].created > c.date)}
  BY Reported DEF IInv
<1>3. \A f \in Uids :
         /\ folder[f].at \in Int /\ folder[f].created \in Int
         /\ folder[f].state \in {"none", "live", "deleted"}
         /\ There(f) => /\ 1 <= folder[f].created /\ folder[f].created <= folder[f].at
                        /\ folder[f].at <= clock
         /\ OnPage(f, c) => There(f)
         /\ Ahead(folder, f, c) => There(f)
         /\ Ahead(folder, f, end) => There(f)
  <2>1. \A f \in Uids : /\ OnPage(f, c) => There(f)
                        /\ Ahead(folder, f, c) => There(f)
                        /\ Ahead(folder, f, end) => There(f)
    BY DEF There, OnPage, Ahead
  <2> QED BY <2>1, Numbers
<1>4. c.date \in Int /\ end.date \in Int /\ clock \in Int
  BY <1>1, Numbers
<1>5. \A f \in Uids :
        /\ There(f) /\ ~Ahead(folder, f, c) =>
               tree[f] = IF folder[f].state = "deleted" THEN 0 ELSE folder[f].at
        /\ tree[f] # 0 => There(f) /\ folder[f].created <= c.date
  BY DEF CaughtUp, There
<1> HIDE DEF end
<1>6. ASSUME NEW f \in Uids
      PROVE  Applied(tree, a)[f] =
               IF OnPage(f, c)
               THEN IF folder[f].state = "live" THEN folder[f].at
                    ELSE IF ~(folder[f].created > c.date) THEN 0 ELSE tree[f]
               ELSE tree[f]
  <2>1. Applied(tree, a)[f] = IF f \in a.deletes THEN 0
                              ELSE IF a.adds[f] # 0 THEN a.adds[f]
                              ELSE IF a.changes[f] # 0 THEN a.changes[f] ELSE tree[f]
    BY DEF Applied
  <2>2. CASE ~OnPage(f, c)
    BY <1>2, <2>1, <2>2
  <2>3. CASE OnPage(f, c) /\ folder[f].state = "deleted"
    BY <1>2, <2>1, <2>3
  <2>4. CASE OnPage(f, c) /\ folder[f].state = "live"
    <3>1. f \notin a.deletes /\ folder[f].at # 0
      BY <1>2, <1>3, <2>4
    <3>2. CASE folder[f].created > c.date
      BY <1>2, <2>1, <2>4, <3>1, <3>2
    <3>3. CASE ~(folder[f].created > c.date)
      BY <1>2, <2>1, <2>4, <3>1, <3>3
    <3> QED BY <3>2, <3>3
  <2> QED BY <1>3, <2>2, <2>3, <2>4 DEF There
<1>7. ASSUME NEW f \in Uids, There(f), ~Ahead(folder, f, end)
      PROVE  Applied(tree, a)[f] = IF folder[f].state = "deleted" THEN 0 ELSE folder[f].at
  <2>1. CASE OnPage(f, c)
    <3>1. folder[f].state \in {"live", "deleted"}
      BY <1>3, <1>7 DEF There
    <3>2. folder[f].created > c.date => tree[f] = 0
      BY <1>3, <1>4, <1>5
    <3> QED BY <1>6, <2>1, <3>1, <3>2
  <2>2. CASE ~OnPage(f, c)
    BY <1>1, <1>5, <1>6, <1>7, <2>2
  <2> QED BY <2>1, <2>2
<1>8. ASSUME NEW f \in Uids, Applied(tree, a)[f] # 0
      PROVE  There(f) /\ folder[f].created <= end.date
  <2>1. CASE OnPage(f, c)
    BY <1>1, <1>3, <1>4, <2>1
  <2>2. CASE ~OnPage(f, c)
    BY <1>1, <1>3, <1>4, <1>5, <1>6, <1>8, <2>2
  <2> QED BY <2>1, <2>2
<1>9. CaughtUp(folder, clock, Applied(tree, a), end)
  BY <1>1, <1>7, <1>8 DEF CaughtUp, There
<1>10. ~computeChanges(Rows, c, WindowSize).more => Complete(folder, Applied(tree, a), end)
  BY <1>1 DEF Complete
<1>11. ASSUME Complete(folder, tree, c) PROVE Fits(tree, a)
  <2>1. ASSUME NEW f \in Uids, a.adds[f] # 0 PROVE tree[f] = 0
    <3>1. folder[f].created > c.date
      BY <1>2, <2>1
    <3> QED BY <1>3, <1>4, <1>5, <3>1
  <2>2. ASSUME NEW f \in Uids, a.changes[f] # 0 \/ f \in a.deletes PROVE tree[f] # 0
    <3>1. OnPage(f, c) /\ ~(folder[f].created > c.date)
      BY <1>2, <2>2
    <3>2. Ahead(folder, f, c) /\ folder[f].created <= c.date
      BY <1>1, <1>3, <1>4, <3>1
    <3> QED BY <1>11, <3>2 DEF Complete
  <2> QED BY <2>1, <2>2 DEF Fits
<1> QED BY <1>9, <1>10, <1>11 DEF end
\* One page of the first round brings what it has collected to the page's cursor.
LEMMA PageBrings ==
  ASSUME IInv, NEW c \in Cursor, NEW adds \in Stamped, CaughtUp(folder, clock, adds, c),
         \A f \in Uids : Ahead(folder, f, c) => adds[f] = 0,
         NEW all, LET found == computeChanges(Rows, c, WindowSize)
                      new   == StampsOf(found.adds \cup found.changes)
                  IN  all = [f \in Uids |-> IF new[f] # 0 THEN new[f] ELSE adds[f]]
  PROVE  /\ CaughtUp(folder, clock, all, NextCursor(c))
         /\ \A f \in Uids : Ahead(folder, f, NextCursor(c)) => all[f] = 0
         /\ ~computeChanges(Rows, c, WindowSize).more => Complete(folder, all, NextCursor(c))
<1> DEFINE end == NextCursor(c)
<1>1. /\ end \in Cursor /\ c.date <= end.date /\ end.date <= clock
      /\ \A f \in Uids :
            /\ OnPage(f, c) => /\ Ahead(folder, f, c)
                              /\ ~Ahead(folder, f, end)
                              /\ folder[f].at <= end.date
            /\ Ahead(folder, f, end) => Ahead(folder, f, c)
            /\ Ahead(folder, f, c) => OnPage(f, c) \/ Ahead(folder, f, end)
      /\ ~computeChanges(Rows, c, WindowSize).more =>
            \A f \in Uids : Ahead(folder, f, c) => OnPage(f, c)
  BY PageOfFolders DEF IInv, CaughtUp
<1>2. \A f \in Uids : There(f) /\ ~Ahead(folder, f, c) =>
                          adds[f] = IF folder[f].state = "deleted" THEN 0 ELSE folder[f].at
  BY DEF CaughtUp, There
<1>3. \A f \in Uids : /\ OnPage(f, c) => There(f)
                      /\ adds[f] # 0 => There(f) /\ folder[f].created <= c.date
  BY DEF OnPage, CaughtUp, There
<1>4. c.date \in Int /\ end.date \in Int
  BY <1>1, Numbers
<1> HIDE DEF end
<1>5. ASSUME NEW f \in Uids
      PROVE  all[f] = IF OnPage(f, c) /\ folder[f].state = "live" THEN folder[f].at ELSE adds[f]
  <2> DEFINE new == StampsOf(computeChanges(Rows, c, WindowSize).adds
                              \cup computeChanges(Rows, c, WindowSize).changes)
  <2>1. new = [g \in Uids |-> IF OnPage(g, c) /\ folder[g].state = "live"
                              THEN folder[g].at ELSE 0]
    BY Reported DEF IInv
  <2>2. all[f] = IF new[f] # 0 THEN new[f] ELSE adds[f]
    OBVIOUS
  <2> HIDE DEF new
  <2>3. CASE OnPage(f, c) /\ folder[f].state = "live"
    <3>1. folder[f].at # 0
      BY <2>3, Numbers DEF There
    <3> QED BY <2>1, <2>2, <2>3, <3>1
  <2>4. CASE ~(OnPage(f, c) /\ folder[f].state = "live")
    BY <2>1, <2>2, <2>4
  <2> QED BY <2>3, <2>4
<1>6. ASSUME NEW f \in Uids, There(f), ~Ahead(folder, f, end)
      PROVE  all[f] = IF folder[f].state = "deleted" THEN 0 ELSE folder[f].at
  <2>1. CASE OnPage(f, c)
    <3>1. folder[f].state \in {"live", "deleted"}
      BY <1>6, Numbers DEF There
    <3>2. adds[f] = 0
      BY <1>1, <2>1
    <3> QED BY <1>5, <2>1, <3>1, <3>2
  <2>2. CASE ~OnPage(f, c)
    BY <1>1, <1>2, <1>5, <1>6, <2>2
  <2> QED BY <2>1, <2>2
<1>7. ASSUME NEW f \in Uids, all[f] # 0 PROVE There(f) /\ folder[f].created <= end.date
  <2>1. CASE OnPage(f, c)
    <3>1. There(f) /\ folder[f].at <= end.date
      BY <1>1, <1>3, <2>1
    <3> QED BY <1>4, <3>1, Numbers
  <2>2. CASE ~OnPage(f, c)
    <3>1. There(f) /\ folder[f].created <= c.date
      BY <1>3, <1>5, <1>7, <2>2
    <3> QED BY <1>1, <1>4, <3>1, Numbers
  <2> QED BY <2>1, <2>2
<1>8. CaughtUp(folder, clock, all, end)
  BY <1>1, <1>6, <1>7 DEF CaughtUp, There
<1>9. \A f \in Uids : Ahead(folder, f, end) => all[f] = 0
  BY <1>1, <1>5
<1>10. ~computeChanges(Rows, c, WindowSize).more => Complete(folder, all, end)
  BY <1>1 DEF Complete
<1> QED BY <1>8, <1>9, <1>10 DEF end

\* The round of a request that a step leaves alone.
LEMMA OtherRound ==
  ASSUME NEW q \in Reqs, RoundOf(q), UNCHANGED <<clock, folder, device>>, cut => cut',
         pc'[q] = pc[q], req'[q] = req[q], work'[q] = work[q], reply'[q] = reply[q]
  PROVE  RoundOf(q)'
<1>1. \A a, c : CaughtUp(folder, clock, Applied(device.tree, a), c)
         <=> CaughtUp(folder', clock', Applied(device'.tree, a), c)
  OBVIOUS
<1> QED BY <1>1 DEF RoundOf, Collecting, Brings

\* Initially the device has been told of all there is, which is nothing.
LEMMA InitFInv == Init => DeviceCaughtUp /\ RoundBrings
<1> SUFFICES ASSUME Init PROVE DeviceCaughtUp /\ RoundBrings
  OBVIOUS
<1>1. device = [key |-> Zero, tree |-> Never, waits |-> Nil]
  BY DEF Init
<1>2. DeviceCaughtUp
  BY <1>1, InitIInv, Start, Constant DEF DeviceCaughtUp
<1>3. RoundBrings
  BY <1>1, FolderAssumption DEF RoundBrings
<1> QED BY <1>2, <1>3

\* While folders are calm, what a round brings is not disturbed by a write.
LEMMA WriteFInv ==
  ASSUME Calm, FInv, NEW f \in Uids, Write(f)
  PROVE  DeviceCaughtUp' /\ RoundBrings'
<1>1. /\ UNCHANGED <<keys, device, pc, req, work, reply, lost, crossed, cut>>
      /\ \A r \in Reqs : pc[r] # "pages"
  BY DEF Write, history
<1>2. ASSUME NEW tree, NEW c \in Cursor, CaughtUp(folder, clock, tree, c)
      PROVE  /\ CaughtUp(folder', clock', tree, c)
             /\ Complete(folder, tree, c) => Complete(folder', tree, c)
  BY <1>2, WriteKeeps DEF FInv
<1>3. device.key.cursor \in Cursor
  BY DEF FInv, IInv, TypeOK, Keys
<1>4. DeviceCaughtUp'
  BY <1>1, <1>2, <1>3 DEF FInv, DeviceCaughtUp
<1>5. ASSUME NEW a, NEW c \in Cursor, NEW first, Brings(a, c, first)
      PROVE  /\ CaughtUp(folder', clock', Applied(device.tree, a), c)
             /\ ~cut => Complete(folder', Applied(device.tree, a), c)
             /\ ~cut /\ ~first => Fits(device.tree, a)
  BY <1>2, <1>5 DEF Brings
<1>6. ASSUME NEW r \in Reqs, device'.waits = r PROVE RoundOf(r)'
  <2>1. RoundOf(r)
    BY <1>1, <1>6 DEF FInv, RoundBrings
  <2>2. CASE pc[r] = "persist"
    <3>1. work[r].cursor \in Cursor
      BY DEF FInv, IInv, TypeOK, Works
    <3>2. Brings(work[r], work[r].cursor, req[r] = Zero)
      BY <2>1, <2>2 DEF RoundOf
    <3>3. Brings(work[r], work[r].cursor, req[r] = Zero)'
      BY <1>1, <1>2, <3>1, <3>2 DEF Brings
    <3> QED BY <1>1, <2>2, <3>3 DEF RoundOf
  <2>3. CASE pc[r] = "reply" /\ reply[r].status = 1
    <3>1. reply[r].key.cursor \in Cursor
      BY <2>3 DEF FInv, IInv, InBounds, Keys
    <3>2. Brings(reply[r], reply[r].key.cursor, req[r] = Zero)
      BY <2>1, <2>3 DEF RoundOf
    <3>3. Brings(reply[r], reply[r].key.cursor, req[r] = Zero)'
      BY <1>1, <1>2, <3>1, <3>2 DEF Brings
    <3> QED BY <1>1, <2>3, <3>3 DEF RoundOf
  <2>4. CASE pc[r] # "persist" /\ ~(pc[r] = "reply" /\ reply[r].status = 1)
    BY <1>1, <2>1, <2>4 DEF RoundOf
  <2> QED BY <2>2, <2>3, <2>4
<1>7. RoundBrings'
  BY <1>6 DEF RoundBrings
<1> QED BY <1>4, <1>7

\* The device has a new key with what the answer brings, or starts over.
LEMMA DeviceFInv ==
  ASSUME FInv, NEW r \in Reqs, Send(r) \/ GiveUp(r) \/ Receive(r)
  PROVE  DeviceCaughtUp' /\ RoundBrings'
<1>1. UNCHANGED <<clock, folder, keys, work, cut>>
  BY DEF Send, GiveUp, Receive, history
<1>2. device \in [key : Keys, tree : Stamped, waits : Reqs \cup {Nil}] /\ Nil \notin Reqs
  BY FolderAssumption DEF FInv, IInv, TypeOK
<1>3. CASE Send(r)
  <2>1. device' = [device EXCEPT !.waits = r] /\ pc' = [pc EXCEPT ![r] = "sent"]
    BY <1>3 DEF Send
  <2>2. device'.key = device.key /\ device'.tree = device.tree /\ device'.waits = r
    BY <1>2, <2>1
  <2>3. pc'[r] = "sent"
    BY <2>1 DEF FInv, IInv, TypeOK
  <2>4. DeviceCaughtUp'
    BY <1>1, <2>2 DEF FInv, DeviceCaughtUp
  <2>5. RoundBrings'
    BY <2>2, <2>3 DEF RoundBrings, RoundOf
  <2> QED BY <2>4, <2>5
<1>4. CASE GiveUp(r)
  <2>1. device' = [device EXCEPT !.waits = Nil]
    BY <1>4 DEF GiveUp
  <2>2. device'.key = device.key /\ device'.tree = device.tree /\ device'.waits = Nil
    BY <1>2, <2>1
  <2>3. DeviceCaughtUp'
    BY <1>1, <2>2 DEF FInv, DeviceCaughtUp
  <2>4. RoundBrings'
    BY <1>2, <2>2 DEF RoundBrings
  <2> QED BY <2>3, <2>4
<1>5. CASE Receive(r) /\ device.waits # r
  <2>1. /\ device' = device
        /\ pc' = [pc EXCEPT ![r] = "idle"]
        /\ req' = [req EXCEPT ![r] = Zero]
        /\ reply' = [reply EXCEPT ![r] = NoReply]
    BY <1>5 DEF Receive
  <2>2. DeviceCaughtUp'
    BY <1>1, <2>1 DEF FInv, DeviceCaughtUp
  <2>3. ASSUME NEW q \in Reqs, device'.waits = q PROVE RoundOf(q)'
    <3>1. q # r /\ RoundOf(q)
      BY <1>5, <2>1, <2>3 DEF FInv, RoundBrings
    <3>2. pc'[q] = pc[q] /\ req'[q] = req[q] /\ work'[q] = work[q] /\ reply'[q] = reply[q]
      BY <1>1, <2>1, <3>1 DEF FInv, IInv, TypeOK
    <3> QED BY <1>1, <2>1, <3>1, <3>2, OtherRound
  <2> QED BY <2>2, <2>3 DEF RoundBrings
<1>6. CASE Receive(r) /\ device.waits = r
  <2>1. pc[r] = "reply" /\ RoundOf(r) /\ reply[r].status \in {0, 1, 9}
    BY <1>6 DEF Receive, FInv, RoundBrings, IInv, TypeOK, Replies
  <2>2. CASE reply[r].status = 1
    <3>1. device' = [key |-> reply[r].key, tree |-> Applied(device.tree, reply[r]), waits |-> Nil]
      BY <1>6, <2>2 DEF Receive, Applied
    <3>2. Brings(reply[r], reply[r].key.cursor, req[r] = Zero) /\ reply[r].key # Zero
      BY <2>1, <2>2 DEF RoundOf, FInv, IInv, InBounds
    <3>3. /\ device'.key = reply[r].key /\ device'.waits = Nil
          /\ device'.tree = Applied(device.tree, reply[r])
      BY <3>1
    <3>4. DeviceCaughtUp'
      BY <1>1, <3>2, <3>3 DEF DeviceCaughtUp, Brings
    <3> QED BY <1>2, <3>3, <3>4 DEF RoundBrings
  <2>3. CASE reply[r].status = 9
    <3>1. device' = [key |-> Zero, tree |-> Never, waits |-> Nil]
      BY <1>6, <2>3 DEF Receive
    <3>2. /\ CaughtUp(folder, clock, Never, Epoch) /\ Complete(folder, Never, Epoch)
      BY Start DEF FInv
    <3>3. device'.key = Zero /\ device'.tree = Never /\ device'.waits = Nil
      BY <3>1
    <3>4. DeviceCaughtUp'
      BY <1>1, <3>2, <3>3, Constant DEF DeviceCaughtUp
    <3> QED BY <1>2, <3>3, <3>4 DEF RoundBrings
  <2>4. CASE reply[r].status = 0
    <3>1. device' = [device EXCEPT !.waits = Nil]
      BY <1>6, <2>4 DEF Receive
    <3>2. device'.key = device.key /\ device'.tree = device.tree /\ device'.waits = Nil
      BY <1>2, <3>1
    <3>3. DeviceCaughtUp'
      BY <1>1, <3>2 DEF FInv, DeviceCaughtUp
    <3> QED BY <1>2, <3>2, <3>3 DEF RoundBrings
  <2> QED BY <2>1, <2>2, <2>3, <2>4
<1> QED BY <1>3, <1>4, <1>5, <1>6

\* The handler of the request that the device waits for.
LEMMA ServedFInv ==
  ASSUME FInv, NEW r \in Reqs, Handle(r), device.waits = r
  PROVE  RoundOf(r)'
<1>1. /\ UNCHANGED <<clock, folder, device, req>>
      /\ cut => cut'
      /\ RoundOf(r) /\ req[r] = device.key
  BY HandlerKeeps DEF FInv, RoundBrings, IInv, Awaited
<1>2. /\ TypeOK /\ IInv
      /\ work[r] \in Works /\ work[r].cursor \in Cursor /\ work[r].adds \in Stamped
      /\ device.tree \in Stamped /\ device.key \in Keys
  BY DEF FInv, IInv, TypeOK, Works
<1>3. /\ CaughtUp(folder, clock, device.tree, device.key.cursor)
      /\ ~cut => Complete(folder, device.tree, device.key.cursor)
      /\ device.key = Zero => device.tree = Never
  BY DEF FInv, DeviceCaughtUp
<1>4. CASE ReadKeys(r)
  <2>1. CASE req[r] \in {Zero, keys.current, keys.previous}
    <3>1. /\ work' = [work EXCEPT ![r] =
                   [NoWork EXCEPT !.current = keys.current, !.previous = keys.previous,
                                  !.cursor = req[r].cursor]]
          /\ pc' = [pc EXCEPT ![r] = IF req[r] = Zero THEN "pages" ELSE "page"]
      BY <1>4, <2>1 DEF ReadKeys
    <3>2. work'[r] = [current |-> keys.current, previous |-> keys.previous,
                      cursor |-> req[r].cursor, pages |-> 0, adds |-> Never,
                      changes |-> Never, deletes |-> {}]
      BY <1>2, <3>1 DEF TypeOK, NoWork
    <3>3. pc'[r] = IF req[r] = Zero THEN "pages" ELSE "page"
      BY <1>2, <3>1 DEF TypeOK
    <3>4. CASE req[r] = Zero
      <4>1. work'[r].adds = Never /\ work'[r].cursor = Epoch /\ work'[r].changes = Never
            /\ work'[r].deletes = {}
        BY <3>2, <3>4, Constant
      <4>2. CaughtUp(folder, clock, Never, Epoch)
        BY <1>2, Start
      <4>3. Collecting(r)'
        BY <1>1, <3>4, <4>1, <4>2 DEF Collecting, Never
      <4> QED BY <3>3, <3>4, <4>3 DEF RoundOf
    <3>5. CASE req[r] # Zero
      <4>1. work'[r].cursor = req'[r].cursor /\ req'[r] # Zero /\ pc'[r] = "page"
        BY <1>1, <3>2, <3>3, <3>5
      <4> QED BY <4>1 DEF RoundOf
    <3> QED BY <3>4, <3>5
  <2>2. CASE req[r] \notin {Zero, keys.current, keys.previous}
    <3>1. /\ pc' = [pc EXCEPT ![r] = "reply"]
          /\ reply' = [reply EXCEPT ![r] = [NoReply EXCEPT !.status = 9]]
      BY <1>4, <2>2 DEF ReadKeys, Answer
    <3>2. /\ pc'[r] = "reply"
          /\ reply'[r] = [status |-> 9, key |-> None, adds |-> Never, changes |-> Never,
                          deletes |-> {}]
      BY <1>2, <3>1 DEF TypeOK, NoReply
    <3> QED BY <3>2 DEF RoundOf
  <2> QED BY <2>1, <2>2
<1>5. CASE ReadAll(r)
  <2> DEFINE found == computeChanges(Rows, work[r].cursor, WindowSize)
             new  == StampsOf(found.adds \cup found.changes)
             last == ~found.more \/ work[r].pages + 1 = MaxPages
             all  == [f \in Uids |-> IF new[f] # 0 THEN new[f] ELSE work[r].adds[f]]
             end  == NextCursor(work[r].cursor)
  <2>1. /\ work' = [work EXCEPT ![r].cursor = found.cursor, ![r].pages = @ + 1,
                               ![r].adds = [f \in Uids |-> IF new[f] # 0 THEN new[f] ELSE @[f]]]
        /\ pc' = [pc EXCEPT ![r] = IF last THEN "persist" ELSE "pages"]
        /\ cut' = (cut \/ (last /\ found.more))
        /\ pc[r] = "pages"
    BY <1>5 DEF ReadAll
  <2>2. Collecting(r)
    BY <1>1, <2>1 DEF RoundOf
  <2>3. /\ CaughtUp(folder, clock, all, end)
        /\ \A f \in Uids : Ahead(folder, f, end) => all[f] = 0
        /\ ~found.more => Complete(folder, all, end)
    BY <1>2, <2>2, PageBrings DEF Collecting
  <2>4. found.cursor = end
    BY DEF NextCursor
  <2> HIDE DEF new, end
  <2>5. /\ work'[r].cursor = end /\ work'[r].adds = all
        /\ work'[r].changes = Never /\ work'[r].deletes = {}
    <3>1. work'[r] = [work[r] EXCEPT !.cursor = end, !.pages = @ + 1, !.adds = all]
      BY <1>2, <2>1, <2>4 DEF TypeOK
    <3> HIDE DEF all
    <3> QED BY <1>2, <2>2, <3>1 DEF Collecting, Works
  <2>6. Applied(device.tree, work'[r]) = all
    <3>1. device.tree = Never
      BY <1>1, <1>3, <2>2 DEF Collecting
    <3>2. \A f \in Uids : Applied(device.tree, work'[r])[f] = all[f]
      <4> HIDE DEF all
      <4> QED BY <2>5, <3>1 DEF Applied, Never
    <3>3. Applied(device.tree, work'[r]) = [f \in Uids |-> Applied(device.tree, work'[r])[f]]
      BY DEF Applied
    <3>4. all = [f \in Uids |-> all[f]]
      OBVIOUS
    <3> HIDE DEF all
    <3> QED BY <3>2, <3>3, <3>4
  <2> HIDE DEF all, found
  <2>7. pc'[r] = IF last THEN "persist" ELSE "pages"
    BY <1>2, <2>1 DEF TypeOK
  <2> HIDE DEF last
  <2>8. req'[r] = Zero
    BY <1>1, <2>2 DEF Collecting
  <2>9. CASE ~last
    <3>1. Collecting(r)'
      BY <1>1, <2>3, <2>5, <2>8 DEF Collecting
    <3> QED BY <2>7, <2>9, <3>1 DEF RoundOf
  <2>10. CASE last
    <3>1. ~cut' => ~found.more
      BY <2>1, <2>10
    <3>2. Brings(work[r], work[r].cursor, req[r] = Zero)'
      BY <1>1, <2>3, <2>5, <2>6, <2>8, <3>1 DEF Brings
    <3> QED BY <2>7, <2>10, <3>2 DEF RoundOf
  <2> QED BY <2>9, <2>10
<1>6. CASE ReadChanges(r)
  <2> DEFINE found == computeChanges(Rows, work[r].cursor, WindowSize)
             end   == NextCursor(work[r].cursor)
  <2>1. /\ work' = [work EXCEPT ![r].cursor = found.cursor,
                               ![r].adds = StampsOf(found.adds),
                               ![r].changes = StampsOf(found.changes),
                               ![r].deletes = {d.uid : d \in found.deletes}]
        /\ cut' = (cut \/ found.more)
        /\ pc' = [pc EXCEPT ![r] = "persist"]
        /\ pc[r] = "page"
    BY <1>6 DEF ReadChanges
  <2>2. work[r].cursor = device.key.cursor
    BY <1>1, <2>1 DEF RoundOf
  <2>3. found.cursor = end
    BY DEF NextCursor
  <2>4. /\ work'[r].cursor = end
        /\ work'[r].adds = StampsOf(found.adds)
        /\ work'[r].changes = StampsOf(found.changes)
        /\ work'[r].deletes = {d.uid : d \in found.deletes}
    <3>1. work'[r] = [work[r] EXCEPT !.cursor = end, !.adds = StampsOf(found.adds),
                                     !.changes = StampsOf(found.changes),
                                     !.deletes = {d.uid : d \in found.deletes}]
      BY <1>2, <2>1, <2>3 DEF TypeOK
    <3> HIDE DEF found, end
    <3> QED BY <1>2, <3>1 DEF Works
  <2>5. /\ CaughtUp(folder, clock, Applied(device.tree, work'[r]), end)
        /\ ~found.more => Complete(folder, Applied(device.tree, work'[r]), end)
        /\ Complete(folder, device.tree, work[r].cursor) => Fits(device.tree, work'[r])
    BY <1>2, <1>3, <2>2, <2>4, ChangesBring
  <2>6. pc'[r] = "persist"
    BY <1>2, <2>1 DEF TypeOK
  <2> HIDE DEF found, end
  <2>7. Brings(work[r], work[r].cursor, req[r] = Zero)'
    BY <1>1, <1>3, <2>1, <2>2, <2>4, <2>5 DEF Brings
  <2> QED BY <2>6, <2>7 DEF RoundOf
<1>7. CASE Persist(r)
  <2> DEFINE key == [generation |-> req[r].generation + 1, cursor |-> work[r].cursor]
  <2>1. /\ pc' = [pc EXCEPT ![r] = "reply"]
        /\ reply' = [reply EXCEPT ![r] =
                [status |-> 1, key |-> key, adds |-> work[r].adds,
                 changes |-> work[r].changes, deletes |-> work[r].deletes]]
        /\ pc[r] = "persist" /\ UNCHANGED cut
    BY <1>7 DEF Persist, Answer, history
  <2>2. /\ pc'[r] = "reply"
        /\ reply'[r] = [status |-> 1, key |-> key, adds |-> work[r].adds,
                        changes |-> work[r].changes, deletes |-> work[r].deletes]
    BY <1>2, <2>1 DEF TypeOK
  <2>3. Brings(work[r], work[r].cursor, req[r] = Zero)
    BY <1>1, <2>1 DEF RoundOf
  <2>4. /\ reply'[r].adds = work[r].adds /\ reply'[r].changes = work[r].changes
        /\ reply'[r].deletes = work[r].deletes /\ reply'[r].key.cursor = work[r].cursor
        /\ reply'[r].status = 1
    BY <2>2
  <2>5. Applied(device.tree, reply'[r]) = Applied(device.tree, work[r])
        /\ (Fits(device.tree, work[r]) => Fits(device.tree, reply'[r]))
    BY <2>4 DEF Applied, Fits
  <2>6. Brings(reply[r], reply[r].key.cursor, req[r] = Zero)'
    BY <1>1, <2>1, <2>3, <2>4, <2>5 DEF Brings
  <2> QED BY <2>2, <2>4, <2>6 DEF RoundOf
<1>8. CASE Fail(r)
  <2>1. pc' = [pc EXCEPT ![r] = "reply"] /\ reply' = [reply EXCEPT ![r] = NoReply]
    BY <1>8 DEF Fail, Answer
  <2>2. pc'[r] = "reply" /\ reply'[r] = NoReply
    BY <1>2, <2>1 DEF TypeOK
  <2> QED BY <2>2 DEF RoundOf, NoReply
<1> QED BY <1>4, <1>5, <1>6, <1>7, <1>8 DEF Handle

\* Handlers change nothing that the device has.
LEMMA HandlerFInv ==
  ASSUME FInv, NEW r \in Reqs, Handle(r)
  PROVE  DeviceCaughtUp' /\ RoundBrings'
<1>1. /\ UNCHANGED <<clock, folder, device, req>>
      /\ \A q \in Reqs \ {r} : pc'[q] = pc[q] /\ work'[q] = work[q] /\ reply'[q] = reply[q]
      /\ cut => cut'
  BY HandlerKeeps DEF FInv
<1>2. DeviceCaughtUp'
  BY <1>1 DEF FInv, DeviceCaughtUp
<1>3. ASSUME NEW q \in Reqs, device'.waits = q, q # r PROVE RoundOf(q)'
  <2>1. RoundOf(q)
    BY <1>1, <1>3 DEF FInv, RoundBrings
  <2> QED BY <1>1, <1>3, <2>1, OtherRound
<1>4. ASSUME device'.waits = r PROVE RoundOf(r)'
  BY <1>1, <1>4, ServedFInv
<1> QED BY <1>2, <1>3, <1>4 DEF RoundBrings

\* Every step keeps what the device, the answers and the rounds under way have been told.
LEMMA StepFInv == Calm /\ FInv /\ [Next]_vars => FInv'
<1> SUFFICES ASSUME Calm, FInv, [Next]_vars PROVE DeviceCaughtUp' /\ RoundBrings'
  BY StepIInv DEF FInv
<1>1. CASE UNCHANGED vars
  <2>1. DeviceCaughtUp'
    BY <1>1 DEF vars, FInv, DeviceCaughtUp
  <2>2. ASSUME NEW q \in Reqs, device'.waits = q PROVE RoundOf(q)'
    <3>1. RoundOf(q)
      BY <1>1, <2>2 DEF vars, FInv, RoundBrings
    <3> QED BY <1>1, <3>1, OtherRound DEF vars
  <2> QED BY <2>1, <2>2 DEF RoundBrings
<1> QED BY <1>1, WriteFInv, DeviceFInv, HandlerFInv DEF Next

\* It holds always, if no folder is written between two pages.
LEMMA AlwaysFInv ==
  ASSUME Calm
  PROVE  Spec => []FInv
<1>1. Init => FInv
  BY InitIInv, InitFInv DEF FInv
<1>2. FInv /\ [Next]_vars => FInv'
  BY StepFInv
<1> QED BY <1>1, <1>2, PTL DEF Spec

\* "not 'now' (which would silently skip any row modified after this page was read)"
\* (EasSyncKeyUtils.ts): as long as folders do not change between the pages of a first
\* round, what a tree lacks of a folder is ahead of the cursor that its key names.
THEOREM NoneMissed ==
  ASSUME Calm
  PROVE  Spec => []NothingMissed
<1>1. ASSUME FInv PROVE NothingMissed
  <2> SUFFICES ASSUME NEW r \in Rows,
                      device.tree[r.uid] # (IF r.deleted THEN 0 ELSE r.at)
               PROVE  r \in After({r}, device.key.cursor)
    BY DEF NothingMissed
  <2>1. PICK f \in Uids : There(f) /\ r = RowOf(f)
    BY <1>1, FolderRows DEF FInv, IInv
  <2>2. r.uid = f /\ r.at = folder[f].at /\ r.deleted = (folder[f].state = "deleted")
    BY <2>1 DEF RowOf
  <2>3. Ahead(folder, f, device.key.cursor)
    BY <1>1, <2>1, <2>2 DEF FInv, DeviceCaughtUp, CaughtUp, There
  <2> QED BY <2>2, <2>3 DEF Ahead, After, cursorOf
<1> QED BY <1>1, AlwaysFInv, PTL

\* "a live one is an Add (never an Update for a ServerId the device has never seen)"
\* (EasSyncKeyUtils.ts): under the same condition, and as long as no round has left
\* changes to the next, an answer fits what the device has.
THEOREM FoldersKnown ==
  ASSUME Calm
  PROVE  Spec => []KnownFolders
<1>1. ASSUME FInv PROVE KnownFolders
  <2> SUFFICES ASSUME NEW r \in Reqs, ~cut, pc[r] = "reply", device.waits = r, req[r] # Zero
               PROVE  Fits(device.tree, reply[r])
    BY DEF KnownFolders, Fits
  <2>1. RoundOf(r)
    BY <1>1 DEF FInv, RoundBrings
  <2>2. CASE reply[r].status = 1
    BY <2>1, <2>2 DEF RoundOf, Brings
  <2>3. CASE reply[r].status # 1
    BY <2>1, <2>3 DEF RoundOf, Fits, Never
  <2> QED BY <2>2, <2>3
<1> QED BY <1>1, AlwaysFInv, PTL

\* Every variable of FolderSync has its type.
THEOREM TypeCorrect == Spec => []TypeOK
<1>1. IInv => TypeOK
  BY DEF IInv
<1> QED BY <1>1, AlwaysIInv, PTL
=============================================================================
