------------------------- MODULE EasCollectionSync -------------------------
(***************************************************************************)
(* How a Sync round finds what to report (src/src/EasCollectionSync.ts,    *)
(* with the stream reads of src/src/EasSyncKeyUtils.ts).                   *)
(*                                                                         *)
(* Items carry the time of their last write.  A round reads the folder's   *)
(* items written after its cursor and, behind it, those of the last        *)
(* `Overlap` once more, because a write is stamped before it commits; the  *)
(* same for the items of the mailbox's other folders; and, once it has     *)
(* caught up, it looks a few held items up.  Between those reads the store *)
(* changes.                                                                *)
(*                                                                         *)
(***************************************************************************)
EXTENDS EasSyncKeyUtils

CONSTANTS
    WindowSize,     \* most commands of a round
    MoveScanLimit,  \* most rows of other folders a round reads past its cursor
    ReconcileLimit, \* held items looked up by a round that has caught up
    Overlap,        \* DEFAULT_OVERLAP_MS
    MoveSlack,      \* MOVE_CURSOR_SLACK_MS
    MaxLag,         \* a write commits at most this long after its stamp
    MaxCount,       \* item_estimate_max_count
    MaxLost,        \* bound: answers that do not arrive, each costs a tick
    Merges          \* the device edits items that others have edited meanwhile

ASSUME CollectionAssumption ==
    /\ {Overlap, MoveSlack, MaxLag, MaxLost} \subseteq Nat
    /\ {WindowSize, MoveScanLimit, MaxCount} \subseteq Nat \ {0}
    /\ ReconcileLimit \in Nat
    /\ Merges \in BOOLEAN
    /\ MaxTime # 0

\* A row: the folder it is in, and the times of its last write and of the last
\* write to its content that was not the device's own.
Row     == [place : {"none", "here", "elsewhere", "purged"}, deleted : BOOLEAN,
            at : Time, edit : Time]
NoRow   == [place |-> "none", deleted |-> FALSE, at |-> 0, edit |-> 0]
NoWrite == [place |-> "none", deleted |-> TRUE, at |-> 0, edit |-> 0]

VARIABLES
    clock,   \* what writers stamp their writes with
    row,     \* the committed rows
    pending, \* writes that are stamped and not yet committed
    device,  \* the `edit` of the device's copy of each item, 0 if it has none
    coll,    \* the working state that the device's SyncKey denotes
    created, \* items a lost round has created for the device: their `edit`
    pc,      \* where the round is
    read,    \* what the round has read
    work,    \* the state it is advancing, and the answer so far
    lost     \* how many answers have not arrived

vars == <<clock, row, pending, device, coll, created, pc, read, work, lost>>
store == <<clock, row, pending>>

-----------------------------------------------------------------------------
\* The rows a stream shows: those in this folder, or those in another one.
InPlace(place) ==
    {[uid |-> i, at |-> row[i].at, edit |-> row[i].edit, deleted |-> row[i].deleted] :
        i \in {j \in Uids : row[j].place = place}}

NoState == [cursor |-> Epoch, moveCursor |-> Epoch, held |-> {}, echoes |-> Never,
            recent |-> Never, reconcileCursor |-> 0]
NoPage  == [rows |-> {}, more |-> FALSE]
NoRead  == [late |-> {}, page |-> NoPage, holds |-> FALSE, moveLate |-> {},
            movePage |-> NoPage, startedAt |-> 0]

\* A round's work on state s: what the device will have (`copy`), the commands
\* left in the window, whether the current stream is still open, and the items
\* created for the device.
WorkOn(s) == [s |-> s, copy |-> device, budget |-> WindowSize, more |-> FALSE,
              movedOut |-> {}, open |-> TRUE, created |-> Never]
NoWork == [s |-> NoState, copy |-> Never, budget |-> 0, more |-> FALSE,
           movedOut |-> {}, open |-> FALSE, created |-> Never]

Init ==
    /\ clock = 1
    /\ row = [i \in Uids |-> NoRow]
    /\ pending = [i \in Uids |-> NoWrite]
    /\ device = Never
    /\ coll = NoState
    /\ created = Never
    /\ pc = "idle"
    /\ read = NoRead
    /\ work = NoWork
    /\ lost = 0

-----------------------------------------------------------------------------
(* Everyone else.                                                          *)

\* What a write at `clock` can make of a row.
Writes(r) ==
    LET now == [r EXCEPT !.at = clock]
    IN  CASE r.place = "none" ->
               {[now EXCEPT !.place = "here", !.edit = clock]}
          [] r.place = "here" /\ ~r.deleted ->
               {[now EXCEPT !.edit = clock], [now EXCEPT !.place = "elsewhere"],
                [now EXCEPT !.deleted = TRUE]}
          [] r.place = "elsewhere" -> {[now EXCEPT !.place = "here"]}
          [] OTHER -> {}

\* The optimistic lock lets one writer of a row succeed at a time, and no two of
\* its writes have the same millisecond.
Stamp(i) ==
    /\ pending[i] = NoWrite
    /\ row[i].at < clock
    /\ \E r \in Writes(row[i]) : pending' = [pending EXCEPT ![i] = r]
    /\ UNCHANGED <<clock, row, device, coll, created, pc, read, work, lost>>

Commit(i) ==
    /\ pending[i] # NoWrite
    /\ row' = [row EXCEPT ![i] = pending[i]]
    /\ pending' = [pending EXCEPT ![i] = NoWrite]
    /\ UNCHANGED <<clock, device, coll, created, pc, read, work, lost>>

\* A row is removed for good, and leaves no trace in any stream.
Purge(i) ==
    /\ pending[i] = NoWrite
    /\ row[i].place \in {"here", "elsewhere"}
    /\ row' = [row EXCEPT ![i] = [NoRow EXCEPT !.place = "purged"]]
    /\ UNCHANGED <<clock, pending, device, coll, created, pc, read, work, lost>>

\* No write stays uncommitted for longer than MaxLag, and the two reads of one
\* stream are not a tick apart.
Tick ==
    /\ clock + lost < MaxTime
    /\ \A i \in Uids : pending[i] # NoWrite => clock < pending[i].at + MaxLag
    /\ pc \notin {"page", "movePage"}
    /\ clock' = clock + 1
    /\ UNCHANGED <<row, pending, device, coll, created, pc, read, work, lost>>

-----------------------------------------------------------------------------
(* A round: the device's own commands, then enumerateCollection.           *)

Begin ==
    /\ pc = "idle"
    /\ pc' = "commands"
    /\ work' = WorkOn(coll)
    /\ UNCHANGED <<store, device, coll, created, read, lost>>

\* noteWrite: the item is held, and its present stamp is the device's own.
Noted(w, i, at) == [w EXCEPT !.s.held = @ \cup {i}, !.s.echoes[i] = at]

applyAdd(i) ==
    /\ pc = "commands"
    /\ row[i].place = "none"
    /\ pending[i] = NoWrite
    /\ row' = [row EXCEPT ![i] = [place |-> "here", deleted |-> FALSE, at |-> clock,
                                  edit |-> clock]]
    /\ work' = [Noted(work, i, clock) EXCEPT !.copy[i] = clock, !.created[i] = clock]
    /\ UNCHANGED <<clock, pending, device, coll, created, pc, read, lost>>

\* An Add that the lost round carried out is not carried out again: the item, in
\* whatever state it is by now, counts as what the device wrote.
replayAdd(i) ==
    /\ pc = "commands"
    /\ created[i] # 0
    /\ work.created[i] = 0
    /\ row[i].place # "purged" /\ ~row[i].deleted
    /\ Merges \/ row[i].edit = created[i]
    /\ work' = [Noted(work, i, row[i].at) EXCEPT !.copy[i] = created[i],
                                                !.created[i] = created[i]]
    /\ UNCHANGED <<store, device, coll, created, pc, read, lost>>

\* The device changes part of an item: the rest stays what others made of it.
applyChange(i) ==
    /\ pc = "commands"
    /\ i \in work.s.held
    /\ row[i].place = "here" /\ ~row[i].deleted
    /\ pending[i] = NoWrite
    /\ row[i].at < clock
    /\ Merges \/ row[i].edit = work.copy[i]
    /\ row' = [row EXCEPT ![i].at = clock]
    /\ work' = Noted(work, i, clock)
    /\ UNCHANGED <<clock, pending, device, coll, created, pc, read, lost>>

\* A move to Deleted Items, or a soft delete.
applyDelete(i) ==
    /\ pc = "commands"
    /\ i \in work.s.held
    /\ row[i].place = "here" /\ ~row[i].deleted
    /\ pending[i] = NoWrite
    /\ row[i].at < clock
    /\ \/ row' = [row EXCEPT ![i].at = clock, ![i].place = "elsewhere"]
       \/ row' = [row EXCEPT ![i].at = clock, ![i].deleted = TRUE]
    /\ work' = [work EXCEPT !.s.held = @ \ {i}, !.s.echoes[i] = 0, !.copy[i] = 0]
    /\ UNCHANGED <<clock, pending, device, coll, created, pc, read, lost>>

\* The four reads, one after the other.
ReadFolderLate ==
    /\ pc = "commands"
    /\ read' = [NoRead EXCEPT !.late = scanOverlap(InPlace("here"), work.s.cursor, Overlap),
                              !.startedAt = clock]
    /\ pc' = "page"
    /\ UNCHANGED <<store, device, coll, created, work, lost>>

-----------------------------------------------------------------------------
(* What the round makes of the rows it has read, without waiting.          *)

\* The window is full: the stream is left for a later round.
WindowFull(w) == [w EXCEPT !.open = FALSE, !.more = TRUE]

Report(w, i, copy) ==
    [w EXCEPT !.copy[i] = copy, !.budget = @ - 1,
              !.s.held = IF copy = 0 THEN @ \ {i} ELSE @ \cup {i}]

\* processMoved: an item the device holds is in another folder now.
processMoved(w, r) ==
    CASE ~w.open                             -> w
      [] w.open /\ r.uid \notin w.s.held     -> [w EXCEPT !.movedOut = @ \cup {r.uid}]
      [] w.open /\ r.uid \in w.s.held /\ w.budget = 0 -> WindowFull(w)
      [] OTHER -> [Report(w, r.uid, 0) EXCEPT !.movedOut = @ \cup {r.uid}]

MovedRow(w, r) ==
    LET v == processMoved(w, r)
    IN  IF v.open THEN [v EXCEPT !.s.moveCursor = cursorOf(r)] ELSE v

\* Mutant of FastForward: the cursor is set to the start of the round itself.
FastForwardToNow(w, r) ==
    [w EXCEPT !.s.moveCursor = [date |-> r.startedAt, uid |-> 0]]

\* While the device holds nothing, that stream's cursor follows the clock.
FastForward(w, r) ==
    LET floor == [date |-> IF r.startedAt > MoveSlack
                           THEN r.startedAt - MoveSlack ELSE 0, uid |-> 0]
    IN  IF Precedes(w.s.moveCursor, floor) THEN [w EXCEPT !.s.moveCursor = floor] ELSE w

\* The command for a row of the folder's own stream.
CommandFor(w, r) ==
    CASE r.uid \in w.movedOut \/ w.s.echoes[r.uid] = r.at -> "none"
      [] OTHER ->
           IF r.deleted THEN IF r.uid \in w.s.held THEN "Delete" ELSE "none"
           ELSE IF r.uid \in w.s.held THEN "Change" ELSE "Add"

processFolderRow(w, r) ==
    LET command == CommandFor(w, r)
        v == CASE command = "none"   -> w
               [] command = "Delete" -> Report(w, r.uid, 0)
               [] OTHER              -> Report(w, r.uid, r.edit)
    IN  IF command # "none" /\ w.budget = 0 THEN WindowFull(w)
        ELSE [v EXCEPT !.s.recent[r.uid] = r.at]

\* Mutant of LateRow: every row behind the cursor counts as new.
LateRowAlways(w, r) == IF w.open THEN processFolderRow(w, r) ELSE w

\* Behind the cursor only rows count that were not there, or not with this stamp.
LateRow(w, r) ==
    IF ~w.open \/ w.s.recent[r.uid] = r.at THEN w ELSE processFolderRow(w, r)

PageRow(w, r) ==
    LET v == IF w.open THEN processFolderRow(w, r) ELSE w
    IN  IF v.open THEN [v EXCEPT !.s.cursor = cursorOf(r)] ELSE v

\* A held item that is looked up, and is not there any more.
LookedUp(w, i) ==
    LET present == row[i].place = "here" /\ ~row[i].deleted
        v == IF present THEN w ELSE [Report(w, i, 0) EXCEPT !.s.echoes[i] = 0]
    IN  CASE ~w.open                           -> w
          [] w.open /\ ~present /\ w.budget = 0 -> WindowFull(w)
          [] OTHER                             -> [v EXCEPT !.s.reconcileCursor = i]

\* The five loops of a round, each with what it does with one row, go through
\* their rows in the order of the stream.
Body(loop, w, r) ==
    CASE loop = "moveLate" -> processMoved(w, r)
      [] loop = "movePage" -> MovedRow(w, r)
      [] loop = "late"     -> LateRow(w, r)
      [] loop = "page"     -> PageRow(w, r)
      [] loop = "lookup"   -> LookedUp(w, r.uid)

Loop(loop, w, rows) ==
    LET after[done \in SUBSET rows] ==
            IF done = {} THEN w
            ELSE Body(loop, after[done \ {LastOf(done)}], LastOf(done))
    IN  after[rows]

MoveLate(w, r) == Loop("moveLate", w, r.moveLate)

MovedStream(w, r) ==
    IF r.holds
    THEN Loop("movePage", [MoveLate(w, r) EXCEPT !.open = TRUE], r.movePage.rows)
    ELSE FastForward(w, r)

FolderLate(w, r) == Loop("late", [w EXCEPT !.open = TRUE], r.late)

FolderStream(w, r) ==
    Loop("page", [FolderLate(w, r) EXCEPT !.open = TRUE], r.page.rows)

\* Echoes are kept until the cursor has passed them, `recent` for the overlap.
Pruned(w) ==
    [w EXCEPT
       !.s.echoes = [i \in Uids |->
           IF Precedes(w.s.cursor, [date |-> @[i], uid |-> i]) THEN @[i] ELSE 0],
       !.s.recent = [i \in Uids |->
           IF @[i] >= w.s.cursor.date - Overlap THEN @[i] ELSE 0]]

\* What work w becomes by the rows that were read, and whether there is room to
\* look further.
Enumerated(w, r) ==
    LET v == Pruned(FolderStream(MovedStream(
                [w EXCEPT !.more = r.page.more \/ r.movePage.more], r), r))
    IN  [v EXCEPT !.movedOut = {}, !.open = TRUE]

HasRoom(w) == ~w.more /\ w.budget > 0 /\ ReconcileLimit > 0 /\ w.s.held # {}

\* Everything is read: no await before the commands are complete.
Process(r) ==
    /\ work' = Enumerated(work, r)
    /\ pc' = IF HasRoom(work') THEN "reconcile" ELSE "answer"
    /\ read' = NoRead

WithFolderPage ==
    [read EXCEPT !.page = scanAfter(InPlace("here"), work.s.cursor, WindowSize),
                 !.holds = work.s.held # {}]

ReadFolderPage ==
    /\ pc = "page"
    /\ IF work.s.held # {}
       THEN read' = WithFolderPage /\ pc' = "moveLate" /\ UNCHANGED work
       ELSE Process(WithFolderPage)
    /\ UNCHANGED <<store, device, coll, created, lost>>

ReadMoveLate ==
    /\ pc = "moveLate"
    /\ read' = [read EXCEPT !.moveLate = scanOverlap(InPlace("elsewhere"), work.s.moveCursor, Overlap)]
    /\ pc' = "movePage"
    /\ UNCHANGED <<store, device, coll, created, work, lost>>

WithMovePage ==
    [read EXCEPT !.movePage =
        scanAfter(InPlace("elsewhere"), work.s.moveCursor, MoveScanLimit)]

ReadMovePage ==
    /\ pc = "movePage"
    /\ Process(WithMovePage)
    /\ UNCHANGED <<store, device, coll, created, lost>>

\* The next held items in the order of their ids: rows without a time.
Slice(w) ==
    FirstOf({[at |-> 0, uid |-> i] : i \in {j \in w.s.held : j > w.s.reconcileCursor}},
            ReconcileLimit)

\* Mutant of Reconciled: the lookups do not start over after the last item.
ReconciledOnce(w) == [Loop("lookup", w, Slice(w)) EXCEPT !.open = TRUE]

Reconciled(w) ==
    LET v == Loop("lookup", w, Slice(w))
    IN  IF v.open /\ Cardinality(Slice(w)) < ReconcileLimit
        THEN [v EXCEPT !.s.reconcileCursor = 0] ELSE [v EXCEPT !.open = TRUE]

Reconcile ==
    /\ pc = "reconcile"
    /\ work' = Reconciled(work)
    /\ pc' = "answer"
    /\ UNCHANGED <<store, device, coll, created, read, lost>>

\* The state is saved and the answer arrives: the device's next key denotes it.
Deliver ==
    /\ pc = "answer"
    /\ coll' = work.s
    /\ device' = work.copy
    /\ created' = Never
    /\ pc' = "idle"
    /\ work' = NoWork
    /\ UNCHANGED <<store, read, lost>>

\* The answer is lost: the device sends its older key again, which denotes the
\* state before the round (workingStateFromRound).
Lose ==
    /\ pc = "answer"
    /\ lost < MaxLost
    /\ clock + lost < MaxTime
    /\ lost' = lost + 1
    /\ created' = work.created
    /\ pc' = "idle"
    /\ work' = NoWork
    /\ UNCHANGED <<store, device, coll, read>>

-----------------------------------------------------------------------------
(* GetItemEstimate with the current key: a dry run with a window of MaxCount. *)

Reads(overlap) ==
    LET after(place, c, limit) == scanAfter(InPlace(place), c, limit)
        behind(place, c)       == scanOverlap(InPlace(place), c, overlap)
        holds                  == coll.held # {}
    IN  [late      |-> behind("here", coll.cursor),
         page      |-> after("here", coll.cursor, MaxCount),
         holds     |-> holds,
         moveLate  |-> IF holds THEN behind("elsewhere", coll.moveCursor) ELSE {},
         movePage  |-> IF holds THEN after("elsewhere", coll.moveCursor, MoveScanLimit)
                       ELSE NoPage,
         startedAt |-> clock]

DryRun(r) ==
    LET w == Enumerated([WorkOn(coll) EXCEPT !.budget = MaxCount], r)
    IN  MaxCount - (IF HasRoom(w) THEN Reconciled(w) ELSE w).budget

\* Mutant of Estimate: the overlap is not read.
EstimateAhead == DryRun(Reads(0))

Estimate == DryRun(Reads(Overlap))

-----------------------------------------------------------------------------
Others == \E i \in Uids : Stamp(i) \/ Commit(i) \/ Purge(i)

Commands == \E i \in Uids : applyAdd(i) \/ replayAdd(i) \/ applyChange(i) \/ applyDelete(i)

Round ==
    \/ Begin \/ ReadFolderLate \/ ReadFolderPage \/ ReadMoveLate \/ ReadMovePage
    \/ Reconcile \/ Deliver

Next == Tick \/ Others \/ Commands \/ Round \/ Lose

Spec == Init /\ [][Next]_vars

\* The device syncs again and again, every round ends, and what is being written
\* gets committed.  A round's next step is always possible, so the first conjunct
\* is the weak fairness of Round, which TLC could evaluate only very slowly.
FairSpec ==
    /\ Spec
    /\ []<>(pc = "idle") /\ []<>(pc # "idle")
    /\ \A i \in Uids : WF_vars(Commit(i))
-----------------------------------------------------------------------------
(* Properties.                                                             *)

States == [cursor : Cursor, moveCursor : Cursor, held : SUBSET Uids,
           echoes : [Uids -> Time], recent : [Uids -> Time],
           reconcileCursor : {0} \cup Uids]
Copies == [Uids -> Time]

\* Every variable has its type; the window is never overdrawn.
TypeOK ==
    /\ clock \in Time
    /\ row \in [Uids -> Row]
    /\ pending \in [Uids -> Row]
    /\ device \in Copies
    /\ coll \in States
    /\ created \in Copies
    /\ pc \in {"idle", "commands", "page", "moveLate", "movePage",
               "reconcile", "answer"}
    /\ work.s \in States
    /\ work.copy \in Copies
    /\ work.budget \in 0..WindowSize
    /\ lost \in 0..MaxLost

\* Whether the folder's stream would still show the present state of item i.
StillShown(i) ==
    LET r == [uid |-> i, at |-> row[i].at, edit |-> row[i].edit,
              deleted |-> row[i].deleted]
    IN  \/ r \in After({r}, coll.cursor)
        \/ r \in Behind({r}, coll.cursor, Overlap) /\ coll.recent[i] # r.at

\* Whether the device lacks the present state of item i of the folder.
Outdated(i) ==
    /\ row[i].place = "here"
    /\ device[i] # IF row[i].deleted THEN 0 ELSE row[i].edit

\* "never past a pending server change" (SyncCommand.ts:118): what the device does
\* not have yet is ahead of the cursor, or in the overlap and not yet reported.
NothingSkipped == \A i \in Uids : Outdated(i) => StillShown(i)

\* An item the device holds that has left the folder is ahead of the
\* out-of-folder cursor, or in its overlap.
NoMoveSkipped ==
    \A i \in Uids : row[i].place = "elsewhere" /\ device[i] # 0 =>
        LET shown == InPlace("elsewhere")
        IN  \E r \in After(shown, coll.moveCursor)
                       \cup Behind(shown, coll.moveCursor, Overlap) : r.uid = i

\* Between two rounds, none of them lost (any other key than the row's gets no
\* estimate), GetItemEstimate counts at least the items that the device lacks, has
\* in an older state, or has although they left the folder: also those that only
\* an overlap shows.  It sees no further than its two pages: with more rows than the
\* limits, those it reads may need no command, and those it does not read do.
EstimateCovers ==
    LET due == {i \in Uids : Outdated(i) \/ (row[i].place = "elsewhere" /\ device[i] # 0)}
        r   == Reads(Overlap)
    IN  pc = "idle" /\ lost = 0 /\ due # {} /\ ~r.page.more /\ ~r.movePage.more =>
            Estimate >= IF Cardinality(due) < MaxCount THEN Cardinality(due) ELSE MaxCount

\* Once nobody writes any more, the device comes to have what the folder has:
\* also of items that left no trace in any stream.
Current(i) ==
    device[i] = IF row[i].place = "here" /\ ~row[i].deleted THEN row[i].edit ELSE 0
Converges == <>[](\A i \in Uids : Current(i))

\* And then the rounds come to report nothing, although they read the overlap
\* again and again: a device with a full window would go on syncing for ever.
Quiesces == <>[](pc = "answer" => work.budget = WindowSize /\ ~work.more)
=============================================================================
