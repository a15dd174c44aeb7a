-------------------------- MODULE FolderSyncCommand --------------------------
(***************************************************************************)
(* The rounds of FolderSync: the mailbox's folder hierarchy, kept up to    *)
(* date on one device (src/src/commands/FolderSyncCommand.ts).             *)
(*                                                                         *)
(* A key names the cursor it was issued at, so that a round that got lost  *)
(* can be computed again.  What a device has is not recorded: a row        *)
(* created after the cursor counts as unknown to it.                       *)
(***************************************************************************)
EXTENDS EasSyncKeyUtils

CONSTANTS
    Reqs,       \* slots for requests that are on their way at the same time
    Nil,        \* no request
    WindowSize, \* mail:eas:foldersync_window_size
    MaxPages,   \* MAX_INITIAL_PAGES
    MaxGen,     \* bound: the device syncs no more at this key generation
    MaxLost,    \* bound: requests the device gives up on
    Calm        \* folders do not change between the pages of a SyncKey 0 request

ASSUME FolderAssumption ==
    /\ {MaxGen, MaxLost} \subseteq Nat
    /\ {WindowSize, MaxPages} \subseteq Nat \ {0}
    /\ Calm \in BOOLEAN
    /\ Nil \notin Reqs
    /\ MaxTime > 0

\* A SyncKey (formatSyncKey); generation 0 is the "0" of a device without a
\* hierarchy, None a key that is not there.
Keys == [generation : 0..MaxGen, cursor : Cursor]
Zero == [generation |-> 0, cursor |-> Epoch]
None == [generation |-> -1, cursor |-> Epoch]

\* A folder's row: when it was created and last written.
Row   == [state : {"none", "live", "deleted"}, created : Time, at : Time]
NoRow == [state |-> "none", created |-> 0, at |-> 0]

\* What a round has read: the keys of the device's row, its own cursor, and the
\* stamps of what it reports.
NoWork == [current |-> None, previous |-> None, cursor |-> Epoch, pages |-> 0,
           adds |-> Never, changes |-> Never, deletes |-> {}]
NoReply == [status |-> 0, key |-> None, adds |-> Never, changes |-> Never, deletes |-> {}]

VARIABLES
    clock,  \* the time of the last write
    folder, \* the Folder rows
    keys,   \* folderSyncKeys of the device's row: the current key and the previous
    device, \* the device: its key, its copy of each folder, the request awaited
    pc,     \* where each request is
    req,    \* the SyncKey it presents
    work,   \* what its handler has found so far
    reply,  \* its answer
    lost,   \* how many requests the device has given up on
    crossed, \* history: a request was sent while an older one was still served
    cut      \* history: a round has left changes to the next one

vars == <<clock, folder, keys, device, pc, req, work, reply, lost, crossed, cut>>
history == <<crossed, cut>>

Init ==
    /\ clock = 1
    /\ folder = [f \in Uids |-> NoRow]
    /\ keys = [current |-> None, previous |-> None]
    /\ device = [key |-> Zero, tree |-> Never, waits |-> Nil]
    /\ pc = [r \in Reqs |-> "idle"]
    /\ req = [r \in Reqs |-> Zero]
    /\ work = [r \in Reqs |-> NoWork]
    /\ reply = [r \in Reqs |-> NoReply]
    /\ lost = 0
    /\ crossed = FALSE
    /\ cut = FALSE

-----------------------------------------------------------------------------
(* Everyone else: folders are created, renamed or moved, and deleted.  No  *)
(* two writes have the same millisecond.                                   *)

Writes(r, t) ==
    CASE r.state = "none" -> {[state |-> "live", created |-> t, at |-> t]}
      [] r.state = "live" -> {[r EXCEPT !.at = t], [r EXCEPT !.at = t, !.state = "deleted"]}
      [] OTHER            -> {}

Rows ==
    {[uid |-> f, at |-> folder[f].at, created |-> folder[f].created,
      deleted |-> folder[f].state = "deleted"] : f \in {g \in Uids : folder[g].state # "none"}}

Write(f) ==
    /\ clock < MaxTime
    /\ clock' = clock + 1
    /\ \E r \in Writes(folder[f], clock + 1) : folder' = [folder EXCEPT ![f] = r]
    /\ Calm => \A r \in Reqs : pc[r] # "pages"
    /\ UNCHANGED <<keys, device, pc, req, work, reply, lost, history>>

-----------------------------------------------------------------------------
(* The device.                                                             *)

Send(r) ==
    /\ device.waits = Nil
    /\ pc[r] = "idle"
    /\ device.key.generation < MaxGen
    /\ device' = [device EXCEPT !.waits = r]
    /\ pc' = [pc EXCEPT ![r] = "sent"]
    /\ req' = [req EXCEPT ![r] = device.key]
    /\ crossed' = (crossed \/ \E q \in Reqs : pc[q] \notin {"idle", "reply"})
    /\ UNCHANGED <<clock, folder, keys, work, reply, lost, cut>>

GiveUp(r) ==
    /\ device.waits = r
    /\ lost < MaxLost
    /\ lost' = lost + 1
    /\ device' = [device EXCEPT !.waits = Nil]
    /\ UNCHANGED <<clock, folder, keys, pc, req, work, reply, history>>

\* The device puts an answer into its tree, or starts over.  An Update of a folder
\* that it does not have counts as told: KnownFolders speaks of those.
Receive(r) ==
    /\ pc[r] = "reply"
    /\ LET answer == reply[r]
           tree   == [f \in Uids |->
                        IF f \in answer.deletes THEN 0
                        ELSE IF answer.adds[f] # 0 THEN answer.adds[f]
                        ELSE IF answer.changes[f] # 0 THEN answer.changes[f]
                        ELSE device.tree[f]]
       IN  device' =
             IF device.waits # r THEN device
             ELSE CASE answer.status = 1 -> [key |-> answer.key, tree |-> tree, waits |-> Nil]
                    [] answer.status = 9 -> [key |-> Zero, tree |-> Never, waits |-> Nil]
                    [] answer.status = 0 -> [device EXCEPT !.waits = Nil]
    /\ pc' = [pc EXCEPT ![r] = "idle"]
    /\ req' = [req EXCEPT ![r] = Zero]
    /\ reply' = [reply EXCEPT ![r] = NoReply]
    /\ UNCHANGED <<clock, folder, keys, work, lost, history>>

-----------------------------------------------------------------------------
(* The handler.                                                            *)

\* The newest stamp of each of the rows.
StampsOf(rows) ==
    [f \in Uids |-> IF \E r \in rows : r.uid = f
                    THEN (CHOOSE r \in rows : r.uid = f).at ELSE 0]

Answer(r, answer) ==
    /\ pc' = [pc EXCEPT ![r] = "reply"]
    /\ reply' = [reply EXCEPT ![r] = answer]
    /\ work' = [work EXCEPT ![r] = NoWork]

\* The answer to the previous key has got lost.
IsRetry(r) ==
    req[r] # Zero /\ req[r] # work[r].current /\ req[r] = work[r].previous

\* The device's row is read once.  An unknown key is answered with Status 9.
ReadKeys(r) ==
    /\ pc[r] = "sent"
    /\ IF req[r] \in {Zero, keys.current, keys.previous}
       THEN /\ work' = [work EXCEPT ![r] =
                   [NoWork EXCEPT !.current = keys.current, !.previous = keys.previous,
                                  !.cursor = req[r].cursor]]
            /\ pc' = [pc EXCEPT ![r] = IF req[r] = Zero THEN "pages" ELSE "page"]
            /\ UNCHANGED reply
       ELSE Answer(r, [NoReply EXCEPT !.status = 9])
    /\ UNCHANGED <<clock, folder, keys, device, req, lost, history>>

\* Mutant of ReadAll: only what the page itself takes for new is an Add.
ReadAllAddsOnly(r) ==
    /\ pc[r] = "pages"
    /\ LET found == computeChanges(Rows, work[r].cursor, WindowSize)
           adds  == StampsOf(found.adds)
           last  == ~found.more \/ work[r].pages + 1 = MaxPages
       IN  /\ work' = [work EXCEPT ![r].cursor = found.cursor, ![r].pages = @ + 1,
                          ![r].adds = [f \in Uids |-> IF adds[f] # 0 THEN adds[f] ELSE @[f]]]
           /\ pc' = [pc EXCEPT ![r] = IF last THEN "persist" ELSE "pages"]
           /\ cut' = (cut \/ (last /\ found.more))
    /\ UNCHANGED <<clock, folder, keys, device, req, reply, lost, crossed>>

\* SyncKey 0: page after page of the whole hierarchy, all of it Adds.
ReadAll(r) ==
    /\ pc[r] = "pages"
    /\ LET found == computeChanges(Rows, work[r].cursor, WindowSize)
           adds  == StampsOf(found.adds \cup found.changes)
           last  == ~found.more \/ work[r].pages + 1 = MaxPages
       IN  /\ work' = [work EXCEPT ![r].cursor = found.cursor, ![r].pages = @ + 1,
                          ![r].adds = [f \in Uids |-> IF adds[f] # 0 THEN adds[f] ELSE @[f]]]
           /\ pc' = [pc EXCEPT ![r] = IF last THEN "persist" ELSE "pages"]
           /\ cut' = (cut \/ (last /\ found.more))
    /\ UNCHANGED <<clock, folder, keys, device, req, reply, lost, crossed>>

\* Otherwise one page of what has changed since the key.
ReadChanges(r) ==
    /\ pc[r] = "page"
    /\ LET found == computeChanges(Rows, work[r].cursor, WindowSize)
       IN  /\ work' = [work EXCEPT ![r].cursor = found.cursor,
                                   ![r].adds = StampsOf(found.adds),
                                   ![r].changes = StampsOf(found.changes),
                                   ![r].deletes = {d.uid : d \in found.deletes}]
           /\ cut' = (cut \/ found.more)
    /\ pc' = [pc EXCEPT ![r] = "persist"]
    /\ UNCHANGED <<clock, folder, keys, device, req, reply, lost, crossed>>

\* Mutant of Previous: a retry, too, makes the stored key the previous one.
PreviousStored(r) == IF req[r] = Zero THEN None ELSE work[r].current

\* A retry keeps the previous key, a restart forgets it.
Previous(r) ==
    IF req[r] = Zero THEN None
    ELSE IF IsRetry(r) THEN work[r].previous ELSE req[r]

\* The two keys are merged into the device's row, whatever else it has become.
Persist(r) ==
    /\ pc[r] = "persist"
    /\ LET key == [generation |-> req[r].generation + 1, cursor |-> work[r].cursor]
       IN  /\ keys' = [current |-> key, previous |-> Previous(r)]
           /\ Answer(r, [status |-> 1, key |-> key, adds |-> work[r].adds,
                         changes |-> work[r].changes, deletes |-> work[r].deletes])
    /\ UNCHANGED <<clock, folder, device, req, lost, history>>

\* The row's version has moved on too often, or something else went wrong: the
\* device gets an error, and tries again.
Fail(r) ==
    /\ pc[r] \in {"pages", "page", "persist"}
    /\ Answer(r, NoReply)
    /\ UNCHANGED <<clock, folder, keys, device, req, lost, history>>

-----------------------------------------------------------------------------
Handle(r) == ReadKeys(r) \/ ReadAll(r) \/ ReadChanges(r) \/ Persist(r) \/ Fail(r)

Next ==
    \/ \E f \in Uids : Write(f)
    \/ \E r \in Reqs : Send(r) \/ GiveUp(r) \/ Receive(r) \/ Handle(r)

Spec == Init /\ [][Next]_vars
-----------------------------------------------------------------------------
(* Properties.                                                             *)

Stamped == [Uids -> Time]
Works   == [current : Keys \cup {None}, previous : Keys \cup {None}, cursor : Cursor,
            pages : 0..MaxPages, adds : Stamped, changes : Stamped, deletes : SUBSET Uids]
Replies == [status : {0, 1, 9}, key : Keys \cup {None}, adds : Stamped,
            changes : Stamped, deletes : SUBSET Uids]

\* Every variable has its type.
TypeOK ==
    /\ clock \in Time
    /\ folder \in [Uids -> Row]
    /\ keys \in [current : Keys \cup {None}, previous : Keys \cup {None}]
    /\ device \in [key : Keys, tree : Stamped, waits : Reqs \cup {Nil}]
    /\ pc \in [Reqs -> {"idle", "sent", "pages", "page", "persist", "reply"}]
    /\ req \in [Reqs -> Keys]
    /\ work \in [Reqs -> Works]
    /\ reply \in [Reqs -> Replies]
    /\ lost \in 0..MaxLost
    /\ {crossed, cut} \subseteq BOOLEAN

\* "not 'now' (which would silently skip any row modified after this page was
\* read)" (EasSyncKeyUtils.ts): what the device's tree lacks of a folder is still
\* ahead of the cursor its key names, however rounds were lost and repeated.
NothingMissed ==
    device.key # Zero =>
        \A r \in Rows : device.tree[r.uid] # (IF r.deleted THEN 0 ELSE r.at)
                          => r \in After({r}, device.key.cursor)

\* "a live one is an Add (never an Update for a ServerId the device has never
\* seen) and a deleted one is not reported at all" (EasSyncKeyUtils.ts): an answer
\* speaks of no folder the device does not have, and adds none that it has, as long
\* as no round has left changes to the next.
KnownFolders ==
    \A r \in Reqs : ~cut /\ pc[r] = "reply" /\ device.waits = r /\ req[r] # Zero =>
        \A f \in Uids :
            /\ reply[r].adds[f] # 0 => device.tree[f] = 0
            /\ reply[r].changes[f] # 0 \/ f \in reply[r].deletes => device.tree[f] # 0

\* Losing answers costs a device nothing: when no request is at work, the key it
\* has is accepted, unless a request it gave up on was still being served when it
\* sent the next one.
KeyAccepted ==
    ~crossed /\ (\A r \in Reqs : pc[r] = "idle") =>
        device.key \in {Zero, keys.current, keys.previous}
=============================================================================
