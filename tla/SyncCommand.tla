---------------------------- MODULE SyncCommand ----------------------------
(***************************************************************************)
(* The Sync rounds of one collection: one device, one folder               *)
(* (src/src/commands/SyncCommand.ts, with the state rows of                *)
(* src/src/models/EasCollectionState.ts).                                  *)
(*                                                                         *)
(* The server keeps one state row per (mailbox, device, folder): the key   *)
(* it issued last, the set of items the device holds, and the delta of the *)
(* last round, so that a device that never got the answer may send its     *)
(* older key again.  A request is answered in many awaited steps, between  *)
(* which the store changes, the device gives up and sends again, a write   *)
(* fails, or the process dies.                                             *)
(*                                                                         *)
(* Which server changes a round reports is EasCollectionSync's matter;     *)
(* here a round may report any of those that its contract allows.          *)
(***************************************************************************)
EXTENDS EasCollectionStore, SequencesExt

CONSTANTS
    Reqs,       \* slots for requests that are on their way at the same time
    ClientIds,  \* the ids a device gives the items it adds
    Filters,    \* FilterType values
    Nil,        \* no item, no ClientId, no FilterType, no request
    WindowSize, \* most server changes one round reports
    MaxGen,     \* bound: the device starts over at this key generation
    MaxCursor,  \* bound: positions in the folder's change stream
    MaxLost,    \* bound: requests the device gives up on
    MaxFaults,  \* bound: loads and writes that fail, processes that die, clean-ups
    Mixed,      \* bound: whether one behaviour has both losses and faults
    Exclusive,            \* one lease for all server copies (else: fail open)
    InOrder,              \* leases are granted in the order requests were sent
    RestartKeepsPrevious, \* `previous: undefined` is not written (SQL)
    CleansUp              \* EasDeviceStateCleanupJob takes the device for forgotten

ASSUME SyncAssumption ==
    /\ WindowSize \in Nat
    /\ MaxGen \in Nat \ {0}
    /\ MaxCursor \in Nat
    /\ MaxLost \in Nat
    /\ MaxFaults \in Nat
    /\ {Mixed, Exclusive, InOrder, RestartKeepsPrevious, CleansUp} \subseteq BOOLEAN
    /\ Nil \notin Items \cup ClientIds \cup Filters \cup Reqs

(***************************************************************************)
(* A SyncKey is its generation and the cursor it was issued at             *)
(* (formatSyncKey): the client sends it back as an opaque string, so two   *)
(* keys with the same parts are the same key.                              *)
(***************************************************************************)
Keys     == (1..MaxGen) \X (0..MaxCursor)
StartKey == <<1, 0>>    \* what every restart issues: generation 1, the epoch
Zero     == <<0, 0>>    \* SyncKey "0"
Blank    == <<-1, -1>>  \* "", a key that no request matches

generation(key) == key[1]
cursor(key)     == key[2]

\* The device's Commands, one at a time.
NoCommand == [kind |-> "none", on |-> Nil]
Commands  == {NoCommand} \cup [kind : {"Add"}, on : ClientIds]
                         \cup [kind : {"Change", "Delete"}, on : Items]

Rounds == [key : Keys \cup {Blank}, added : SUBSET Items, removed : SUBSET Items,
           clientIds : SUBSET (ClientIds \X Items)]
States == [exists : BOOLEAN, syncKey : Keys \cup {Blank}, serverIds : SUBSET Items,
           chunked : BOOLEAN, filter : Filters \cup {Nil}, previous : Rounds]

NoRound == [key |-> Blank, added |-> {}, removed |-> {}, clientIds |-> {}]
NoState == [exists |-> FALSE, syncKey |-> Blank, serverIds |-> {},
            chunked |-> FALSE, filter |-> Nil, previous |-> NoRound]

VARIABLES
    folder,  \* where each item is: "none" yet, "in" the folder, "moved", "gone"
    author,  \* history: the ClientId an item was created for, Nil if another's
    row,     \* the EasCollectionState row
    chunks,  \* the EasCollectionChunk rows
    device,  \* the device: its key, items, unanswered command, request awaited
    ahead,   \* for a request waiting for the lease, those sent before it
    pc,      \* where each request is
    req,     \* what it asks
    round,   \* what its handler has computed so far
    stale,   \* what others have written since it read it: chunks, the row (-1)
    reply,   \* its answer
    lost,    \* how many requests the device has given up on
    faults,  \* how many faults and clean-ups there have been
    cleanup  \* what the clean-up has done to the collection

vars == <<folder, author, row, chunks, device, ahead, pc, req, round, stale,
          reply, lost, faults, cleanup>>
store == <<folder, author>>
rows  == <<row, chunks>>

Saving  == {"save", "clear", "chunk", "final", "truncate", "restart"}
Working == {"locked", "read", "apply", "enum"} \cup Saving
Holders == {r \in Reqs : pc[r] \in Working}

\* The mark of the state row in `stale`.
RowMark == -1

NoRequest == [key |-> Zero, command |-> NoCommand, filter |-> Nil]
NoWork == [stored |-> NoState, loaded |-> NoChunks, base |-> {}, serverIds |-> {},
           filter |-> Nil, retry |-> FALSE, clientIds |-> {}, ok |-> FALSE,
           key |-> Blank, adds |-> {}, dels |-> {}, plan |-> NoChunks]
Answered(status, key) ==
    [status |-> status, key |-> key, adds |-> {}, dels |-> {}, ok |-> FALSE,
     created |-> {}]
NoReply == Answered(0, Blank)

Recorded == LoadHeldSet(row.chunked, row.serverIds, chunks)
InFolder == {i \in Items : folder[i] = "in"}

Init ==
    /\ folder \in [Items -> {"none", "in"}]
    /\ author = [i \in Items |-> Nil]
    /\ row = NoState
    /\ chunks = NoChunks
    /\ device = [key |-> Zero, held |-> {}, command |-> NoCommand,
                 spent |-> {}, waits |-> Nil]
    /\ ahead = [r \in Reqs |-> {}]
    /\ pc = [r \in Reqs |-> "idle"]
    /\ req = [r \in Reqs |-> NoRequest]
    /\ round = [r \in Reqs |-> NoWork]
    /\ stale = [r \in Reqs |-> {}]
    /\ reply = [r \in Reqs |-> NoReply]
    /\ lost = 0
    /\ faults = 0
    /\ cleanup = "none"

-----------------------------------------------------------------------------
(* The device.                                                             *)

\* The user adds, edits or deletes an item on the device.
Edit(command) ==
    /\ device.waits = Nil
    /\ device.key # Zero
    /\ device.command = NoCommand
    /\ CASE command.kind = "none" -> FALSE
         [] command.kind = "Add"  -> command.on \notin device.spent
         [] OTHER                 -> command.on \in device.held
    /\ device' = [device EXCEPT !.command = command,
                                !.spent = IF command.kind = "Add"
                                          THEN @ \cup {command.on} ELSE @]
    /\ UNCHANGED <<store, rows, ahead, pc, req, round, stale, reply, lost, faults, cleanup>>

\* The device gives up its state of the collection on its own account.
StartOver ==
    /\ device.waits = Nil
    /\ device.key # Zero
    /\ device' = [device EXCEPT !.key = Zero, !.held = {}, !.command = NoCommand]
    /\ UNCHANGED <<store, rows, ahead, pc, req, round, stale, reply, lost, faults, cleanup>>

Send(r, filter) ==
    /\ device.waits = Nil
    /\ pc[r] = "idle"
    /\ generation(device.key) < MaxGen
    /\ device' = [device EXCEPT !.waits = r]
    /\ ahead' = [ahead EXCEPT ![r] = {q \in Reqs : pc[q] = "sent"}]
    /\ pc' = [pc EXCEPT ![r] = "sent"]
    /\ req' = [req EXCEPT ![r] = [key |-> device.key, command |-> device.command,
                                  filter |-> filter]]
    /\ UNCHANGED <<store, rows, round, stale, reply, lost, faults, cleanup>>

\* No answer came: the device keeps its key and its command, to send them again.
\* The request it gave up on may still be in the server, or answered in vain.
GiveUp(r) ==
    /\ device.waits = r
    /\ pc[r] = "idle" \/ (lost < MaxLost /\ (Mixed \/ faults = 0))
    /\ lost' = IF pc[r] = "idle" THEN lost ELSE lost + 1
    /\ device' = [device EXCEPT !.waits = Nil]
    /\ UNCHANGED <<store, rows, ahead, pc, req, round, stale, reply, faults, cleanup>>

\* The device takes an answer: Status 1 is a new key with the server's changes
\* and the outcome of its own command, Status 3 an order to start over, any
\* other an error after which it tries again.
Receive(r) ==
    /\ device.waits = r
    /\ pc[r] = "reply"
    /\ LET answer  == reply[r]
           command == device.command
           kept    == IF command.kind = "Delete" /\ answer.ok
                      THEN device.held \ {command.on} ELSE device.held
       IN  device' =
             CASE answer.status = 1 ->
                    [device EXCEPT
                       !.key = answer.key, !.waits = Nil, !.command = NoCommand,
                       !.held = ((kept \cup answer.created) \ answer.dels)
                                   \cup answer.adds]
               [] answer.status = 3 ->
                    [device EXCEPT !.key = Zero, !.held = {}, !.waits = Nil,
                                   !.command = NoCommand]
               [] OTHER -> [device EXCEPT !.waits = Nil]
    /\ pc' = [pc EXCEPT ![r] = "idle"]
    /\ req' = [req EXCEPT ![r] = NoRequest]
    /\ reply' = [reply EXCEPT ![r] = NoReply]
    /\ UNCHANGED <<store, rows, ahead, round, stale, lost, faults, cleanup>>

\* An answer to a request the device has given up on reaches nobody.
Lose(r) ==
    /\ device.waits # r
    /\ pc[r] = "reply"
    /\ pc' = [pc EXCEPT ![r] = "idle"]
    /\ req' = [req EXCEPT ![r] = NoRequest]
    /\ reply' = [reply EXCEPT ![r] = NoReply]
    /\ UNCHANGED <<store, rows, device, ahead, round, stale, lost, faults, cleanup>>

-----------------------------------------------------------------------------
(* Everyone else: mail arrives, another client moves or deletes items.     *)

ItemChanges(i, to) ==
    /\ <<folder[i], to>> \in {<<"none", "in">>, <<"in", "moved">>, <<"moved", "in">>,
                              <<"in", "gone">>, <<"moved", "gone">>}
    /\ folder' = [folder EXCEPT ![i] = to]
    /\ UNCHANGED <<author, rows, device, ahead, pc, req, round, stale, reply, lost, faults, cleanup>>

-----------------------------------------------------------------------------
(* The handler: the lease, then processLocked.                             *)

\* Request r is answered: its handler forgets what it computed.
AnswerWith(r, answer) ==
    /\ pc' = [pc EXCEPT ![r] = "reply"]
    /\ reply' = [reply EXCEPT ![r] = answer]
    /\ round' = [round EXCEPT ![r] = NoWork]

\* What r wrote is newer than what every other handler at work has read.
\* r itself goes on with the versions its writes returned.
Outdates(r, objects) ==
    stale' = [q \in Reqs |-> IF q # r /\ pc[q] \in Working \ {"locked"}
                             THEN stale[q] \cup objects ELSE stale[q]]

\* r ends, so nothing it has read matters any more.
Ends(r) == stale' = [stale EXCEPT ![r] = {}]
EndsOutdating(r, objects) ==
    stale' = [q \in Reqs |-> IF q = r THEN {}
                             ELSE IF pc[q] \in Working \ {"locked"}
                                  THEN stale[q] \cup objects ELSE stale[q]]

\* Mutant of LeaveLine: who comes after r is not told.
LeaveLineQuietly(r) == ahead' = [ahead EXCEPT ![r] = {}]

LeaveLine(r) == ahead' = [q \in Reqs |-> IF q = r THEN {} ELSE ahead[q] \ {r}]

Acquire(r) ==
    /\ pc[r] = "sent"
    /\ Exclusive => Holders = {}
    /\ InOrder => ahead[r] = {}
    /\ LeaveLine(r)
    /\ pc' = [pc EXCEPT ![r] = "locked"]
    /\ UNCHANGED <<store, rows, device, req, round, stale, reply, lost, faults, cleanup>>

\* Another round outlasted LEASE_WAIT_MS: Status 16, try again.
LeaseTimeout(r) ==
    /\ pc[r] = "sent"
    /\ Exclusive
    /\ Holders # {}
    /\ LeaveLine(r)
    /\ AnswerWith(r, Answered(16, req[r].key))
    /\ UNCHANGED <<store, rows, device, req, stale, lost, faults, cleanup>>

\* Mutant of ReadRow: SyncKey 0 is looked up like any other key.
ReadRowAnyKey(r) ==
    /\ pc[r] = "locked"
    /\ round' = [round EXCEPT ![r].stored = row]
    /\ pc' = [pc EXCEPT ![r] = "read"]
    /\ UNCHANGED <<store, rows, device, ahead, req, stale, reply, lost, faults, cleanup>>

\* The state row is read only now that the lease is held.
ReadRow(r) ==
    /\ pc[r] = "locked"
    /\ round' = [round EXCEPT ![r].stored = row]
    /\ pc' = [pc EXCEPT ![r] = IF req[r].key = Zero THEN "truncate" ELSE "read"]
    /\ UNCHANGED <<store, rows, device, ahead, req, stale, reply, lost, faults, cleanup>>

\* The row's own key continues from its held set, the previous round's key from
\* that set without the round's delta (workingStateFromRow, ...FromRound).
IsCurrent(key, state) == state.exists /\ key = state.syncKey
IsRetry(key, state) ==
    /\ state.exists
    /\ key # state.syncKey
    /\ key = state.previous.key
\* Mutant of BaseSet: a retry does not put back what the lost round removed.
BaseSetUnrestored(key, state, held) ==
    IF IsCurrent(key, state) THEN held ELSE held \ state.previous.added

BaseSet(key, state, held) ==
    IF IsCurrent(key, state) THEN held
    ELSE (held \ state.previous.added) \cup state.previous.removed

\* Mutant of FilterRefused: only a change from one filter to another is refused.
FilterRefusedIfSet(requested, state, key, base) ==
    requested # Nil /\ state.filter # Nil /\ requested # state.filter

\* A FilterType other than the recorded one is adopted only while the device
\* holds nothing that was selected without it.
FilterRefused(requested, state, key, base) ==
    /\ requested # Nil
    /\ requested # state.filter
    /\ ~(state.filter = Nil /\ (base = {} \/ generation(key) <= 1))

\* The held set is loaded before the key is looked at; a load that fails is
\* answered with Status 5.
LoadHeld(r) ==
    /\ pc[r] = "read"
    /\ LET state == round[r].stored
           key   == req[r].key
           held  == LoadHeldSet(state.chunked, state.serverIds, chunks)
           base  == BaseSet(key, state, held)
       IN  IF \/ ~IsCurrent(key, state) /\ ~IsRetry(key, state)
              \/ FilterRefused(req[r].filter, state, key, base)
           THEN /\ AnswerWith(r, Answered(3, Blank))
                /\ Ends(r)
           ELSE /\ pc' = [pc EXCEPT ![r] = "apply"]
                /\ round' = [round EXCEPT ![r] =
                     [@ EXCEPT !.loaded = IF state.chunked THEN chunks ELSE NoChunks,
                               !.base = base,
                               !.serverIds = base,
                               !.retry = IsRetry(key, state),
                               !.filter = IF req[r].filter = Nil THEN state.filter
                                          ELSE req[r].filter]]
                /\ UNCHANGED <<stale, reply>>
    /\ UNCHANGED <<store, rows, device, ahead, req, lost, faults, cleanup>>

LoadFails(r) ==
    /\ pc[r] = "read"
    /\ round[r].stored.chunked
    /\ faults < MaxFaults /\ (Mixed \/ lost = 0)
    /\ faults' = faults + 1
    /\ AnswerWith(r, Answered(5, req[r].key))
    /\ Ends(r)
    /\ UNCHANGED <<store, rows, device, ahead, req, lost, cleanup>>

\* The command of r is done: `ids` is the working set, `ok` what the device is
\* told, `clientIds` the ServerId an Add is answered with.
Applied(r, ids, ok, clientIds) ==
    /\ pc' = [pc EXCEPT ![r] = "enum"]
    /\ round' = [round EXCEPT ![r] =
         [@ EXCEPT !.serverIds = ids, !.ok = ok, !.clientIds = clientIds]]
    /\ UNCHANGED <<rows, device, ahead, req, stale, reply, lost, faults, cleanup>>

NothingToApply(r) ==
    /\ pc[r] = "apply"
    /\ req[r].command = NoCommand
    /\ Applied(r, round[r].serverIds, FALSE, {})
    /\ UNCHANGED store

\* Mutant of Replayed: the created ids of the lost round are not looked up.
ReplayedNever(r, clientId) == {}

\* The ServerIds that the round being retried created for a ClientId.
Replayed(r, clientId) ==
    IF round[r].retry
    THEN {p \in round[r].stored.previous.clientIds : p[1] = clientId} ELSE {}

\* An Add that the retried round carried out already is answered with the item
\* it created, held again if that item still exists (in whatever folder).
ReplayAdd(r) ==
    /\ pc[r] = "apply"
    /\ req[r].command.kind = "Add"
    /\ \E p \in Replayed(r, req[r].command.on) :
          Applied(r, IF folder[p[2]] # "gone" THEN round[r].serverIds \cup {p[2]}
                     ELSE round[r].serverIds, TRUE, {p})
    /\ UNCHANGED store

ApplyAdd(r) ==
    /\ pc[r] = "apply"
    /\ req[r].command.kind = "Add"
    /\ Replayed(r, req[r].command.on) = {}
    /\ \E i \in Items :
          /\ folder[i] = "none"
          /\ folder' = [folder EXCEPT ![i] = "in"]
          /\ author' = [author EXCEPT ![i] = req[r].command.on]
          /\ Applied(r, round[r].serverIds \cup {i}, TRUE, {<<req[r].command.on, i>>})

ApplyChange(r) ==
    /\ pc[r] = "apply"
    /\ req[r].command.kind = "Change"
    /\ folder[req[r].command.on] = "in"
    /\ Applied(r, round[r].serverIds \cup {req[r].command.on}, TRUE, {})
    /\ UNCHANGED store

\* A Delete moves the item to Deleted Items or deletes it.
ApplyDelete(r) ==
    /\ pc[r] = "apply"
    /\ req[r].command.kind = "Delete"
    /\ folder[req[r].command.on] = "in"
    /\ \E to \in {"moved", "gone"} :
          folder' = [folder EXCEPT ![req[r].command.on] = to]
    /\ Applied(r, round[r].serverIds \ {req[r].command.on}, TRUE, {})
    /\ UNCHANGED author

\* The item is no longer there: fine if the retried round removed it, else 8.
DeleteAbsent(r) ==
    /\ pc[r] = "apply"
    /\ req[r].command.kind = "Delete"
    /\ folder[req[r].command.on] # "in"
    /\ LET done == round[r].retry
                   /\ req[r].command.on \in round[r].stored.previous.removed
       IN  Applied(r, IF done THEN round[r].serverIds \ {req[r].command.on}
                      ELSE round[r].serverIds, done, {})
    /\ UNCHANGED store

\* Status 6, 7 or 8: no permission, a malformed item, a lost update, an item
\* outside the folder, a message that is being sent.
RefuseCommand(r) ==
    /\ pc[r] = "apply"
    /\ \/ req[r].command.kind = "Add" /\ Replayed(r, req[r].command.on) = {}
       \/ req[r].command.kind = "Change"
       \/ req[r].command.kind = "Delete" /\ folder[req[r].command.on] = "in"
    /\ Applied(r, round[r].serverIds, FALSE, {})
    /\ UNCHANGED store

\* The round's server changes, up to a window of them: Adds of items of the
\* folder it does not hold, Deletes of items it holds that are not in the folder
\* any more; the cursor does not go back, and it passes the items added, unless
\* they appeared behind it (a fresh collection has nothing behind its cursor).
Enumerate(r) ==
    /\ pc[r] = "enum"
    /\ \E adds \in SUBSET (InFolder \ round[r].serverIds),
          dels \in SUBSET (round[r].serverIds \ InFolder),
          at \in cursor(req[r].key)..MaxCursor :
          LET ids == (round[r].serverIds \cup adds) \ dels
          IN  /\ Cardinality(adds) + Cardinality(dels) <= WindowSize
              /\ adds # {} => at > 0
              /\ round' = [round EXCEPT ![r] =
                   [@ EXCEPT !.serverIds = ids, !.adds = adds, !.dels = dels,
                             !.key = <<generation(req[r].key) + 1, at>>]]
              /\ pc' = [pc EXCEPT ![r] =
                   IF StaysInline(round[r].stored.chunked, ids) THEN "final"
                   ELSE "save"]
    /\ UNCHANGED <<store, rows, device, ahead, req, stale, reply, lost, faults, cleanup>>

-----------------------------------------------------------------------------
(* saveState: the held set, then the row.  Whatever fails on the way is     *)
(* answered with Status 3, and with Status 5 in a restart.                  *)

SaveStatus(r) == IF pc[r] \in {"truncate", "restart"} THEN 5 ELSE 3

SaveFailed(r) == AnswerWith(r, Answered(SaveStatus(r), Blank))

\* Mutant of Invalidate: the previous round can still be gone back to.
InvalidateCurrentOnly(r) ==
    /\ pc[r] = "save"
    /\ RowMark \notin stale[r]
    /\ Fits(round[r].loaded, round[r].serverIds)
    /\ row' = [row EXCEPT !.syncKey = Blank, !.serverIds = {}, !.chunked = TRUE]
    /\ \E order \in SetToSeqs(Pending(round[r].loaded, round[r].serverIds)) :
          round' = [round EXCEPT ![r].plan =
                       Plan(round[r].loaded, round[r].serverIds, order)]
    /\ pc' = [pc EXCEPT ![r] = IF round[r].stored.chunked THEN "chunk" ELSE "clear"]
    /\ Outdates(r, {RowMark})
    /\ UNCHANGED <<store, chunks, device, ahead, req, reply, lost, faults, cleanup>>

\* Before any chunk row is written, the state row is made to match no key.
\* The new ids are placed in the order they were inserted, which may be any.
Invalidate(r) ==
    /\ pc[r] = "save"
    /\ RowMark \notin stale[r]
    /\ Fits(round[r].loaded, round[r].serverIds)
    /\ row' = [row EXCEPT !.syncKey = Blank, !.previous.key = Blank,
                          !.serverIds = {}, !.chunked = TRUE]
    /\ \E order \in SetToSeqs(Pending(round[r].loaded, round[r].serverIds)) :
          round' = [round EXCEPT ![r].plan =
                       Plan(round[r].loaded, round[r].serverIds, order)]
    /\ pc' = [pc EXCEPT ![r] = IF round[r].stored.chunked THEN "chunk" ELSE "clear"]
    /\ Outdates(r, {RowMark})
    /\ UNCHANGED <<store, chunks, device, ahead, req, reply, lost, faults, cleanup>>

\* A set that leaves the row finds no chunk rows an earlier failure has left.
ClearLeftover(r) ==
    /\ pc[r] = "clear"
    /\ chunks' = NoChunks
    /\ pc' = [pc EXCEPT ![r] = "chunk"]
    /\ Outdates(r, Rows(chunks))
    /\ UNCHANGED <<store, row, device, ahead, req, round, reply, lost, faults, cleanup>>

\* saveHeldSet writes the rows that change one by one, the lowest index first;
\* what is written counts as loaded from then on.
IsNextChunk(r, i) ==
    /\ i \in Changed(round[r].loaded, round[r].plan)
    /\ \A j \in Changed(round[r].loaded, round[r].plan) : i <= j

\* An update needs the version that was loaded, a new row a free chunkIndex; an
\* emptied row is deleted whatever its version.
Writable(r, i) ==
    \/ round[r].plan[i] = {}
    \/ round[r].loaded[i] = {} /\ chunks[i] = {}
    \/ round[r].loaded[i] # {} /\ i \notin stale[r]

WriteChunk(r) ==
    /\ pc[r] = "chunk"
    /\ \E i \in ChunkIndex :
          /\ IsNextChunk(r, i)
          /\ Writable(r, i)
          /\ chunks' = [chunks EXCEPT ![i] = round[r].plan[i]]
          /\ round' = [round EXCEPT ![r].loaded[i] = round[r].plan[i]]
          /\ Outdates(r, {i})
    /\ UNCHANGED <<store, row, device, ahead, pc, req, reply, lost, faults, cleanup>>

ChunksWritten(r) ==
    /\ pc[r] = "chunk"
    /\ Changed(round[r].loaded, round[r].plan) = {}
    /\ pc' = [pc EXCEPT ![r] = "final"]
    /\ UNCHANGED <<store, rows, device, ahead, req, round, stale, reply, lost, faults, cleanup>>

\* Mutant of SavedRow: the previous round is filed under the key in the row, which
\* for a retry is not the key of the request.
SavedRowUnderStoredKey(r) ==
    LET w == round[r]
        inline == StaysInline(w.stored.chunked, w.serverIds)
    IN  [exists    |-> TRUE,
         syncKey   |-> w.key,
         serverIds |-> IF inline THEN w.serverIds ELSE {},
         chunked   |-> ~inline,
         filter    |-> w.filter,
         previous  |-> [key |-> w.stored.syncKey,
                        added |-> w.serverIds \ w.base,
                        removed |-> w.base \ w.serverIds,
                        clientIds |-> w.clientIds]]

\* The row of the new round: its key, its set, and how to go back one round.
SavedRow(r) ==
    LET w == round[r]
        inline == StaysInline(w.stored.chunked, w.serverIds)
    IN  [exists    |-> TRUE,
         syncKey   |-> w.key,
         serverIds |-> IF inline THEN w.serverIds ELSE {},
         chunked   |-> ~inline,
         filter    |-> w.filter,
         previous  |-> [key |-> req[r].key,
                        added |-> w.serverIds \ w.base,
                        removed |-> w.base \ w.serverIds,
                        clientIds |-> w.clientIds]]

\* Mutant of FinalWrite: the row is saved whatever its version.
FinalWriteUnversioned(r) ==
    /\ pc[r] = "final"
    /\ row' = SavedRow(r)
    /\ AnswerWith(r, [status |-> 1, key |-> round[r].key, adds |-> round[r].adds,
                      dels |-> round[r].dels, ok |-> round[r].ok,
                      created |-> {p[2] : p \in round[r].clientIds}])
    /\ EndsOutdating(r, {RowMark})
    /\ UNCHANGED <<store, chunks, device, ahead, req, lost, faults, cleanup>>

FinalWrite(r) ==
    /\ pc[r] = "final"
    /\ RowMark \notin stale[r]
    /\ row' = SavedRow(r)
    /\ AnswerWith(r, [status |-> 1, key |-> round[r].key, adds |-> round[r].adds,
                      dels |-> round[r].dels, ok |-> round[r].ok,
                      created |-> {p[2] : p \in round[r].clientIds}])
    /\ EndsOutdating(r, {RowMark})
    /\ UNCHANGED <<store, chunks, device, ahead, req, lost, faults, cleanup>>

\* SyncKey 0: every chunk row is removed, then the row starts from nothing.
Truncate(r) ==
    /\ pc[r] = "truncate"
    /\ chunks' = NoChunks
    /\ pc' = [pc EXCEPT ![r] = "restart"]
    /\ Outdates(r, Rows(chunks))
    /\ UNCHANGED <<store, row, device, ahead, req, round, reply, lost, faults, cleanup>>

RestartWrite(r) ==
    /\ pc[r] = "restart"
    /\ RowMark \notin stale[r]
    /\ row' = [exists |-> TRUE, syncKey |-> StartKey, serverIds |-> {},
               chunked |-> FALSE, filter |-> req[r].filter,
               previous |-> IF RestartKeepsPrevious THEN row.previous ELSE NoRound]
    /\ AnswerWith(r, Answered(1, StartKey))
    /\ EndsOutdating(r, {RowMark})
    /\ cleanup' = IF cleanup = "left" THEN "none" ELSE cleanup
    /\ UNCHANGED <<store, chunks, device, ahead, req, lost, faults>>

\* The row or a chunk row has been written by another since r read it.
SaveLosesRace(r) ==
    /\ \/ pc[r] \in {"save", "final", "restart"} /\ RowMark \in stale[r]
       \/ /\ pc[r] = "chunk"
          /\ \E i \in ChunkIndex : IsNextChunk(r, i) /\ ~Writable(r, i)
    /\ SaveFailed(r)
    /\ Ends(r)
    /\ UNCHANGED <<store, rows, device, ahead, req, lost, faults, cleanup>>

\* The database refuses a write.
WriteFails(r) ==
    /\ pc[r] \in Saving
    /\ faults < MaxFaults /\ (Mixed \/ lost = 0)
    /\ faults' = faults + 1
    /\ SaveFailed(r)
    /\ Ends(r)
    /\ UNCHANGED <<store, rows, device, ahead, req, lost, cleanup>>

\* The process dies, or something outside saveState throws: no answer.  The
\* lease is released or expires.
Die(r) ==
    /\ pc[r] \in Working \cup {"reply"}
    /\ faults < MaxFaults /\ (Mixed \/ lost = 0)
    /\ faults' = faults + 1
    /\ pc' = [pc EXCEPT ![r] = "idle"]
    /\ req' = [req EXCEPT ![r] = NoRequest]
    /\ round' = [round EXCEPT ![r] = NoWork]
    /\ reply' = [reply EXCEPT ![r] = NoReply]
    /\ Ends(r)
    /\ UNCHANGED <<store, rows, device, ahead, lost, cleanup>>

-----------------------------------------------------------------------------
(* The daily clean-up, which knows of no lease, and deletes without a      *)
(* version: the chunk rows, then the state row, of a device that had not   *)
(* synchronised for a long time when its row was read.                     *)

\* `objects` are not any more what any handler at work has read of them.
OutdatesAll(objects) ==
    stale' = [q \in Reqs |-> IF pc[q] \in Working \ {"locked"}
                             THEN stale[q] \cup objects ELSE stale[q]]

CleanUpChunks ==
    /\ CleansUp
    /\ row.exists
    /\ cleanup # "cleared"
    /\ faults < MaxFaults /\ (Mixed \/ lost = 0)
    /\ faults' = faults + 1
    /\ chunks' = NoChunks
    /\ cleanup' = "cleared"
    /\ OutdatesAll(Rows(chunks))
    /\ UNCHANGED <<store, row, device, ahead, pc, req, round, reply, lost>>

\* Mutant of CleanUpRow: what is at work does not lose its race to the deletion.
CleanUpRowUnnoticed ==
    /\ cleanup = "cleared"
    /\ row' = NoState
    /\ cleanup' = "none"
    /\ UNCHANGED <<store, chunks, device, ahead, pc, req, round, stale, reply, lost, faults>>

CleanUpRow ==
    /\ cleanup = "cleared"
    /\ row' = NoState
    /\ cleanup' = "none"
    /\ OutdatesAll({RowMark})
    /\ UNCHANGED <<store, chunks, device, ahead, pc, req, round, reply, lost, faults>>

\* The job stops, or fails, between the two: the next run takes up the device only
\* if it has not synchronised meanwhile.
CleanUpStops ==
    /\ cleanup = "cleared"
    /\ faults < MaxFaults /\ (Mixed \/ lost = 0)
    /\ faults' = faults + 1
    /\ cleanup' = IF row.chunked THEN "left" ELSE "none"
    /\ UNCHANGED <<store, rows, device, ahead, pc, req, round, stale, reply, lost>>

-----------------------------------------------------------------------------
Apply(r) ==
    \/ NothingToApply(r) \/ ReplayAdd(r) \/ ApplyAdd(r) \/ ApplyChange(r)
    \/ ApplyDelete(r) \/ DeleteAbsent(r) \/ RefuseCommand(r)

Save(r) ==
    \/ Invalidate(r) \/ ClearLeftover(r) \/ WriteChunk(r) \/ ChunksWritten(r)
    \/ FinalWrite(r) \/ Truncate(r) \/ RestartWrite(r) \/ SaveLosesRace(r)

Serve(r) ==
    \/ Acquire(r) \/ LeaseTimeout(r) \/ ReadRow(r) \/ LoadHeld(r) \/ Apply(r)
    \/ Enumerate(r) \/ Save(r)

Fault(r) == LoadFails(r) \/ WriteFails(r) \/ Die(r)

CleanUp == CleanUpChunks \/ CleanUpRow \/ CleanUpStops

Client ==
    \/ \E c \in Commands : Edit(c)
    \/ StartOver
    \/ \E r \in Reqs : Receive(r) \/ Lose(r) \/ GiveUp(r)
    \/ \E r \in Reqs, f \in Filters \cup {Nil} : Send(r, f)

Next ==
    \/ Client
    \/ \E i \in Items, to \in {"in", "moved", "gone"} : ItemChanges(i, to)
    \/ \E r \in Reqs : Serve(r) \/ Fault(r)
    \/ CleanUp

Spec == Init /\ [][Next]_vars

\* The server does not leave a request alone, answers arrive or are dropped, and
\* a device that waits for nothing and has no key asks for one.
Fairness ==
    /\ \A r \in Reqs : WF_vars(Serve(r)) /\ WF_vars(Receive(r) \/ Lose(r))
    /\ \A r \in Reqs : WF_vars(pc[r] = "idle" /\ GiveUp(r))
    /\ WF_vars(device.key = Zero /\ \E r \in Reqs : Send(r, Nil))

FairSpec == Spec /\ Fairness
-----------------------------------------------------------------------------
(* Properties.                                                             *)

Devices  == [key : Keys \cup {Zero}, held : SUBSET Items, command : Commands,
             spent : SUBSET ClientIds, waits : Reqs \cup {Nil}]
Requests == [key : Keys \cup {Zero}, command : Commands, filter : Filters \cup {Nil}]
Works    == [stored : States, loaded : ChunkRows, base : SUBSET Items,
             serverIds : SUBSET Items, filter : Filters \cup {Nil}, retry : BOOLEAN,
             clientIds : SUBSET (ClientIds \X Items), ok : BOOLEAN,
             key : Keys \cup {Blank}, adds : SUBSET Items, dels : SUBSET Items,
             plan : ChunkRows]
Replies  == [status : {0, 1, 3, 5, 16}, key : Keys \cup {Zero, Blank},
             adds : SUBSET Items, dels : SUBSET Items, ok : BOOLEAN,
             created : SUBSET Items]

\* Every variable has its type.  Held sets, chunk rows and rounds are sets of
\* items, keys are issued keys or the sentinels.
TypeOK ==
    /\ folder \in [Items -> {"none", "in", "moved", "gone"}]
    /\ author \in [Items -> ClientIds \cup {Nil}]
    /\ row \in States
    /\ chunks \in ChunkRows
    /\ device \in Devices
    /\ ahead \in [Reqs -> SUBSET Reqs]
    /\ pc \in [Reqs -> {"idle", "sent", "reply"} \cup Working]
    /\ req \in [Reqs -> Requests]
    /\ round \in [Reqs -> Works]
    /\ stale \in [Reqs -> SUBSET (ChunkIndex \cup {RowMark})]
    /\ reply \in [Reqs -> Replies]
    /\ lost \in 0..MaxLost
    /\ faults \in 0..MaxFaults
    /\ cleanup \in {"none", "cleared", "left"}

\* The set the row's previous round started from, as a retry rebuilds it.
Rebuilt == (Recorded \ row.previous.added) \cup row.previous.removed

Gone == {i \in Items : folder[i] = "gone"}

\* The device holds what the server believes it holds, and beyond that only
\* items that do not exist any more (see HeldExactly).
Agrees(set) == set \subseteq device.held /\ device.held \ set \subseteq Gone

\* Whatever was lost, retried, refused or interrupted: if the device's key is
\* the row's key, the row (or its chunk rows) records what the device holds, and
\* if it is the previous round's key, that round's delta leads back to it.  Unless a
\* clean-up is halfway, or was left halfway and nobody has started over since.
HeldAgreement ==
    cleanup = "none" =>
    /\ device.key = row.syncKey => Agrees(Recorded)
    /\ device.key = row.previous.key /\ device.key # row.syncKey => Agrees(Rebuilt)

\* "the row records exactly which items the device holds" (SyncCommand.ts:103).
HeldExactly ==
    device.key = row.syncKey => Recorded = device.held

\* A retried Add is answered with the item it created the first time: as long as no
\* process dies, no write fails and no clean-up is at work, no ClientId has two items.
NoDuplicateAdd ==
    faults = 0 => \A i, j \in Items : author[i] = author[j] /\ author[i] # Nil => i = j

\* Losing answers costs a device nothing: as long as no process dies, no
\* write fails and no clean-up is at work, whenever no round is at work the server
\* would accept the key the device has, as the current one or the previous round's.
KeyAccepted ==
    Holders = {} /\ faults = 0 /\ device.key # Zero =>
        device.key \in {row.syncKey, row.previous.key}

\* No item is in two chunk rows, and no chunk row is overfull: else a Delete of
\* the item would leave it recorded.
ChunksDisjoint ==
    /\ \A i, j \in ChunkIndex : i # j => chunks[i] \cap chunks[j] = {}
    /\ \A i \in ChunkIndex : Cardinality(chunks[i]) <= HeldChunkSize

\* "no key matches the half-written chunks any more" (SyncCommand.ts:531): chunk rows
\* are written only while the state row matches no key, neither as the current one
\* nor as the previous round's, so that a half-written set never passes for the set
\* of a key; a restart and the clean-up are the exceptions.
MatchesNoKey == row.syncKey = Blank /\ row.previous.key = Blank
NoLiveChunkWrite ==
    [][chunks' # chunks => \/ MatchesNoKey
                           \/ \E r \in Reqs : pc[r] = "truncate"
                           \/ cleanup' # cleanup]_vars

\* "a forgotten device leaves nothing behind" (EasDeviceStateCleanupJob.ts:128-130).
NothingLeftBehind == ~row.exists /\ Holders = {} => Rows(chunks) = {}

\* The recorded FilterType changes outside a restart only from none to the first
\* one sent, in a round that starts from an empty set: the device never keeps
\* items that were selected by another filter.
FilterAdoptedEmpty ==
    [][row'.filter # row.filter /\ row'.exists /\ row'.syncKey # StartKey
         => row.filter = Nil /\ Rebuilt' = {}]_vars

\* "the server MUST return a different SyncKey every time" (EasSyncKeyUtils.ts):
\* a round that changes the recorded set changes the key.
OneSetPerKey ==
    [][row'.syncKey = row.syncKey /\ row.syncKey \in Keys => Recorded' = Recorded]_row

\* Two rounds never build on each other's half: a round that is saved over a row
\* with keys started from exactly the set that its key names in that row, whichever
\* rounds ran beside it, with or without the lease.
NoLostRound ==
    [][row'.syncKey \in Keys \ {StartKey} /\ row' # row /\ row.syncKey # Blank =>
         \/ row'.previous.key = row.syncKey /\ Rebuilt' = Recorded
         \/ row'.previous.key = row.previous.key /\ Rebuilt' = Rebuilt]_vars

\* What the rounds promise, step by step (SyncPromise).  The keys a device may
\* have are the row's and, one generation before it, the previous round's; a save
\* that has withdrawn them works on the key of its request.  Items that do not
\* exist any more count for nobody.
Accepted ==
    {row.syncKey} \cup
    IF generation(row.previous.key) + 1 = generation(row.syncKey)
    THEN {row.previous.key} ELSE {}

Named ==
    [k \in Accepted \ {Blank} |->
        (IF k = row.syncKey THEN Recorded ELSE Rebuilt) \ Gone]

Underway ==
    {<<req[r].key, round[r].base \ Gone>> :
        r \in {q \in Reqs : pc[q] \in {"clear", "chunk", "final"} /\ row.syncKey = Blank}}

Promise == INSTANCE SyncPromise
               WITH key <- device.key, held <- device.held \ Gone,
                    names <- Named, saving <- Underway

\* Under one lease and in order, every step of every request, of the device and of
\* the other writers is a step of the promise or none: also while chunk rows are
\* written one by one, after a crash between two of them, and in a retried round.
Implements == Promise!Spec

\* Every request is answered, or the device stops waiting for it.
Answers == \A r \in Reqs : device.waits = r ~> device.waits # r

\* A device that has to start over gets a key again.
Restarts == device.key = Zero ~> device.key # Zero
=============================================================================
