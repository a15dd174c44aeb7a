# Verification of the Exchange ActiveSync plugin

This directory holds TLA+ models of the core of this repository, the TLC
configurations that check them, and theorems about them that TLAPS checks. The
system is a plugin that lets phones synchronise a mailbox over Exchange ActiveSync
(EAS): a device sends commands, the server answers from database rows that are
shared by several server copies.

`PROJECT.json` lists the components, the runs with what each shows, the mutants that
show each property can fail, the source lines behind every definition, the findings,
the hazards and the theorems. This file explains them.

1. The system
2. The modules, and how they correspond to the code
3. What the runs check, their bounds and their fairness
4. What is proved
5. Where the code does not do what its comments say
6. What the models leave out
7. Plan

## 1. The system

| Component | State it keeps | Operations | What must be right |
|---|---|---|---|
| Dispatch (`BaseEasRoute`) | a `DeviceSyncState` row per device | find or create the row, refuse a blocked or unprovisioned device, run the command, note the time | the gate opens only for the acknowledged key; a write changes only its own fields |
| Provision, remote wipe (`ProvisionCommand`, `BaseDeviceSyncStateRoute`) | policyKey, provisioned, remoteWipeRequested, blocked in that row | issue, acknowledge, request a wipe, acknowledge it, unblock | a wipe is never circumvented |
| `Sync` (`SyncCommand`) | an `EasCollectionState` row per device and folder: key, held set, the previous round's delta | apply the device's commands, report changes, save | the row's set is what the device holds; a lost answer costs nothing |
| Held set (`EasCollectionStore`) | the set in the state row, or in `EasCollectionChunk` rows | load, save, clear | no half-written set passes for the set of a key |
| Enumeration (`EasCollectionSync`, `EasSyncKeyUtils`) | cursors, echoes, recent, reconcileCursor in the state row | read two streams, compare with the held set, look items up | no change is skipped, none is reported for ever |
| Lease (`EasCollectionLease`) | an entry of a map per process, a key in Redis | acquire, renew, release | one round at a time, nothing hangs |
| FolderSync | two keys in the device's row | first round, later rounds, retry | the device is told of every folder |
| Clean-up (`EasDeviceStateCleanupJob`) | none | remove rows of forgotten devices | no wipe or block is forgotten |
| Ping (`PingCommand`) | per process: the device's Ping that waits, a shared Redis client with its listeners | subscribe, look, wait, answer | one waits at a time, each is answered, no change waits for the end of the heartbeat |
| GetItemEstimate | none | a dry round on a copy of the state | 0 means that there is nothing |
| Mail: MoveItems, ItemOperations' Move and EmptyFolderContents, Sync's Deletes and Changes of messages, SendMail and SmartReply (`MessageMoveRules`, `ComposeMailCommand`) | message rows, with the marks of the mail server's scheduled send | move, delete, mark, rewrite, relay and file | nothing is sent twice or after it was taken back, what was sent or delivered stays as it was |
| MeetingResponse | calendar rows | answer, decline | no notice in another's name |
| Adapters (`CalendarSyncAdapter`, `ContactsSyncAdapter`, `TasksSyncAdapter`, `EmailSyncAdapter`) | none | item to element and back; what a calendar write means for invitations | a device changes what it says and nothing else |
| WBXML (`src/codec`) | none | encode, decode | a document is read as it was meant or refused |
| ItemOperations' Fetch, Search, Settings, ResolveRecipients, audit log, database bindings | none | read, format, declare | |

The parts interact through rows and their versions (an update names the version it
read; another one in between makes it fail), through the lease that a Sync holds while
it works on one folder of one device, and through what the device sends back: keys.
The server keeps no session. What is hard is therefore what happens *between* a read
and a write: another copy of the server, another request of the same device (phones
send a request again while the first is still being served), an administrator, the
daily clean-up, the mail server's jobs, all other clients of the mailbox, a process that dies, an answer that
gets lost. `PROJECT.json` lists these hazards at the lines where they bite.

## 2. The modules

```
EasCollectionStore <- SyncCommand <- MCSyncCommand
                                  <- SyncCommandProofs
SyncPromise        <- SyncCommand            (INSTANCE ... WITH)
EasSyncKeyUtils    <- EasCollectionSync <- EasCollectionSyncProofs
                   <- FolderSyncCommand <- FolderSyncCommandProofs
                   <- PingCommand <- MCPingCommand
                                  <- PingCommandProofs
                   <- EasSyncKeyUtilsProofs <- EasCollectionSyncProofs
                                            <- FolderSyncCommandProofs
                                            <- PingCommandProofs
EasCollectionLease <- MCEasCollectionLease
                   <- EasCollectionLeaseProofs
DeviceSyncState    <- MCDeviceSyncState
                   <- DeviceSyncStateProofs
MessageMoveRules   <- MailCommands <- MCMailCommands
                                   <- MailCommandsProofs
WbxmlCodec         <- ItemAdapters <- ItemCommands <- MCItemCommands
```

Every definition that stands for code is in the `map` of `PROJECT.json` with its file
and lines. An operator whose comment says "Mutant of" is a plausible bug and is used by
no specification; it is there to show that a property can be violated.

**SyncCommand** (with **EasCollectionStore**) models a collection's rounds as the server
goes through them: the requests of one device wait for the lease (`Acquire`,
`LeaseTimeout`), read the state row (`ReadRow`: the current key, the previous key, SyncKey
0, or Status 3), load the held set (`LoadHeld`), apply the device's command (`ApplyAdd`,
`ReplayAdd`, `ApplyChange`, ...), enumerate, and save in as many steps as there are writes:
blank the keys, write chunk row by chunk row, write the state row. Between any two of them
another request may do its own, a write may fail, the process may die, and the daily
clean-up may take the device for forgotten (`CleanUpChunks`, `CleanUpRow`: without the lease
and without a version, first the chunk rows, then the state row). `folder` is what
the folder contains, `author` which ClientId an item was created for, `device` what the
device has and what it waits for, `stale` which rows others have written since a request
read them, which is what a version tells. A key is its generation and cursor. The contents
of items play no part here, and a change of an item moves the cursor without a command.

**SyncPromise** is what all this promises a device, without leases, rows or chunks: a key
names a set; at most two keys are accepted, the one issued last and the one it was issued
for; a round starts from an accepted key's set and makes its own key and that one the
accepted ones, at once or after all keys were withdrawn, or is abandoned. SyncCommand
implements it (`Implements`): the accepted keys are the row's `syncKey` and, if it is one
generation older, its `previous.key`; what they name is the loaded set and the set that
`BaseSet` rebuilds; the key that is withdrawn is the one of the request whose save has
blanked the row. Items that are gone for good count for nobody on either side. This needs
one lease and requests in their order; section 5 says what happens without.

**EasCollectionSync** models one round after the other, but takes the enumeration apart:
writers stamp a row (`Stamp`) and commit it later (`Commit`), and between the four reads
of a round (rows behind the folder's cursor, the page after it, the same for the other
folders' items) all of this goes on. `Process` walks the rows as `enumerateCollection`
does (`Loop`, with one `Body` for each of its five loops), with the window, echoes, `recent`, the fast-forward of the out-of-folder cursor;
`Reconcile` looks held items up. `Estimate` is GetItemEstimate's dry run of the same round,
on a copy of the state and with its own window. `edit` is the content of a row as far as it matters: the
stamp of the last write to it that was not the device's own.

**EasSyncKeyUtils** holds what the users of cursors share: their order, `scanAfter`,
`scanOverlap` and `computeChanges`. A page is the *set* of the first rows of a stream
(`FirstOf`), and `LastOf` is its last row in the order of the stream.

**FolderSyncCommand** is FolderSync with lost answers, given-up requests that are still
served and failing writes. `device.tree` is what the device has been told of each folder,
and `cut` whether a window has ever left something for the next round.

**EasCollectionLease** is the lease, one action per await: the entry in the process's map,
the `SET NX PX` on the wire, executed and answered separately, its time-out, the late
answer, polling, the renewals as a key that `Expire`s or not, the release script.

**DeviceSyncState** is the device's row: a request reads it once (`Find`, `Create`), is
refused at the gate or decides what to write from what it has read (`Applies`), and writes
under the version; who loses reads again and applies the same patch (`Conflict`,
`Reread`). `Patch` is the constant patch of each writer. The client is free to send any
policy key there has been. The clean-up picks a row and deletes it in a later step, and the
administrator's requests come at any moment, also between those two. Three histories say
what a wipe has crossed: the keys minted before it was requested (`old`), the Provisions
that had decided and not written when it was (`crossed`), and whether it was requested or
acknowledged since the clean-up picked the row (`locked`). No guard and no write reads them.

**PingCommand** is the Pings of one device in one process. A Ping that has its
permissions takes the place of the one that waits (`waitForChange`), gets hold of the
shared client (`Connects`, `ConnectFails`, `Subscribe`), is subscribed some time after
(`Subscribed`) and goes on in a step of its own (`Resume`), in which it looks at the rows
or, when it has been answered meanwhile, leaves again (`Unsubscribed`). A look is one step
per query (`loadStates`, `ReadOne`, `ReadOther`, `Scan`, `LookFails`) with the batch's
row limit and the scans it falls back to; what it knows between two queries is in `look`.
Around it rows are written (`Write`, the device's own `SyncEdit`), published to whoever
listens by then (`Publish`, `PublishLost`), and reported by the device's Syncs
(`SyncRound`). `told` remembers which write of a row a Sync has reported.

**MailCommands** (with **MessageMoveRules**) is what commands do to messages beside the mail
server's own send. A command reads its messages (`Begin`, or `ReadBatch` of a folder that is
to be emptied), decides on the copies, and writes them one by one (`Relocate`, `Remove`,
`Flag`, `Rewrite`, or `Refuse`). `stale` tells which rows have been written since: an
update then fails, a delete, which names no version, does not. The scheduled-send job is
external and modelled from the marks that the rules of `MessageMoveRules` look at: it
`Claim`s a message with a lease, `Relay`s it, `Mark`s it as relayed if it is still the one
it claimed, `File`s it; it may stop anywhere, and its lease may lapse while it works.

**WbxmlCodec** is the encoder and the decoder, byte by byte, with page switches, multi-byte
lengths, strings that end at a NUL, opaque data and the limits. **ItemAdapters** turns an
event, a contact, a task and a message into elements and a device's element into the
update of an item. **ItemCommands** has one item between a device, its owner's webmail,
incoming mail and the scheduling job (external): the server `Show`s the item as bytes, the
device's `Change` or `Add` comes back as bytes and is merged into the row as it was read,
then saved under its version (`Save`); a delete, and a decline of a meeting, first stamps
an attendee's copy so that nobody is told of a cancellation (`Stamp`), then removes it
(`Erase`). `told` is what the attendees have been told last, `mailed` which notices have
gone out, in whose name.

## 3. The runs

| Run | Module | Asks |
|---|---|---|
| SyncRounds | MCSyncCommand | are keys still accepted, Adds not doubled, and is the server's set the device's when answers get lost, chunk writes fail, processes die and the clean-up forgets the device |
| SyncFailOpen | MCSyncCommand | do versions alone keep rounds apart when there is no lease; is a filter adopted only for an empty set |
| SyncLive | MCSyncCommand | is every request answered, does every device get to start over, with a loss, a fault and a store that drops `previous`; is every step one that SyncPromise allows |
| CollectionSync | EasCollectionSync | do cursors never pass what the device lacks, does an estimate of 0 mean it, does the device come to have the folder, and do the rounds fall silent |
| Lease | MCEasCollectionLease | exclusion, own keys, no hanging |
| Device | MCDeviceSyncState | do writes merge; what can get around a wipe, or lose it, when requests, administrator and clean-up race |
| FolderSync | FolderSyncCommand | is every folder told, are keys accepted |
| Ping | MCPingCommand | does one wait at a time, is nothing missed or left behind, is every Ping answered |
| Mail | MCMailCommands | is anything sent twice, or after it was taken back; rewritten; unmarked; reported empty without being it |
| Items | MCItemCommands | are documents read as they were meant, do edits change what they say, do invitations go out when and only when they should |
| DeviceWipe | MCDeviceSyncState | the wipe that is overwritten (section 5) |
| CollectionWindow | EasCollectionSync | the change that is passed (section 5) |

The bounds are constants, named in the module that declares them. They are small, and
chosen so that the interesting cases happen:

- *Requests*: two slots are enough for a request that is still served while its successor
  is (slots are used again and again); the lease has three requests in two copies, so
  that there is a queue in one copy and a rival in the other.
- *SyncCommand*: two items and one ClientId are the least with which an item is dropped
  while another is added, and an Add is replayed. Three generations are a first key, a
  round, and a round after it or a retry of it. In SyncRounds a chunk holds one id and the
  row inlines one, so that two items already need chunk rows; `MaxChunk` leaves room for
  every plan that occurs (`Fits`, a guard of `Invalidate`, says that a save needs no chunk
  row above it: a bound, not something the code checks). Two faults allow for a failure while the leftovers of a
  failure are cleaned up, or for a clean-up of the device that stops halfway; a lost answer and faults do not meet there (`Mixed = FALSE`), they
  do in SyncLive. SyncFailOpen and SyncLive use one item, so that a loss fits
  together with a filter, or with a fault and liveness; in SyncLive every id gets a chunk
  row, in SyncFailOpen none does.
- *EasCollectionSync*: two items, and as many clock ticks as the overlap and the slack
  need to be shorter than a history; window 1, so that it is always full. `MaxLag <=
  Overlap` and `MoveSlack > MaxLag` is what the code's constants assume. With two items and
  `MaxCount = MoveScanLimit = 2` an estimate reads all there is; with less than that it may
  not, which `EstimateCovers` excepts (section 5): it holds with (`MoveScanLimit`, `MaxCount`)
  = (2, 1), (1, 2) and (1, 1) as well.
- *Device*: two policy keys are one before and one after a wipe. Two slots of requests are a
  Provision and the wipe that it crosses. Two attempts are the least at which a lost race
  is repeated.
- *FolderSync*: window 1 and three pages, so that a first round has several pages; two
  lost answers in a row.

- *Mail*: two messages and a batch of one, so that a folder takes several batches, and of
  two batches at most, so that the limit is reached; two commands and two sends of a
  message that is taken back in between; one stop, or one lease that lapses, of the job.
- *Items*: two or three items of each class, chosen for what is treated specially (own and
  foreign meetings, a monthly rule without a day, four e-mail addresses, a kind of number
  the wire does not have, texts with U+0000 and with bytes that are tokens of the codec, an
  id of 130 bytes, whose length takes two), each with the edits of `EditsOf`, and two writes.
  The codec's limits are small, so that one of the edits exceeds the children of an element;
  an edit with three attendees exceeds `MaxAttendees`.
- *Ping*: two Pings are one and the one that supersedes it; the second may read only one of
  the two folders. Three rows, two of them in one folder, with a scan limit of one and a
  batch limit of none, make every page overfull that holds a row at all, so that the batch
  decides, leaves open and falls back. One publish may go unheard.

`CHECK_DEADLOCK FALSE` is set for Lease, where every request acquires once and then is
done, for FolderSync, where the device stops at generation `MaxGen`, for Ping, where
each Ping is sent once and the clock stops, and for Mail and Items, where the number of
commands, sends and writes is bounded and the item may be gone. All other
systems can always go on.

Symmetry is used in the safety runs over sets of model values that the model treats
alike, never in a run with a liveness property.

### Fairness

- *SyncCommand*: the handler of a request that has been sent goes on (`WF(Serve)`); an
  answer reaches the device or is dropped; a client without a connection gives up; a
  device whose key was refused asks again with SyncKey 0. This is what an event loop and
  an HTTP client do. Nothing is assumed of users, other clients and faults.
- *EasCollectionSync*: rounds begin and end, and go on while they run; writers need not
  do anything, and stop because the clock is bounded.
- *EasCollectionLease*: timers fire (the deadline, the time-out of a command, the end of a
  nap) and the handler goes on. Nothing is assumed of Redis: it may never answer.
- *PingCommand*: the heartbeat's timer fires (`WF(Cancel)`) and promises that are settled go
  on (`WF(Proceed)`). Nothing is assumed of Redis or of the database.

## 4. What is proved

TLAPS proves the following for every value of the constants that satisfies the modules'
assumptions: any number of items, requests, copies, keys, faults.

**SyncCommandProofs**. It begins with what `saveHeldSet` leaves in the chunk rows, for any
items and any chunk size: `PlanCovers` (exactly the ids that are saved, if the plan fits),
`PlanDisjoint` (no id in two rows, nor in one while another that was loaded with it still
has it) and `PlanSized`. They rest on two sums: the free places before a chunk are those
before its predecessor and those of its predecessor (`FreeBeforeSums`), so that the windows
of the pending ids that chunks take join without a gap; `LeastNumber` stands for the
induction, as the first chunk whose window ends past an id is the one that has it.

`TypeCorrect` is `Spec => []TypeOK`. The invariants build on each other, each with the ones
before it:

- `RInv`, with one lease or none: a request whose copy of the row is not out of date has
  the row as it is, unless it has blanked the row itself (`RowAsRead`); a round goes on
  from the set that its key names in that copy (`BasedOnStored`); a new key is one
  generation above one that is *read* from a request (`KeyInReach` bounds it: types alone
  are not inductive). So what the final write replaces is what the round was computed
  from: `RoundsNotLost`, `Spec => NoLostRound`.
- With one lease (`Exclusive`), only one request is past it (`OneHolder`), and chunk rows
  are written after it has blanked both keys of the row, the current one and the previous
  round's (`UnkeyedWhileWriting`): `ChunksWrittenUnkeyed`, `Spec => NoLiveChunkWrite`, with
  the clean-up or without.
- `LineInv`: one live request at most is the one the device waits for, it is the last
  in line, and every other was sent before it and given up; what a request was sent with
  is what the device has only for that one.
- `ChunkInv`, with `Exclusive`: where a save is in its course over the chunk rows. A row is
  either still the one that was loaded or already the planned one (`ChunksComplete`,
  `InCourse`), and a plan is disjoint from what it replaces. Hence `ChunksStayDisjoint`
  (`[]ChunksDisjoint`), also after a save that stopped anywhere, and that what a keyed row's
  chunks hold together *is* the set that was saved.
- `HeldInv`, with `Exclusive` and `InOrder`: the row agrees with the device (`RowsAgree`),
  the round under way is going to (`RoundAgrees`), and so is the device once it takes the
  answer that is under way (`ReplyAgrees`). `DeviceAndRowAgree` is `[]HeldAgreement`.
  Without either assumption it is false, see section 5.
- `KInv`: nothing outdates a round but the clean-up and faults, so that a round that ends
  without one has made its key the row's. `KeyStaysAccepted` is `[]KeyAccepted`.
- `DInv`, with `Exclusive` and `InOrder`: the requests under way are served in three groups,
  those without the device's command, those with it, those with SyncKey 0, and the second
  all ask for one thing under one key (`Queue`); a ClientId is spent before an item is
  created for it (`Spent`) and the recorded pairs are true (`Truthful`); and whoever is
  still going to ask for an Add that has been carried out will be told of its item, by the
  round that is at work or by the row's previous round (`Remembered`). So a request that
  comes to its Add and finds no pair is the first (`NotYet`). `AddedOnce` is
  `[]NoDuplicateAdd`. As the property does, it speaks of behaviours without faults: a
  process that dies between the item and the row leaves no record of the ClientId.
- `FilterInv`: a round whose copy of the row is good goes on with the row's filter or adopts
  one for the empty set (`Adopts`), and the first key of a collection names the empty set
  (`FreshEmpty`): that is why FilterRefused may let a request with generation 1 pass without
  a look at the set. `FilterForEmpty` is `FilterAdoptedEmpty`, in any order of the
  requests. It assumes that nobody meddles with the set that a round is saving: one lease,
  or a set that never leaves the row (`FewItems`), as the version of the row protects
  nothing but the row. Without both it is false, see section 5.
- `PInv`, with `Exclusive`, `InOrder` and without the clean-up: the row's two keys follow
  each other or the collection was restarted (`KeysFollow`); a request with SyncKey 0 is
  served after all that have a key, so that nobody asks with a key from before a restart
  (`RestartsLast`, `FreshStart`); a new key that is on its way is the row's and follows the
  device's (`AnswerCurrent`); a round that has written nothing goes on from what the row
  names (`BasedOnRow`). From it every initial state and every step of SyncCommand is one
  that SyncPromise allows: `PromiseKept`, `Spec => Implements`. The clean-up has to be left
  out, as a device whose row it removes is told of Status 3 with nothing promised to it; so
  has a request that is overtaken, see section 5.

- `KeptPromise`, of SyncPromise itself: an accepted key of the device, or one that a round
  under way is going to accept again, names exactly what the device has
  (`KeyDenotesHeld`: `Promise!Spec => []Promise!KeyNamesHeld`), for any items and any number
  of rounds. Nothing is accepted while a round is saved, a device without a key has
  nothing, and a round's new key is never the device's own, since no round goes on from a
  key the device has left behind. With `PromiseKept` it is a theorem about the program:
  `RowKeyDenotesHeld`, `Spec => []Promise!KeyNamesHeld`.

**EasSyncKeyUtilsProofs**. What the pages of a stream are, for any rows with stamps of
their own and any limit. A page is finite and in the order of the stream
(`FirstRows`), and its last row is where the cursor goes (`LastRow`, `PageCursor`); a query
for one row more than the limit that does not find more than the limit has found all there
is (`AllRows`). A cursor without a uid is the end of its millisecond (`EndOf`). `LeastNumber`
and `GreatestNumber` stand for the induction over a page. The next three modules rest on it.

**EasCollectionSyncProofs**. What a round does to the rows it has read, for any number of
items, any window and any limits. A loop is a recursive function on the parts of its rows.
`LoopRuns` shows that there is such a function, and `LoopInduction` is the induction along
it, for any set of work that one `Body` does not leave: both by `LeastNumber`, on the least
part that would be an exception. From it, for each of the five loops, what holds of the
work after any part of its rows (`MoveLateLoop`, `MovePageLoop`, `LateLoop`, `PageLoop`,
`LookupLoop`), and from these, what `Enumerated` and `Reconciled` leave.

`TypeCorrect` is `[]TypeOK`, from `Base`: the rows that were read are rows that items can
have, no two with the same place in the stream, and the held set is exactly what the
device has (`HeldIs`). Three safety invariants build on it. All assume `Timely`: a write
commits within the overlap, within less than the slack, and no edits are merged.

- `ChangesShown`, `Spec /\ [][~RunsAhead]_vars => []NothingSkipped`. `Known` says that a state,
  the saved one and the one a round works on, knows nothing that is newer than the rows
  (no `recent` stamp, no cursor), and that an echo of a row as it is means that the device
  has it as it is (`EchoTrue`). `Unskipped` says that both states show what the device
  lacks (`Covered`), and of each row as it is while the reads go on that it was read behind
  the cursor or is in what is still to be read, unless it was written so late that the
  overlap shows it the next time (`Seen`). `MaxLag <= Overlap` is needed for that last
  case alone: a row that commits after the late read has a stamp that is at most `MaxLag`
  old.
- `MovesAreShown`, `Spec /\ [][~MovesRunAhead]_vars => []NoMoveSkipped`. `MovesUnskipped` says of
  the out-of-folder cursor what `Unskipped` says of the other, and beyond it what becomes
  of an item that the round itself adds and that leaves before the round reads the other
  folders (`AllShown`, `LeftMeanwhile`, `AllRead`), or that a lost round has created
  (`CreatedKnown`). While the device holds nothing that cursor follows the clock, and
  `MaxLag < MoveSlack` keeps it behind all that such an item can be stamped with.
- `EstimateCounts`, `[]EstimateCovers` under both conditions. The dry run works on a copy of
  the device's state, so what it reads (`ReadNow`) shows every item that is due, by
  `Unskipped` and `MovesUnskipped`. Three facts about the loops do the counting. Each
  item given to the device in another state than before costs a command of the window
  (`Pays`), no stream is closed while the window has room (`OpenOrFull`), and then all that
  was read is reported (`DueReported`). So either the whole limit is spent, or every due
  item was paid for.

`RunsAhead` and `MovesRunAhead` are one step each: the rows behind the cursor have filled
the window, and the page after it moves the cursor on all the same. This is the step of
CollectionWindow (section 5). So the theorems say that it is the only way to pass a change:
without it, nothing else that others do between the reads, and no lost answer, can.

**FolderSyncCommandProofs**. `TypeCorrect`; `AcceptedKey` (`[]KeyAccepted`), from `KInv`:
while requests do not cross, the device's key is one of the row's two and one request at
most is served. `NoneMissed` (`[]NothingMissed`) and `FoldersKnown` (`[]KnownFolders`), from
`FInv`: the device's tree is caught up with its key's cursor (`DeviceCaughtUp`: whatever the
cursor has behind it has been told), and so will it be once it takes what the round that
it waits for brings (`RoundBrings`), at each of the steps of that round, in which the row is
written, pages are added up and folders change. Both assume `Calm`: no folder is deleted
and none written between two pages of a first round. Without it `NothingMissed` is false,
see section 5.

**EasCollectionLeaseProofs**. `TypeCorrect`, `LocalLease` (`[]LocalExclusion`), `KeyLease`
(`[]KeyExclusion`) and `KeySurvives` (`OwnKeyStays`). The invariant adds to the types that
the map's entry is the request past taking it (`Owner`), that nothing is on the wire from
before a request's current attempt (`WireClear`: no late answer is mistaken, no late
release hits), and that who has been answered yes has the key (`KeyKept`).

**DeviceSyncStateProofs**. Nothing is assumed of who races. `TypeCorrect`, `GateNeedsAck`
(`[]ProvisionedByAck`) and `NoLostPatch` (`PatchesMerge`) follow from `IInv`, which says that
requests write what they ask for and that a copy with the row's version *is* the row.
`WipeCircumvented` (`[]WipeCrossed`), `KeysAreFresh` (`[]FreshKey`) and `LockoutStays`
(`LockoutKept`) follow from `Explained` beside it: whatever a Provision is about to write,
through any number of lost races, it decided on the row as it is or is among those that the
last wipe crossed (`Decisions`); an old key is in the row only if one of these brought it
back (`YoungKey`); and a row that the clean-up has picked is neither to be wiped nor blocked
unless it became so since (`PickedFree`). What the code says is stronger, that no Provision
at all gets around a wipe (`WipeSticks`), and false: see DeviceWipe.

**PingCommandProofs**. `TypeCorrect`, `OneWaits` (`[]OneActive`) and `NoListenerLeft`
(`[]ListenersLeave`), whatever Redis, the database and the writers do. The invariant adds
`Order`: only a Ping that waits has a look under way (so that an old look cannot answer for
a new one), a listener is there only after the subscribe, and `handle` gives up only on a
Ping that has been answered. `NothingIsMissed` (`[]NothingMissed`) says that a Ping that is
subscribed and has looked knows of every write that no Sync has told of and no publish is
going to bring. Its invariant says that what a Sync's cursor has passed has been told
(`Stamps`), and that a look under way still *sees* each such row (`Looked`): the row is
ahead of the cursors as the look has read them, and in what the steps that are left are
going to read; by the time of the fallback its folder is among those that are found or
scanned. That a batch which is not overfull has shown every row is `AllRows`. It assumes
`NoLag` (`MaxLag = 0`: a write commits as it is stamped). With a lag the property is false,
see section 5.

**MailCommandsProofs**. For any messages, any number of commands at a time, and any batch
size: `TypeCorrect`, `SentAtMostOnce` (`[]SentOnce`), `ContentStays` (`ContentKept`),
`FlagsStay` (`FlagsKept`), `EmptyWasEmptied` (`[]EmptyIsEmpty`); and, if the job does not
claim a message between a delete's check and the delete (`~JobRaces`), `CancelKept`
(`CancelHolds`). The invariant says that what a command has read *is* the row unless the
row has been written since, and never was a deleted one (`Copied`: this is what makes a
check of a copy good for the row); that every message, unless the job overran its lease
on it, is in one of two phases, `Unsent` (if the job is about to relay it, it is leased or
deleted) or `Sent` (leased, marked, or out of Outbox and not a draft), and no command
takes it from the second back to the first (`Tracked`); and that only what is still in a
folder counts as never having left it (`Staying`). One lemma, `CommandWrites`, says which
rows a command may write (`Fits`); each command is then shown to write such a row.

Only model-checked are: liveness (`Answers`, `Restarts`, `Converges`, `Quiesces`,
`NeverHangs`, `AlwaysAnswers`), which rests on fairness and ENABLED; and the items
(`ItemCommands`), whose properties are about what a document comes back as from the codec's
recursive operators, which the prover does not take.

## 5. Where the code does not do what its comments say

Two of these are runs that end in a counterexample, and findings of `PROJECT.json`:

- **DeviceWipe**: the acknowledgement of a policy that is under way while an
  administrator requests a wipe is re-applied on top of the wipe. The row is then to be
  wiped *and* provisioned with its old key, the device goes on syncing and never learns
  of the wipe (`ProvisionCommand.ts:38-41`).
- **CollectionWindow**: a window that fills up on the rows *behind* the cursor does not
  stop the page *after* it from moving the cursor over rows that need no command, until
  the overlap does not reach what was left any more (`EasCollectionSync.ts:157-158`).

The others show when a constant or a property of a run is changed:

- *One key, two sets.* `OneSetPerKey` in SyncRounds: a retried round issues the key of the
  round it replaces (same generation, maybe the same cursor) for another held set. The
  comment of `SyncKey` (`EasSyncKeyUtils.ts:49-51`) promises a different key every time. As
  long as requests are served in the order they were sent, the device accepts neither of
  the two.
- *A request that is overtaken.* `InOrder = FALSE` in SyncRounds, `HeldAgreement`: a device
  sends a request, gives it up, sends it again, and the second one is served first (by
  another copy: copies poll for the lease and nothing keeps their order). The device
  takes the answer; then the first request is served as a retry of it, and if its round
  finds anything more at the same cursor (an item that has moved away, a late commit), the
  row's set changes under the key that the device has. It never learns of the difference
  (`SyncCommand.ts:368-373`, against `:103-104`).
- *Chunk rows without the lease.* `Exclusive = FALSE`, `InlineHeldLimit = 0` and `MaxChunk
  = 1` in SyncFailOpen, `HeldAgreement`: the chunk rows are removed at once, whatever their
  version (`:545`, `:552`). A SyncKey 0 request that a device has given up long ago removes
  what a later round has written between that round's chunks and its row, and only then
  loses the race for the row: a live key with an empty set (against `:528-531`, "no key
  matches the half-written chunks any more"). `FilterAdoptedEmpty` fails as well then: a set
  whose chunk rows were removed looks empty to a late FilterType.
- *The item of a replayed Add that was deleted.* `HeldExactly` in SyncRounds: the Add is
  confirmed again, the device shows the item, the row does not record it and no Delete
  will ever be sent (`SyncCommand.ts:623`, against `:103-104`). `HeldAgreement` allows for
  exactly these items.
- *The clean-up that stops halfway.* `HeldAgreement` without `cleanup = "none"`, in
  SyncRounds: the job removes a collection's chunk rows, then stops, or fails to delete the
  state row; the device, silent until then, synchronises, its key is accepted with an
  empty set, and what it has is sent as new while nothing that it should delete ever is
  (`EasDeviceStateCleanupJob.ts:140-141`, against `SyncCommand.ts:103-104`). There is nothing
  "for the next run to retry" (`:128-130`), as the device is not stale any more. It lasts
  until the device starts over.
- *What a forgotten device leaves behind.* `NothingLeftBehind` in SyncRounds: a round of
  the device that is writing chunk rows while the job runs writes on after the job has
  removed them, and then loses the race for the deleted row (against `:128`, "leaves nothing
  behind"). The rows stay until the device asks for the folder with SyncKey 0, or for ever.
- *Edits that meet.* `Merges = TRUE` in CollectionSync: the device edits an item that
  another client has edited since; the row's stamp is recorded as the device's own write
  and the other edit is never sent (`SyncCommand.ts:609`, against `:117-118`).
- *FolderSync's window.* `KnownFolders` without `~cut`: a folder that the window leaves for
  the next round and that is written again meanwhile is then an Update (or a Delete) of a
  folder the device never got (against `EasSyncKeyUtils.ts:234-235`). It takes more changes
  between two rounds than `mail:eas:foldersync_window_size`.
- *FolderSync's pages.* `Calm = FALSE`: a folder that is deleted between two pages of a
  SyncKey 0 round is passed by the cursor, while its Add is still sent.
- *The clean-up.* `LockoutKept` without `locked`: a wipe requested after the job has
  picked the row is deleted with it (against `EasDeviceStateCleanupJob.ts:102-104`).
- *A late write before a Ping.* `MaxLag = 1` and `folderOf <- AllInFirst` in Ping,
  `NothingMissed`: a write that commits after a later-stamped one that a Sync has
  reported, and is published before the Ping has subscribed, is neither heard nor found,
  since the look reads after the cursor only, without the overlap that a Sync reads
  (against `PingCommand.ts:410`, "every later change is published to the listener, so this
  covers the ones before"). The device learns of it with the next change or Sync.
- *A wipe acknowledged twice.* A second acknowledgement under way while the
  administrator unblocks the device blocks it again. If a new wipe is requested meanwhile,
  it counts as acknowledged: the device is blocked and has not been wiped again.
- *A delete beside a send.* `JobRaces = TRUE` in Mail, `CancelHolds`: Sync's Delete and
  EmptyFolderContents check the lease on the copy they have read and then delete by uid,
  without a version (`SyncCommand.ts:712-713` and `:740`, `ItemOperationsCommand.ts:368` and
  `:374`). A send that claims the message in between relays what is deleted.

Others were met while modelling the data, and follow from single lines:

- *A conversation larger than a batch.* Only the first `batchSize` messages are read, and
  Status 1 is answered although the rest has not moved (`ItemOperationsCommand.ts:427-433`,
  `:478`).
- *An estimate of 0 with more to read.* GetItemEstimate counts the commands of its dry run
  and ignores that it left rows unread (`GetItemEstimateCommand.ts:157-172`): rows that need
  no command, at least `item_estimate_max_count` of the folder or `MOVE_SCAN_LIMIT` of other folders, hide
  those behind them. `EstimateCovers` is stated for dry runs that have read all there is.
- *A decline whose reply fails.* A retry "only re-sends the reply"
  (`MeetingResponseCommand.ts:78`) does not hold for a decline that has removed
  the event: the retry finds no event.
- *A message that was relayed and not filed.* The client is told of an error and sends it
  again; no record of the relay is kept under its ClientId (`ComposeMailCommand.ts:231`).
- *Spurious invitations.* A rule the device can only echo in another form counts as a change:
  a monthly rule without `byMonthDay`, days of the week that are not in the order Sunday to
  Saturday, days of a daily rule, times with milliseconds. The sequence is raised and the
  invitations are mailed again; of several days of a month or months only the first
  survives. `Usual` excepts such events from `ChangeShows`.
- *Contacts.* A number of a kind the wire does not have, a fourth e-mail address, the kind of
  an address and a second number of a kind are lost when the device sends the group they
  belong to; a gap among the Email slots moves the later ones up.
- *Answers overwritten.* A device that sends attendees with the statuses it knew overwrites
  answers that have come in since (`CalendarSyncAdapter.ts:316`).

## 6. What the models leave out

Assumptions named by constants:

- `Exclusive`: all copies share the lease (Redis works), or none does. SyncFailOpen is the
  latter, for sets that are in the row: see section 5 for chunk rows.
- `InOrder`: leases are granted in the order requests were sent, as one process does it.
  SyncFailOpen is without this; for the other runs of SyncCommand see section 5.
- `RestartKeepsPrevious`: whether the database writes `previous: undefined` (MongoDB's and
  SQL's update differ).
- `Calm`, `Merges` and `JobRaces`, see section 5.
- `CleansUp`: the clean-up may come at any moment. In fact it takes a device that was silent
  for `mail:jobs:eas_device_cleanup:device_ttl_days`, or never synchronised, when its row
  was read.
- The scheduling job leaves a row alone whose `cancelNotice` is set: otherwise it could mail
  an invitation in another's name between `Stamp` and `Erase` of an attendee's copy, whose
  sequence the stamp does not level (`Invite` in ItemCommands; the job is external).

Simplifications:

- A request to Sync carries one collection and at most one command; every command is
  answered before the device sends another. The Status 4 refusals before anything
  is read are left out.
- The device keeps an item until a Delete of it is confirmed, uses a ClientId once, and
  takes an answer only to the request it waits for.
- A process that dies releases its lease at once; in fact its key expires after `ttlMs`,
  which EasCollectionLease models.
- SyncCommand's `Enumerate` sees the folder at one moment; EasCollectionSync takes the
  reads apart. Both halves of one read (live and deleted rows) are one step there too, and
  the clock does not tick between the two reads of one stream. Stamps of one item strictly
  increase. The 1000-row limits and FilterType's `include` are left out.
- FolderSync: no two folder writes have the same millisecond, and a write commits as it is
  stamped; `computeChanges` has no overlap, so a late commit is missed by construction.
- DeviceSyncState: no request is as slow as the days after which a device is forgotten; the
  collections' rows that the clean-up also removes are SyncCommand's; `lastSyncAt` is never,
  recent or old. An acknowledgement of a policy that the device says it could not apply is
  like one with another key: it changes nothing.
- PingCommand: one device, one process, one collection class. A Ping begins where its
  permissions are known (`readable`); those that are refused before they wait are left
  out, and so is what the shared client of another Redis URL does. An edit of the device
  and the echo it leaves are one step. The device's first Sync of a folder does not happen
  while a Ping waits. A row is written again only after its last write is published. The
  fallback scans of a look read at one moment, and the look of a Ping that has been
  answered is dropped, as its result is ignored. A listener that the client drops is gone at
  once, and the client subscribes again by itself when it reconnects.
- MailCommands: MIME, the checks of a message's originators, virus scanning and the copy in
  Sent Items are left out; a reply is what it leaves on its original. `Refuse` stands for
  every refusal and every failure. A command reads its messages at one moment, as do the
  rules that apply to them.
- ItemCommands: a number and an address are one character, a date counts half seconds and a
  day has four of them. Of the fields that are copied in both directions in the same way
  an item has one or two; yearly rules, ends of recurrences, time zones, display names and
  labels are left out, and so is the reply that MeetingResponse mails. One command of each
  kind is at work at a time, and a device does not edit what it has not been shown. The
  scheduling job takes rows that were last written for this mailbox.

Not modelled:

- *ItemOperations' Fetch, and Search*: they read: one query, access checks, and a range cut
  out of what the blob store returns. There is no state, and no step, that another could
  come between with an effect on anything but the answer.
- *Settings and ResolveRecipients*: one object is read or written.
- *Audit log, helpers, database bindings*: logging, formatting, declarations. The one
  difference between the databases that matters is `RestartKeepsPrevious`.
- *Several collections in one Sync*, and the refusals before anything is read, see the plan.

## 7. Plan

Done, in this order: SyncCommand with EasCollectionStore; EasCollectionSync; the lease;
the device's row with Provision, wipes and the clean-up; FolderSync; Ping; the promise of
Sync and its refinement; GetItemEstimate; messages; the codec, the adapters and what the
commands do with items; proofs about messages; the clean-up beside a Sync; the proof
that rounds do not overwrite each other; the proofs about the chunk rows, and that the
server's row and the device agree; the proofs that SyncCommand implements SyncPromise, that
an Add is carried out once and a filter adopted only for the empty set, and that FolderSync
and Ping miss nothing; the proofs that the enumeration passes no change, and no item that
has left the folder, and that an estimate counts what is due.

Next:

1. **Several collections in one Sync**, and the refusals before anything is read.
2. **Proofs**: that `EasCollectionSync`'s rounds, with the set that
   they leave, are rounds of `SyncCommand`.
